------------------------ MODULE DesignPipelineProofs ------------------------
(***************************************************************************)
(* Theorems of DesignPipeline, for boards of any number of elements at any *)
(* place and pitch, any assets, panels, shells and limits.  The documents  *)
(* in the store are what LayoutSpec returned for a payload whose lengths   *)
(* convert without rounding (PipelineAssumption); LayoutsProofs shows that *)
(* parsing one of them settles it, and this module that every request      *)
(* leaves what is compiled from it true.                                   *)
(***************************************************************************)
EXTENDS DesignPipeline, ElectronicsProofs, PanelsProofs

-----------------------------------------------------------------------------
(* Documents and boards.                                                   *)

\* The keys of a document are a board, and the view of its elements.
LEMMA BoardOfDocument ==
    ASSUME NEW d, IsDocument(d)
    PROVE  /\ d.keys \in Seq(KeySpec) /\ IsBoard(d.keys)
           /\ d.elements \in Seq(PlacedElementSpec) /\ d.pitch \in Nat \ {0}
           /\ d.keys = KeyView(d.elements, d.pitch)
<1>1. d.keys \in Seq(KeySpec) /\ d.elements \in Seq(PlacedElementSpec) /\ d.pitch \in Nat \ {0}
  BY DEF IsDocument, LayoutFields
<1>2. \A n \in DOMAIN d.keys : d.keys[n] \in KeySpec
  BY <1>1
<1>3. IsBoard(d.keys)
  <2>1. Len(d.keys) \in Nat /\ DOMAIN d.keys = 1 .. Len(d.keys)
    BY <1>1
  <2>2. \A n \in DOMAIN d.keys : d.keys[n].x \in Int /\ d.keys[n].y \in Int /\ d.keys[n].h \in Int
    BY <1>2 DEF KeySpec
  <2> QED
    BY <2>1, <2>2 DEF IsBoard
<1>4. d.keys = WithKeyView(d.elements, d.pitch).keys
  BY DEF IsDocument
<1> QED
  BY <1>1, <1>3, <1>4 DEF WithKeyView

\* A document that parsing leaves as it is.
IsSettled(d) == IsDocument(d) /\ Settled(d.elements)

\* The element with the place that a matrix gives to its id.
PlacedBy(e, matrix) ==
    IF e.id \in DOMAIN matrix.places THEN [e EXCEPT !.at = matrix.places[e.id]] ELSE e

\* An element given its place differs from what it was in nothing else.
LEMMA PlacedByFields ==
    ASSUME NEW e \in PlacedElementSpec, NEW matrix,
           e.id \in DOMAIN matrix.places => matrix.places[e.id] \in Int \X Int
    PROVE  LET f == PlacedBy(e, matrix)
           IN  /\ f \in PlacedElementSpec
               /\ f.id = e.id /\ f.type = e.type /\ f.label = e.label
               /\ f.footprint = e.footprint
               /\ f.x = e.x /\ f.y = e.y /\ f.w = e.w /\ f.h = e.h
               /\ f.rot = e.rot /\ f.stab = e.stab /\ f.asset = e.asset /\ f.look = e.look
               /\ f.at = IF e.id \in DOMAIN matrix.places THEN matrix.places[e.id] ELSE e.at
<1>1. CASE e.id \in DOMAIN matrix.places
  <2>1. PICK f : f = [e EXCEPT !.at = matrix.places[e.id]]
    OBVIOUS
  <2>2. matrix.places[e.id] \in Place
    BY <1>1 DEF Place
  <2>3. f \in PlacedElementSpec /\ f.at = matrix.places[e.id]
    BY <2>1, <2>2 DEF PlacedElementSpec
  <2>4. /\ f.id = e.id /\ f.type = e.type /\ f.label = e.label
        /\ f.footprint = e.footprint
        /\ f.x = e.x /\ f.y = e.y /\ f.w = e.w /\ f.h = e.h
        /\ f.rot = e.rot /\ f.stab = e.stab /\ f.asset = e.asset /\ f.look = e.look
    BY <2>1 DEF PlacedElementSpec
  <2>5. PlacedBy(e, matrix) = f
    BY <1>1, <2>1 DEF PlacedBy
  <2> QED
    BY <1>1, <2>3, <2>4, <2>5
<1>2. CASE e.id \notin DOMAIN matrix.places
  <2>1. PlacedBy(e, matrix) = e
    BY <1>2 DEF PlacedBy
  <2> QED
    BY <1>2, <2>1
<1> QED
  BY <1>1, <1>2

\* The elements are those of d, at the places of the matrix.
SameControls(c, d, matrix) ==
    \A n \in DOMAIN d.elements :
        /\ c.elements[n].id = d.elements[n].id /\ c.elements[n].type = d.elements[n].type
        /\ c.elements[n].label = d.elements[n].label
        /\ c.elements[n].footprint = d.elements[n].footprint
        /\ c.elements[n].x = d.elements[n].x /\ c.elements[n].y = d.elements[n].y
        /\ c.elements[n].w = d.elements[n].w /\ c.elements[n].h = d.elements[n].h
        /\ c.elements[n].stab = d.elements[n].stab
        /\ c.elements[n].asset = d.elements[n].asset /\ c.elements[n].look = d.elements[n].look
        /\ d.elements[n].id \in DOMAIN matrix.places
               => c.elements[n].at = matrix.places[d.elements[n].id]

\* A document with the controls of d, its keys at the places of the matrix.
CompiledFrom(c, d, kind, matrix) ==
    /\ IsSettled(c) /\ c.pitch = d.pitch /\ SameShape(c.elements, d.elements)
    /\ Len(c.elements) = Len(d.elements) /\ DOMAIN c.elements = DOMAIN d.elements
    /\ SameControls(c, d, matrix)
    /\ Len(c.keys) = Len(d.keys) /\ DOMAIN c.keys = DOMAIN d.keys
    /\ \A i \in DOMAIN c.keys :
           /\ c.keys[i].id = d.keys[i].id /\ c.keys[i].label = d.keys[i].label
           /\ c.keys[i].h = d.keys[i].h
           /\ c.keys[i].id \in DOMAIN matrix.places
           /\ c.keys[i].at = matrix.places[c.keys[i].id]
           /\ \E n \in DOMAIN c.elements : c.elements[n].id = c.keys[i].id
    /\ CompileMatrix(kind, c.keys) = matrix

\* compile-pcb, preview and bundle: a settled document with its matrix applied is
\* settled, has its keys at their places, and compiles to that matrix again.
LEMMA MatrixApplied ==
    ASSUME NEW d, IsSettled(d), NEW kind,
           NEW matrix, matrix = CompileMatrix(kind, d.keys),
           NEW c, c = ApplyMatrix(d, matrix)
    PROVE  CompiledFrom(c, d, kind, matrix)
<1> DEFINE fs == d.elements
           es == [n \in DOMAIN fs |-> PlacedBy(fs[n], matrix)]
<1>1. /\ IsDocument(d) /\ Settled(fs) /\ fs \in Seq(PlacedElementSpec)
      /\ d.keys \in Seq(KeySpec) /\ IsBoard(d.keys) /\ d.pitch \in Nat \ {0}
  BY BoardOfDocument DEF IsSettled
<1>2. c = OfElements(es, d.pitch)
  BY DEF ApplyMatrix, PlacedBy
<1>3. \A id \in DOMAIN matrix.places : matrix.places[id] \in Int \X Int
  <2> TAKE id \in DOMAIN matrix.places
  <2>1. PICK rows \in Nat, cols \in Nat : matrix.places[id] \in (0 .. rows - 1) \X (0 .. cols - 1)
    BY <1>1, PlaceOfId
  <2> QED
    BY <2>1
<1> HIDE DEF fs
<1>4. \A n \in DOMAIN fs : fs[n] \in PlacedElementSpec
  BY <1>1
<1>5. /\ es \in Seq(PlacedElementSpec) /\ Len(es) = Len(fs) /\ DOMAIN es = DOMAIN fs
  <2>1. \A n \in DOMAIN fs : PlacedBy(fs[n], matrix) \in PlacedElementSpec
    BY <1>3, <1>4, PlacedByFields
  <2> QED
    BY <1>1, <2>1
<1>6. \A n \in DOMAIN fs : es[n] = PlacedBy(fs[n], matrix)
  OBVIOUS
<1> HIDE DEF es
<1>7. ASSUME NEW n \in DOMAIN fs
      PROVE  /\ es[n].id = fs[n].id /\ es[n].type = fs[n].type /\ es[n].label = fs[n].label
             /\ es[n].footprint = fs[n].footprint
             /\ es[n].x = fs[n].x /\ es[n].y = fs[n].y
             /\ es[n].w = fs[n].w /\ es[n].h = fs[n].h
             /\ es[n].rot = fs[n].rot /\ es[n].stab = fs[n].stab
             /\ es[n].asset = fs[n].asset /\ es[n].look = fs[n].look
             /\ es[n].at = IF fs[n].id \in DOMAIN matrix.places
                           THEN matrix.places[fs[n].id] ELSE fs[n].at
  BY <1>3, <1>4, <1>6, PlacedByFields
<1>8. SameShape(es, fs)
  BY <1>5, <1>7 DEF SameShape
<1>9. /\ IsDocument(c) /\ c.elements = es /\ c.pitch = d.pitch
      /\ KeyLikeOf(es) = KeyLikeOf(fs)
      /\ Len(c.keys) = Len(d.keys) /\ DOMAIN c.keys = DOMAIN d.keys
      /\ \A i \in DOMAIN c.keys : \E n \in KeyLikeOf(es) :
             /\ c.keys[i] = ElementToKey(es[n], d.pitch)
             /\ d.keys[i] = ElementToKey(fs[n], d.pitch)
  <2>1. IsDocument(d) /\ SameShape(es, d.elements) /\ c = OfElements(es, d.pitch)
    BY <1>1, <1>2, <1>8 DEF fs
  <2>2. es \in Seq(PlacedElementSpec)
    BY <1>5
  <2>3. /\ IsDocument(c) /\ c.elements = es /\ c.pitch = d.pitch
        /\ KeyLikeOf(es) = KeyLikeOf(d.elements)
        /\ Len(c.keys) = Len(d.keys) /\ DOMAIN c.keys = DOMAIN d.keys
        /\ \A i \in DOMAIN c.keys : \E n \in KeyLikeOf(es) :
               /\ c.keys[i] = ElementToKey(es[n], d.pitch)
               /\ d.keys[i] = ElementToKey(d.elements[n], d.pitch)
    BY ONLY <2>1, <2>2, ChangedDocument
  <2> QED
    BY <2>3 DEF fs
<1>10. Settled(es)
  <2>1. ASSUME NEW n \in KeyLikeOf(fs)
        PROVE  /\ es[n].footprint # "none" /\ es[n].look = es[n].asset
               /\ \A m \in KeyLikeOf(fs) : es[m].id = es[n].id => Agree(es[m], es[n])
    <3>1. n \in DOMAIN fs /\ \A m \in KeyLikeOf(fs) : m \in DOMAIN fs
      BY DEF KeyLikeOf
    <3>2. es[n].footprint # "none" /\ es[n].look = es[n].asset
      BY <1>1, <1>7, <3>1 DEF Settled
    <3>3. ASSUME NEW m \in KeyLikeOf(fs), es[m].id = es[n].id
          PROVE  Agree(es[m], es[n])
      <4>1. fs[m].id = fs[n].id /\ Agree(fs[m], fs[n])
        BY <1>1, <1>7, <3>1, <3>3 DEF Settled
      <4> QED
        BY <1>7, <3>1, <4>1 DEF Agree
    <3> QED
      BY <3>2, <3>3
  <2> QED
    BY <1>9, <2>1 DEF Settled
<1>11. ASSUME NEW i \in DOMAIN c.keys
       PROVE  /\ c.keys[i].id = d.keys[i].id /\ c.keys[i].label = d.keys[i].label
              /\ c.keys[i].x = d.keys[i].x /\ c.keys[i].y = d.keys[i].y
              /\ c.keys[i].h = d.keys[i].h
              /\ c.keys[i].id \in DOMAIN matrix.places
              /\ c.keys[i].at = matrix.places[c.keys[i].id]
              /\ \E n \in DOMAIN c.elements : c.elements[n].id = c.keys[i].id
  <2>1. PICK n \in KeyLikeOf(es) : /\ c.keys[i] = ElementToKey(es[n], d.pitch)
                                   /\ d.keys[i] = ElementToKey(fs[n], d.pitch)
    BY <1>9
  <2>2. n \in DOMAIN fs
    BY <1>9 DEF KeyLikeOf
  <2>3. /\ c.keys[i].id = es[n].id /\ c.keys[i].at = es[n].at /\ c.keys[i].label = es[n].label
        /\ c.keys[i].x = ToUnits(es[n].x, d.pitch) /\ c.keys[i].y = ToUnits(es[n].y, d.pitch)
        /\ c.keys[i].h = ToUnits(es[n].h, d.pitch)
    BY <2>1 DEF ElementToKey
  <2>4. /\ d.keys[i].id = fs[n].id /\ d.keys[i].label = fs[n].label
        /\ d.keys[i].x = ToUnits(fs[n].x, d.pitch) /\ d.keys[i].y = ToUnits(fs[n].y, d.pitch)
        /\ d.keys[i].h = ToUnits(fs[n].h, d.pitch)
    BY <2>1 DEF ElementToKey
  <2>5. d.keys[i].id \in DOMAIN matrix.places
    BY <1>9, IdsOfMatrix
  <2>6. n \in DOMAIN c.elements /\ c.elements[n].id = c.keys[i].id
    BY <1>5, <1>9, <2>2, <2>3
  <2> QED
    BY <1>7, <2>2, <2>3, <2>4, <2>5, <2>6
<1>12. CompileMatrix(kind, c.keys) = matrix
  <2>1. c.keys \in Seq(KeySpec)
    BY <1>9, BoardOfDocument
  <2>2. SameBoard(c.keys, d.keys)
    BY <1>9, <1>11 DEF SameBoard
  <2> QED
    BY <1>1, <2>1, <2>2, MatrixOfSameBoard
<1>13. SameControls(c, d, matrix)
  BY <1>7, <1>9 DEF SameControls, fs
<1> QED
  BY <1>5, <1>8, <1>9, <1>10, <1>11, <1>12, <1>13 DEF CompiledFrom, IsSettled, fs

-----------------------------------------------------------------------------
(* Parsing.                                                                *)

\* What a request loads: settled, with the elements and the number of keys that
\* were saved, and what parsing it once more gives.
LEMMA DocumentLoaded ==
    ASSUME NEW d, IsDocument(d), NEW again, again = LayoutSpec(d)
    PROVE  /\ IsSettled(again) /\ LayoutSpec(again) = again /\ again.pitch = d.pitch
           /\ Len(again.elements) = Len(d.elements)
           /\ DOMAIN again.elements = DOMAIN d.elements
           /\ \A n \in DOMAIN d.elements : /\ again.elements[n].id = d.elements[n].id
                                           /\ again.elements[n].type = d.elements[n].type
           /\ Len(again.keys) = Len(d.keys)
<1>1. /\ IsDocument(again) /\ again.pitch = d.pitch /\ Settled(again.elements)
      /\ Len(again.elements) = Len(d.elements)
      /\ DOMAIN again.elements = DOMAIN d.elements
      /\ \A n \in DOMAIN d.elements : /\ again.elements[n].id = d.elements[n].id
                                      /\ again.elements[n].type = d.elements[n].type
  BY ParsedSettles
<1>2. LayoutSpec(again) = again
  BY <1>1, SettledIsFixed
<1>3. KeyLikeOf(again.elements) = KeyLikeOf(d.elements)
  BY <1>1 DEF KeyLikeOf
<1>4. /\ d.keys = KeyView(d.elements, d.pitch) /\ again.keys = KeyView(again.elements, d.pitch)
      /\ d.pitch \in Nat \ {0}
      /\ d.elements \in Seq(PlacedElementSpec) /\ again.elements \in Seq(PlacedElementSpec)
  BY <1>1, BoardOfDocument
<1>5. Len(again.keys) = Len(d.keys)
  BY <1>3, <1>4, KeyViewLength
<1> QED
  BY <1>1, <1>2, <1>5 DEF IsSettled

\* A document has no more keys than elements.
LEMMA FewerKeys ==
    ASSUME NEW d, IsDocument(d)
    PROVE  Len(d.keys) \in Nat /\ Len(d.elements) \in Nat /\ Len(d.keys) <= Len(d.elements)
<1>1. /\ d.keys = KeyView(d.elements, d.pitch) /\ d.pitch \in Nat \ {0}
      /\ d.elements \in Seq(PlacedElementSpec) /\ d.keys \in Seq(KeySpec)
  BY BoardOfDocument
<1> QED
  BY <1>1, KeyViewPositions

\* A layout with the shape and the matrix of another takes the same pins.
LEMMA ElectronicsOfSameShape ==
    ASSUME NEW c, NEW d, SameShape(c.elements, d.elements),
           DOMAIN c.elements = DOMAIN d.elements, Len(c.keys) = Len(d.keys),
           NEW kind, CompileMatrix(kind, c.keys) = CompileMatrix(kind, d.keys), NEW controller
    PROVE  CompileElectronics(kind, controller, c) = CompileElectronics(kind, controller, d)
<1>1. \A n \in DOMAIN d.elements : c.elements[n].type = d.elements[n].type
  BY DEF SameShape
<1>2. \A type : OfType(c, type) = OfType(d, type)
  BY <1>1 DEF OfType
<1>3. DirectUsage(c) = DirectUsage(d)
  BY <1>2 DEF DirectUsage
<1>4. DirectPinsOf(c) = DirectPinsOf(d)
  BY <1>1 DEF DirectPinsOf
<1>5. DirectPinsUsed(c) = DirectPinsUsed(d)
  BY <1>4 DEF DirectPinsUsed
<1> QED
  BY <1>3, <1>5 DEF CompileElectronics, ElectronicsOn, PinsUsed

\* The element with the appearance that apply_keycap gives it.
Wears(e, ids) == e.type \in KeyLike /\ (ids = {} \/ e.id \in ids)
Dressed(e, a, ids) == IF Wears(e, ids) THEN [e EXCEPT !.asset = a, !.look = a] ELSE e

\* An element given its appearance differs from what it was in nothing else.
LEMMA DressedFields ==
    ASSUME NEW e \in PlacedElementSpec, NEW a \in STRING, NEW ids
    PROVE  LET f == Dressed(e, a, ids)
           IN  /\ f \in PlacedElementSpec
               /\ f.id = e.id /\ f.type = e.type /\ f.label = e.label
               /\ f.footprint = e.footprint
               /\ f.x = e.x /\ f.y = e.y /\ f.w = e.w /\ f.h = e.h
               /\ f.rot = e.rot /\ f.stab = e.stab /\ f.at = e.at
               /\ Wears(e, ids) => f.asset = a /\ f.look = a
               /\ ~ Wears(e, ids) => f.asset = e.asset /\ f.look = e.look
<1>1. CASE Wears(e, ids)
  <2>1. PICK f : f = [e EXCEPT !.asset = a, !.look = a]
    OBVIOUS
  <2>2. /\ f \in PlacedElementSpec /\ f.asset = a /\ f.look = a
        /\ f.id = e.id /\ f.type = e.type /\ f.label = e.label
        /\ f.footprint = e.footprint
        /\ f.x = e.x /\ f.y = e.y /\ f.w = e.w /\ f.h = e.h
        /\ f.rot = e.rot /\ f.stab = e.stab /\ f.at = e.at
    BY <2>1 DEF PlacedElementSpec
  <2>3. Dressed(e, a, ids) = f
    BY <1>1, <2>1 DEF Dressed
  <2> QED
    BY <1>1, <2>2, <2>3
<1>2. CASE ~ Wears(e, ids)
  <2>1. Dressed(e, a, ids) = e
    BY <1>2 DEF Dressed
  <2> QED
    BY <1>2, <2>1
<1> QED
  BY <1>1, <1>2

\* apply_keycap gives one asset to all elements of an id, and the document stays
\* settled.
LEMMA KeycapApplied ==
    ASSUME NEW d, IsSettled(d), NEW a \in STRING, NEW ids, NEW es,
           es = [n \in DOMAIN d.elements |-> Dressed(d.elements[n], a, ids)],
           NEW c, c = OfElements(es, d.pitch)
    PROVE  /\ IsSettled(c)
           /\ Len(c.elements) = Len(d.elements) /\ Len(c.keys) = Len(d.keys)
<1> DEFINE fs == d.elements
<1>1. /\ IsDocument(d) /\ Settled(fs) /\ fs \in Seq(PlacedElementSpec)
  BY BoardOfDocument DEF IsSettled
<1>2. DOMAIN es = DOMAIN fs /\ \A n \in DOMAIN fs : fs[n] \in PlacedElementSpec
  BY <1>1
<1>3. ASSUME NEW n \in DOMAIN fs
      PROVE  /\ es[n] \in PlacedElementSpec
             /\ es[n].id = fs[n].id /\ es[n].type = fs[n].type /\ es[n].label = fs[n].label
             /\ es[n].footprint = fs[n].footprint
             /\ es[n].x = fs[n].x /\ es[n].y = fs[n].y
             /\ es[n].w = fs[n].w /\ es[n].h = fs[n].h
             /\ es[n].rot = fs[n].rot /\ es[n].stab = fs[n].stab /\ es[n].at = fs[n].at
             /\ Wears(fs[n], ids) => es[n].asset = a /\ es[n].look = a
             /\ ~ Wears(fs[n], ids) => es[n].asset = fs[n].asset /\ es[n].look = fs[n].look
  <2>1. es[n] = Dressed(fs[n], a, ids)
    OBVIOUS
  <2>2. fs[n] \in PlacedElementSpec
    BY <1>2
  <2> HIDE DEF fs
  <2> QED
    BY ONLY <2>1, <2>2, a \in STRING, DressedFields
<1>4. es \in Seq(PlacedElementSpec) /\ Len(es) = Len(fs)
  <2>1. es = [n \in DOMAIN fs |-> es[n]]
    OBVIOUS
  <2>2. \A n \in DOMAIN fs : es[n] \in PlacedElementSpec
    BY <1>3
  <2>3. fs \in Seq(PlacedElementSpec)
    BY <1>1
  <2> HIDE DEF fs
  <2> QED
    BY ONLY <2>1, <2>2, <2>3
<1> HIDE DEF fs
<1>5. SameShape(es, fs)
  <2>1. \A n \in DOMAIN es : /\ es[n].id = fs[n].id /\ es[n].type = fs[n].type
                             /\ es[n].x = fs[n].x /\ es[n].y = fs[n].y
                             /\ es[n].w = fs[n].w /\ es[n].h = fs[n].h
    BY ONLY <1>2, <1>3
  <2> QED
    BY ONLY <1>4, <2>1 DEF SameShape
<1>6. /\ IsDocument(c) /\ c.elements = es /\ KeyLikeOf(es) = KeyLikeOf(fs)
      /\ Len(c.keys) = Len(d.keys)
  <2>1. IsDocument(d) /\ SameShape(es, d.elements) /\ c = OfElements(es, d.pitch)
    BY <1>1, <1>5 DEF fs
  <2>2. es \in Seq(PlacedElementSpec)
    BY <1>4
  <2>3. /\ IsDocument(c) /\ c.elements = es /\ KeyLikeOf(es) = KeyLikeOf(d.elements)
        /\ Len(c.keys) = Len(d.keys)
    BY ONLY <2>1, <2>2, ChangedDocument
  <2> QED
    BY <2>3 DEF fs
<1>7. ASSUME NEW n \in KeyLikeOf(fs)
      PROVE  /\ es[n].footprint # "none" /\ es[n].look = es[n].asset
             /\ \A m \in KeyLikeOf(fs) : es[m].id = es[n].id => Agree(es[m], es[n])
  <2>1. n \in DOMAIN fs /\ \A m \in KeyLikeOf(fs) : m \in DOMAIN fs /\ fs[m].type \in KeyLike
    BY DEF KeyLikeOf
  <2>2. es[n].footprint # "none" /\ es[n].look = es[n].asset
    BY <1>1, <1>3, <2>1 DEF Settled
  <2>3. ASSUME NEW m \in KeyLikeOf(fs), es[m].id = es[n].id
        PROVE  Agree(es[m], es[n])
    <3>1. fs[m].id = fs[n].id /\ Agree(fs[m], fs[n])
      BY <1>1, <1>3, <2>1, <2>3 DEF Settled
    <3>2. Wears(fs[m], ids) <=> Wears(fs[n], ids)
      BY <2>1, <3>1 DEF Wears
    <3> QED
      BY <1>3, <2>1, <3>1, <3>2 DEF Agree
  <2> QED
    BY <2>2, <2>3
<1>8. Settled(es)
  BY <1>6, <1>7 DEF Settled
<1> QED
  BY <1>4, <1>6, <1>8 DEF IsSettled, fs

-----------------------------------------------------------------------------
(* Verdicts.                                                               *)

\* validate_project says one of three things.
LEMMA VerdictIsOneOfThree ==
    ASSUME NEW d
    PROVE  ValidateProject(d) \in Verdicts
BY DEF ValidateProject, Verdict, Verdicts

\* A design as the requests build it.
DesignOf(kind, layout, chosen, attached) ==
    [family |-> kind, controller |-> Controller, layout |-> layout, switch |-> chosen,
     assets |-> attached]

\* Where assets are attached, the check of them asks for accepted ones.
LEMMA AssetCheck ==
    ASSUME NEW d, DOMAIN d.assets # {}
    PROVE  CheckAssignedAssetAcceptance(d) =
               Failing(\E n \in DOMAIN d.layout.elements :
                           /\ AssignedAsset(d.layout.elements[n]) # NoAsset
                           /\ AssignedAsset(d.layout.elements[n]) \notin AcceptedAssets(d))
<1>1. \A asset : (asset \in DOMAIN d.assets => d.assets[asset] \notin Canonical)
                     <=> asset \notin AcceptedAssets(d)
  BY DEF AcceptedAssets
<1>2. CheckAssignedAssetAcceptance(d) =
          Failing(\E n \in DOMAIN d.layout.elements :
                      /\ AssignedAsset(d.layout.elements[n]) # NoAsset
                      /\ AssignedAsset(d.layout.elements[n]) \in DOMAIN d.assets
                             => d.assets[AssignedAsset(d.layout.elements[n])] \notin Canonical)
  BY DEF CheckAssignedAssetAcceptance, SomeElement
<1> QED
  BY <1>1, <1>2

\* Assets that are attached without being accepted, or rejected without having been
\* accepted, change no verdict that was reached with assets attached.
LEMMA VerdictOfAssets ==
    ASSUME NEW kind, NEW layout, NEW chosen, NEW A, NEW B,
           NEW c, c = DesignOf(kind, layout, chosen, A),
           NEW d, d = DesignOf(kind, layout, chosen, B),
           DOMAIN A # {}, DOMAIN B # {}, AcceptedAssets(c) = AcceptedAssets(d)
    PROVE  ValidateProject(c) = ValidateProject(d)
<1>1. /\ c.family = d.family /\ c.controller = d.controller /\ c.layout = d.layout
      /\ c.switch = d.switch /\ c.assets = A /\ d.assets = B
  BY DEF DesignOf
<1>2. CheckAssignedAssetAcceptance(c) = CheckAssignedAssetAcceptance(d)
  BY <1>1, AssetCheck
<1>3. CheckMatrixFeasibility(c) = CheckMatrixFeasibility(d)
  <2>1. PinsRemaining(c) = PinsRemaining(d)
    BY <1>1 DEF PinsRemaining
  <2> QED
    BY <1>1, <2>1 DEF CheckMatrixFeasibility, SomeElement
<1>4. /\ CheckLayoutNonempty(c) = CheckLayoutNonempty(d)
      /\ CheckFamilyRequiredModules(c) = CheckFamilyRequiredModules(d)
      /\ CheckFootprintSourceCoverage(c) = CheckFootprintSourceCoverage(d)
      /\ CheckSwitchSelected(c) = CheckSwitchSelected(d)
  BY <1>1 DEF CheckLayoutNonempty, CheckFamilyRequiredModules, CheckFootprintSourceCoverage,
              CheckSwitchSelected
<1>5. /\ CheckElementOverlap(c) = CheckElementOverlap(d)
      /\ CheckControlClearance(c) = CheckControlClearance(d)
      /\ CheckStabilizers(c) = CheckStabilizers(d)
      /\ CheckControlLabels(c) = CheckControlLabels(d)
  BY <1>1 DEF CheckElementOverlap, CheckControlClearance, CheckStabilizers, CheckControlLabels,
              SomePair, SomeElement
<1> QED
  BY <1>2, <1>3, <1>4, <1>5 DEF ValidateProject

\* ... and nothing else of a bundle.
LEMMA BundleOfAssets ==
    ASSUME NEW kind, NEW layout, NEW chosen, NEW A, NEW B,
           NEW c, c = DesignOf(kind, layout, chosen, A),
           NEW d, d = DesignOf(kind, layout, chosen, B),
           AcceptedAssets(c) = AcceptedAssets(d)
    PROVE  /\ \A part \in {"files", "bom", "firmware"} : ExportBundle(c)[part] = ExportBundle(d)[part]
           /\ DOMAIN A # {} /\ DOMAIN B # {} => ExportBundle(c) = ExportBundle(d)
<1> DEFINE applied == ApplyMatrix(layout, CompileMatrix(kind, layout.keys))
<1>1. /\ Compiled(c) = DesignOf(kind, applied, chosen, A)
      /\ Compiled(d) = DesignOf(kind, applied, chosen, B)
  BY DEF Compiled, DesignOf
<1> HIDE DEF applied
<1>2. /\ c.family = kind /\ d.family = kind /\ c.controller = d.controller
      /\ c.layout = layout /\ d.layout = layout /\ c.assets = A /\ d.assets = B
      /\ Compiled(c).layout = applied /\ Compiled(d).layout = applied
      /\ Compiled(c).assets = A /\ Compiled(d).assets = B
      /\ Compiled(c).family = kind /\ Compiled(d).family = kind
      /\ Compiled(c).controller = Compiled(d).controller
  BY <1>1 DEF DesignOf
<1>3. AcceptedAssets(Compiled(c)) = AcceptedAssets(Compiled(d))
  BY <1>2 DEF AcceptedAssets
<1>4. ReviewBom(Compiled(c)) = ReviewBom(Compiled(d))
  BY <1>2, <1>3 DEF ReviewBom, BomOn
<1>5. FirmwareOf(c) = FirmwareOf(d)
  BY <1>2 DEF FirmwareOf
<1>6. \A part \in {"files", "bom", "firmware"} : ExportBundle(c)[part] = ExportBundle(d)[part]
  BY <1>2, <1>4, <1>5 DEF ExportBundle, BundleOf
<1>7. ASSUME DOMAIN A # {}, DOMAIN B # {}
      PROVE  ExportBundle(c) = ExportBundle(d)
  <2>1. ValidateProject(c) = ValidateProject(d)
    BY <1>7, VerdictOfAssets
  <2> QED
    BY <1>2, <1>4, <1>5, <2>1 DEF ExportBundle, BundleOf
<1> QED
  BY <1>6, <1>7

-----------------------------------------------------------------------------
(* The inductive invariant: what is saved is a document within the limits, *)
(* and what is recorded as compiled from it is what compiling it now gives. *)

\* None or one.
Single(s) == s = <<>> \/ s = <<s[1]>>

DesignTyped ==
    /\ family \in Families
    /\ IsDocument(saved) /\ WithinLimits(saved)
    /\ switch \in BOOLEAN
    /\ assets \in [DOMAIN assets -> AcceptanceStates] /\ DOMAIN assets \subseteq AssetIds[family]
    /\ report \in [verdict : Verdicts \cup {"none"}, checked : BOOLEAN]
    /\ Single(electronics) /\ Single(mechanical) /\ Single(bundle)

ElectronicsKept ==
    electronics # <<>> =>
        ElectronicsTrue(CompileElectronics(family, Controller, Loaded), Loaded.keys)

MechanicalKept ==
    mechanical # <<>> => mechanical[1].summary = MechanicalSummary(mechanical[1].config)

ReportKept == report.checked => DOMAIN assets # {} /\ report.verdict = ValidateProject(Design)

\* A bundle is exported on a verdict, and never on "fail".
BundleKept ==
    bundle # <<>> =>
        /\ BundleTrue(ExportBundle(Design))
        /\ bundle[1].content.verdict # "fail"
        /\ bundle[1].checked => DOMAIN assets # {}

DesignInv == DesignTyped /\ ElectronicsKept /\ MechanicalKept /\ ReportKept /\ BundleKept

-----------------------------------------------------------------------------
LEMMA SingleLength ==
    ASSUME NEW s, Single(s)
    PROVE  Len(s) <= 1
<1>1. s = <<>> \/ \E x : s = <<x>>
  BY DEF Single
<1>2. CASE s = <<>>
  BY <1>2
<1>3. CASE \E x : s = <<x>>
  <2>1. PICK x : s = <<x>>
    BY <1>3
  <2>2. Len(s) = 1
    BY ONLY <2>1
  <2> QED
    BY <2>2
<1> QED
  BY <1>1, <1>2, <1>3

LEMMA DesignIsOf ==
    /\ Design = DesignOf(family, Loaded, switch, assets)
    /\ Design' = DesignOf(family', Loaded', switch', assets')
BY DEF Design, DesignOf

\* A document that a request writes as it was loaded is loaded again as it is.
LEMMA WrittenAsLoaded ==
    ASSUME DesignTyped, saved' = Loaded
    PROVE  /\ IsDocument(saved') /\ WithinLimits(saved')
           /\ Loaded' = Loaded
<1>1. PICK loaded : loaded = Loaded
  OBVIOUS
<1>2. /\ IsSettled(loaded) /\ LayoutSpec(loaded) = loaded
      /\ Len(loaded.elements) = Len(saved.elements) /\ Len(loaded.keys) = Len(saved.keys)
  BY <1>1, DocumentLoaded DEF DesignTyped, Loaded
<1>3. Loaded' = LayoutSpec(saved')
  BY DEF Loaded
<1> QED
  BY <1>1, <1>2, <1>3 DEF DesignTyped, IsSettled, WithinLimits

\* A new document, and everything that was compiled from the old one dropped.
LEMMA Invalidated ==
    ASSUME DesignTyped, InvalidateDerivedState, family' = family,
           IsDocument(saved'), WithinLimits(saved'), switch' \in BOOLEAN,
           assets' \in [DOMAIN assets' -> AcceptanceStates], DOMAIN assets' \subseteq AssetIds[family]
    PROVE  DesignInv'
<1>1. electronics' = <<>> /\ mechanical' = <<>> /\ bundle' = <<>> /\ report' = NoReport
  BY DEF InvalidateDerivedState
<1>2. report' \in [verdict : Verdicts \cup {"none"}, checked : BOOLEAN] /\ ~ report'.checked
  BY <1>1 DEF NoReport
<1>3. DesignTyped'
  BY <1>1, <1>2 DEF DesignTyped, Single
<1> QED
  BY <1>1, <1>2, <1>3 DEF DesignInv, ElectronicsKept, MechanicalKept, ReportKept, BundleKept

\* The same document and as many accepted assets: what was compiled stays true.
LEMMA Carried ==
    ASSUME DesignInv, saved' = Loaded, family' = family, switch' = switch,
           DOMAIN assets \subseteq DOMAIN assets', AcceptedAssets(Design') = AcceptedAssets(Design)
    PROVE  /\ electronics' = electronics => ElectronicsKept'
           /\ mechanical' = mechanical => MechanicalKept'
           /\ report' = report => ReportKept'
           /\ bundle' = bundle /\ report'.verdict # "none" => BundleKept'
<1>1. Loaded' = Loaded
  BY WrittenAsLoaded DEF DesignInv
<1>2. electronics' = electronics => ElectronicsKept'
  BY <1>1 DEF DesignInv, ElectronicsKept, ElectronicsTrue
<1>3. mechanical' = mechanical => MechanicalKept'
  BY <1>1 DEF DesignInv, MechanicalKept, MechanicalSummary
<1>4. PICK c, d, layout, A, B :
          /\ layout = Loaded /\ A = assets /\ B = assets'
          /\ c = DesignOf(family, layout, switch, A) /\ c = Design
          /\ d = DesignOf(family, layout, switch, B) /\ d = Design'
  BY <1>1, DesignIsOf
<1>5. /\ c = DesignOf(family, layout, switch, A) /\ d = DesignOf(family, layout, switch, B)
      /\ AcceptedAssets(c) = AcceptedAssets(d)
  BY <1>4
<1>6. DOMAIN A # {} => DOMAIN B # {}
  BY <1>4
<1>7. DOMAIN A # {} => ValidateProject(c) = ValidateProject(d)
  BY ONLY <1>5, <1>6, VerdictOfAssets
<1>8. report' = report => ReportKept'
  BY <1>4, <1>6, <1>7 DEF DesignInv, ReportKept
<1>9. /\ \A part \in {"files", "bom", "firmware"} : ExportBundle(c)[part] = ExportBundle(d)[part]
      /\ DOMAIN A # {} => ExportBundle(c) = ExportBundle(d)
  BY ONLY <1>5, <1>6, BundleOfAssets
<1>10. ASSUME bundle' = bundle, report'.verdict # "none", bundle # <<>>
       PROVE  /\ BundleTrue(ExportBundle(Design))'
              /\ bundle'[1].content.verdict # "fail"
              /\ bundle'[1].checked => DOMAIN assets' # {}
  <2>1. /\ BundleTrue(ExportBundle(c)) /\ bundle[1].content.verdict # "fail"
        /\ bundle[1].checked => DOMAIN assets # {}
    BY <1>4, <1>10 DEF DesignInv, BundleKept
  <2>2. \A part \in {"files", "bom", "firmware"} : bundle'[1].content[part] = ExportBundle(d)[part]
    <3>1. \A part \in {"files", "bom", "firmware"} : bundle[1].content[part] = ExportBundle(c)[part]
      BY <2>1 DEF BundleTrue
    <3> QED
      BY ONLY <1>9, <1>10, <3>1
  <2>3. bundle'[1].checked => bundle'[1].content = ExportBundle(d)
    BY <1>4, <1>9, <1>10, <2>1 DEF BundleTrue
  <2> QED
    BY <1>4, <1>6, <1>10, <2>1, <2>2, <2>3 DEF BundleTrue
<1>11. bundle' = bundle /\ report'.verdict # "none" => BundleKept'
  BY <1>10 DEF BundleKept
<1> QED
  BY <1>2, <1>3, <1>8, <1>11

-----------------------------------------------------------------------------
LEMMA EmptyIsDocument == IsDocument(EmptyLayout) /\ WithinLimits(EmptyLayout)
<1>1. PICK pitch \in Nat \ {0} : pitch = UnitPitch
  BY DEF UnitPitch
<1>2. PICK none \in Seq(PlacedElementSpec) : none = <<>>
  <2>1. <<>> \in Seq(PlacedElementSpec)
    OBVIOUS
  <2> QED
    BY <2>1
<1>3. KeyView(none, pitch) \in Seq(KeySpec) /\ Len(KeyView(none, pitch)) <= Len(none)
  BY KeyViewPositions
<1>4. KeyView(none, pitch) = <<>>
  BY <1>2, <1>3
<1>5. ExactElements(none, pitch)
  BY <1>2 DEF ExactElements
<1>6. EmptyLayout = WithKeyView(none, pitch)
  BY <1>1, <1>2, <1>4 DEF EmptyLayout, WithKeyView
<1>7. IsDocument(EmptyLayout)
  BY <1>5, <1>6, DocumentOf
<1>8. WithinLimits(EmptyLayout)
  BY LimitsAssumption DEF WithinLimits, EmptyLayout
<1> QED
  BY <1>7, <1>8

\* What a payload is parsed into.
LEMMA PayloadIsDocument ==
    ASSUME NEW f \in Families, NEW p \in Payloads[f], Accepted(p)
    PROVE  IsDocument(LayoutSpec(p)) /\ WithinLimits(LayoutSpec(p))
<1>1. p \in LayoutFields /\ ExactPayload(p)
  BY PipelineAssumption DEF Families
<1> QED
  BY <1>1, PayloadParsed DEF Accepted

LEMMA DesignInit == Init => DesignInv
<1> SUFFICES ASSUME Init
             PROVE  DesignInv
  OBVIOUS
<1>1. IsDocument(saved) /\ WithinLimits(saved)
  BY EmptyIsDocument, PayloadIsDocument DEF Init
<1>2. assets \in [DOMAIN assets -> AcceptanceStates] /\ DOMAIN assets \subseteq AssetIds[family]
  BY DEF Init
<1>3. /\ electronics = <<>> /\ mechanical = <<>> /\ bundle = <<>> /\ ~ report.checked
      /\ report \in [verdict : Verdicts \cup {"none"}, checked : BOOLEAN]
  BY DEF Init, NoReport
<1> QED
  BY <1>1, <1>2, <1>3
  DEF Init, DesignInv, DesignTyped, Single, ElectronicsKept, MechanicalKept, ReportKept, BundleKept

LEMMA PatchLayoutKeeps ==
    ASSUME DesignInv, NEW p \in Payloads[family], PatchLayout(p)
    PROVE  DesignInv'
<1>1. IsDocument(saved') /\ WithinLimits(saved')
  BY PayloadIsDocument DEF PatchLayout, DesignInv, DesignTyped
<1> QED
  BY <1>1, Invalidated DEF PatchLayout, DesignInv, DesignTyped

LEMMA PatchSwitchKeeps ==
    ASSUME DesignInv, PatchSwitch
    PROVE  DesignInv'
<1>1. IsDocument(saved') /\ WithinLimits(saved')
  BY WrittenAsLoaded DEF PatchSwitch, DesignInv
<1> QED
  BY <1>1, Invalidated DEF PatchSwitch, DesignInv, DesignTyped

\* compile-pcb saves the document with its matrix applied; what it records of the
\* electronics is what compiling that document gives.
LEMMA CompilePcbKeeps ==
    ASSUME DesignInv, CompilePcb
    PROVE  DesignInv'
<1>1. PICK d : d = Loaded
  OBVIOUS
<1>2. /\ IsSettled(d) /\ Len(d.elements) = Len(saved.elements) /\ Len(d.keys) = Len(saved.keys)
  BY <1>1, DocumentLoaded DEF DesignInv, DesignTyped, Loaded
<1>3. PICK kind, controller, matrix, c, now :
          /\ kind = family /\ controller = Controller
          /\ matrix = CompileMatrix(kind, d.keys) /\ c = ApplyMatrix(d, matrix)
          /\ now = CompileElectronics(kind, controller, d)
  OBVIOUS
<1>4. saved' = c /\ electronics' = <<now>>
  BY <1>1, <1>3 DEF CompilePcb, Compiled, Design
<1>5. /\ IsSettled(c) /\ SameShape(c.elements, d.elements)
      /\ DOMAIN c.elements = DOMAIN d.elements
      /\ Len(c.keys) = Len(d.keys)
      /\ \A i \in DOMAIN c.keys : c.keys[i].at = matrix.places[c.keys[i].id]
      /\ CompileMatrix(kind, c.keys) = matrix
  <2>1. IsSettled(d) /\ matrix = CompileMatrix(kind, d.keys) /\ c = ApplyMatrix(d, matrix)
    BY <1>2, <1>3
  <2>2. CompiledFrom(c, d, kind, matrix)
    BY ONLY <2>1, MatrixApplied
  <2> QED
    BY <2>2 DEF CompiledFrom
<1>6. LayoutSpec(c) = c
  BY <1>5, SettledIsFixed DEF IsSettled
<1>7. Loaded' = c
  BY <1>4, <1>6 DEF Loaded
<1>8. CompileElectronics(kind, controller, c) = now
  <2>1. CompileMatrix(kind, c.keys) = CompileMatrix(kind, d.keys)
    BY <1>3, <1>5
  <2>2. CompileElectronics(kind, controller, c) = CompileElectronics(kind, controller, d)
    BY ONLY <1>5, <2>1, ElectronicsOfSameShape
  <2> QED
    BY <1>3, <2>2
<1>9. now.matrix = matrix
  BY <1>3 DEF CompileElectronics, ElectronicsOn
<1>10. UNCHANGED <<family, switch, assets>> /\ mechanical' = <<>> /\ bundle' = <<>>
       /\ report' = NoReport
  BY DEF CompilePcb
<1>11. ElectronicsKept'
  BY <1>3, <1>4, <1>5, <1>7, <1>8, <1>9, <1>10 DEF ElectronicsKept, ElectronicsTrue
<1>12. IsDocument(saved') /\ WithinLimits(saved')
  BY <1>2, <1>4, <1>5 DEF IsSettled, SameShape, WithinLimits, DesignInv, DesignTyped
<1>13. report' \in [verdict : Verdicts \cup {"none"}, checked : BOOLEAN] /\ ~ report'.checked
  BY <1>10 DEF NoReport
<1>14. DesignTyped'
  BY <1>4, <1>10, <1>12, <1>13 DEF DesignInv, DesignTyped, Single
<1> QED
  BY <1>10, <1>11, <1>13, <1>14 DEF DesignInv, MechanicalKept, ReportKept, BundleKept

LEMMA CompileMechanicalKeeps ==
    ASSUME DesignInv, NEW config, CompileMechanical(config)
    PROVE  DesignInv'
<1>1. /\ saved' = Loaded /\ UNCHANGED <<family, switch, assets, electronics, report, bundle>>
      /\ mechanical' = <<[config |-> config, summary |-> MechanicalSummary(config)]>>
  BY DEF CompileMechanical
<1>2. IsDocument(saved') /\ WithinLimits(saved') /\ Loaded' = Loaded
  BY <1>1, WrittenAsLoaded DEF DesignInv
<1>3. MechanicalKept'
  BY <1>1, <1>2 DEF MechanicalKept, MechanicalSummary
<1>4. Design' = Design
  BY <1>1, <1>2 DEF Design
<1>5. ElectronicsKept' /\ ReportKept'
  BY <1>1, <1>2, <1>4 DEF DesignInv, ElectronicsKept, ElectronicsTrue, ReportKept
<1>6. BundleKept'
  BY <1>1, <1>4 DEF DesignInv, BundleKept, BundleTrue
<1>7. DesignTyped'
  BY <1>1, <1>2 DEF DesignInv, DesignTyped, Single
<1> QED
  BY <1>3, <1>5, <1>6, <1>7 DEF DesignInv

LEMMA RunValidationKeeps ==
    ASSUME DesignInv, RunValidation
    PROVE  DesignInv'
<1>1. /\ saved' = Loaded /\ UNCHANGED <<family, switch, assets, electronics, mechanical, bundle>>
      /\ report' = ReportOn(Design)
  BY DEF RunValidation
<1>2. IsDocument(saved') /\ WithinLimits(saved') /\ Loaded' = Loaded
  BY <1>1, WrittenAsLoaded DEF DesignInv
<1>3. Design' = Design /\ Design.assets = assets
  BY <1>1, <1>2 DEF Design
<1>4. /\ report'.verdict = ValidateProject(Design)
      /\ report'.checked = (DOMAIN assets # {})
      /\ report' \in [verdict : Verdicts \cup {"none"}, checked : BOOLEAN]
  BY <1>1, <1>3, VerdictIsOneOfThree DEF ReportOn
<1>5. report'.verdict # "none"
  BY <1>4, VerdictIsOneOfThree DEF Verdicts
<1>6. ReportKept'
  BY <1>1, <1>3, <1>4 DEF ReportKept
<1>7. ElectronicsKept' /\ MechanicalKept' /\ BundleKept'
  BY <1>1, <1>2, <1>3, <1>5, Carried
<1>8. DesignTyped'
  BY <1>1, <1>2, <1>4 DEF DesignInv, DesignTyped, Single
<1> QED
  BY <1>6, <1>7, <1>8 DEF DesignInv

LEMMA ExportKeeps ==
    ASSUME DesignInv, ExportProjectBundle
    PROVE  DesignInv'
<1>1. /\ saved' = Loaded /\ UNCHANGED <<family, switch, assets, electronics, mechanical>>
      /\ report' = ReportOn(Design) /\ ValidateProject(Design) # "fail"
      /\ bundle' = <<[content |-> ExportBundle(Design), checked |-> DOMAIN assets # {}]>>
  BY DEF ExportProjectBundle
<1>2. IsDocument(saved') /\ WithinLimits(saved') /\ Loaded' = Loaded
  BY <1>1, WrittenAsLoaded DEF DesignInv
<1>3. Design' = Design /\ Design.assets = assets
  BY <1>1, <1>2 DEF Design
<1>4. /\ report'.verdict = ValidateProject(Design)
      /\ report'.checked = (DOMAIN assets # {})
      /\ report' \in [verdict : Verdicts \cup {"none"}, checked : BOOLEAN]
  BY <1>1, <1>3, VerdictIsOneOfThree DEF ReportOn
<1>5. report'.verdict # "none"
  BY <1>4, VerdictIsOneOfThree DEF Verdicts
<1>6. ReportKept'
  BY <1>1, <1>3, <1>4 DEF ReportKept
<1>7. /\ bundle'[1].content = ExportBundle(Design)
      /\ bundle'[1].checked = (DOMAIN assets # {})
      /\ ExportBundle(Design).verdict = ValidateProject(Design)
  BY <1>1 DEF ExportBundle, BundleOf
<1>8. BundleKept'
  BY <1>1, <1>3, <1>5, <1>7 DEF BundleKept, BundleTrue
<1>9. ElectronicsKept' /\ MechanicalKept'
  BY <1>1, <1>2, <1>3, Carried
<1>10. DesignTyped'
  BY <1>1, <1>2, <1>4 DEF DesignInv, DesignTyped, Single
<1> QED
  BY <1>6, <1>8, <1>9, <1>10 DEF DesignInv

\* A bundle was exported with a verdict, which stays.
LEMMA BundleHasReport ==
    ASSUME DesignInv, bundle # <<>>
    PROVE  report.verdict # "none"
BY DEF DesignInv, BundleKept, BundleTrue

\* A metadata write that accepts and forgets no asset.
LEMMA AssetsWritten ==
    ASSUME DesignInv, saved' = Loaded, UNCHANGED <<family, switch, derived>>,
           assets' \in [DOMAIN assets' -> AcceptanceStates], DOMAIN assets' \subseteq AssetIds[family],
           DOMAIN assets \subseteq DOMAIN assets',
           \A b \in DOMAIN assets' :
               assets'[b] \in Canonical <=> b \in DOMAIN assets /\ assets[b] \in Canonical
    PROVE  DesignInv'
<1>1. Design.assets = assets /\ Design'.assets = assets'
  BY DEF Design
<1>2. AcceptedAssets(Design') = AcceptedAssets(Design)
  BY <1>1 DEF AcceptedAssets
<1>3. UNCHANGED <<electronics, mechanical, report, bundle>>
  BY DEF derived
<1>4. IsDocument(saved') /\ WithinLimits(saved')
  BY WrittenAsLoaded DEF DesignInv
<1>5. ElectronicsKept' /\ MechanicalKept' /\ ReportKept'
  BY <1>2, <1>3, Carried
<1>6. BundleKept'
  <2>1. CASE bundle = <<>>
    BY <1>3, <2>1 DEF BundleKept
  <2>2. CASE bundle # <<>>
    BY <1>2, <1>3, <2>2, Carried, BundleHasReport
  <2> QED
    BY <2>1, <2>2
<1>7. DesignTyped'
  BY <1>3, <1>4 DEF DesignInv, DesignTyped, Single
<1> QED
  BY <1>5, <1>6, <1>7 DEF DesignInv

LEMMA IngestAssetKeeps ==
    ASSUME DesignInv, NEW a \in AssetIds[family], IngestAsset(a)
    PROVE  DesignInv'
<1>1. /\ saved' = Loaded /\ UNCHANGED <<family, switch, derived>> /\ a \notin DOMAIN assets
      /\ assets' = [b \in DOMAIN assets \cup {a} |-> IF b = a THEN "candidate" ELSE assets[b]]
  BY DEF IngestAsset
<1>2. DOMAIN assets' = DOMAIN assets \cup {a}
  BY <1>1
<1>3. assets' \in [DOMAIN assets' -> AcceptanceStates] /\ DOMAIN assets' \subseteq AssetIds[family]
  BY <1>1, <1>2 DEF DesignInv, DesignTyped, AcceptanceStates
<1>4. \A b \in DOMAIN assets' :
          assets'[b] \in Canonical <=> b \in DOMAIN assets /\ assets[b] \in Canonical
  BY <1>1, <1>2 DEF Canonical
<1> QED
  BY <1>1, <1>2, <1>3, <1>4, AssetsWritten

LEMMA SetAcceptanceKeeps ==
    ASSUME DesignInv, NEW a, NEW state \in {"accepted", "rejected", "production_ready"},
           SetAcceptance(a, state)
    PROVE  DesignInv'
<1> DEFINE canonical == assets[a] \in Canonical \/ state \in Canonical \/ Applied(a)
<1>1. /\ saved' = Loaded /\ UNCHANGED <<family, switch>> /\ a \in DOMAIN assets
      /\ assets' = [assets EXCEPT ![a] = state]
      /\ IF canonical THEN InvalidateDerivedState ELSE UNCHANGED derived
  BY DEF SetAcceptance
<1>2. assets \in [DOMAIN assets -> AcceptanceStates] /\ DOMAIN assets \subseteq AssetIds[family]
  BY DEF DesignInv, DesignTyped
<1>3. state \in AcceptanceStates
  BY DEF AcceptanceStates
<1>4. DOMAIN assets' = DOMAIN assets /\ assets' \in [DOMAIN assets -> AcceptanceStates]
  BY <1>1, <1>2, <1>3
<1>5. CASE canonical
  <2>1. IsDocument(saved') /\ WithinLimits(saved')
    BY <1>1, WrittenAsLoaded DEF DesignInv
  <2> QED
    BY <1>1, <1>2, <1>4, <1>5, <2>1, Invalidated DEF DesignInv, DesignTyped
<1>6. CASE ~ canonical
  <2>1. \A b \in DOMAIN assets' :
            assets'[b] \in Canonical <=> b \in DOMAIN assets /\ assets[b] \in Canonical
    BY <1>1, <1>4, <1>6
  <2> QED
    BY <1>1, <1>2, <1>4, <1>6, <2>1, AssetsWritten
<1> QED
  BY <1>5, <1>6

LEMMA ApplyKeycapKeeps ==
    ASSUME DesignInv, NEW a \in AssetIds[family], NEW ids, ApplyKeycap(a, ids)
    PROVE  DesignInv'
<1>1. PICK d : d = Loaded
  OBVIOUS
<1>2. /\ IsSettled(d) /\ d.pitch = saved.pitch
      /\ Len(d.elements) = Len(saved.elements) /\ Len(d.keys) = Len(saved.keys)
  BY <1>1, DocumentLoaded DEF DesignInv, DesignTyped, Loaded
<1>3. a \in STRING
  BY PipelineAssumption DEF DesignInv, DesignTyped, Families
<1>4. PICK es : es = [n \in DOMAIN d.elements |-> Dressed(d.elements[n], a, ids)]
  OBVIOUS
<1>5. PICK c : c = OfElements(es, d.pitch)
  OBVIOUS
<1>6. saved' = c
  <2> DEFINE targets == {n \in DOMAIN d.elements :
                            d.elements[n].type \in KeyLike /\ (ids = {} \/ d.elements[n].id \in ids)}
  <2>1. saved' = OfElements([n \in DOMAIN d.elements |->
                                IF n \in targets THEN [d.elements[n] EXCEPT !.asset = a, !.look = a]
                                ELSE d.elements[n]],
                            d.pitch)
    BY <1>1, <1>2 DEF ApplyKeycap
  <2>2. es = [n \in DOMAIN d.elements |->
                 IF n \in targets THEN [d.elements[n] EXCEPT !.asset = a, !.look = a]
                 ELSE d.elements[n]]
    BY <1>4 DEF Dressed, Wears
  <2> QED
    BY <1>5, <2>1, <2>2
<1>7. IsSettled(c) /\ Len(c.elements) = Len(d.elements) /\ Len(c.keys) = Len(d.keys)
  BY ONLY <1>2, <1>3, <1>4, <1>5, KeycapApplied
<1>8. IsDocument(saved') /\ WithinLimits(saved')
  BY <1>2, <1>6, <1>7 DEF IsSettled, WithinLimits, DesignInv, DesignTyped
<1>9. InvalidateDerivedState /\ UNCHANGED <<family, switch, assets>>
  BY DEF ApplyKeycap
<1> QED
  BY <1>8, <1>9, Invalidated DEF DesignInv, DesignTyped

LEMMA DesignNext == DesignInv /\ [Next]_vars => DesignInv'
<1> SUFFICES ASSUME DesignInv, [Next]_vars
             PROVE  DesignInv'
  OBVIOUS
<1>1. ASSUME NEW p \in Payloads[family], PatchLayout(p)
      PROVE  DesignInv'
  BY <1>1, PatchLayoutKeeps
<1>2. CASE PatchSwitch
  BY <1>2, PatchSwitchKeeps
<1>3. CASE CompilePcb
  BY <1>3, CompilePcbKeeps
<1>4. ASSUME NEW config, CompileMechanical(config)
      PROVE  DesignInv'
  BY <1>4, CompileMechanicalKeeps
<1>5. CASE RunValidation
  BY <1>5, RunValidationKeeps
<1>6. CASE ExportProjectBundle
  BY <1>6, ExportKeeps
<1>7. ASSUME NEW a \in AssetIds[family], IngestAsset(a)
      PROVE  DesignInv'
  BY <1>7, IngestAssetKeeps
<1>8. ASSUME NEW a, NEW state \in {"accepted", "rejected", "production_ready"},
             SetAcceptance(a, state)
      PROVE  DesignInv'
  BY <1>8, SetAcceptanceKeeps
<1>9. ASSUME NEW a \in AssetIds[family], NEW ids, ApplyKeycap(a, ids)
      PROVE  DesignInv'
  BY <1>9, ApplyKeycapKeeps
<1>10. CASE UNCHANGED vars
  <2>1. /\ UNCHANGED <<family, saved, switch, assets, electronics, mechanical, report, bundle>>
    BY <1>10 DEF vars
  <2>2. Loaded' = Loaded
    BY <2>1 DEF Loaded
  <2>3. Design' = Design
    BY <2>1, <2>2 DEF Design
  <2>4. DesignTyped'
    BY <2>1 DEF DesignInv, DesignTyped, Single
  <2>5. ElectronicsKept' /\ MechanicalKept'
    BY <2>1, <2>2
    DEF DesignInv, ElectronicsKept, ElectronicsTrue, MechanicalKept, MechanicalSummary
  <2>6. ReportKept' /\ BundleKept'
    BY <2>1, <2>3 DEF DesignInv, ReportKept, BundleKept, BundleTrue
  <2> QED
    BY <2>4, <2>5, <2>6 DEF DesignInv
<1> QED
  BY <1>1, <1>2, <1>3, <1>4, <1>5, <1>6, <1>7, <1>8, <1>9, <1>10 DEF Next

LEMMA DesignAlways == Spec => []DesignInv
<1>1. Init => DesignInv
  BY DesignInit
<1>2. DesignInv /\ [Next]_vars => DesignInv'
  BY DesignNext
<1> QED
  BY <1>1, <1>2, PTL DEF Spec

-----------------------------------------------------------------------------
(* Theorems.                                                               *)

\* Whatever is requested, the document stays a layout whose keys are those of its
\* elements, and what is recorded beside it keeps its shape.
THEOREM TypeCorrect == Spec => []TypeOK
<1>1. DesignInv => TypeOK
  <2> SUFFICES ASSUME DesignInv
               PROVE  TypeOK
    OBVIOUS
  <2>1. saved \in LayoutFields /\ saved.keys = KeyView(saved.elements, saved.pitch)
    BY BoardOfDocument DEF DesignInv, DesignTyped, IsDocument
  <2>2. Len(electronics) <= 1 /\ Len(mechanical) <= 1 /\ Len(bundle) <= 1
    BY SingleLength DEF DesignInv, DesignTyped
  <2> QED
    BY <2>1, <2>2 DEF DesignInv, DesignTyped, TypeOK
<1> QED
  BY <1>1, DesignAlways, PTL

\* A document that was saved is loaded to one that is loaded again as it is; with
\* unique ids every control is where and what it was saved as; and one of at most
\* half the combined limit can always be loaded.
THEOREM LoadingStable == Spec => []LoadingIsStable
<1>1. DesignInv => LoadingIsStable
  <2> SUFFICES ASSUME DesignInv
               PROVE  LoadingIsStable
    OBVIOUS
  <2>1. PICK d, again : d = saved /\ again = LayoutSpec(d) /\ again = Loaded
    BY DEF Loaded
  <2>2. IsDocument(d) /\ WithinLimits(d)
    BY <2>1 DEF DesignInv, DesignTyped
  <2>3. /\ LayoutSpec(again) = again /\ Len(again.elements) = Len(d.elements)
        /\ DOMAIN again.elements = DOMAIN d.elements
        /\ Len(again.keys) = Len(d.keys)
    BY <2>1, <2>2, DocumentLoaded
  <2>4. \A n \in DOMAIN again.elements :
            IF n \in KeyLikeOf(d.elements)
            THEN \E m \in KeyLikeOf(d.elements) :
                     /\ d.elements[m].id = d.elements[n].id
                     /\ again.elements[n] = Resynced(d.elements[n], d.elements[m])
            ELSE again.elements[n] = d.elements[n]
    <3> HIDE DEF IsDocument
    <3>1. IsDocument(d)
      BY <2>2
    <3>2. \A n \in DOMAIN LayoutSpec(d).elements :
              IF n \in KeyLikeOf(d.elements)
              THEN \E m \in KeyLikeOf(d.elements) :
                       /\ d.elements[m].id = d.elements[n].id
                       /\ LayoutSpec(d).elements[n] = Resynced(d.elements[n], d.elements[m])
              ELSE LayoutSpec(d).elements[n] = d.elements[n]
      BY ONLY <3>1, ParsedAgain
    <3> QED
      BY <2>1, <3>2
  <2>5. ASSUME UniqueIds(d.elements)
        PROVE  SameElements(again.elements, d.elements)
    <3>1. ASSUME NEW n \in DOMAIN again.elements
          PROVE  \A field \in {"id", "type", "label", "x", "y", "w", "h", "rot", "at"} :
                     again.elements[n][field] = d.elements[n][field]
      <4>1. CASE n \in KeyLikeOf(d.elements)
        <5>1. PICK m \in KeyLikeOf(d.elements) :
                  /\ d.elements[m].id = d.elements[n].id
                  /\ again.elements[n] = Resynced(d.elements[n], d.elements[m])
          BY <2>4, <4>1, <3>1
        <5>2. m = n
          BY <2>5, <3>1, <2>3, <5>1 DEF UniqueIds, KeyLikeOf
        <5> QED
          BY <5>1, <5>2 DEF Resynced
      <4>2. CASE n \notin KeyLikeOf(d.elements)
        <5>1. again.elements[n] = d.elements[n]
          BY <2>4, <4>2, <3>1
        <5> QED
          BY <5>1
      <4> QED
        BY <4>1, <4>2
    <3> QED
      BY <2>3, <3>1 DEF SameElements
  <2>6. ASSUME 2 * Len(d.elements) <= MaxItems
        PROVE  Accepted(d)
    <3>1. Len(d.keys) \in Nat /\ Len(d.elements) \in Nat /\ Len(d.keys) <= Len(d.elements)
      BY <2>2, FewerKeys
    <3>2. MaxItems \in Nat
      BY LimitsAssumption
    <3>3. \A a, b, c \in Nat : a <= b /\ 2 * b <= c => a + b <= c
      OBVIOUS
    <3>4. Len(d.keys) + Len(d.elements) <= MaxItems
      BY ONLY <2>6, <3>1, <3>2, <3>3, Zenon
    <3>5. WithinLimits(again)
      BY <2>2, <2>3 DEF WithinLimits
    <3> QED
      BY <2>1, <2>2, <3>4, <3>5 DEF Accepted
  <2> QED
    BY <2>1, <2>3, <2>5, <2>6 DEF LoadingIsStable, Loads
<1> QED
  BY <1>1, DesignAlways, PTL

\* What is recorded as compiled or validated is, after any requests, what compiling
\* or validating the saved document gives.
THEOREM DerivedTrue == Spec => []DerivedStateStaysTrue
<1>1. DesignInv => DerivedStateStaysTrue
  BY DEF DesignInv, ElectronicsKept, MechanicalKept, ReportKept, BundleKept, DerivedStateStaysTrue
<1> QED
  BY <1>1, DesignAlways, PTL

\* A bundle whose validation saw assets refers to accepted ones only, also after an
\* older layout was patched back.
THEOREM ExportsAccepted == Spec => []ExportsCarryAcceptedAssets
<1>1. DesignInv => ExportsCarryAcceptedAssets
  <2> SUFFICES ASSUME DesignInv, bundle # <<>>, \A b \in Range(bundle) : b.checked,
                      NEW n \in DOMAIN Loaded.elements,
                      AssignedAsset(Loaded.elements[n]) # NoAsset
               PROVE  LET asset == AssignedAsset(Loaded.elements[n])
                      IN  asset \in DOMAIN assets /\ assets[asset] \in Canonical
    BY DEF ExportsCarryAcceptedAssets
  <2>1. PICK b : bundle = <<b>>
    BY DEF DesignInv, DesignTyped, Single
  <2>2. b.checked
    BY <2>1 DEF Range
  <2>3. DOMAIN assets # {} /\ b.content = ExportBundle(Design) /\ b.content.verdict # "fail"
    BY <2>1, <2>2 DEF DesignInv, BundleKept, BundleTrue
  <2>4. PICK d : d = Design
    OBVIOUS
  <2>5. d.assets = assets /\ d.layout = Loaded
    BY <2>4 DEF Design
  <2>6. ValidateProject(d) # "fail"
    BY <2>3, <2>4 DEF ExportBundle, BundleOf
  <2>7. CheckAssignedAssetAcceptance(d) # "fail"
    BY <2>6 DEF ValidateProject, Verdict
  <2>8. AssignedAsset(d.layout.elements[n]) \in AcceptedAssets(d)
    BY <2>3, <2>5, <2>7, AssetCheck DEF Failing
  <2> QED
    BY <2>5, <2>8 DEF AcceptedAssets
<1> QED
  BY <1>1, DesignAlways, PTL

-----------------------------------------------------------------------------
(* The matrix of the board that is loaded.                                 *)

\* The document that is loaded is settled and its keys are a board.
LEMMA LoadedBoard ==
    ASSUME DesignInv
    PROVE  /\ IsSettled(Loaded) /\ IsBoard(Loaded.keys) /\ Loaded.keys \in Seq(KeySpec)
           /\ Loaded.elements \in Seq(PlacedElementSpec) /\ Loaded.pitch \in Nat \ {0}
<1>1. PICK d : d = Loaded
  OBVIOUS
<1>2. IsSettled(d)
  BY <1>1, DocumentLoaded DEF DesignInv, DesignTyped, Loaded
<1> QED
  BY <1>1, <1>2, BoardOfDocument DEF IsSettled

\* Whatever is loaded, no two of its ids are scanned at one crossing, and every
\* place is inside the matrix, with either strategy and also when keys share ids.
THEOREM PlacesDistinct == Spec => []MatrixPositionsDistinct
<1>1. DesignInv => MatrixPositionsDistinct
  <2> SUFFICES ASSUME DesignInv
               PROVE  LET matrix == CompileMatrix(family, Loaded.keys)
                      IN  OnePlaceEach(matrix.places, matrix.rows, matrix.cols)
    BY DEF MatrixPositionsDistinct
  <2>1. PICK keys, kind, matrix :
            keys = Loaded.keys /\ kind = family /\ matrix = CompileMatrix(kind, keys)
    OBVIOUS
  <2>2. IsBoard(keys)
    BY <2>1, LoadedBoard
  <2>3. \A i, j \in DOMAIN matrix.places : matrix.places[i] = matrix.places[j] => i = j
    BY <2>1, <2>2, PlacesOfIds
  <2>4. \A i \in DOMAIN matrix.places :
            matrix.places[i] \in (0 .. matrix.rows - 1) \X (0 .. matrix.cols - 1)
    BY <2>1, <2>2, PlaceOfId
  <2>5. OnePlaceEach(matrix.places, matrix.rows, matrix.cols)
    BY <2>3, <2>4 DEF OnePlaceEach
  <2> QED
    BY <2>1, <2>5
<1> QED
  BY <1>1, DesignAlways, PTL

\* With ids of their own, each key has the place that it was put at.
LEMMA PlacesOfKeys ==
    ASSUME NEW keys, UniqueIds(keys), NEW kind, NEW matrix, matrix = CompileMatrix(kind, keys)
    PROVE  \A n \in DOMAIN keys : Places(keys, matrix)[n] = PlacesOf(kind, keys)[n]
<1>1. PICK places : places = PlacesOf(kind, keys)
  OBVIOUS
<1>2. matrix.places = Assignments(keys, places)
  BY <1>1 DEF CompileMatrix, WithPlaces
<1>3. \A n \in DOMAIN keys : Assignments(keys, places)[keys[n].id] = places[n]
  BY PlaceOfKey
<1> QED
  BY <1>1, <1>2, <1>3 DEF Places

\* Rows group keys whose centres are within half a unit of each other, go down the
\* board, and columns go to the right along them; a balanced matrix is numbered in
\* reading order and no other number of rows takes fewer pins.
THEOREM FollowsBoard == Spec => []MatrixFollowsTheBoard
<1>1. DesignInv => MatrixFollowsTheBoard
  <2> SUFFICES ASSUME DesignInv, UniqueIds(Loaded.keys)
               PROVE  LET matrix == CompileMatrix(family, Loaded.keys)
                      IN  Follows(Loaded.keys, matrix, Places(Loaded.keys, matrix))
    BY DEF MatrixFollowsTheBoard
  <2>1. PICK keys, matrix, place :
            /\ keys = Loaded.keys /\ matrix = CompileMatrix(family, keys)
            /\ place = Places(keys, matrix)
    OBVIOUS
  <2>2. IsBoard(keys) /\ UniqueIds(keys)
    BY <2>1, LoadedBoard
  <2>3. \A n \in DOMAIN keys : place[n] = PlacesOf(family, keys)[n]
    BY <2>1, <2>2, PlacesOfKeys
  <2>4. CASE Strategy(family) = "physical_rows"
    <3>1. \A n \in DOMAIN keys : place[n] = PhysicalRows(keys)[n]
      BY <2>3, <2>4 DEF PlacesOf
    <3>2. ASSUME NEW m \in DOMAIN keys, NEW n \in DOMAIN keys
          PROVE  /\ place[m][1] = place[n][1] => Center(keys[m]) - Center(keys[n]) <= Tolerance
                 /\ place[m][1] = place[n][1] /\ place[m][2] < place[n][2] => keys[m].x <= keys[n].x
                 /\ place[m][1] < place[n][1] => Center(keys[m]) < Center(keys[n])
      <4>1. PICK p, q : /\ p = place[m] /\ p = PhysicalRows(keys)[m]
                        /\ q = place[n] /\ q = PhysicalRows(keys)[n]
        BY <3>1, <3>2
      <4>2. /\ p[1] = q[1] => Center(keys[m]) - Center(keys[n]) <= Tolerance
            /\ p[1] = q[1] /\ p[2] < q[2] => keys[m].x <= keys[n].x
            /\ p[1] < q[1] => Center(keys[m]) < Center(keys[n])
        BY <2>2, <4>1, PhysicalPlacesFollow
      <4> QED
        BY <4>1, <4>2
    <3>3. RowsOfTheBoard(keys, place)
      BY <3>2 DEF RowsOfTheBoard, Tolerance
    <3> QED
      BY <2>1, <2>4, <3>3 DEF Follows
  <2>5. CASE Strategy(family) # "physical_rows"
    <3>1. Strategy(family) = "balanced"
      BY <2>5 DEF Strategy
    <3>2. \A n \in DOMAIN keys : place[n] = BalancedRows(keys)[n]
      BY <2>3, <3>1 DEF PlacesOf
    <3>3. ReadingOrderOfTheBoard(keys, place)
      <4>1. ASSUME NEW m \in DOMAIN keys, NEW n \in DOMAIN keys, Lex(place[m], place[n])
            PROVE  ~ Lex(<<keys[n].y, keys[n].x>>, <<keys[m].y, keys[m].x>>)
        <5>1. PICK p, q, rows, cols :
                  /\ p = place[m] /\ p = BalancedRows(keys)[m]
                  /\ q = place[n] /\ q = BalancedRows(keys)[n]
                  /\ rows = BestRows(Len(keys)) /\ cols = CeilDiv(Len(keys), rows)
          BY <3>2, <4>1
        <5>2. Lex(p, q) => ~ Lex(<<keys[n].y, keys[n].x>>, <<keys[m].y, keys[m].x>>)
          BY <2>2, <5>1, BalancedPlacesFollow
        <5> QED
          BY <4>1, <5>1, <5>2
      <4> QED
        BY <4>1 DEF ReadingOrderOfTheBoard
    <3>4. ASSUME NEW r \in 1 .. Len(keys)
          PROVE  matrix.rows + matrix.cols <= Cost(Len(keys), r)
      <4>1. PICK n \in Nat \ {0} : n = Len(keys)
        <5>1. Len(keys) \in Nat
          BY <2>2 DEF IsBoard
        <5>2. Len(keys) \in Nat \ {0}
          BY <5>1
        <5> QED
          BY <5>2
      <4>2. Cost(n, BestRows(n)) <= Cost(n, r)
        BY <4>1, BestRowsExist
      <4>3. keys # <<>>
        BY ONLY <4>1
      <4>4. matrix.rows = BestRows(n) /\ matrix.cols = CeilDiv(n, BestRows(n))
        <5>1. PICK places : places = PlacesOf(family, keys)
          OBVIOUS
        <5>2. matrix.rows = Rows(family, keys) /\ matrix.cols = Cols(family, keys, places)
          BY <2>1, <5>1 DEF CompileMatrix, WithPlaces
        <5>3. Rows(family, keys) = BestRows(n)
          BY <3>1, <4>1, <4>3 DEF Rows
        <5>4. Cols(family, keys, places) = CeilDiv(n, BestRows(n))
          BY <3>1, <4>1, <4>3 DEF Cols
        <5> QED
          BY <5>2, <5>3, <5>4
      <4> QED
        BY <4>1, <4>2, <4>4 DEF Cost
    <3> QED
      BY <2>1, <2>5, <3>3, <3>4 DEF Follows
  <2> QED
    BY <2>4, <2>5
<1> QED
  BY <1>1, DesignAlways, PTL

-----------------------------------------------------------------------------
(* What validation lets pass can be compiled.                              *)

\* What validation does not fail, none of these checks fails.
LEMMA Passing ==
    ASSUME NEW d, ValidateProject(d) # "fail"
    PROVE  /\ CheckLayoutNonempty(d) # "fail" /\ CheckElementOverlap(d) # "fail"
           /\ CheckMatrixFeasibility(d) # "fail" /\ CheckFootprintSourceCoverage(d) # "fail"
BY DEF ValidateProject, Verdict

\* The size of a matrix, and that of an empty board's.
LEMMA MatrixSize ==
    ASSUME NEW keys, IsBoard(keys), NEW kind, NEW matrix, matrix = CompileMatrix(kind, keys)
    PROVE  /\ matrix.rows \in Nat /\ matrix.cols \in Nat
           /\ keys = <<>> => matrix.rows = 0 /\ matrix.cols = 0
<1>1. PICK places : places = PlacesOf(kind, keys)
  OBVIOUS
<1>2. matrix.rows = Rows(kind, keys) /\ matrix.cols = Cols(kind, keys, places)
  BY <1>1 DEF CompileMatrix, WithPlaces
<1>3. CASE keys = <<>>
  BY <1>2, <1>3 DEF Rows, Cols
<1>4. CASE DOMAIN keys # {}
  <2>1. PICK n \in DOMAIN keys : TRUE
    BY <1>4
  <2>2. keys[n].id \in DOMAIN matrix.places
    BY IdsOfMatrix
  <2>3. matrix.rows \in Nat /\ matrix.cols \in Nat
    BY <2>2, PlaceOfId
  <2>4. keys # <<>>
    BY <1>4
  <2> QED
    BY <2>3, <2>4
<1>5. CASE DOMAIN keys = {} /\ keys # <<>>
  BY <1>5
<1> QED
  BY <1>3, <1>4, <1>5

\* compile-pcb's check of the pins is implied by validation's, which is skipped only
\* where none is taken.
LEMMA PinsSuffice ==
    ASSUME NEW layout, IsSettled(layout), NEW kind,
           NEW d, d.family = kind, d.controller = Controller, d.layout = layout,
           CheckMatrixFeasibility(d) # "fail"
    PROVE  ~ (CompileElectronics(kind, Controller, layout).remaining < 0)
<1>1. /\ layout.keys = KeyView(layout.elements, layout.pitch) /\ layout.pitch \in Nat \ {0}
      /\ layout.elements \in Seq(PlacedElementSpec) /\ IsBoard(layout.keys)
  BY BoardOfDocument DEF IsSettled
<1>2. PICK matrix : matrix = CompileMatrix(kind, layout.keys)
  OBVIOUS
<1>3. CompileElectronics(kind, Controller, layout).remaining =
          GpioBudget(Controller) - (matrix.rows + matrix.cols + DirectPinsUsed(layout))
  BY <1>2 DEF CompileElectronics, ElectronicsOn, PinsUsed
<1>4. CASE /\ ~ SomeElement(layout, LAMBDA e : e.type \in KeyLike)
           /\ \A t \in DOMAIN DirectUsage(layout) : DirectPins[t] = 0
  <2>1. \A n \in DOMAIN layout.elements :
            /\ layout.elements[n].type \in ElementTypes
            /\ layout.elements[n].type \notin KeyLike
    <3>1. \A n \in DOMAIN layout.elements : layout.elements[n].type \notin KeyLike
      BY <1>4 DEF SomeElement
    <3>2. \A n \in DOMAIN layout.elements : layout.elements[n] \in PlacedElementSpec
      BY <1>1
    <3>3. \A n \in DOMAIN layout.elements : layout.elements[n].type \in ElementTypes
      BY <3>2 DEF PlacedElementSpec
    <3> QED
      BY <3>1, <3>3
  <2>2. KeyLikeOf(layout.elements) = {}
    BY <2>1 DEF KeyLikeOf
  <2>3. layout.keys = <<>>
    <3>1. PICK keys : keys = layout.keys /\ keys \in Seq(KeySpec) /\ Len(keys) = 0
      BY <1>1, <2>2, KeyViewPositions, KeyViewLength, FS_EmptySet
    <3> QED
      BY <3>1
  <2>4. ASSUME NEW n \in DOMAIN layout.elements
        PROVE  DirectPins[layout.elements[n].type] = 0
    <3>1. n \in OfType(layout, layout.elements[n].type)
      BY DEF OfType
    <3>2. layout.elements[n].type \in DOMAIN DirectUsage(layout)
      BY <2>1, <3>1 DEF DirectUsage
    <3> QED
      BY <1>4, <3>2
  <2>5. DirectPinsUsed(layout) = 0
    BY <1>1, <2>4, DirectPinsCounted
  <2>6. matrix.rows = 0 /\ matrix.cols = 0
    BY <1>1, <1>2, <2>3, MatrixSize
  <2>7. GpioBudget(Controller) = 26
    BY DEF GpioBudget, Controller
  <2> QED
    BY <1>3, <2>5, <2>6, <2>7
<1>5. CASE ~ (/\ ~ SomeElement(layout, LAMBDA e : e.type \in KeyLike)
              /\ \A t \in DOMAIN DirectUsage(layout) : DirectPins[t] = 0)
  <2>1. CheckMatrixFeasibility(d) = Failing(PinsRemaining(d) < 0)
    BY <1>5 DEF CheckMatrixFeasibility
  <2> QED
    BY <2>1 DEF Failing, PinsRemaining
<1> QED
  BY <1>4, <1>5

\* The firmware generators have the pins and find every key inside the matrix.
LEMMA FirmwareGenerated ==
    ASSUME NEW layout, IsSettled(layout), NEW kind,
           NEW d, d.family = kind, d.controller = Controller, d.layout = layout,
           NEW matrix, matrix = CompileMatrix(kind, layout.keys),
           NEW c, c = ApplyMatrix(layout, matrix), Compiled(d).layout = c,
           ~ (CompileElectronics(kind, Controller, layout).remaining < 0)
    PROVE  Generated(FirmwareOf(d))
<1>1. IsBoard(layout.keys) /\ layout.elements \in Seq(PlacedElementSpec)
  BY BoardOfDocument DEF IsSettled
<1>2. PICK rows \in Nat, cols \in Nat, direct \in Nat :
          rows = matrix.rows /\ cols = matrix.cols /\ direct = DirectPinsUsed(layout)
  BY <1>1, MatrixSize, DirectPinsCounted
<1>3. FirmwareOf(d).info = QmkInfo(Controller, c, matrix) /\ FirmwareOf(d).keymap = Keymap(c, matrix)
  BY DEF FirmwareOf, WriteFirmwareFiles
<1>4. QmkInfo(Controller, c, matrix).error = "none"
  <2>1. GpioBudget(Controller) = 26 /\ QmkPins(Controller) = 26
    BY DEF GpioBudget, QmkPins, Controller
  <2>2. CompileElectronics(kind, Controller, layout).remaining = 26 - (rows + cols + direct)
    BY <1>2, <2>1 DEF CompileElectronics, ElectronicsOn, PinsUsed
  <2>3. rows + cols <= 26
    BY <2>2
  <2>4. ~ (matrix.rows + matrix.cols > QmkPins(Controller))
    BY <1>2, <2>1, <2>3
  <2> QED
    BY <2>4 DEF QmkInfo
<1>5. CompiledFrom(c, layout, kind, matrix)
  BY MatrixApplied
<1>6. \A i \in DOMAIN c.keys : c.keys[i].at \in (0 .. rows - 1) \X (0 .. cols - 1)
  <2>1. \A id \in DOMAIN matrix.places :
            matrix.places[id] \in (0 .. matrix.rows - 1) \X (0 .. matrix.cols - 1)
    BY <1>1, PlaceOfId
  <2>2. \A i \in DOMAIN c.keys : /\ c.keys[i].id \in DOMAIN matrix.places
                                 /\ c.keys[i].at = matrix.places[c.keys[i].id]
    BY <1>5 DEF CompiledFrom
  <2> QED
    BY <1>2, <2>1, <2>2
<1>7. ASSUME NEW n \in DOMAIN Placed(c)
      PROVE  Placed(c)[n].at[1] < matrix.rows /\ Placed(c)[n].at[2] < matrix.cols
  <2>1. c.keys \in Seq(KeySpec)
    BY <1>5, BoardOfDocument DEF CompiledFrom, IsSettled
  <2>2. PICK ns \in SUBSET (DOMAIN c.keys) : Placed(c) = Kept(c.keys, ns)
    BY DEF Placed
  <2>3. PICK pos : KeepsTo(Kept(c.keys, ns), pos, c.keys, ns, Len(c.keys))
    BY <2>1, KeptPositions
  <2>4. PICK i \in DOMAIN c.keys : Placed(c)[n] = c.keys[i]
    BY <2>2, <2>3 DEF KeepsTo
  <2>5. c.keys[i].at \in (0 .. rows - 1) \X (0 .. cols - 1)
    BY <1>6
  <2> QED
    BY <1>2, <2>4, <2>5
<1>8. Keymap(c, matrix).error = "none"
  BY <1>7 DEF Keymap
<1> QED
  BY <1>3, <1>4, <1>8 DEF Generated

\* Key-like elements of one id lie on one spot and overlap there.
LEMMA OverlapTells ==
    ASSUME NEW layout, IsSettled(layout), NEW d, d.layout = layout,
           CheckElementOverlap(d) # "fail",
           \A n \in KeyLikeOf(layout.elements) : Shorter(layout.elements[n]) > Epsilon
    PROVE  UniqueIds(layout.keys)
<1> DEFINE es == layout.elements
           keys == layout.keys
<1>1. /\ keys = KeyView(es, layout.pitch) /\ layout.pitch \in Nat \ {0}
      /\ es \in Seq(PlacedElementSpec) /\ Settled(es)
  BY BoardOfDocument DEF IsSettled
<1>2. PICK pos :
          /\ DOMAIN pos = DOMAIN keys
          /\ \A i \in DOMAIN pos : /\ pos[i] \in KeyLikeOf(es)
                                   /\ keys[i] = ElementToKey(es[pos[i]], layout.pitch)
          /\ \A i, j \in DOMAIN pos : i < j => pos[i] < pos[j]
  <2>1. PICK pitch \in Nat \ {0}, elements \in Seq(PlacedElementSpec) :
            pitch = layout.pitch /\ elements = es /\ keys = KeyView(elements, pitch)
    BY <1>1
  <2>2. PICK pos :
            /\ DOMAIN pos = DOMAIN KeyView(elements, pitch)
            /\ \A i \in DOMAIN pos :
                   /\ pos[i] \in KeyLikeOf(elements)
                   /\ KeyView(elements, pitch)[i] = ElementToKey(elements[pos[i]], pitch)
            /\ \A i, j \in DOMAIN pos : i < j => pos[i] < pos[j]
    BY ONLY KeyViewPositions
  <2> HIDE DEF es, keys
  <2> QED
    BY <2>1, <2>2
<1>3. \A m \in DOMAIN es : \A n \in m + 1 .. Len(es) : ~ Overlap(es[m], es[n])
  BY DEF CheckElementOverlap, Failing, SomePair
<1>4. DOMAIN es = 1 .. Len(es) /\ \A n \in KeyLikeOf(es) : n \in 1 .. Len(es)
  BY <1>1 DEF KeyLikeOf
<1>5. \A i \in DOMAIN keys : i \in Nat
  <2>1. keys \in Seq(KeySpec)
    BY BoardOfDocument DEF IsSettled
  <2> QED
    BY <2>1
<1> HIDE DEF es, keys
<1>6. ASSUME NEW i \in DOMAIN keys, NEW j \in DOMAIN keys, i < j
      PROVE  keys[i].id # keys[j].id
  <2>1. PICK m \in KeyLikeOf(es), n \in KeyLikeOf(es) :
            /\ m < n /\ keys[i].id = es[m].id /\ keys[j].id = es[n].id
    BY <1>2, <1>6 DEF ElementToKey
  <2>2. SUFFICES ASSUME es[m].id = es[n].id
                 PROVE  FALSE
    BY <2>1
  <2>3. Agree(es[m], es[n])
    BY <1>1, <2>2 DEF Settled
  <2>4. PICK x \in Int, y \in Int, w \in Int, h \in Int :
            /\ es[m].x = x /\ es[m].y = y /\ es[m].w = w /\ es[m].h = h
            /\ es[n].x = x /\ es[n].y = y /\ es[n].w = w /\ es[n].h = h
    <3>1. es[m] \in PlacedElementSpec
      BY <1>1, <1>4
    <3>2. es[m].x \in Int /\ es[m].y \in Int /\ es[m].w \in Int /\ es[m].h \in Int
      BY <3>1 DEF PlacedElementSpec
    <3> QED
      BY <2>3, <3>2 DEF Agree
  <2>5. PICK epsilon \in Nat : epsilon = Epsilon
    BY DEF Epsilon, Mm
  <2>6. w > epsilon /\ h > epsilon
    <3>1. Shorter(es[m]) > Epsilon
      BY DEF es
    <3>2. (IF w < h THEN w ELSE h) > epsilon
      BY <2>4, <2>5, <3>1 DEF Shorter, AtMost
    <3> QED
      BY <3>2
  <2>7. Overlap(es[m], es[n])
    BY <2>4, <2>5, <2>6 DEF Overlap
  <2> QED
    BY <1>3, <1>4, <2>1, <2>7
<1> QED
  BY <1>5, <1>6 DEF UniqueIds, keys

\* What validation lets pass is compiled by compile-pcb and by the firmware
\* generators, and its keys have ids of their own.
THEOREM ValidatedCompile == Spec => []ValidatedDesignsCompile
<1>1. DesignInv => ValidatedDesignsCompile
  <2> SUFFICES ASSUME DesignInv, ValidateProject(Design) # "fail"
               PROVE  /\ ~ CompileRefused(Design) /\ Generated(FirmwareOf(Design))
                      /\ (\A n \in KeyLikeOf(Loaded.elements) : Shorter(Loaded.elements[n]) > Epsilon)
                             => UniqueIds(Loaded.keys)
    BY DEF ValidatedDesignsCompile
  <2>1. PICK layout, kind, d, matrix, c :
            /\ layout = Loaded /\ kind = family
            /\ d = DesignOf(kind, layout, switch, assets) /\ d = Design
            /\ matrix = CompileMatrix(kind, layout.keys) /\ c = ApplyMatrix(layout, matrix)
    BY DesignIsOf
  <2>2. IsSettled(layout)
    BY <2>1, LoadedBoard
  <2>3. d.family = kind /\ d.controller = Controller /\ d.layout = layout
    BY <2>1 DEF DesignOf
  <2>4. Compiled(d).layout = c
    BY <2>1 DEF Compiled, DesignOf
  <2>5. /\ CheckLayoutNonempty(d) # "fail" /\ CheckElementOverlap(d) # "fail"
        /\ CheckMatrixFeasibility(d) # "fail" /\ CheckFootprintSourceCoverage(d) # "fail"
    BY <2>1, Passing
  <2>6. ~ (CompileElectronics(kind, Controller, layout).remaining < 0)
    BY ONLY <2>2, <2>3, <2>5, PinsSuffice
  <2>7. ~ CompileRefused(d)
    <3>1. layout.elements # <<>>
      BY <2>3, <2>5 DEF CheckLayoutNonempty, Failing
    <3>2. UnknownFootprints(layout) = {}
      BY <2>3, <2>5 DEF CheckFootprintSourceCoverage
    <3> QED
      BY <2>3, <2>6, <3>1, <3>2 DEF CompileRefused
  <2>8. matrix = CompileMatrix(kind, layout.keys) /\ c = ApplyMatrix(layout, matrix)
    BY <2>1
  <2>9. Generated(FirmwareOf(d))
    BY ONLY <2>2, <2>3, <2>4, <2>6, <2>8, FirmwareGenerated
  <2>10. (\A n \in KeyLikeOf(layout.elements) : Shorter(layout.elements[n]) > Epsilon)
             => UniqueIds(layout.keys)
    BY ONLY <2>2, <2>3, <2>5, OverlapTells
  <2> QED
    BY <2>1, <2>7, <2>9, <2>10
<1> QED
  BY <1>1, DesignAlways, PTL

\* The default panel of a design that passes validation can be cut: openings of
\* controls of ordinary size, turned by any angle, are on the board and clear of its
\* corner holes, and those of upright controls are clear of each other.
THEOREM ValidatedPanels == Spec => []ValidatedPanelsCut
<1>1. DesignInv => ValidatedPanelsCut
  <2> SUFFICES ASSUME DesignInv, ValidateProject(Design) # "fail",
                      NEW openings, openings = DrawPanel(Loaded, DefaultPanel).openings,
                      NEW board, board = Outline(Loaded, DefaultPanel),
                      NEW controls,
                      controls = {n \in DOMAIN Loaded.elements : Ordinary(Loaded.elements[n])},
                      NEW upright, upright = {n \in controls : Upright(Loaded.elements[n])}
               PROVE  /\ ClearOfBoard(openings, controls, board, CornerHoles(board))
                      /\ ClearOfEachOther(openings, upright, 2 * Scale * Epsilon)
    BY DEF ValidatedPanelsCut
  <2>1. PICK layout, d : layout = Loaded /\ d = Design /\ d.layout = layout
    BY DEF Design
  <2>2. layout.elements \in Seq(PlacedElementSpec)
    BY <2>1, LoadedBoard, BoardOfDocument DEF IsSettled
  <2>3. CheckElementOverlap(d) # "fail"
    BY <2>1, Passing
  <2>4. \A m \in DOMAIN layout.elements :
            \A n \in m + 1 .. Len(layout.elements) :
                ~ Overlap(layout.elements[m], layout.elements[n])
    BY <2>1, <2>3 DEF CheckElementOverlap, Failing, SomePair
  <2>5. /\ openings = DrawPanel(layout, DefaultPanel).openings
        /\ board = Outline(layout, DefaultPanel)
        /\ controls = {n \in DOMAIN layout.elements : Ordinary(layout.elements[n])}
        /\ upright = {n \in controls : Upright(layout.elements[n])}
    BY <2>1
  <2> QED
    BY ONLY <2>2, <2>4, <2>5, PanelClear
<1> QED
  BY <1>1, DesignAlways, PTL

\* The summary of a panel counts what its drawing has, whatever the layout; and the
\* shell of a validated companion has an opening or a cavity for every part it needs.
THEOREM OpeningsMatch == Spec => []OpeningsMatchControls
<1>1. DesignInv => OpeningsMatchControls
  <2> SUFFICES ASSUME DesignInv, Loaded.elements # <<>>
               PROVE  /\ SummaryMatches(Loaded, PanelSummary(Loaded, DefaultPanel),
                                        DrawPanel(Loaded, DefaultPanel),
                                        Drawn(DrawPanel(Loaded, DefaultPanel).openings))
                      /\ /\ family = "handheld_companion"
                         /\ ValidateProject(Design) # "fail"
                         /\ \A n \in DOMAIN Loaded.elements :
                                {Loaded.elements[n].w, Loaded.elements[n].h} \subseteq Nat
                         => ShellComplete(ShellSpec(Loaded, DefaultShell),
                                          OuterShell(Loaded, DefaultShell))
    BY DEF OpeningsMatchControls
  <2>1. PICK layout, d, panel :
            layout = Loaded /\ d = Design /\ panel = DrawPanel(layout, DefaultPanel)
    OBVIOUS
  <2>2. layout.elements \in Seq(PlacedElementSpec)
    BY <2>1, LoadedBoard, BoardOfDocument DEF IsSettled
  <2>3. layout.elements # <<>>
    BY <2>1
  <2>4. d.layout = layout /\ d.family = family
    BY <2>1 DEF Design
  <2>5. SummaryMatches(layout, PanelSummary(layout, DefaultPanel), panel, Drawn(panel.openings))
    BY ONLY <2>1, <2>2, <2>3, SummaryTrue
  <2>6. ASSUME family = "handheld_companion", ValidateProject(d) # "fail",
               \A n \in DOMAIN layout.elements :
                   {layout.elements[n].w, layout.elements[n].h} \subseteq Nat
        PROVE  ShellComplete(ShellSpec(layout, DefaultShell), OuterShell(layout, DefaultShell))
    <3>1. CheckFamilyRequiredModules(d) # "fail"
      BY <2>6 DEF ValidateProject, Verdict
    <3>2. /\ Has(layout, "button", 4)
          /\ \A t \in {"display", "battery", "speaker", "microphone", "usb_port"} : Has(layout, t, 1)
      BY <2>4, <2>6, <3>1 DEF CheckFamilyRequiredModules, Failing
    <3>3. \A n \in DOMAIN layout.elements :
              layout.elements[n].w \in Nat /\ layout.elements[n].h \in Nat
      BY <2>6
    <3> QED
      BY ONLY <2>2, <2>3, <3>2, <3>3, CompanionShell
  <2> QED
    BY <2>1, <2>5, <2>6
<1> QED
  BY <1>1, DesignAlways, PTL

-----------------------------------------------------------------------------
(* What the files of a bundle say of each other.                           *)

\* No row starts where there is no key.
LEMMA NoStarts == StartsAmong({}) = {}
<1>1. Cardinality({}) = 0
  BY FS_EmptySet
<1> QED
  BY <1>1, StartsByStep

\* The elements' ids being unique, so are those of the keys.
LEMMA KeysHaveIds ==
    ASSUME NEW d, IsDocument(d), UniqueIds(d.elements)
    PROVE  UniqueIds(d.keys)
<1>1. PICK pitch \in Nat \ {0}, elements \in Seq(PlacedElementSpec) :
          pitch = d.pitch /\ elements = d.elements /\ d.keys = KeyView(elements, pitch)
  BY BoardOfDocument
<1>2. PICK keys : keys = KeyView(elements, pitch) /\ keys = d.keys
  BY <1>1
<1>3. PICK pos :
          /\ DOMAIN pos = DOMAIN KeyView(elements, pitch)
          /\ \A i \in DOMAIN pos :
                 /\ pos[i] \in KeyLikeOf(elements)
                 /\ KeyView(elements, pitch)[i] = ElementToKey(elements[pos[i]], pitch)
          /\ \A i, j \in DOMAIN pos : i < j => pos[i] < pos[j]
  BY ONLY KeyViewPositions
<1>4. DOMAIN keys = 1 .. Len(keys) /\ Len(keys) \in Nat
  BY <1>2, BoardOfDocument DEF IsBoard
<1>5. ASSUME NEW i \in DOMAIN keys, NEW j \in DOMAIN keys, i < j
      PROVE  keys[i].id # keys[j].id
  <2>1. PICK m, n : m = pos[i] /\ n = pos[j]
    OBVIOUS
  <2>2. m < n /\ m \in KeyLikeOf(elements) /\ n \in KeyLikeOf(elements)
    BY <1>2, <1>3, <1>5, <2>1
  <2>3. keys[i] = ElementToKey(elements[m], pitch) /\ keys[j] = ElementToKey(elements[n], pitch)
    BY <1>2, <1>3, <2>1
  <2>4. m \in DOMAIN elements /\ n \in DOMAIN elements /\ m \in Int /\ n \in Int
    BY <2>2 DEF KeyLikeOf
  <2>5. m # n
    BY <2>2, <2>4
  <2>6. elements[m].id # elements[n].id
    BY <1>1, <2>4, <2>5 DEF UniqueIds
  <2> QED
    BY <2>3, <2>6 DEF ElementToKey
<1>6. \A i, j \in DOMAIN keys : i < j \/ j < i \/ i = j
  BY <1>4
<1> QED
  BY <1>2, <1>5, <1>6 DEF UniqueIds

\* A settled layout whose keys are at the places of its matrix, each with an id of
\* its own: what the firmware files are made from.
KeysInPlace(c, matrix, place) ==
    /\ IsSettled(c) /\ UniqueIds(c.keys) /\ matrix = CompileMatrix(family, c.keys)
    /\ place = Places(c.keys, matrix)
    /\ \A i \in DOMAIN c.keys : c.keys[i].at = place[i]

\* The places of a compiled board are inside its matrix, one for each key.
LEMMA PlacesInMatrix ==
    ASSUME NEW c, NEW matrix, NEW place, KeysInPlace(c, matrix, place)
    PROVE  /\ c.keys \in Seq(KeySpec) /\ IsBoard(c.keys) /\ Placed(c) = c.keys
           /\ DOMAIN place = DOMAIN c.keys
           /\ matrix.rows \in Nat /\ matrix.cols \in Nat
           /\ \A n \in DOMAIN c.keys : place[n] \in (0 .. matrix.rows - 1) \X (0 .. matrix.cols - 1)
           /\ \A m, n \in DOMAIN c.keys : place[m] = place[n] => m = n
<1>1. c.keys \in Seq(KeySpec) /\ IsBoard(c.keys)
  BY BoardOfDocument DEF KeysInPlace, IsSettled
<1>2. PICK rows \in Nat, cols \in Nat : rows = matrix.rows /\ cols = matrix.cols
  BY <1>1, MatrixSize DEF KeysInPlace
<1>3. DOMAIN place = DOMAIN c.keys /\ \A n \in DOMAIN c.keys : place[n] = matrix.places[c.keys[n].id]
  BY DEF KeysInPlace, Places
<1>4. \A n \in DOMAIN c.keys : c.keys[n].id \in DOMAIN matrix.places
  BY IdsOfMatrix DEF KeysInPlace
<1>5. ASSUME NEW n \in DOMAIN c.keys
      PROVE  place[n] \in (0 .. rows - 1) \X (0 .. cols - 1)
  <2>1. matrix = CompileMatrix(family, c.keys)
    BY DEF KeysInPlace
  <2>2. matrix.places[c.keys[n].id] \in (0 .. matrix.rows - 1) \X (0 .. matrix.cols - 1)
    BY ONLY <1>1, <1>4, <2>1, n \in DOMAIN c.keys, PlaceOfId
  <2> QED
    BY <1>2, <1>3, <2>2
<1>6. ASSUME NEW m \in DOMAIN c.keys, NEW n \in DOMAIN c.keys, place[m] = place[n]
      PROVE  m = n
  <2>1. matrix.places[c.keys[m].id] = matrix.places[c.keys[n].id]
    BY <1>3, <1>6
  <2>2. c.keys[m].id = c.keys[n].id
    BY <1>1, <1>4, <2>1, PlacesOfIds DEF KeysInPlace
  <2> QED
    BY <2>2 DEF KeysInPlace, UniqueIds
<1>7. \A n \in DOMAIN c.keys : c.keys[n].at # NoPlace
  <2> TAKE n \in DOMAIN c.keys
  <2>1. PICK p \in (0 .. rows - 1) \X (0 .. cols - 1) : p = c.keys[n].at
    BY <1>5 DEF KeysInPlace
  <2>2. p = <<p[1], p[2]>> /\ <<p[1], p[2]>> # <<>>
    OBVIOUS
  <2> QED
    BY <2>1, <2>2 DEF NoPlace
<1>8. Placed(c) = c.keys
  BY <1>1, <1>7, AllPlaced
<1> QED
  BY <1>1, <1>2, <1>3, <1>5, <1>6, <1>8

\* VIA's rows: every place once, and those of the matrix for equally tall keys.
LEMMA ViaTells ==
    ASSUME NEW c, NEW matrix, NEW place, KeysInPlace(c, matrix, place)
    PROVE  ViaAgrees(c.keys, matrix.rows, place, ViaRows(c))
<1>1. PICK keys, via, cell : keys = c.keys /\ via = ViaRows(c) /\ cell = ViaCells(keys)
  OBVIOUS
<1>2. /\ keys \in Seq(KeySpec) /\ IsBoard(keys) /\ keys = Placed(c) /\ DOMAIN place = DOMAIN keys
      /\ \A m, n \in DOMAIN keys : place[m] = place[n] => m = n
      /\ \A n \in DOMAIN keys : keys[n].at = place[n]
  BY <1>1, PlacesInMatrix DEF KeysInPlace
<1>3. /\ DOMAIN via = 1 .. Cardinality(ViaStarts(keys))
      /\ \A r \in DOMAIN via : \A i \in DOMAIN via[r] : \E n \in DOMAIN keys :
             cell[n][1] = r /\ cell[n][2] = i /\ via[r][i] = keys[n].at
      /\ \A n \in DOMAIN keys :
             /\ cell[n][1] \in DOMAIN via /\ cell[n][2] \in DOMAIN via[cell[n][1]]
             /\ via[cell[n][1]][cell[n][2]] = keys[n].at
             /\ cell[n][1] = ViaRow(keys, n)
  BY ONLY <1>1, <1>2, CellsOfVia
<1>4. PICK rowsOfVia : rowsOfVia = [r \in DOMAIN via |-> Range(via[r])]
  OBVIOUS
<1>5. ASSUME NEW r \in DOMAIN via
      PROVE  rowsOfVia[r] = {place[n] : n \in {m \in DOMAIN keys : ViaRow(keys, m) = r}}
  <2>1. rowsOfVia[r] = {via[r][i] : i \in DOMAIN via[r]}
    BY <1>4 DEF Range
  <2>2. ASSUME NEW i \in DOMAIN via[r]
        PROVE  \E n \in {m \in DOMAIN keys : ViaRow(keys, m) = r} : via[r][i] = place[n]
    BY <1>2, <1>3
  <2>3. ASSUME NEW n \in {m \in DOMAIN keys : ViaRow(keys, m) = r}
        PROVE  \E i \in DOMAIN via[r] : via[r][i] = place[n]
    BY <1>2, <1>3
  <2> QED
    BY <2>1, <2>2, <2>3
<1>6. UNION Range(rowsOfVia) = Range(place)
  <2>1. ASSUME NEW p \in UNION Range(rowsOfVia)
        PROVE  p \in Range(place)
    <3>1. PICK r \in DOMAIN via : p \in rowsOfVia[r]
      BY <1>4 DEF Range
    <3>2. PICK n \in DOMAIN keys : p = place[n]
      BY <1>5, <3>1
    <3> QED
      BY <1>2, <3>2 DEF Range
  <2>2. ASSUME NEW p \in Range(place)
        PROVE  p \in UNION Range(rowsOfVia)
    <3>1. PICK n \in DOMAIN keys : p = place[n]
      BY <1>2 DEF Range
    <3>2. PICK r \in DOMAIN via : ViaRow(keys, n) = r
      BY <1>3
    <3>3. p \in rowsOfVia[r] /\ r \in DOMAIN rowsOfVia
      BY <1>4, <1>5, <3>1, <3>2
    <3> QED
      BY <3>3 DEF Range
  <2> QED
    BY <2>1, <2>2
<1>7. ASSUME NEW r \in DOMAIN via, NEW s \in DOMAIN via,
             NEW i \in DOMAIN via[r], NEW j \in DOMAIN via[s], via[r][i] = via[s][j]
      PROVE  r = s /\ i = j
  <2>1. PICK m \in DOMAIN keys : cell[m][1] = r /\ cell[m][2] = i /\ via[r][i] = keys[m].at
    BY <1>3
  <2>2. PICK n \in DOMAIN keys : cell[n][1] = s /\ cell[n][2] = j /\ via[s][j] = keys[n].at
    BY <1>3
  <2>3. place[m] = keys[m].at /\ place[n] = keys[n].at
    BY <1>2
  <2>4. m = n
    <3>1. place[m] = place[n]
      BY ONLY <1>7, <2>1, <2>2, <2>3
    <3> QED
      BY ONLY <1>2, <3>1, m \in DOMAIN keys, n \in DOMAIN keys
  <2> QED
    BY <2>1, <2>2, <2>4
<1>8. ASSUME Strategy(family) = "physical_rows", \A m, n \in DOMAIN keys : keys[m].h = keys[n].h
      PROVE  rowsOfVia = [r \in 1 .. matrix.rows |-> {p \in Range(place) : p[1] = r - 1}]
  <2>1. PICK h \in Int : OfHeight(keys, h)
    <3>1. CASE DOMAIN keys = {}
      BY <3>1 DEF OfHeight
    <3>2. CASE DOMAIN keys # {}
      <4>1. PICK n \in DOMAIN keys : TRUE
        BY <3>2
      <4>2. keys[n].h \in Int
        BY <1>2 DEF IsBoard
      <4> QED
        BY <1>8, <4>2 DEF OfHeight
    <3> QED
      BY <3>1, <3>2
  <2>2. /\ Cardinality(ViaStarts(keys)) = Cardinality(RowStarts(keys))
        /\ \A n \in DOMAIN keys : ViaRow(keys, n) = ClusterRow(RowStarts(keys), keys[n]) + 1
    BY ONLY <1>2, <2>1, h \in Int, RowsOfEqualHeights
  <2>3. matrix.rows = Cardinality(ViaStarts(keys))
    <3>1. matrix.rows = Rows(family, keys)
      BY <1>1 DEF KeysInPlace, CompileMatrix, WithPlaces
    <3>2. CASE keys = <<>>
      <4>1. ViaStarts(keys) = {}
        <5>1. {2 * keys[n].y : n \in DOMAIN keys} = {}
          BY <3>2
        <5> QED
          BY <5>1, NoStarts DEF ViaStarts
      <4> QED
        BY <3>1, <3>2, <4>1, FS_EmptySet DEF Rows
    <3>3. CASE keys # <<>>
      BY <1>8, <2>2, <3>1, <3>3 DEF Rows
    <3> QED
      BY <3>2, <3>3
  <2>4. \A n \in DOMAIN keys : place[n] = PhysicalRows(keys)[n]
    <3>1. UniqueIds(keys) /\ matrix = CompileMatrix(family, keys) /\ place = Places(keys, matrix)
      BY <1>1 DEF KeysInPlace
    <3>2. \A n \in DOMAIN keys : place[n] = PlacesOf(family, keys)[n]
      BY <3>1, PlacesOfKeys
    <3> QED
      BY <1>8, <3>2 DEF PlacesOf
  <2>5. ASSUME NEW n \in DOMAIN keys
        PROVE  place[n][1] = ViaRow(keys, n) - 1 /\ ViaRow(keys, n) \in Int
    <3>1. PhysicalRows(keys)[n][1] = ClusterRow(RowStarts(keys), keys[n])
      BY DEF PhysicalRows
    <3>2. PICK r \in 1 .. Cardinality(ViaStarts(keys)) : ViaRow(keys, n) = r
      BY <1>3
    <3>3. PICK k \in Int : k = ClusterRow(RowStarts(keys), keys[n])
      BY <1>2, RowsOfCenters
    <3> QED
      BY <2>2, <2>4, <3>1, <3>2, <3>3
  <2>6. DOMAIN rowsOfVia = 1 .. matrix.rows
    BY <1>3, <1>4, <2>3
  <2>7. ASSUME NEW r \in 1 .. matrix.rows
        PROVE  rowsOfVia[r] = {p \in Range(place) : p[1] = r - 1}
    <3>1. rowsOfVia[r] = {place[n] : n \in {m \in DOMAIN keys : ViaRow(keys, m) = r}}
      BY <1>4, <1>5, <2>6
    <3>2. \A n \in DOMAIN keys : ViaRow(keys, n) = r <=> place[n][1] = r - 1
      BY <2>5
    <3>3. Range(place) = {place[n] : n \in DOMAIN keys}
      BY <1>2 DEF Range
    <3> QED
      BY <3>1, <3>2, <3>3
  <2> QED
    BY <1>4, <2>6, <2>7
<1> QED
  BY <1>1, <1>4, <1>6, <1>7, <1>8 DEF ViaAgrees

\* The control map says of each element its id and its place.
LEMMA ControlMapTells ==
    ASSUME NEW kind, NEW layout, NEW n \in DOMAIN layout.elements,
           NEW map, map = ControlMap(kind, layout)
    PROVE  /\ n \in DOMAIN map /\ map[n].id = layout.elements[n].id
           /\ map[n].matrix = layout.elements[n].at
<1>1. PICK e, index : /\ e = layout.elements[n]
                      /\ index = Cardinality({m \in 1 .. n - 1 : layout.elements[m].type = e.type})
  OBVIOUS
<1>2. DOMAIN map = DOMAIN layout.elements
  BY DEF ControlMap
<1>3. map[n] = [id |-> e.id, type |-> e.type, matrix |-> e.at,
                mapping |-> ControlMapping(kind, e, index)]
  BY <1>1 DEF ControlMap
<1> QED
  BY ONLY <1>1, <1>2, <1>3, n \in DOMAIN layout.elements

\* Keymap, control map and VIA tell one place for each key.
LEMMA FirmwareTells ==
    ASSUME NEW d, IsSettled(d), UniqueIds(d.keys),
           NEW matrix, matrix = CompileMatrix(family, d.keys),
           NEW c, c = ApplyMatrix(d, matrix),
           NEW firmware, firmware = WriteFirmwareFiles(family, Controller, c, matrix)
    PROVE  FirmwareAgrees(d.keys, matrix, Places(d.keys, matrix), firmware)
<1>1. PICK place : place = Places(d.keys, matrix)
  OBVIOUS
<1>2. CompiledFrom(c, d, family, matrix)
  BY MatrixApplied
<1>3. /\ IsSettled(c) /\ DOMAIN c.keys = DOMAIN d.keys
      /\ DOMAIN c.elements = DOMAIN d.elements /\ SameControls(c, d, matrix)
      /\ CompileMatrix(family, c.keys) = matrix
      /\ \A i \in DOMAIN c.keys :
             /\ c.keys[i].id = d.keys[i].id /\ c.keys[i].label = d.keys[i].label
             /\ c.keys[i].h = d.keys[i].h
             /\ c.keys[i].id \in DOMAIN matrix.places
             /\ c.keys[i].at = matrix.places[c.keys[i].id]
             /\ \E n \in DOMAIN c.elements : c.elements[n].id = c.keys[i].id
  BY <1>2 DEF CompiledFrom
<1>4. /\ DOMAIN place = DOMAIN d.keys
      /\ \A n \in DOMAIN d.keys : place[n] = matrix.places[d.keys[n].id] /\ place[n] = c.keys[n].at
  BY <1>1, <1>3 DEF Places
<1>5. KeysInPlace(c, matrix, place)
  <2>1. place = Places(c.keys, matrix)
    BY <1>1, <1>3 DEF Places
  <2>2. UniqueIds(c.keys)
    BY <1>3 DEF UniqueIds
  <2> QED
    BY <1>3, <1>4, <2>1, <2>2 DEF KeysInPlace
<1>6. PICK rows \in Nat, cols \in Nat : rows = matrix.rows /\ cols = matrix.cols
  BY <1>5, PlacesInMatrix
<1>7. PICK keys \in Seq(KeySpec) : keys = c.keys /\ keys = Placed(c)
  BY <1>5, PlacesInMatrix
<1>8. ApartWithin(keys, rows, cols)
  <2>1. /\ \A n \in DOMAIN keys : place[n] \in (0 .. rows - 1) \X (0 .. cols - 1)
        /\ \A m, n \in DOMAIN keys : place[m] = place[n] => m = n
    BY <1>5, <1>6, <1>7, PlacesInMatrix
  <2>2. \A n \in DOMAIN keys : place[n] = keys[n].at
    BY <1>3, <1>4, <1>7
  <2> QED
    BY ONLY <2>1, <2>2 DEF ApartWithin
<1>9. ASSUME NEW n \in DOMAIN d.keys
      PROVE  firmware.keymap.layer[place[n][1] * matrix.cols + place[n][2] + 1]
                 = LabelToKeycode(d.keys[n].label)
  <2>1. PICK p : p = place[n] /\ p = keys[n].at /\ n \in DOMAIN keys
    BY <1>3, <1>4, <1>7
  <2>2. Keymap(c, matrix).layer[p[1] * cols + p[2] + 1] = LabelToKeycode(keys[n].label)
    BY ONLY <1>6, <1>7, <1>8, <2>1, rows \in Nat, cols \in Nat, keys \in Seq(KeySpec),
            KeymapTells
  <2>3. firmware.keymap = Keymap(c, matrix)
    BY DEF WriteFirmwareFiles
  <2>4. keys[n].label = d.keys[n].label
    BY <1>3, <1>7, <2>1
  <2> QED
    BY <1>6, <2>1, <2>2, <2>3, <2>4
<1>10. ASSUME NEW n \in DOMAIN d.keys
      PROVE  \E e \in DOMAIN firmware.map :
                 firmware.map[e].id = d.keys[n].id /\ firmware.map[e].matrix = place[n]
  <2>1. PICK e \in DOMAIN c.elements : c.elements[e].id = d.keys[n].id
    BY <1>3
  <2>2. c.elements[e].at = place[n]
    BY <1>3, <1>4, <2>1 DEF SameControls
  <2>3. firmware.map = ControlMap(family, c)
    BY DEF WriteFirmwareFiles
  <2>4. e \in DOMAIN firmware.map /\ firmware.map[e].id = c.elements[e].id
        /\ firmware.map[e].matrix = c.elements[e].at
    BY ONLY <2>3, e \in DOMAIN c.elements, ControlMapTells
  <2> QED
    BY <2>1, <2>2, <2>4
<1>11. ViaAgrees(d.keys, matrix.rows, place, firmware.via)
  <2>1. PICK via : via = ViaRows(c) /\ via = firmware.via
    BY DEF WriteFirmwareFiles
  <2>2. ViaAgrees(c.keys, matrix.rows, place, via)
    BY <1>5, <2>1, ViaTells
  <2>3. (\A m, n \in DOMAIN d.keys : d.keys[m].h = d.keys[n].h)
            => \A m, n \in DOMAIN c.keys : c.keys[m].h = c.keys[n].h
    BY <1>3
  <2> QED
    BY <2>1, <2>2, <2>3 DEF ViaAgrees
<1> QED
  BY <1>1, <1>9, <1>10, <1>11 DEF FirmwareAgrees

\* Validation reads no places: of the compiled copy it says what it says of the design.
LEMMA VerdictOfCompiled ==
    ASSUME NEW kind, NEW layout, IsSettled(layout), NEW chosen, NEW attached,
           NEW matrix, matrix = CompileMatrix(kind, layout.keys),
           NEW copy, copy = ApplyMatrix(layout, matrix),
           NEW c, c = DesignOf(kind, copy, chosen, attached),
           NEW d, d = DesignOf(kind, layout, chosen, attached)
    PROVE  ValidateProject(c) = ValidateProject(d)
<1>1. /\ c.family = kind /\ c.layout = copy /\ c.switch = chosen /\ c.assets = attached
      /\ d.family = kind /\ d.layout = layout /\ d.switch = chosen /\ d.assets = attached
      /\ c.controller = Controller /\ d.controller = Controller
  BY DEF DesignOf
<1>2. CompiledFrom(copy, layout, kind, matrix)
  BY MatrixApplied
<1>3. PICK es, fs : es = copy.elements /\ fs = layout.elements
  OBVIOUS
<1>4. /\ DOMAIN es = DOMAIN fs /\ Len(es) = Len(fs) /\ copy.pitch = layout.pitch
      /\ fs \in Seq(PlacedElementSpec) /\ es \in Seq(PlacedElementSpec)
      /\ \A n \in DOMAIN fs :
             /\ es[n].id = fs[n].id /\ es[n].type = fs[n].type /\ es[n].label = fs[n].label
             /\ es[n].footprint = fs[n].footprint
             /\ es[n].x = fs[n].x /\ es[n].y = fs[n].y /\ es[n].w = fs[n].w /\ es[n].h = fs[n].h
             /\ es[n].stab = fs[n].stab /\ es[n].asset = fs[n].asset /\ es[n].look = fs[n].look
  BY <1>2, <1>3, BoardOfDocument DEF CompiledFrom, IsSettled, SameControls
<1>5. \A type : OfType(copy, type) = OfType(layout, type)
  BY <1>3, <1>4 DEF OfType
<1>6. CheckLayoutNonempty(c) = CheckLayoutNonempty(d)
  <2>1. es = <<>> <=> fs = <<>>
    BY <1>4
  <2> QED
    BY <1>1, <1>3, <2>1 DEF CheckLayoutNonempty
<1>7. CheckFamilyRequiredModules(c) = CheckFamilyRequiredModules(d)
  <2>1. \A type, count : Has(copy, type, count) = Has(layout, type, count)
    BY <1>5 DEF Has
  <2> QED
    BY <1>1, <2>1 DEF CheckFamilyRequiredModules
<1>8. \A m, n \in DOMAIN fs : Overlap(es[m], es[n]) <=> Overlap(fs[m], fs[n])
  BY <1>4 DEF Overlap
<1>9. \A m \in DOMAIN fs : \A n \in m + 1 .. Len(fs) : n \in DOMAIN fs
  BY <1>4
<1>10. CheckElementOverlap(c) = CheckElementOverlap(d)
  <2>1. SomePair(copy, Overlap) <=> SomePair(layout, Overlap)
    BY <1>3, <1>4, <1>8, <1>9 DEF SomePair
  <2> QED
    BY <1>1, <2>1 DEF CheckElementOverlap, Failing
<1>11. CheckControlClearance(c) = CheckControlClearance(d)
  <2>1. \A m, n \in DOMAIN fs : \A required :
            GapBelow(es[m], es[n], required) <=> GapBelow(fs[m], fs[n], required)
    BY <1>4 DEF GapBelow
  <2>2. \A m, n \in DOMAIN fs :
            (/\ {es[m].type, es[n].type} \subseteq Interactive /\ ~ Overlap(es[m], es[n])
             /\ GapBelow(es[m], es[n], AtLeast(MinClearance[es[m].type], MinClearance[es[n].type])))
        <=> (/\ {fs[m].type, fs[n].type} \subseteq Interactive /\ ~ Overlap(fs[m], fs[n])
             /\ GapBelow(fs[m], fs[n], AtLeast(MinClearance[fs[m].type], MinClearance[fs[n].type])))
    BY <1>4, <1>8, <2>1
  <2>3. (\E m \in DOMAIN es : \E n \in m + 1 .. Len(es) :
             /\ {es[m].type, es[n].type} \subseteq Interactive /\ ~ Overlap(es[m], es[n])
             /\ GapBelow(es[m], es[n], AtLeast(MinClearance[es[m].type], MinClearance[es[n].type])))
        <=> (\E m \in DOMAIN fs : \E n \in m + 1 .. Len(fs) :
             /\ {fs[m].type, fs[n].type} \subseteq Interactive /\ ~ Overlap(fs[m], fs[n])
             /\ GapBelow(fs[m], fs[n], AtLeast(MinClearance[fs[m].type], MinClearance[fs[n].type])))
    BY <1>4, <1>9, <2>2
  <2> QED
    BY <1>1, <1>3, <2>3 DEF CheckControlClearance, Warning, SomePair
<1>12. CheckStabilizers(c) = CheckStabilizers(d)
  BY <1>1, <1>3, <1>4 DEF CheckStabilizers, Warning, SomeElement
<1>13. PinsRemaining(c) = PinsRemaining(d)
  <2>1. /\ SameShape(copy.elements, layout.elements)
        /\ DOMAIN copy.elements = DOMAIN layout.elements /\ Len(copy.keys) = Len(layout.keys)
        /\ CompileMatrix(kind, copy.keys) = CompileMatrix(kind, layout.keys)
    BY <1>2 DEF CompiledFrom
  <2>2. CompileElectronics(kind, Controller, copy) = CompileElectronics(kind, Controller, layout)
    BY ONLY <2>1, ElectronicsOfSameShape
  <2> QED
    BY <1>1, <2>2 DEF PinsRemaining
<1>14. CheckMatrixFeasibility(c) = CheckMatrixFeasibility(d)
  <2>1. DirectUsage(copy) = DirectUsage(layout)
    BY <1>5 DEF DirectUsage
  <2>2. SomeElement(copy, LAMBDA e : e.type \in KeyLike)
            <=> SomeElement(layout, LAMBDA e : e.type \in KeyLike)
    BY <1>3, <1>4 DEF SomeElement
  <2> QED
    BY <1>1, <1>13, <2>1, <2>2 DEF CheckMatrixFeasibility
<1>15. CheckFootprintSourceCoverage(c) = CheckFootprintSourceCoverage(d)
  <2>1. UsedFootprints(copy) = UsedFootprints(layout)
    BY <1>3, <1>4 DEF UsedFootprints
  <2> QED
    BY <1>1, <2>1 DEF CheckFootprintSourceCoverage, UnknownFootprints, ReadinessUsed
<1>16. CheckControlLabels(c) = CheckControlLabels(d)
  <2>1. (\E n \in DOMAIN es : es[n].type \in Interactive /\ es[n].label = "")
            <=> (\E n \in DOMAIN fs : fs[n].type \in Interactive /\ fs[n].label = "")
    BY <1>4
  <2>2. SomeElement(copy, LAMBDA e : e.type \in Interactive /\ e.label = "")
            <=> SomeElement(layout, LAMBDA e : e.type \in Interactive /\ e.label = "")
    BY <1>3, <2>1 DEF SomeElement
  <2> QED
    BY <1>1, <2>2 DEF CheckControlLabels, Warning
<1>17. CheckSwitchSelected(c) = CheckSwitchSelected(d)
  BY <1>1, <1>5 DEF CheckSwitchSelected, Has
<1>18. CheckAssignedAssetAcceptance(c) = CheckAssignedAssetAcceptance(d)
  <2>1. \A n \in DOMAIN fs : AssignedAsset(es[n]) = AssignedAsset(fs[n])
    BY <1>4 DEF AssignedAsset
  <2> QED
    BY <1>1, <1>3, <1>4, <2>1 DEF CheckAssignedAssetAcceptance, Failing, SomeElement
<1> QED
  BY <1>6, <1>7, <1>10, <1>11, <1>12, <1>14, <1>15, <1>16, <1>17, <1>18 DEF ValidateProject

\* The files of a bundle agree with each other and with what the preview promised: one
\* place of the matrix for each key in the keymap, in the control map and in VIA, rows
\* of VIA that are the matrix's for equally tall keys, as many controls as are scanned.
THEOREM FilesAgree == Spec => []ExportedFilesAgree
<1>1. DesignInv => ExportedFilesAgree
  <2> SUFFICES ASSUME DesignInv, UniqueIds(Loaded.elements), ValidateProject(Design) # "fail"
               PROVE  LET matrix == CompileMatrix(family, Loaded.keys)
                          content == ExportBundle(Design)
                          preview == ExportPreview(Design)
                      IN  /\ FirmwareAgrees(Loaded.keys, matrix, Places(Loaded.keys, matrix),
                                            content.firmware)
                          /\ content.bom.controls = content.bom.matrixControls
                          /\ \A part \in DOMAIN preview : preview[part] = content[part]
    BY DEF ExportedFilesAgree, BundleAgrees, ExportBundle, BundleOf
  <2>1. PICK layout, d, matrix, copy, c :
            /\ layout = Loaded /\ d = Design /\ d = DesignOf(family, layout, switch, assets)
            /\ matrix = CompileMatrix(family, layout.keys) /\ copy = ApplyMatrix(layout, matrix)
            /\ c = DesignOf(family, copy, switch, assets)
    BY DesignIsOf
  <2>2. IsSettled(layout) /\ UniqueIds(layout.elements)
    BY <2>1, LoadedBoard
  <2>3. UniqueIds(layout.keys)
    BY <2>2, KeysHaveIds DEF IsSettled
  <2>4. Compiled(d) = c /\ d.family = family /\ d.controller = Controller /\ d.layout = layout
    BY <2>1 DEF Compiled, DesignOf
  <2>5. c.family = family /\ c.layout = copy /\ c.controller = Controller
    BY <2>1 DEF DesignOf
  <2>6. PICK verdict : verdict = ValidateProject(d) /\ verdict = ValidateProject(c)
    BY <2>1, <2>2, VerdictOfCompiled
  <2>7. PICK content, preview : content = BundleOf(d, verdict) /\ preview = PreviewOf(c, verdict)
    OBVIOUS
  <2>8. content = ExportBundle(d) /\ preview = ExportPreview(d)
    BY <2>4, <2>6, <2>7 DEF ExportBundle, ExportPreview
  <2>9. FirmwareAgrees(layout.keys, matrix, Places(layout.keys, matrix), content.firmware)
    <3>1. content.firmware = WriteFirmwareFiles(family, Controller, copy, matrix)
      BY <2>1, <2>4, <2>5, <2>7 DEF BundleOf, FirmwareOf
    <3> QED
      BY <2>1, <2>2, <2>3, <3>1, FirmwareTells
  <2>10. content.bom.controls = content.bom.matrixControls
    <3>1. CompiledFrom(copy, layout, family, matrix)
      BY <2>1, <2>2, MatrixApplied
    <3>2. PICK pitch \in Nat \ {0}, elements \in Seq(PlacedElementSpec) :
              pitch = copy.pitch /\ elements = copy.elements /\ copy.keys = KeyView(elements, pitch)
      BY <3>1, BoardOfDocument DEF CompiledFrom, IsSettled
    <3>3. Len(copy.keys) = Cardinality(KeyLikeOf(elements))
      BY <3>2, KeyViewLength
    <3>4. content.bom.controls = Cardinality(SwitchLike(copy))
          /\ content.bom.matrixControls = Len(copy.keys)
      BY <2>4, <2>5, <2>7 DEF BundleOf, ReviewBom, BomOn, CompileElectronics, ElectronicsOn
    <3> QED
      BY <3>2, <3>3, <3>4 DEF SwitchLike, KeyLikeOf
  <2>11. \A part \in DOMAIN preview : preview[part] = content[part]
    <3>1. IncludedFiles(family) = BundleFiles(family)
      BY DEF IncludedFiles, BundleFiles, BundledFiles, MechanicalOutput, FirmwareFiles
    <3>2. ReadinessOf(verdict) = IF verdict = "pass" THEN "review_ready" ELSE "candidate"
      BY <2>1, <2>6 DEF ReadinessOf
    <3>3. /\ preview.verdict = content.verdict /\ preview.readiness = content.readiness
          /\ preview.files = content.files /\ preview.bom = content.bom
      BY <2>4, <2>5, <2>7, <3>1, <3>2 DEF PreviewOf, BundleOf
    <3>4. DOMAIN preview = {"verdict", "readiness", "files", "bom"}
      BY <2>7 DEF PreviewOf
    <3> QED
      BY <3>3, <3>4
  <2> QED
    BY <2>1, <2>8, <2>9, <2>10, <2>11
<1> QED
  BY <1>1, DesignAlways, PTL
==============================================================================

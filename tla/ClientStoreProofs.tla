------------------------- MODULE ClientStoreProofs -------------------------
(***************************************************************************)
(* Proofs about ClientStore, for any tabs, projects, marks and slots.      *)
(***************************************************************************)
EXTENDS ClientStore, SequenceTheorems, TLAPS

-----------------------------------------------------------------------------
(* Types.                                                                  *)

\* TypeOK, with what the kinds and states of calls imply.
CallsFit ==
    \A t \in Tabs, s \in Slots :
        LET call == calls[t][s]
        IN  /\ call.state # "free" => call.id \in Projects
            /\ call.state = "refused" => call.kind = "save"

HistoriesStart == \A p \in Projects : history[p] # <<>>

TypeInv == TypeOK /\ CallsFit /\ HistoriesStart

\* Newest keeps a stack a stack, within the limit, and a stack within it as it is.
LEMMA NewestStack ==
    ASSUME NEW S, NEW stack \in Seq(S)
    PROVE  /\ Newest(stack) \in Seq(S)
           /\ Len(Newest(stack)) <= MaxUndo
           /\ Len(stack) <= MaxUndo => Newest(stack) = stack
BY ClientAssumption DEF Newest

\* The stacks of a layout pushed or taken.
LEMMA Stacks ==
    ASSUME NEW S, NEW stack \in Seq(S), NEW e \in S
    PROVE  /\ Append(stack, e) \in Seq(S)
           /\ Len(Append(stack, e)) = Len(stack) + 1
           /\ stack # <<>> =>
                /\ LastOf(stack) \in S
                /\ ButLast(stack) \in Seq(S)
                /\ Len(ButLast(stack)) = Len(stack) - 1
                /\ Len(stack) >= 1
<1>1. /\ Append(stack, e) \in Seq(S)
      /\ Len(Append(stack, e)) = Len(stack) + 1
    OBVIOUS
<1>2. ASSUME stack # <<>>
      PROVE  /\ LastOf(stack) \in S
             /\ ButLast(stack) \in Seq(S)
             /\ Len(ButLast(stack)) = Len(stack) - 1
             /\ Len(stack) >= 1
    <2>1. Len(stack) \in Nat /\ Len(stack) >= 1
        BY <1>2, EmptySeq, LenProperties
    <2>2. LastOf(stack) \in S
        BY <2>1, ElementOfSeq DEF LastOf
    <2>3. ButLast(stack) \in Seq(S) /\ Len(ButLast(stack)) = Len(stack) - 1
        <3>1. \A i \in 1 .. Len(stack) - 1 : stack[i] \in S
            BY <2>1, ElementOfSeq
        <3>2. Len(stack) - 1 \in Int /\ 1 \in Int
            BY <2>1
        <3>3. /\ SubSeq(stack, 1, Len(stack) - 1) \in Seq(S)
              /\ Len(SubSeq(stack, 1, Len(stack) - 1)) =
                    IF 1 <= Len(stack) - 1 THEN Len(stack) - 1 - 1 + 1 ELSE 0
            BY <3>1, <3>2, SubSeqProperties
        <3>4. Len(SubSeq(stack, 1, Len(stack) - 1)) = Len(stack) - 1
            <4>1. ASSUME NEW n \in Nat, n >= 1, NEW k,
                         k = IF 1 <= n - 1 THEN n - 1 - 1 + 1 ELSE 0
                  PROVE  k = n - 1
                BY <4>1
            <4> QED BY <2>1, <3>3, <4>1
        <3> QED BY <3>3, <3>4 DEF ButLast
    <2> QED BY <2>1, <2>2, <2>3
<1> QED BY <1>1, <1>2

\* What is remembered of a store is a store.
LEMMA RememberedStore ==
    ASSUME NEW store \in Stores
    PROVE  Remembered(store) \in Stores
<1>1. Newest(Append(store.undo, store.layout)) \in Seq(SUBSET Marks)
    BY NewestStack, Stacks DEF Stores
<1>2. <<>> \in Seq(SUBSET Marks)
    OBVIOUS
<1> QED BY <1>1, <1>2 DEF Remembered, Stores

LEMMA WithLayoutStore ==
    ASSUME NEW store \in Stores, NEW layout \in SUBSET Marks
    PROVE  WithLayout(store, layout) \in Stores
BY DEF WithLayout, Stores, Fields

\* A tab shows a store.
LEMMA ShowType ==
    ASSUME TypeOK, NEW t \in Tabs, NEW store \in Stores, Show(t, store)
    PROVE  /\ tab' \in [Tabs -> Stores]
           /\ seen' \in [Tabs -> SUBSET Marks]
<1>1. MarksOf(store) \subseteq Marks
    BY DEF MarksOf, Stores
<1> QED BY <1>1 DEF TypeOK, Show

LEMMA FreeCall == Free \in Calls
BY DEF Free, Calls

LEMMA CallType ==
    ASSUME NEW kind \in {"load", "action", "save"}, NEW p \in Projects
    PROVE  /\ Call(kind, p) \in Calls
           /\ Call(kind, p).id = p /\ Call(kind, p).kind = kind
           /\ Call(kind, p).state = "sent"
BY FreeCall DEF Call, Free, Calls

\* A slot takes a call.
LEMMA SlotType ==
    ASSUME TypeInv, NEW t \in Tabs, NEW s \in Slots, NEW c \in Calls,
           c.state # "free" => c.id \in Projects,
           c.state = "refused" => c.kind = "save",
           calls' = [calls EXCEPT ![t][s] = c]
    PROVE  /\ calls' \in [Tabs -> [Slots -> Calls]]
           /\ CallsFit'
BY DEF TypeInv, TypeOK, CallsFit

\* A project gets one more revision.
LEMMA RecordType ==
    ASSUME TypeInv, NEW p \in Projects, NEW revision \in Revisions, Record(p, revision)
    PROVE  /\ history' \in [Projects -> Seq(Revisions)]
           /\ HistoriesStart'
<1> DEFINE longer == Append(history[p], revision)
<1>1. history[p] \in Seq(Revisions)
    BY DEF TypeInv, TypeOK
<1>2. longer \in Seq(Revisions) /\ longer # <<>>
    BY <1>1
<1>3. history' = [history EXCEPT ![p] = longer]
    BY DEF Record
<1> HIDE DEF longer
<1> QED BY <1>2, <1>3 DEF TypeInv, TypeOK, HistoriesStart

LEMMA LatestType ==
    ASSUME TypeInv, NEW p \in Projects
    PROVE  /\ Latest(p) \in Revisions
           /\ Len(history[p]) \in DOMAIN history[p]
           /\ Len(history[p]) \in Nat
BY DEF TypeInv, TypeOK, HistoriesStart, Latest

LEMMA TypeInit == Init => TypeInv
<1> SUFFICES ASSUME Init PROVE TypeInv
    OBVIOUS
<1>1. Created \in Revisions
    BY DEF Created, Revisions
<1>2. history \in [Projects -> Seq(Revisions)] /\ HistoriesStart
    BY <1>1 DEF Init, HistoriesStart
<1>3. tab \in [Tabs -> Stores]
    <2>1. \A p \in Projects :
             [route |-> p, id |-> p, revision |-> 1,
              layout |-> {}, switch |-> Nothing, dirty |-> {},
              undo |-> <<>>, redo |-> <<>>,
              loading |-> FALSE, failed |-> FALSE] \in Stores
        BY DEF Stores
    <2> QED BY <2>1 DEF Init
<1>4. calls \in [Tabs -> [Slots -> Calls]] /\ CallsFit
    BY FreeCall DEF Init, CallsFit, Free
<1>5. seen \in [Tabs -> SUBSET Marks] /\ minted \in [Marks -> Projects \cup {Nothing}]
    BY DEF Init
<1> QED BY <1>2, <1>3, <1>4, <1>5 DEF TypeInv, TypeOK

\* An answer taken by a store.
LEMMA TakeType ==
    ASSUME TypeInv, NEW t \in Tabs, NEW s \in Slots, NEW store \in Stores, Take(t, s, store)
    PROVE  /\ tab' \in [Tabs -> Stores]
           /\ seen' \in [Tabs -> SUBSET Marks]
           /\ calls' \in [Tabs -> [Slots -> Calls]]
           /\ CallsFit'
<1>1. CASE Reloads(tab[t], store)
    <2>1. [store EXCEPT !.loading = TRUE] \in Stores
        BY DEF Stores
    <2>2. Show(t, [store EXCEPT !.loading = TRUE])
        BY <1>1 DEF Take
    <2>3. calls' = [calls EXCEPT ![t][s] = Call("load", store.route)]
        BY <1>1 DEF Take
    <2>4. store.route \in Projects
        BY DEF Stores
    <2>5. /\ Call("load", store.route) \in Calls
          /\ Call("load", store.route).id \in Projects
          /\ Call("load", store.route).state = "sent"
        BY <2>4, CallType
    <2>6. calls' \in [Tabs -> [Slots -> Calls]] /\ CallsFit'
        BY <2>3, <2>5, SlotType
    <2> QED BY <2>1, <2>2, <2>6, ShowType DEF TypeInv
<1>2. CASE ~Reloads(tab[t], store)
    <2>1. Show(t, store) /\ calls' = [calls EXCEPT ![t][s] = Free]
        BY <1>2 DEF Take
    <2>2. Free.state = "free"
        BY DEF Free
    <2>3. calls' \in [Tabs -> [Slots -> Calls]] /\ CallsFit'
        BY <2>1, <2>2, FreeCall, SlotType
    <2> QED BY <2>1, <2>3, ShowType DEF TypeInv
<1> QED BY <1>1, <1>2

LEMMA ReplacedStore ==
    ASSUME NEW store \in Stores, NEW call \in Calls, call.id \in Projects
    PROVE  Replaced(store, call) \in Stores
BY DEF Replaced, Stores, Calls, Fields

\* Editing keeps the types.
LEMMA TypeEdit ==
    ASSUME TypeInv, NEW t \in Tabs, Edit(t)
    PROVE  TypeInv'
<1> DEFINE store == tab[t]
<1>1. store \in Stores
    BY DEF TypeInv, TypeOK
<1>2. /\ store.layout \in SUBSET Marks
      /\ store.undo \in Seq(SUBSET Marks)
      /\ store.redo \in Seq(SUBSET Marks)
      /\ Remembered(store) \in Stores
    BY <1>1, RememberedStore DEF Stores
<1>3. history' = history /\ calls' = calls
    BY DEF Edit, PushUndo, Undo, Redo, UpdateElement, AddElement, RemoveElement, SetSwitch
<1>4. minted' \in [Marks -> Projects \cup {Nothing}]
    <2>1. minted' = minted \/ \E m \in Marks : Mint(t, m)
        BY DEF Edit, PushUndo, Undo, Redo, UpdateElement, AddElement, RemoveElement, SetSwitch
    <2>2. store.id \in Projects
        BY <1>1 DEF Stores
    <2> QED BY <2>1, <2>2 DEF TypeInv, TypeOK, Mint
<1>5. \E new \in Stores : Show(t, new)
    <2>1. CASE PushUndo(t)
        BY <2>1, <1>2 DEF PushUndo
    <2>2. CASE Undo(t)
        <3>1. /\ ButLast(store.undo) \in Seq(SUBSET Marks)
              /\ LastOf(store.undo) \in SUBSET Marks
            BY <2>2, <1>2, Stacks DEF Undo
        <3>2. Newest(Append(store.redo, store.layout)) \in Seq(SUBSET Marks)
            BY <1>2, Stacks, NewestStack
        <3>3. [store EXCEPT !.undo = ButLast(@),
                            !.redo = Newest(Append(@, store.layout))] \in Stores
            BY <1>1, <3>1, <3>2 DEF Stores
        <3> QED BY <2>2, <3>1, <3>3, WithLayoutStore DEF Undo
    <2>3. CASE Redo(t)
        <3>1. /\ ButLast(store.redo) \in Seq(SUBSET Marks)
              /\ LastOf(store.redo) \in SUBSET Marks
            BY <2>3, <1>2, Stacks DEF Redo
        <3>2. Newest(Append(store.undo, store.layout)) \in Seq(SUBSET Marks)
            BY <1>2, Stacks, NewestStack
        <3>3. [store EXCEPT !.redo = ButLast(@),
                            !.undo = Newest(Append(@, store.layout))] \in Stores
            BY <1>1, <3>1, <3>2 DEF Stores
        <3> QED BY <2>3, <3>1, <3>3, WithLayoutStore DEF Redo
    <2>4. ASSUME NEW old \in Marks, NEW new \in Marks, UpdateElement(t, old, new)
          PROVE  \E s \in Stores : Show(t, s)
        BY <2>4, <1>1, <1>2, WithLayoutStore DEF UpdateElement
    <2>5. ASSUME NEW m \in Marks, AddElement(t, m)
          PROVE  \E s \in Stores : Show(t, s)
        BY <2>5, <1>2, WithLayoutStore DEF AddElement
    <2>6. ASSUME NEW m \in Marks, RemoveElement(t, m)
          PROVE  \E s \in Stores : Show(t, s)
        BY <2>6, <1>2, WithLayoutStore DEF RemoveElement
    <2>7. ASSUME NEW m \in Marks, SetSwitch(t, m)
          PROVE  \E s \in Stores : Show(t, s)
        <3>1. [store EXCEPT !.switch = m, !.dirty = @ \cup {"switch"}] \in Stores
            BY <1>1 DEF Stores, Fields
        <3> QED BY <2>7, <3>1 DEF SetSwitch
    <2> QED BY <2>1, <2>2, <2>3, <2>4, <2>5, <2>6, <2>7 DEF Edit
<1>6. tab' \in [Tabs -> Stores] /\ seen' \in [Tabs -> SUBSET Marks]
    BY <1>5, ShowType DEF TypeInv
<1> QED BY <1>3, <1>4, <1>6 DEF TypeInv, TypeOK, CallsFit, HistoriesStart

\* Sending a call keeps the types.
LEMMA TypeSend ==
    ASSUME TypeInv, NEW t \in Tabs,
           \/ \E p \in Projects : Navigate(t, p)
           \/ ReloadLatest(t) \/ StartAction(t) \/ Save(t)
    PROVE  TypeInv'
<1>1. tab[t] \in Stores /\ tab[t].id \in Projects
    BY DEF TypeInv, TypeOK, Stores
<1>2. UNCHANGED <<history, seen, minted>>
    BY DEF Navigate, ReloadLatest, StartAction, Save
<1>3. tab' \in [Tabs -> Stores]
    <2>1. /\ [tab[t] EXCEPT !.loading = TRUE] \in Stores
          /\ \A p \in Projects :
                /\ [tab[t] EXCEPT !.route = p] \in Stores
                /\ [tab[t] EXCEPT !.route = p, !.loading = TRUE] \in Stores
        BY <1>1 DEF Stores
    <2>2. \/ tab' = tab
          \/ \E store \in Stores : tab' = [tab EXCEPT ![t] = store]
        <3>1. ASSUME NEW p \in Projects, Navigate(t, p)
              PROVE  <2>2!2
            <4>1. CASE p = tab[t].id
                BY <3>1, <4>1, <2>1 DEF Navigate
            <4>2. CASE p # tab[t].id
                <5>1. tab' = [tab EXCEPT ![t].route = p, ![t].loading = TRUE]
                    BY <3>1, <4>2 DEF Navigate
                <5>2. tab' = [tab EXCEPT ![t] = [tab[t] EXCEPT !.route = p, !.loading = TRUE]]
                    BY <5>1 DEF TypeInv, TypeOK
                <5> QED BY <5>2, <2>1
            <4> QED BY <4>1, <4>2
        <3>2. CASE ReloadLatest(t)
            BY <3>2, <2>1 DEF ReloadLatest
        <3>3. CASE StartAction(t)
            BY <3>3 DEF StartAction
        <3>4. CASE Save(t)
            BY <3>4, <2>1 DEF Save
        <3> QED BY <3>1, <3>2, <3>3, <3>4
    <2> QED BY <2>2 DEF TypeInv, TypeOK
<1>4. \/ UNCHANGED calls
      \/ \E s \in Slots, c \in Calls :
            /\ c.id \in Projects /\ c.state = "sent"
            /\ calls' = [calls EXCEPT ![t][s] = c]
    <2>1. ASSUME NEW p \in Projects, Navigate(t, p)
          PROVE <1>4!1 \/ <1>4!2
        BY <2>1, CallType DEF Navigate, FreeSlots
    <2>2. CASE ReloadLatest(t)
        <3>1. Call("load", tab[t].id) \in Calls
            BY <1>1, CallType
        <3>2. Call("load", tab[t].id).id \in Projects /\ Call("load", tab[t].id).state = "sent"
            BY <1>1, CallType
        <3> QED BY <2>2, <3>1, <3>2 DEF ReloadLatest, FreeSlots
    <2>3. CASE StartAction(t)
        <3>1. Call("action", tab[t].id) \in Calls
            BY <1>1, CallType
        <3>2. Call("action", tab[t].id).id \in Projects /\ Call("action", tab[t].id).state = "sent"
            BY <1>1, CallType
        <3> QED BY <2>3, <3>1, <3>2 DEF StartAction, FreeSlots
    <2>4. CASE Save(t)
        <3> DEFINE c == [Call("save", tab[t].id) EXCEPT
                    !.revision = tab[t].revision, !.fields = tab[t].dirty,
                    !.layout = tab[t].layout, !.switch = tab[t].switch]
        <3>1. c \in Calls /\ c.id \in Projects /\ c.state = "sent"
            <4>1. /\ Call("save", tab[t].id) \in Calls
                  /\ Call("save", tab[t].id).id \in Projects
                  /\ Call("save", tab[t].id).state = "sent"
                BY <1>1, CallType
            <4> QED BY <1>1, <4>1 DEF Calls, Stores
        <3> QED BY <2>4, <3>1 DEF Save, FreeSlots
    <2> QED BY <2>1, <2>2, <2>3, <2>4
<1>5. calls' \in [Tabs -> [Slots -> Calls]] /\ CallsFit'
    <2>1. CASE UNCHANGED calls
        BY <2>1 DEF TypeInv, TypeOK, CallsFit
    <2>2. ASSUME NEW s \in Slots, NEW c \in Calls, c.id \in Projects, c.state = "sent",
                 calls' = [calls EXCEPT ![t][s] = c]
          PROVE  <1>5
        BY <2>2, SlotType
    <2> QED BY <1>4, <2>1, <2>2
<1> QED BY <1>2, <1>3, <1>5 DEF TypeInv, TypeOK, HistoriesStart

LEMMA AnsweredType ==
    ASSUME NEW call \in Calls, NEW n \in Nat, NEW doc \in Revisions
    PROVE  LET c == Answered(call, n, doc)
           IN  /\ c \in Calls
               /\ c.state = "answered" /\ c.kind = call.kind /\ c.id = call.id
               /\ c.revision = n /\ c.layout = doc.layout /\ c.switch = doc.switch
BY DEF Answered, Calls, Revisions

\* What the server makes of a call keeps the types.
LEMMA TypeServe ==
    ASSUME TypeInv, NEW t \in Tabs, NEW s \in Slots, Serve(t, s)
    PROVE  TypeInv'
<1> DEFINE call == calls[t][s]
<1>1. call \in Calls /\ (call.state # "free" => call.id \in Projects)
    BY DEF TypeInv, TypeOK, CallsFit
<1>2. UNCHANGED <<tab, seen, minted>>
    BY DEF Serve, ServeLoad, ServeSave
<1>3. CASE ServeLoad(t, s)
    <2> DEFINE c == Answered(call, Len(history[call.id]), Latest(call.id))
    <2>1. call.id \in Projects /\ call.kind = "load" /\ UNCHANGED history
          /\ calls' = [calls EXCEPT ![t][s] = c]
        BY <1>1, <1>3 DEF ServeLoad
    <2>2. c \in Calls /\ c.id \in Projects /\ c.state = "answered"
        BY <1>1, <2>1, LatestType, AnsweredType
    <2> HIDE DEF c
    <2>3. calls' \in [Tabs -> [Slots -> Calls]] /\ CallsFit'
        BY <2>1, <2>2, SlotType
    <2> QED BY <1>2, <2>1, <2>3 DEF TypeInv, TypeOK, HistoriesStart
<1>4. CASE ServeSave(t, s)
    <2> DEFINE doc == [layout |-> Pick(call, "layout"), switch |-> Pick(call, "switch"), by |-> t]
               c == Answered(call, Len(history[call.id]) + 1, doc)
               r == [Call("save", call.id) EXCEPT !.state = "refused"]
    <2>1. call.id \in Projects /\ call.kind = "save"
        BY <1>1, <1>4 DEF ServeSave
    <2>2. doc \in Revisions
        <3>1. Pick(call, "layout") \in SUBSET Marks
            BY <1>1, <2>1, LatestType DEF Pick, Calls, Revisions
        <3>2. Pick(call, "switch") \in Marks \cup {Nothing}
            BY <1>1, <2>1, LatestType DEF Pick, Calls, Revisions
        <3> QED BY <3>1, <3>2 DEF Revisions
    <2>3. c \in Calls /\ c.id \in Projects /\ c.state = "answered"
        <3>1. Len(history[call.id]) + 1 \in Nat
            BY <2>1, LatestType
        <3> QED BY <1>1, <2>1, <2>2, <3>1, AnsweredType
    <2>4. r \in Calls /\ r.id \in Projects /\ r.state = "refused" /\ r.kind = "save"
        BY <2>1, CallType DEF Calls
    <2>5. \/ /\ Record(call.id, doc)
             /\ calls' = [calls EXCEPT ![t][s] = c]
          \/ /\ UNCHANGED history
             /\ calls' = [calls EXCEPT ![t][s] = r]
        BY <1>4 DEF ServeSave
    <2> HIDE DEF c, r, doc
    <2>6. calls' \in [Tabs -> [Slots -> Calls]] /\ CallsFit'
        BY <2>3, <2>4, <2>5, SlotType
    <2>7. history' \in [Projects -> Seq(Revisions)] /\ HistoriesStart'
        <3>1. CASE UNCHANGED history
            BY <3>1 DEF TypeInv, TypeOK, HistoriesStart
        <3>2. CASE Record(call.id, doc)
            BY <3>2, <2>1, <2>2, RecordType
        <3> QED BY <2>5, <3>1, <3>2
    <2> QED BY <1>2, <2>6, <2>7 DEF TypeInv, TypeOK
<1> QED BY <1>3, <1>4 DEF Serve

\* Taking an answer, or failing, keeps the types.
LEMMA TypeAnswer ==
    ASSUME TypeInv, NEW t \in Tabs, NEW s \in Slots, Answer(t, s)
    PROVE  TypeInv'
<1> DEFINE call == calls[t][s]
<1>1. /\ call \in Calls
      /\ call.state # "free" => call.id \in Projects
      /\ tab[t] \in Stores
    BY DEF TypeInv, TypeOK, CallsFit
<1>2. CASE LoadAnswered(t, s) \/ SaveAnswered(t, s)
    <2>1. call.id \in Projects /\ UNCHANGED <<history, minted>>
        BY <1>1, <1>2 DEF LoadAnswered, SaveAnswered
    <2>2. Replaced(tab[t], call) \in Stores
        BY <1>1, <2>1, ReplacedStore
    <2>3. [Replaced(tab[t], call) EXCEPT !.undo = <<>>, !.redo = <<>>] \in Stores
        <3>1. <<>> \in Seq(SUBSET Marks)
            OBVIOUS
        <3> QED BY <2>2, <3>1 DEF Stores
    <2>4. \E store \in Stores : Take(t, s, store)
        BY <1>2, <2>2, <2>3 DEF LoadAnswered, SaveAnswered
    <2>5. /\ tab' \in [Tabs -> Stores] /\ seen' \in [Tabs -> SUBSET Marks]
          /\ calls' \in [Tabs -> [Slots -> Calls]] /\ CallsFit'
        BY <2>4, TakeType
    <2> QED BY <2>1, <2>5 DEF TypeInv, TypeOK, HistoriesStart
<1>3. CASE SaveRefused(t, s) \/ CallFails(t, s)
    <2>1. UNCHANGED <<history, seen, minted>> /\ calls' = [calls EXCEPT ![t][s] = Free]
        BY <1>3 DEF SaveRefused, CallFails
    <2>2. calls' \in [Tabs -> [Slots -> Calls]] /\ CallsFit'
        BY <2>1, FreeCall, SlotType DEF Free
    <2>3. tab' \in [Tabs -> Stores]
        <3>1. /\ [tab[t] EXCEPT !.loading = FALSE] \in Stores
              /\ [tab[t] EXCEPT !.failed = TRUE] \in Stores
              /\ [tab[t] EXCEPT !.failed = TRUE, !.loading = FALSE] \in Stores
            BY <1>1 DEF Stores
        <3>2. \/ tab' = [tab EXCEPT ![t].loading = FALSE]
              \/ tab' = [tab EXCEPT ![t].failed = TRUE]
              \/ tab' = [tab EXCEPT ![t].failed = TRUE, ![t].loading = FALSE]
            BY <1>3 DEF SaveRefused, CallFails
        <3>3. \E store \in Stores : tab' = [tab EXCEPT ![t] = store]
            <4>1. CASE tab' = [tab EXCEPT ![t].failed = TRUE, ![t].loading = FALSE]
                <5>1. tab' = [tab EXCEPT ![t] = [tab[t] EXCEPT !.failed = TRUE, !.loading = FALSE]]
                    BY <4>1 DEF TypeInv, TypeOK
                <5> QED BY <3>1, <5>1
            <4> QED BY <3>1, <3>2, <4>1
        <3> QED BY <3>3 DEF TypeInv, TypeOK
    <2> QED BY <2>1, <2>2, <2>3 DEF TypeInv, TypeOK, HistoriesStart
<1>4. CASE ActionAnswered(t, s)
    <2> DEFINE c == Call("load", call.id)
               doc == [Latest(call.id) EXCEPT !.by = Nothing]
    <2>1. /\ call.id \in Projects
          /\ UNCHANGED <<seen, minted>>
          /\ calls' = [calls EXCEPT ![t][s] = c]
          /\ UNCHANGED history \/ Record(call.id, doc)
        BY <1>1, <1>4 DEF ActionAnswered
    <2>2. c \in Calls /\ c.id \in Projects /\ c.state = "sent"
        BY <2>1, CallType
    <2>3. doc \in Revisions
        BY <2>1, LatestType DEF Revisions
    <2>4. tab' \in [Tabs -> Stores]
        BY <1>1, <1>4 DEF ActionAnswered, TypeInv, TypeOK, Stores
    <2> HIDE DEF c, doc
    <2>5. calls' \in [Tabs -> [Slots -> Calls]] /\ CallsFit'
        BY <2>1, <2>2, SlotType
    <2>6. history' \in [Projects -> Seq(Revisions)] /\ HistoriesStart'
        <3>1. CASE UNCHANGED history
            BY <3>1 DEF TypeInv, TypeOK, HistoriesStart
        <3>2. CASE Record(call.id, doc)
            BY <3>2, <2>1, <2>3, RecordType
        <3> QED BY <2>1, <3>1, <3>2
    <2> QED BY <2>1, <2>4, <2>5, <2>6 DEF TypeInv, TypeOK
<1> QED BY <1>2, <1>3, <1>4 DEF Answer

LEMMA TypeOther ==
    ASSUME TypeInv, NEW p \in Projects, NEW m \in Marks, OtherClientSaves(p, m)
    PROVE  TypeInv'
<1>1. /\ [Latest(p) EXCEPT !.layout = @ \cup {m}, !.by = Nothing] \in Revisions
      /\ [Latest(p) EXCEPT !.switch = m, !.by = Nothing] \in Revisions
    BY LatestType DEF Revisions
<1>2. history' \in [Projects -> Seq(Revisions)] /\ HistoriesStart'
    BY <1>1, RecordType DEF OtherClientSaves
<1>3. minted' \in [Marks -> Projects \cup {Nothing}]
    BY DEF OtherClientSaves, TypeInv, TypeOK
<1> QED BY <1>2, <1>3 DEF OtherClientSaves, TypeInv, TypeOK, CallsFit

LEMMA TypeStep == TypeInv /\ [Next]_vars => TypeInv'
<1> SUFFICES ASSUME TypeInv, [Next]_vars PROVE TypeInv'
    OBVIOUS
<1>1. CASE UNCHANGED vars
    BY <1>1 DEF vars, TypeInv, TypeOK, CallsFit, HistoriesStart
<1>2. ASSUME NEW t \in Tabs, Edit(t) PROVE TypeInv'
    BY <1>2, TypeEdit
<1>3. ASSUME NEW t \in Tabs, NEW p \in Projects, Navigate(t, p) PROVE TypeInv'
    BY <1>3, TypeSend
<1>4. ASSUME NEW t \in Tabs, ReloadLatest(t) \/ StartAction(t) \/ Save(t) PROVE TypeInv'
    BY <1>4, TypeSend
<1>5. ASSUME NEW t \in Tabs, NEW s \in Slots, Serve(t, s) \/ Answer(t, s) PROVE TypeInv'
    BY <1>5, TypeServe, TypeAnswer
<1>6. ASSUME NEW p \in Projects, NEW m \in Marks, OtherClientSaves(p, m) PROVE TypeInv'
    BY <1>6, TypeOther
<1> QED BY <1>1, <1>2, <1>3, <1>4, <1>5, <1>6 DEF Next

LEMMA TypeAlways == Spec => []TypeInv
<1> QED BY TypeInit, TypeStep, PTL DEF Spec

\* The type invariant holds of every reachable state: whatever the store does with
\* the answers of its calls, its fields stay documents of the editor.
THEOREM TypeCorrect == Spec => []TypeOK
<1>1. TypeInv => TypeOK
    BY DEF TypeInv
<1> QED BY <1>1, TypeAlways, PTL

-----------------------------------------------------------------------------
(* Undo and redo.                                                          *)

\* What a step can do to the stacks of a tab.
StacksKept(store, new) == new.undo = store.undo /\ new.redo = store.redo
StacksPushed(store, new) ==
    new.undo = Newest(Append(store.undo, store.layout)) /\ new.redo = <<>>
StacksCleared(new) == new.undo = <<>> /\ new.redo = <<>>
StacksUndone(store, new) ==
    /\ store.undo # <<>>
    /\ new.undo = ButLast(store.undo)
    /\ new.redo = Newest(Append(store.redo, store.layout))
    /\ new.layout = LastOf(store.undo)
StacksRedone(store, new) ==
    /\ store.redo # <<>>
    /\ new.redo = ButLast(store.redo)
    /\ new.undo = Newest(Append(store.undo, store.layout))
    /\ new.layout = LastOf(store.redo)

StacksStep(store, new) ==
    \/ StacksKept(store, new) \/ StacksPushed(store, new) \/ StacksCleared(new)
    \/ StacksUndone(store, new) \/ StacksRedone(store, new)

LEMMA UndoStacks ==
    ASSUME TypeInv, NEW t \in Tabs, Undo(t)
    PROVE  StacksUndone(tab[t], tab'[t])
<1> DEFINE store == tab[t]
           moved == [store EXCEPT !.undo = ButLast(@),
                                  !.redo = Newest(Append(@, store.layout))]
<1>1. store \in Stores
    BY DEF TypeInv, TypeOK
<1>2. tab' = [tab EXCEPT ![t] = WithLayout(moved, LastOf(store.undo))] /\ store.undo # <<>>
    BY DEF Undo, Show
<1>3. tab'[t] = WithLayout(moved, LastOf(store.undo))
    BY <1>2 DEF TypeInv, TypeOK
<1> QED BY <1>1, <1>2, <1>3 DEF WithLayout, StacksUndone, Stores

LEMMA RedoStacks ==
    ASSUME TypeInv, NEW t \in Tabs, Redo(t)
    PROVE  StacksRedone(tab[t], tab'[t])
<1> DEFINE store == tab[t]
           moved == [store EXCEPT !.redo = ButLast(@),
                                  !.undo = Newest(Append(@, store.layout))]
<1>1. store \in Stores
    BY DEF TypeInv, TypeOK
<1>2. tab' = [tab EXCEPT ![t] = WithLayout(moved, LastOf(store.redo))] /\ store.redo # <<>>
    BY DEF Redo, Show
<1>3. tab'[t] = WithLayout(moved, LastOf(store.redo))
    BY <1>2 DEF TypeInv, TypeOK
<1> QED BY <1>1, <1>2, <1>3 DEF WithLayout, StacksRedone, Stores

LEMMA EditStacks ==
    ASSUME TypeInv, NEW t \in Tabs, Edit(t)
    PROVE  StacksStep(tab[t], tab'[t])
<1> DEFINE store == tab[t]
<1>1. store \in Stores /\ Remembered(store) \in Stores
    BY RememberedStore DEF TypeInv, TypeOK
<1>2. \A new : Show(t, new) => tab'[t] = new
    BY DEF Show, TypeInv, TypeOK
<1>3. /\ Remembered(store).undo = Newest(Append(store.undo, store.layout))
      /\ Remembered(store).redo = <<>>
    BY <1>1 DEF Remembered, Stores
<1>4. \A s \in Stores : \A layout : /\ WithLayout(s, layout).undo = s.undo
                                   /\ WithLayout(s, layout).redo = s.redo
    BY DEF WithLayout, Stores
<1>5. CASE PushUndo(t)
    BY <1>5, <1>2, <1>3 DEF PushUndo, StacksStep, StacksPushed
<1>6. CASE Undo(t)
    BY <1>6, UndoStacks DEF StacksStep
<1>7. CASE Redo(t)
    BY <1>7, RedoStacks DEF StacksStep
<1>8. ASSUME NEW old \in Marks, NEW new \in Marks, UpdateElement(t, old, new)
      PROVE  StacksStep(tab[t], tab'[t])
    BY <1>8, <1>1, <1>2, <1>4 DEF UpdateElement, StacksStep, StacksKept
<1>9. ASSUME NEW m \in Marks, AddElement(t, m) \/ RemoveElement(t, m)
      PROVE  StacksStep(tab[t], tab'[t])
    BY <1>9, <1>1, <1>2, <1>3, <1>4 DEF AddElement, RemoveElement, StacksStep, StacksPushed
<1>10. ASSUME NEW m \in Marks, SetSwitch(t, m)
       PROVE  StacksStep(tab[t], tab'[t])
    <2>1. tab'[t] = [store EXCEPT !.switch = m, !.dirty = @ \cup {"switch"}]
        BY <1>10, <1>2 DEF SetSwitch
    <2> QED BY <2>1, <1>1 DEF StacksStep, StacksKept, Stores
<1> QED BY <1>5, <1>6, <1>7, <1>8, <1>9, <1>10 DEF Edit

LEMMA OtherStacks ==
    ASSUME TypeInv, NEW t \in Tabs,
           \/ \E p \in Projects : Navigate(t, p)
           \/ ReloadLatest(t) \/ StartAction(t) \/ Save(t)
           \/ \E s \in Slots : Serve(t, s) \/ Answer(t, s)
    PROVE  StacksKept(tab[t], tab'[t]) \/ StacksCleared(tab'[t])
<1>1. tab \in [Tabs -> Stores] /\ tab[t] \in Stores
    BY DEF TypeInv, TypeOK
<1>2. CASE \E p \in Projects : Navigate(t, p)
    BY <1>1, <1>2 DEF Navigate, StacksKept, Stores
<1>3. CASE ReloadLatest(t) \/ StartAction(t) \/ Save(t)
    BY <1>1, <1>3 DEF ReloadLatest, StartAction, Save, StacksKept, Stores
<1>4. CASE \E s \in Slots : Serve(t, s)
    BY <1>4 DEF Serve, ServeLoad, ServeSave, StacksKept
<1>5. ASSUME NEW s \in Slots, SaveRefused(t, s) \/ CallFails(t, s) \/ ActionAnswered(t, s)
      PROVE  StacksKept(tab[t], tab'[t])
    BY <1>1, <1>5 DEF SaveRefused, CallFails, ActionAnswered, StacksKept, Stores
<1>6. ASSUME NEW s \in Slots, NEW store \in Stores, Take(t, s, store)
      PROVE  tab'[t].undo = store.undo /\ tab'[t].redo = store.redo
    BY <1>1, <1>6 DEF Take, Show, Stores
<1>7. ASSUME NEW s \in Slots, LoadAnswered(t, s) \/ SaveAnswered(t, s)
      PROVE  StacksKept(tab[t], tab'[t]) \/ StacksCleared(tab'[t])
    <2> DEFINE new == Replaced(tab[t], calls[t][s])
               cleared == [new EXCEPT !.undo = <<>>, !.redo = <<>>]
    <2>1. new \in Stores
        BY <1>1, <1>7, ReplacedStore DEF LoadAnswered, SaveAnswered, TypeInv, TypeOK, CallsFit
    <2>2. new.undo = tab[t].undo /\ new.redo = tab[t].redo
        BY <1>1 DEF Replaced, Stores
    <2>3. cleared \in Stores /\ cleared.undo = <<>> /\ cleared.redo = <<>>
        <3>1. <<>> \in Seq(SUBSET Marks)
            OBVIOUS
        <3> QED BY <2>1, <3>1 DEF Stores
    <2>4. Take(t, s, new) \/ Take(t, s, cleared)
        BY <1>7 DEF LoadAnswered, SaveAnswered
    <2> HIDE DEF new, cleared
    <2> QED BY <1>6, <2>1, <2>2, <2>3, <2>4 DEF StacksKept, StacksCleared
<1> QED BY <1>2, <1>3, <1>4, <1>5, <1>7 DEF Answer

LEMMA AnyStacks ==
    ASSUME TypeInv, [Next]_vars, NEW x \in Tabs
    PROVE  StacksStep(tab[x], tab'[x])
<1>1. CASE tab'[x] = tab[x]
    BY <1>1 DEF StacksStep, StacksKept
<1>2. ASSUME NEW t \in Tabs, t # x,
             \/ Edit(t) \/ \E p \in Projects : Navigate(t, p)
             \/ ReloadLatest(t) \/ StartAction(t) \/ Save(t)
             \/ \E s \in Slots : Serve(t, s) \/ Answer(t, s)
      PROVE  tab'[x] = tab[x]
    <2>1. tab \in [Tabs -> Stores]
        BY DEF TypeInv, TypeOK
    <2>2. ASSUME NEW store, Show(t, store) PROVE tab'[x] = tab[x]
        BY <1>2, <2>1, <2>2 DEF Show
    <2>3. CASE Edit(t)
        BY <2>2, <2>3 DEF Edit, PushUndo, Undo, Redo, UpdateElement, AddElement, RemoveElement, SetSwitch
    <2>4. CASE \E p \in Projects : Navigate(t, p)
        BY <1>2, <2>1, <2>4 DEF Navigate
    <2>5. CASE ReloadLatest(t) \/ StartAction(t) \/ Save(t)
        BY <1>2, <2>1, <2>5 DEF ReloadLatest, StartAction, Save
    <2>6. ASSUME NEW s \in Slots, Serve(t, s) PROVE tab'[x] = tab[x]
        BY <2>6 DEF Serve, ServeLoad, ServeSave
    <2>7. ASSUME NEW s \in Slots, Answer(t, s) PROVE tab'[x] = tab[x]
        <3>1. CASE LoadAnswered(t, s) \/ SaveAnswered(t, s)
            BY <3>1, <2>2 DEF LoadAnswered, SaveAnswered, Take
        <3>2. CASE SaveRefused(t, s) \/ ActionAnswered(t, s) \/ CallFails(t, s)
            BY <1>2, <2>1, <3>2 DEF SaveRefused, ActionAnswered, CallFails
        <3> QED BY <2>7, <3>1, <3>2 DEF Answer
    <2> QED BY <1>2, <2>3, <2>4, <2>5, <2>6, <2>7
<1>3. CASE Edit(x)
    BY <1>3, EditStacks
<1>4. CASE \/ \E p \in Projects : Navigate(x, p)
           \/ ReloadLatest(x) \/ StartAction(x) \/ Save(x)
           \/ \E s \in Slots : Serve(x, s) \/ Answer(x, s)
    BY <1>4, OtherStacks DEF StacksStep
<1>5. CASE UNCHANGED vars
    BY <1>1, <1>5 DEF vars
<1>6. CASE \E p \in Projects, m \in Marks : OtherClientSaves(p, m)
    BY <1>1, <1>6 DEF OtherClientSaves
<1>7. CASE \E t \in Tabs :
             \/ Edit(t) \/ \E p \in Projects : Navigate(t, p)
             \/ ReloadLatest(t) \/ StartAction(t) \/ Save(t)
             \/ \E s \in Slots : Serve(t, s) \/ Answer(t, s)
    BY <1>1, <1>2, <1>3, <1>4, <1>7
<1> QED BY <1>5, <1>6, <1>7 DEF Next

StacksFit(store) == Len(store.undo) + Len(store.redo) <= MaxUndo

\* Taking from one stack and pushing on the other, with room for it.
LEMMA StackMove ==
    ASSUME NEW S, NEW from \in Seq(S), NEW to \in Seq(S), NEW e \in S,
           from # <<>>, Len(from) + Len(to) <= MaxUndo
    PROVE  /\ Newest(Append(to, e)) = Append(to, e)
           /\ Len(ButLast(from)) = Len(from) - 1
           /\ Len(Append(to, e)) = Len(to) + 1
           /\ \A i \in 1 .. Len(from) - 1 : ButLast(from)[i] = from[i]
           /\ \A i \in 1 .. Len(to) : Append(to, e)[i] = to[i]
           /\ Append(to, e)[Len(to) + 1] = e
<1>1. Len(from) \in Nat /\ Len(to) \in Nat
    BY LenProperties
<1>2. Len(from) >= 1 /\ Len(ButLast(from)) = Len(from) - 1
    BY Stacks
<1>3. Append(to, e) \in Seq(S)
    BY Stacks
<1>4. Len(Append(to, e)) = Len(to) + 1
    BY Stacks
<1>5. Len(Append(to, e)) <= MaxUndo
    BY <1>1, <1>2, <1>4, ClientAssumption
<1>6. Newest(Append(to, e)) = Append(to, e)
    BY <1>3, <1>5, NewestStack
<1>7. \A i \in 1 .. Len(from) - 1 : ButLast(from)[i] = from[i]
    <2>1. \A i \in 1 .. Len(from) - 1 : from[i] \in S
        BY <1>1, <1>2, ElementOfSeq
    <2>2. Len(from) - 1 \in Int /\ 1 \in Int
        BY <1>1
    <2>3. \A i \in 1 .. Len(from) - 1 - 1 + 1 :
              SubSeq(from, 1, Len(from) - 1)[i] = from[1 + i - 1]
        BY <2>1, <2>2, SubSeqProperties
    <2> QED BY <1>1, <2>3 DEF ButLast
<1>8. /\ \A i \in 1 .. Len(to) : Append(to, e)[i] = to[i]
      /\ Append(to, e)[Len(to) + 1] = e
    BY <1>1
<1> QED BY <1>2, <1>4, <1>6, <1>7, <1>8

\* The timeline of a tab, from its parts.
Line(undo, layout, redo) ==
    LET u == Len(undo)
        r == Len(redo)
    IN  [i \in 1 .. (u + 1 + r) |->
            IF i <= u THEN undo[i] ELSE IF i = u + 1 THEN layout ELSE redo[u + 2 + r - i]]

\* The layout moves from one stack's end to the other's.
Moved(u, r, undo, layout, redo, undo2, layout2, redo2) ==
    /\ u \in Nat /\ r \in Nat /\ u >= 1
    /\ Len(undo) = u /\ Len(redo) = r /\ Len(undo2) = u - 1 /\ Len(redo2) = r + 1
    /\ \A i \in 1 .. u - 1 : undo2[i] = undo[i]
    /\ \A i \in 1 .. r : redo2[i] = redo[i]
    /\ redo2[r + 1] = layout /\ layout2 = undo[u]

\* That leaves the timeline as it is.
LEMMA LineMove ==
    ASSUME NEW u, NEW r,
           NEW undo, NEW redo, NEW undo2, NEW redo2, NEW layout, NEW layout2,
           Moved(u, r, undo, layout, redo, undo2, layout2, redo2)
    PROVE  Line(undo2, layout2, redo2) = Line(undo, layout, redo)
<1>0. /\ u \in Nat /\ r \in Nat /\ u >= 1
      /\ Len(undo) = u /\ Len(redo) = r /\ Len(undo2) = u - 1 /\ Len(redo2) = r + 1
      /\ \A i \in 1 .. u - 1 : undo2[i] = undo[i]
      /\ \A i \in 1 .. r : redo2[i] = redo[i]
      /\ redo2[r + 1] = layout /\ layout2 = undo[u]
    BY Zenon DEF Moved
<1>1. u - 1 + 1 + (r + 1) = u + 1 + r
    BY <1>0
<1>2. ASSUME NEW i \in 1 .. (u + 1 + r)
      PROVE  (IF i <= u - 1 THEN undo2[i]
              ELSE IF i = u - 1 + 1 THEN layout2 ELSE redo2[u - 1 + 2 + (r + 1) - i])
             = (IF i <= u THEN undo[i] ELSE IF i = u + 1 THEN layout ELSE redo[u + 2 + r - i])
    <2>1. CASE i <= u - 1
        BY <1>0, <2>1
    <2>2. CASE i = u
        BY <1>0, <2>2
    <2>3. CASE i = u + 1
        <3>1. u - 1 + 2 + (r + 1) - i = r + 1
            BY <1>0, <2>3
        <3> QED BY <1>0, <2>3, <3>1
    <2>4. CASE i > u + 1
        <3>1. u - 1 + 2 + (r + 1) - i = u + 2 + r - i /\ u + 2 + r - i \in 1 .. r
            BY <1>0, <2>4
        <3> QED BY <1>0, <2>4, <3>1
    <2> QED BY <1>0, <2>1, <2>2, <2>3, <2>4
<1>3. Line(undo, layout, redo) = [i \in 1 .. (u + 1 + r) |->
        IF i <= u THEN undo[i] ELSE IF i = u + 1 THEN layout ELSE redo[u + 2 + r - i]]
    BY <1>0, Zenon DEF Line
<1>4. Line(undo2, layout2, redo2) = [i \in 1 .. (u - 1 + 1 + (r + 1)) |->
        IF i <= u - 1 THEN undo2[i]
        ELSE IF i = u - 1 + 1 THEN layout2 ELSE redo2[u - 1 + 2 + (r + 1) - i]]
    BY <1>0, Zenon DEF Line
<1>5. [i \in 1 .. (u - 1 + 1 + (r + 1)) |->
        IF i <= u - 1 THEN undo2[i]
        ELSE IF i = u - 1 + 1 THEN layout2 ELSE redo2[u - 1 + 2 + (r + 1) - i]]
      = [i \in 1 .. (u + 1 + r) |->
        IF i <= u THEN undo[i] ELSE IF i = u + 1 THEN layout ELSE redo[u + 2 + r - i]]
    BY <1>1, <1>2, Zenon
<1> QED BY <1>3, <1>4, <1>5, Zenon

\* Undoing, on any two stacks that fit.
LEMMA Undone ==
    ASSUME NEW S, NEW undo \in Seq(S), NEW redo \in Seq(S), NEW layout \in S,
           undo # <<>>, Len(undo) + Len(redo) <= MaxUndo
    PROVE  LET undo2 == ButLast(undo)
               redo2 == Newest(Append(redo, layout))
           IN  /\ Len(undo2) + Len(redo2) <= MaxUndo
               /\ Line(undo2, LastOf(undo), redo2) = Line(undo, layout, redo)
<1> DEFINE undo2 == ButLast(undo)
           redo2 == Newest(Append(redo, layout))
<1>1. PICK u : u = Len(undo)
    OBVIOUS
<1>2. PICK r : r = Len(redo)
    OBVIOUS
<1>3. u \in Nat /\ r \in Nat /\ u >= 1
    BY <1>1, <1>2, LenProperties, Stacks
<1>4. /\ redo2 = Append(redo, layout)
      /\ Len(undo2) = u - 1
      /\ Len(Append(redo, layout)) = r + 1
      /\ \A i \in 1 .. u - 1 : undo2[i] = undo[i]
      /\ \A i \in 1 .. r : Append(redo, layout)[i] = redo[i]
      /\ Append(redo, layout)[r + 1] = layout
    BY <1>1, <1>2, StackMove
<1> HIDE DEF undo2, redo2
<1>5. u - 1 + (r + 1) <= MaxUndo
    BY <1>1, <1>2, <1>3, ClientAssumption
<1>6. Len(undo2) + Len(redo2) <= MaxUndo
    BY <1>4, <1>5
<1>7. Line(undo2, undo[u], redo2) = Line(undo, layout, redo)
    <2>1. Moved(u, r, undo, layout, redo, undo2, undo[u], redo2)
        BY <1>1, <1>2, <1>3, <1>4 DEF Moved
    <2> QED BY <2>1, LineMove
<1> QED BY <1>1, <1>6, <1>7 DEF undo2, redo2, LastOf

\* Redoing is undoing read backwards.
LEMMA Redone ==
    ASSUME NEW S, NEW undo \in Seq(S), NEW redo \in Seq(S), NEW layout \in S,
           redo # <<>>, Len(undo) + Len(redo) <= MaxUndo
    PROVE  LET redo2 == ButLast(redo)
               undo2 == Newest(Append(undo, layout))
           IN  /\ Len(undo2) + Len(redo2) <= MaxUndo
               /\ Line(undo2, LastOf(redo), redo2) = Line(undo, layout, redo)
<1> DEFINE redo2 == ButLast(redo)
           undo2 == Newest(Append(undo, layout))
<1>1. PICK u : u = Len(undo)
    OBVIOUS
<1>2. PICK r : r = Len(redo)
    OBVIOUS
<1>3. u \in Nat /\ r \in Nat /\ r >= 1
    BY <1>1, <1>2, LenProperties, Stacks
<1>4. Len(redo) + Len(undo) <= MaxUndo
    BY <1>1, <1>2, <1>3, ClientAssumption
<1>5. /\ undo2 = Append(undo, layout)
      /\ Len(redo2) = r - 1
      /\ Len(Append(undo, layout)) = u + 1
      /\ \A i \in 1 .. r - 1 : redo2[i] = redo[i]
      /\ \A i \in 1 .. u : Append(undo, layout)[i] = undo[i]
      /\ Append(undo, layout)[u + 1] = layout
    BY <1>1, <1>2, <1>4, StackMove
<1> HIDE DEF undo2, redo2
<1>6. u + 1 + (r - 1) <= MaxUndo
    BY <1>1, <1>2, <1>3, ClientAssumption
<1>7. Len(undo2) + Len(redo2) <= MaxUndo
    BY <1>5, <1>6
<1>8. Line(undo, layout, redo) = Line(undo2, redo[r], redo2)
    <2>1. PICK n : n = u + 1
        OBVIOUS
    <2>2. PICK k : k = r - 1
        OBVIOUS
    <2>3. n \in Nat /\ k \in Nat /\ n >= 1 /\ u = n - 1 /\ r = k + 1
        BY <1>3, <2>1, <2>2
    <2>4. /\ Len(undo2) = n /\ Len(redo2) = k /\ Len(undo) = n - 1 /\ Len(redo) = k + 1
          /\ \A i \in 1 .. n - 1 : undo[i] = undo2[i]
          /\ \A i \in 1 .. k : redo[i] = redo2[i]
          /\ redo[k + 1] = redo[r]
          /\ layout = undo2[n]
        BY <1>1, <1>2, <1>5, <2>1, <2>2, <2>3
    <2>5. Moved(n, k, undo2, redo[r], redo2, undo, layout, redo)
        BY <2>3, <2>4, Zenon DEF Moved
    <2> QED BY <2>5, LineMove
<1> QED BY <1>2, <1>7, <1>8 DEF undo2, redo2, LastOf

LEMMA FitsStep ==
    ASSUME NEW store \in Stores, NEW new \in Stores, StacksFit(store), StacksStep(store, new)
    PROVE  StacksFit(new)
<1>1. /\ store.undo \in Seq(SUBSET Marks) /\ store.redo \in Seq(SUBSET Marks)
      /\ store.layout \in SUBSET Marks
    BY DEF Stores
<1>2. CASE StacksKept(store, new)
    BY <1>2 DEF StacksKept, StacksFit
<1>3. CASE StacksPushed(store, new)
    <2>1. PICK n : n = Len(new.undo)
        OBVIOUS
    <2>2. Append(store.undo, store.layout) \in Seq(SUBSET Marks)
        BY <1>1, Stacks
    <2>3. n <= MaxUndo /\ n \in Nat
        BY <1>3, <2>1, <2>2, NewestStack, LenProperties DEF StacksPushed
    <2>4. n + 0 <= MaxUndo
        BY <2>3, ClientAssumption
    <2>5. Len(new.redo) = 0
        BY <1>3 DEF StacksPushed
    <2> QED BY <2>1, <2>4, <2>5, Zenon DEF StacksFit
<1>4. CASE StacksCleared(new)
    <2>1. Len(new.undo) = 0 /\ Len(new.redo) = 0
        BY <1>4 DEF StacksCleared
    <2> QED BY <2>1, ClientAssumption DEF StacksFit
<1>5. CASE StacksUndone(store, new)
    BY <1>1, <1>5, Undone, Zenon DEF StacksUndone, StacksFit
<1>6. CASE StacksRedone(store, new)
    BY <1>1, <1>6, Redone, Zenon DEF StacksRedone, StacksFit
<1> QED BY <1>2, <1>3, <1>4, <1>5, <1>6 DEF StacksStep

\* The stacks of a tab never outgrow MAX_UNDO, counted together: every action that
\* makes one longer shortens or clears the other.
THEOREM StacksBounded == Spec => []UndoRedoFits
<1>1. Init => UndoRedoFits
    <2> SUFFICES ASSUME Init, NEW t \in Tabs PROVE StacksFit(tab[t])
        BY DEF UndoRedoFits, StacksFit
    <2>1. tab[t].undo = <<>> /\ tab[t].redo = <<>>
        BY DEF Init
    <2>2. Len(tab[t].undo) = 0 /\ Len(tab[t].redo) = 0
        BY <2>1
    <2> QED BY <2>2, ClientAssumption DEF StacksFit
<1>2. UndoRedoFits /\ TypeInv /\ TypeInv' /\ [Next]_vars => UndoRedoFits'
    <2> SUFFICES ASSUME UndoRedoFits, TypeInv, TypeInv', [Next]_vars, NEW t \in Tabs
                 PROVE  StacksFit(tab'[t])
        BY DEF UndoRedoFits, StacksFit
    <2>1. tab[t] \in Stores /\ tab'[t] \in Stores
        BY DEF TypeInv, TypeOK
    <2>2. StacksFit(tab[t])
        BY DEF UndoRedoFits, StacksFit
    <2>3. StacksStep(tab[t], tab'[t])
        BY AnyStacks
    <2> QED BY <2>1, <2>2, <2>3, FitsStep
<1> QED BY <1>1, <1>2, TypeAlways, PTL DEF Spec

LEMMA TimelineIsLine ==
    ASSUME NEW store
    PROVE  Timeline(store) = Line(store.undo, store.layout, store.redo)
BY Zenon DEF Timeline, Line

\* Undo and redo lose nothing of what a tab can step through, whatever MAX_UNDO is.
THEOREM TimelineKept == Spec => UndoRedoKeepsTimeline
<1>1. ASSUME NEW store \in Stores, NEW new, StacksFit(store),
             StacksUndone(store, new) \/ StacksRedone(store, new)
      PROVE  Timeline(new) = Timeline(store)
    <2>1. /\ store.undo \in Seq(SUBSET Marks) /\ store.redo \in Seq(SUBSET Marks)
          /\ store.layout \in SUBSET Marks
        BY DEF Stores
    <2>2. CASE StacksUndone(store, new)
        <3>1. Line(new.undo, new.layout, new.redo) = Line(store.undo, store.layout, store.redo)
            BY <1>1, <2>1, <2>2, Undone, Zenon DEF StacksUndone, StacksFit
        <3> QED BY <3>1, TimelineIsLine
    <2>3. CASE StacksRedone(store, new)
        <3>1. Line(new.undo, new.layout, new.redo) = Line(store.undo, store.layout, store.redo)
            BY <1>1, <2>1, <2>3, Redone, Zenon DEF StacksRedone, StacksFit
        <3> QED BY <3>1, TimelineIsLine
    <2> QED BY <1>1, <2>2, <2>3
<1>2. UndoRedoFits /\ TypeInv /\ [Next]_vars =>
        [\A t \in Tabs : Undo(t) \/ Redo(t) => Timeline(tab'[t]) = Timeline(tab[t])]_vars
    <2> SUFFICES ASSUME UndoRedoFits, TypeInv, NEW t \in Tabs, Undo(t) \/ Redo(t)
                 PROVE  Timeline(tab'[t]) = Timeline(tab[t])
        OBVIOUS
    <2>1. tab[t] \in Stores /\ StacksFit(tab[t])
        BY DEF TypeInv, TypeOK, UndoRedoFits, StacksFit
    <2>2. StacksUndone(tab[t], tab'[t]) \/ StacksRedone(tab[t], tab'[t])
        BY UndoStacks, RedoStacks
    <2> QED BY <2>1, <2>2, <1>1
<1> QED BY <1>2, TypeAlways, StacksBounded, PTL DEF Spec, UndoRedoKeepsTimeline

-----------------------------------------------------------------------------
(* What a tab shows and saves, whatever the order in which its calls are   *)
(* answered.  First, what each step does to one tab, one call and one      *)
(* history.                                                                *)

TabStep(t) ==
    \/ Edit(t) \/ \E p \in Projects : Navigate(t, p)
    \/ ReloadLatest(t) \/ StartAction(t) \/ Save(t)
    \/ \E s \in Slots : Serve(t, s) \/ Answer(t, s)

\* A step of one tab leaves another one's store and calls alone.
LEMMA Frame ==
    ASSUME TypeInv, NEW t \in Tabs, TabStep(t), NEW x \in Tabs, x # t
    PROVE  tab'[x] = tab[x] /\ calls'[x] = calls[x] /\ seen'[x] = seen[x]
<1>1. tab \in [Tabs -> Stores] /\ calls \in [Tabs -> [Slots -> Calls]]
      /\ seen \in [Tabs -> SUBSET Marks]
    BY DEF TypeInv, TypeOK
<1>2. ASSUME NEW store, Show(t, store) PROVE tab'[x] = tab[x] /\ seen'[x] = seen[x]
    BY <1>1, <1>2 DEF Show
<1>3. CASE Edit(t)
    BY <1>2, <1>3 DEF Edit, PushUndo, Undo, Redo, UpdateElement, AddElement, RemoveElement, SetSwitch
<1>4. CASE \E p \in Projects : Navigate(t, p)
    BY <1>1, <1>4 DEF Navigate
<1>5. CASE ReloadLatest(t) \/ StartAction(t) \/ Save(t)
    BY <1>1, <1>5 DEF ReloadLatest, StartAction, Save
<1>6. ASSUME NEW s \in Slots, Serve(t, s)
      PROVE  tab'[x] = tab[x] /\ calls'[x] = calls[x] /\ seen'[x] = seen[x]
    BY <1>1, <1>6 DEF Serve, ServeLoad, ServeSave
<1>7. ASSUME NEW s \in Slots, Answer(t, s)
      PROVE  tab'[x] = tab[x] /\ calls'[x] = calls[x] /\ seen'[x] = seen[x]
    <2>1. CASE LoadAnswered(t, s) \/ SaveAnswered(t, s)
        <3>1. \E store : Take(t, s, store)
            BY <2>1 DEF LoadAnswered, SaveAnswered
        <3> QED BY <3>1, <1>1, <1>2 DEF Take
    <2>2. CASE SaveRefused(t, s) \/ ActionAnswered(t, s) \/ CallFails(t, s)
        BY <1>1, <2>2 DEF SaveRefused, ActionAnswered, CallFails
    <2> QED BY <1>7, <2>1, <2>2 DEF Answer
<1> QED BY <1>3, <1>4, <1>5, <1>6, <1>7 DEF TabStep

LEMMA Steps ==
    ASSUME [Next]_vars
    PROVE  \/ UNCHANGED vars
           \/ \E t \in Tabs : TabStep(t)
           \/ \E p \in Projects, m \in Marks : OtherClientSaves(p, m)
BY DEF Next, TabStep

\* The document stays as it was, but for what is marked edited.
DraftOnly(store, new) ==
    /\ new.id = store.id /\ new.revision = store.revision
    /\ store.dirty \subseteq new.dirty
    /\ "layout" \in new.dirty \/ new.layout = store.layout
    /\ "switch" \in new.dirty \/ new.switch = store.switch

\* The document is that of an answer.
FromAnswer(new, call) ==
    /\ call.state = "answered"
    /\ new.id = call.id /\ new.revision = call.revision
    /\ new.layout = call.layout /\ new.switch = call.switch

\* And the tab stays on its route.
Drafted(store, new) ==
    DraftOnly(store, new) /\ new.route = store.route /\ new.failed = store.failed

\* The same document, with other stacks.
Restacked(store, new) == \E u, r : new = [store EXCEPT !.undo = u, !.redo = r]

LEMMA RestackedDraft ==
    ASSUME NEW store \in Stores, NEW new, Restacked(store, new)
    PROVE  Drafted(store, new) /\ \A layout : Drafted(store, WithLayout(new, layout))
<1>1. PICK u, r : new = [store EXCEPT !.undo = u, !.redo = r]
    BY DEF Restacked
<1> QED BY <1>1 DEF Drafted, WithLayout, DraftOnly, Stores

LEMMA EditDraft ==
    ASSUME TypeInv, NEW t \in Tabs, Edit(t)
    PROVE  Drafted(tab[t], tab'[t]) /\ seen[t] \subseteq seen'[t] /\ calls' = calls
<1> DEFINE store == tab[t]
<1>1. tab \in [Tabs -> Stores] /\ store \in Stores /\ seen \in [Tabs -> SUBSET Marks]
    BY DEF TypeInv, TypeOK
<1>2. ASSUME NEW new, Show(t, new) PROVE tab'[t] = new /\ seen[t] \subseteq seen'[t]
    BY <1>1, <1>2 DEF Show
<1>3. calls' = calls
    BY DEF Edit, PushUndo, Undo, Redo, UpdateElement, AddElement, RemoveElement, SetSwitch
<1>4. Restacked(store, Remembered(store))
    BY DEF Restacked, Remembered
<1>5. \E new : Show(t, new) /\ Drafted(store, new)
    <2>1. CASE PushUndo(t)
        BY <2>1, <1>1, <1>4, RestackedDraft DEF PushUndo
    <2>2. CASE \E m \in Marks : AddElement(t, m) \/ RemoveElement(t, m)
        <3>1. PICK layout : Show(t, WithLayout(Remembered(store), layout))
            BY <2>2 DEF AddElement, RemoveElement
        <3>2. Drafted(store, WithLayout(Remembered(store), layout))
            BY <1>1, <1>4, RestackedDraft
        <3> QED BY <3>1, <3>2
    <2>3. CASE Undo(t)
        <3> DEFINE new == [store EXCEPT !.undo = ButLast(@),
                                        !.redo = Newest(Append(@, store.layout))]
        <3>1. Restacked(store, new)
            BY <1>1 DEF Restacked, Stores
        <3>2. Show(t, WithLayout(new, LastOf(store.undo)))
            BY <2>3 DEF Undo
        <3> HIDE DEF new
        <3>3. Drafted(store, WithLayout(new, LastOf(store.undo)))
            BY <1>1, <3>1, RestackedDraft
        <3> QED BY <3>2, <3>3
    <2>4. CASE Redo(t)
        <3> DEFINE new == [store EXCEPT !.redo = ButLast(@),
                                        !.undo = Newest(Append(@, store.layout))]
        <3>1. Restacked(store, new)
            <4>1. new = [store EXCEPT !.undo = Newest(Append(store.undo, store.layout)),
                                      !.redo = ButLast(store.redo)]
                BY <1>1 DEF Stores
            <4> QED BY <4>1 DEF Restacked
        <3>2. Show(t, WithLayout(new, LastOf(store.redo)))
            BY <2>4 DEF Redo
        <3> HIDE DEF new
        <3>3. Drafted(store, WithLayout(new, LastOf(store.redo)))
            BY <1>1, <3>1, RestackedDraft
        <3> QED BY <3>2, <3>3
    <2>5. CASE \E old, new \in Marks : UpdateElement(t, old, new)
        <3>1. PICK layout : Show(t, WithLayout(store, layout))
            BY <2>5 DEF UpdateElement
        <3>2. Drafted(store, WithLayout(store, layout))
            BY <1>1 DEF Drafted, DraftOnly, WithLayout, Stores
        <3> QED BY <3>1, <3>2
    <2>6. CASE \E m \in Marks : SetSwitch(t, m)
        <3>1. PICK m : Show(t, [store EXCEPT !.switch = m, !.dirty = @ \cup {"switch"}])
            BY <2>6 DEF SetSwitch
        <3>2. Drafted(store, [store EXCEPT !.switch = m, !.dirty = @ \cup {"switch"}])
            BY <1>1 DEF Drafted, DraftOnly, Stores
        <3> QED BY <3>1, <3>2
    <2> QED BY <2>1, <2>2, <2>3, <2>4, <2>5, <2>6 DEF Edit
<1> QED BY <1>2, <1>3, <1>5

-----------------------------------------------------------------------------
(* The project a tab shows.                                                *)

\* A tab that shows another project than its URL's is loading that one, unless a
\* call of the tab has failed.
LoadsRoute(t) ==
    \E s \in Slots :
        /\ calls[t][s].state # "free" /\ calls[t][s].kind = "load"
        /\ calls[t][s].id = tab[t].route

RouteFollowed(t) == tab[t].failed \/ tab[t].id = tab[t].route \/ LoadsRoute(t)

RouteInv == \A t \in Tabs : RouteFollowed(t)

\* A slot that was free, or did not load the route, may take any call.
LEMMA OtherSlot ==
    ASSUME TypeInv, NEW t \in Tabs, NEW s \in Slots, NEW c,
           calls' = [calls EXCEPT ![t][s] = c],
           tab'[t].route = tab[t].route,
           \/ calls[t][s].state = "free" \/ calls[t][s].kind # "load"
           \/ calls[t][s].id # tab[t].route,
           LoadsRoute(t)
    PROVE  LoadsRoute(t)'
<1>1. PICK s2 \in Slots :
        /\ calls[t][s2].state # "free" /\ calls[t][s2].kind = "load"
        /\ calls[t][s2].id = tab[t].route
    BY DEF LoadsRoute
<1>2. calls'[t][s2] = calls[t][s2]
    BY <1>1 DEF TypeInv, TypeOK
<1> QED BY <1>1, <1>2 DEF LoadsRoute

\* A call that loads the route follows it.
LEMMA RouteSlot ==
    ASSUME TypeInv, NEW t \in Tabs, NEW s \in Slots, NEW c,
           calls' = [calls EXCEPT ![t][s] = c],
           c.state # "free", c.kind = "load", c.id = tab'[t].route
    PROVE  LoadsRoute(t)'
<1>1. calls'[t][s] = c
    BY DEF TypeInv, TypeOK
<1> QED BY <1>1 DEF LoadsRoute

LEMMA RouteSend ==
    ASSUME TypeInv, NEW t \in Tabs, RouteFollowed(t),
           \/ \E p \in Projects : Navigate(t, p)
           \/ ReloadLatest(t) \/ StartAction(t) \/ Save(t)
    PROVE  RouteFollowed(t)'
<1>1. tab \in [Tabs -> Stores] /\ tab[t] \in Stores
    BY DEF TypeInv, TypeOK
<1>2. ASSUME NEW p \in Projects, Navigate(t, p)
      PROVE  RouteFollowed(t)'
    <2>1. CASE p = tab[t].id
        <3>1. tab' = [tab EXCEPT ![t].route = p]
            BY <1>2, <2>1 DEF Navigate
        <3>2. tab'[t].route = p /\ tab'[t].id = p
            BY <1>1, <2>1, <3>1 DEF Stores
        <3> QED BY <3>2 DEF RouteFollowed
    <2>2. CASE p # tab[t].id
        <3>1. tab'[t].route = p
            BY <1>1, <1>2, <2>2 DEF Navigate, Stores
        <3>2. PICK s \in Slots : calls' = [calls EXCEPT ![t][s] = Call("load", p)]
            BY <1>2, <2>2 DEF Navigate, FreeSlots
        <3>3. Call("load", p).state = "sent" /\ Call("load", p).kind = "load"
              /\ Call("load", p).id = p
            BY CallType
        <3>4. LoadsRoute(t)'
            BY <3>1, <3>2, <3>3, RouteSlot
        <3> QED BY <3>4 DEF RouteFollowed
    <2> QED BY <2>1, <2>2
<1>3. CASE ReloadLatest(t) \/ StartAction(t) \/ Save(t)
    <2>1. /\ tab'[t].route = tab[t].route /\ tab'[t].id = tab[t].id
          /\ tab'[t].failed = tab[t].failed
        BY <1>1, <1>3 DEF ReloadLatest, StartAction, Save, Stores
    <2>2. PICK s \in FreeSlots(t) : \E c : calls' = [calls EXCEPT ![t][s] = c]
        BY <1>3 DEF ReloadLatest, StartAction, Save
    <2>3. s \in Slots /\ calls[t][s].state = "free"
        BY <2>2 DEF FreeSlots
    <2>4. LoadsRoute(t) => LoadsRoute(t)'
        BY <2>1, <2>2, <2>3, OtherSlot
    <2> QED BY <2>1, <2>4 DEF RouteFollowed
<1> QED BY <1>2, <1>3

LEMMA RouteServe ==
    ASSUME TypeInv, NEW t \in Tabs, RouteFollowed(t), NEW s \in Slots, Serve(t, s)
    PROVE  RouteFollowed(t)'
<1> DEFINE call == calls[t][s]
<1>1. call \in Calls /\ tab' = tab
    BY DEF TypeInv, TypeOK, Serve, ServeLoad, ServeSave
<1>2. CASE ServeLoad(t, s)
    <2>1. call.kind = "load" /\ call.state = "sent"
          /\ calls' = [calls EXCEPT ![t][s] =
                          Answered(call, Len(history[call.id]), Latest(call.id))]
        BY <1>2 DEF ServeLoad
    <2>2. PICK c : c = Answered(call, Len(history[call.id]), Latest(call.id))
        OBVIOUS
    <2>3. c.state = "answered" /\ c.kind = "load" /\ c.id = call.id
        BY <1>1, <2>1, <2>2 DEF Answered, Calls
    <2>4. calls' = [calls EXCEPT ![t][s] = c]
        BY <2>1, <2>2
    <2>5. LoadsRoute(t) => LoadsRoute(t)'
        <3>1. CASE call.id = tab[t].route
            BY <1>1, <2>3, <2>4, <3>1, RouteSlot
        <3>2. CASE call.id # tab[t].route
            BY <1>1, <2>4, <3>2, OtherSlot
        <3> QED BY <3>1, <3>2
    <2> QED BY <1>1, <2>5 DEF RouteFollowed
<1>3. CASE ServeSave(t, s)
    <2>1. call.kind = "save" /\ \E c : calls' = [calls EXCEPT ![t][s] = c]
        BY <1>3 DEF ServeSave
    <2>2. LoadsRoute(t) => LoadsRoute(t)'
        BY <1>1, <2>1, OtherSlot
    <2> QED BY <1>1, <2>2 DEF RouteFollowed
<1> QED BY <1>2, <1>3 DEF Serve

\* An answer taken: either it is the route's project, or the project shown has
\* changed and the effect loads the route, or the load that was under way goes on.
LEMMA RouteTake ==
    ASSUME TypeInv, NEW t \in Tabs, RouteFollowed(t), NEW s \in Slots,
           NEW store \in Stores, Take(t, s, store),
           store.route = tab[t].route, store.failed = tab[t].failed,
           store.id = calls[t][s].id
    PROVE  RouteFollowed(t)'
<1>1. tab \in [Tabs -> Stores]
    BY DEF TypeInv, TypeOK
<1>2. tab'[t].route = tab[t].route /\ tab'[t].id = store.id /\ tab'[t].failed = tab[t].failed
    BY <1>1 DEF Take, Show, Stores
<1>3. CASE Reloads(tab[t], store)
    <2>1. calls' = [calls EXCEPT ![t][s] = Call("load", store.route)]
        BY <1>3 DEF Take
    <2>2. store.route \in Projects
        BY DEF Stores
    <2>3. /\ Call("load", store.route).state = "sent"
          /\ Call("load", store.route).kind = "load"
          /\ Call("load", store.route).id = store.route
        BY <2>2, CallType
    <2>4. LoadsRoute(t)'
        BY <1>2, <2>1, <2>3, RouteSlot
    <2> QED BY <2>4 DEF RouteFollowed
<1>4. CASE ~Reloads(tab[t], store)
    <2>1. calls' = [calls EXCEPT ![t][s] = Free]
        BY <1>4 DEF Take
    <2>2. store.id = store.route \/ tab[t].id = store.id
        BY <1>4 DEF Reloads
    <2>3. CASE store.id = store.route
        BY <1>2, <2>3 DEF RouteFollowed
    <2>4. CASE store.id # store.route
        <3>1. LoadsRoute(t) => LoadsRoute(t)'
            BY <1>2, <2>1, <2>4, OtherSlot
        <3> QED BY <1>2, <2>2, <2>4, <3>1 DEF RouteFollowed
    <2> QED BY <2>3, <2>4
<1> QED BY <1>3, <1>4

LEMMA AnswerStores ==
    ASSUME TypeInv, NEW t \in Tabs, NEW s \in Slots, LoadAnswered(t, s) \/ SaveAnswered(t, s)
    PROVE  \E store \in Stores :
              /\ Take(t, s, store)
              /\ store.route = tab[t].route /\ store.failed = tab[t].failed
              /\ FromAnswer(store, calls[t][s])
<1> DEFINE call == calls[t][s]
           new == Replaced(tab[t], call)
           cleared == [new EXCEPT !.undo = <<>>, !.redo = <<>>]
<1>1. /\ call \in Calls /\ call.state = "answered" /\ call.id \in Projects
      /\ tab[t] \in Stores
    BY DEF TypeInv, TypeOK, CallsFit, LoadAnswered, SaveAnswered
<1>2. new \in Stores
    BY <1>1, ReplacedStore
<1>3. /\ new.route = tab[t].route /\ new.failed = tab[t].failed
      /\ FromAnswer(new, call)
    BY <1>1 DEF Replaced, FromAnswer, Stores
<1>4. <<>> \in Seq(SUBSET Marks)
    OBVIOUS
<1> HIDE DEF new
<1>5. cleared \in Stores
    BY <1>2, <1>4 DEF Stores
<1>6. /\ cleared.route = tab[t].route /\ cleared.failed = tab[t].failed
      /\ FromAnswer(cleared, call)
    BY <1>2, <1>3 DEF FromAnswer, Stores
<1>7. Take(t, s, new) \/ Take(t, s, cleared)
    BY DEF LoadAnswered, SaveAnswered, new
<1> QED BY <1>2, <1>3, <1>5, <1>6, <1>7

LEMMA RouteAnswer ==
    ASSUME TypeInv, NEW t \in Tabs, RouteFollowed(t), NEW s \in Slots, Answer(t, s)
    PROVE  RouteFollowed(t)'
<1> DEFINE call == calls[t][s]
<1>1. tab \in [Tabs -> Stores] /\ call \in Calls /\ (call.state = "refused" => call.kind = "save")
    BY DEF TypeInv, TypeOK, CallsFit
<1>2. CASE LoadAnswered(t, s) \/ SaveAnswered(t, s)
    <2>1. PICK store \in Stores :
              /\ Take(t, s, store)
              /\ store.route = tab[t].route /\ store.failed = tab[t].failed
              /\ FromAnswer(store, call)
        BY <1>2, AnswerStores
    <2> QED BY <2>1, RouteTake DEF FromAnswer
<1>3. CASE SaveRefused(t, s) \/ ActionAnswered(t, s)
    <2>1. /\ tab'[t].route = tab[t].route /\ tab'[t].id = tab[t].id
          /\ tab'[t].failed = tab[t].failed
        BY <1>1, <1>3 DEF SaveRefused, ActionAnswered, Stores
    <2>2. call.kind # "load" /\ \E c : calls' = [calls EXCEPT ![t][s] = c]
        BY <1>1, <1>3 DEF SaveRefused, ActionAnswered
    <2>3. LoadsRoute(t) => LoadsRoute(t)'
        BY <2>1, <2>2, OtherSlot
    <2> QED BY <2>1, <2>3 DEF RouteFollowed
<1>4. CASE CallFails(t, s)
    <2>1. tab'[t].failed = TRUE
        BY <1>1, <1>4 DEF CallFails, Stores
    <2> QED BY <2>1 DEF RouteFollowed
<1> QED BY <1>2, <1>3, <1>4 DEF Answer

LEMMA RouteStep == TypeInv /\ RouteInv /\ [Next]_vars => RouteInv'
<1> SUFFICES ASSUME TypeInv, RouteInv, [Next]_vars, NEW x \in Tabs
             PROVE  RouteFollowed(x)'
    BY DEF RouteInv
<1>1. RouteFollowed(x)
    BY DEF RouteInv
<1>2. ASSUME tab'[x] = tab[x], calls'[x] = calls[x] PROVE RouteFollowed(x)'
    BY <1>1, <1>2 DEF RouteFollowed, LoadsRoute
<1>3. CASE UNCHANGED vars \/ \E p \in Projects, m \in Marks : OtherClientSaves(p, m)
    BY <1>2, <1>3 DEF vars, OtherClientSaves
<1>4. ASSUME NEW t \in Tabs, t # x, TabStep(t) PROVE RouteFollowed(x)'
    BY <1>2, <1>4, Frame
<1>5. CASE Edit(x)
    <2>1. Drafted(tab[x], tab'[x]) /\ calls' = calls
        BY <1>5, EditDraft
    <2> QED BY <1>1, <2>1 DEF Drafted, DraftOnly, RouteFollowed, LoadsRoute
<1>6. CASE TabStep(x)
    BY <1>1, <1>5, <1>6, RouteSend, RouteServe, RouteAnswer DEF TabStep
<1> QED BY <1>3, <1>4, <1>6, Steps

\* Whatever loads, saves and panels of several projects cross, a tab all of whose
\* calls are answered and none failed shows the project of its URL.
THEOREM RouteShown == Spec => []RouteIsShown
<1>1. Init => RouteInv
    BY DEF Init, RouteInv, RouteFollowed
<1>2. RouteInv => RouteIsShown
    BY DEF RouteInv, RouteFollowed, LoadsRoute, RouteIsShown, InFlight, FreeSlots
<1> QED BY <1>1, <1>2, RouteStep, TypeAlways, PTL DEF Spec

-----------------------------------------------------------------------------
(* The documents a tab shows and saves.                                    *)

\* Revision n of project p, with this content.
RecordedAs(p, n, layout, switch) ==
    /\ n \in DOMAIN history[p]
    /\ history[p][n].layout = layout /\ history[p][n].switch = switch

\* Revision n of project p is recorded, and all of it was on the tab's screen.
KnownTo(t, p, n) ==
    n \in DOMAIN history[p] /\ MarksOf(history[p][n]) \subseteq seen[t]

StoreSound(t) ==
    /\ KnownTo(t, tab[t].id, tab[t].revision)
    /\ "layout" \notin tab[t].dirty =>
            tab[t].layout = history[tab[t].id][tab[t].revision].layout
    /\ "switch" \notin tab[t].dirty =>
            tab[t].switch = history[tab[t].id][tab[t].revision].switch

CallSound(t, s) ==
    LET call == calls[t][s]
    IN  /\ call.state = "answered" =>
            RecordedAs(call.id, call.revision, call.layout, call.switch)
        /\ call.state = "sent" /\ call.kind = "save" => KnownTo(t, call.id, call.revision)

SoundInv ==
    /\ \A t \in Tabs : StoreSound(t) /\ \A s \in Slots : CallSound(t, s)
    /\ NoBlindOverwrite

\* Histories only grow.
Grows == \A p \in Projects : \A n \in DOMAIN history[p] :
            n \in DOMAIN history'[p] /\ history'[p][n] = history[p][n]

LEMMA RecordEffect ==
    ASSUME TypeInv, NEW p \in Projects, NEW revision \in Revisions, Record(p, revision)
    PROVE  /\ Grows
           /\ \A q \in Projects \ {p} : history'[q] = history[q]
           /\ DOMAIN history'[p] = DOMAIN history[p] \cup {Len(history[p]) + 1}
           /\ history'[p][Len(history[p]) + 1] = revision
<1>1. PICK old : old = history[p]
    OBVIOUS
<1>2. old \in Seq(Revisions)
    BY <1>1 DEF TypeInv, TypeOK
<1>3. PICK n : n = Len(old)
    OBVIOUS
<1>4. n \in Nat
    BY <1>2, <1>3, LenProperties
<1>5. PICK longer : longer = Append(old, revision)
    OBVIOUS
<1>6. /\ DOMAIN old = 1 .. n /\ DOMAIN longer = 1 .. n + 1
      /\ \A i \in 1 .. n : longer[i] = old[i]
      /\ longer[n + 1] = revision
    <2>1. longer \in Seq(Revisions) /\ Len(longer) = n + 1
        BY <1>2, <1>3, <1>5
    <2>2. DOMAIN longer = 1 .. n + 1
        BY <2>1, LenProperties
    <2>3. \A i \in 1 .. n : longer[i] = old[i]
        BY <1>2, <1>3, <1>5
    <2>4. longer[n + 1] = revision
        BY <1>2, <1>3, <1>5
    <2>5. DOMAIN old = 1 .. n
        BY <1>2, <1>3, LenProperties
    <2> QED BY <2>2, <2>3, <2>4, <2>5
<1>7. 1 .. n + 1 = 1 .. n \cup {n + 1}
    BY <1>4
<1>8. history' = [history EXCEPT ![p] = longer]
    BY <1>1, <1>5 DEF Record
<1>9. history'[p] = longer /\ \A q \in Projects \ {p} : history'[q] = history[q]
    BY <1>8 DEF TypeInv, TypeOK
<1>10. \A i \in DOMAIN old : i \in DOMAIN longer /\ longer[i] = old[i]
    BY <1>6, <1>7
<1>11. Grows
    BY <1>1, <1>9, <1>10 DEF Grows
<1> QED BY <1>1, <1>3, <1>6, <1>7, <1>9, <1>11, Zenon

\* What was known to a tab stays known to it.
LEMMA KnownStays ==
    ASSUME NEW t \in Tabs, NEW p \in Projects, NEW n, Grows, seen[t] \subseteq seen'[t],
           KnownTo(t, p, n)
    PROVE  KnownTo(t, p, n)'
BY DEF KnownTo, Grows

LEMMA RecordedStays ==
    ASSUME NEW p \in Projects, NEW n, NEW layout, NEW switch, Grows,
           RecordedAs(p, n, layout, switch)
    PROVE  RecordedAs(p, n, layout, switch)'
BY DEF RecordedAs, Grows

LEMMA StoreStays ==
    ASSUME TypeInv, NEW t \in Tabs, StoreSound(t), Grows, seen[t] \subseteq seen'[t],
           DraftOnly(tab[t], tab'[t])
    PROVE  StoreSound(t)'
<1>1. tab[t].id \in Projects
    BY DEF TypeInv, TypeOK, Stores
<1>2. KnownTo(t, tab[t].id, tab[t].revision) /\ KnownTo(t, tab[t].id, tab[t].revision)'
    <2>1. PICK p, n : p \in Projects /\ p = tab[t].id /\ n = tab[t].revision
        BY <1>1
    <2>2. KnownTo(t, p, n)
        BY <2>1 DEF StoreSound
    <2>3. KnownTo(t, p, n)'
        BY <2>1, <2>2, KnownStays
    <2>4. tab'[t].id = p /\ tab'[t].revision = n
        BY <2>1 DEF DraftOnly
    <2> QED BY <2>1, <2>2, <2>3, <2>4
<1>3. history'[tab[t].id][tab[t].revision] = history[tab[t].id][tab[t].revision]
    BY <1>1, <1>2 DEF KnownTo, Grows
<1> QED BY <1>2, <1>3 DEF StoreSound, DraftOnly

LEMMA CallStays ==
    ASSUME TypeInv, NEW t \in Tabs, NEW s \in Slots, CallSound(t, s), Grows,
           seen[t] \subseteq seen'[t], calls'[t][s] = calls[t][s]
    PROVE  CallSound(t, s)'
<1> DEFINE call == calls[t][s]
<1>1. call.state # "free" => call.id \in Projects
    BY DEF TypeInv, CallsFit
<1>2. ASSUME call.state = "answered"
      PROVE  RecordedAs(call.id, call.revision, call.layout, call.switch)'
    <2>1. PICK p, n, l, w : p = call.id /\ n = call.revision /\ l = call.layout /\ w = call.switch
        OBVIOUS
    <2>2. p \in Projects /\ RecordedAs(p, n, l, w)
        BY <1>1, <1>2, <2>1 DEF CallSound
    <2>3. RecordedAs(p, n, l, w)'
        BY <2>2, RecordedStays
    <2> QED BY <2>1, <2>3
<1>3. ASSUME call.state = "sent", call.kind = "save"
      PROVE  KnownTo(t, call.id, call.revision)'
    <2>1. PICK p, n : p = call.id /\ n = call.revision
        OBVIOUS
    <2>2. p \in Projects /\ KnownTo(t, p, n)
        BY <1>1, <1>3, <2>1 DEF CallSound
    <2>3. KnownTo(t, p, n)'
        BY <2>2, KnownStays
    <2> QED BY <2>1, <2>3
<1> QED BY <1>2, <1>3 DEF CallSound

SeenGrows == \A t \in Tabs : seen[t] \subseteq seen'[t]

\* One revision more, by a tab that has seen the one before it or by nobody here.
LEMMA RecordNotBlind ==
    ASSUME TypeInv, NoBlindOverwrite, SeenGrows,
           NEW p \in Projects, NEW revision \in Revisions, Record(p, revision),
           revision.by \in Tabs => MarksOf(Latest(p)) \subseteq seen[revision.by]
    PROVE  NoBlindOverwrite'
<1>1. /\ Grows
      /\ \A q \in Projects \ {p} : history'[q] = history[q]
      /\ DOMAIN history'[p] = DOMAIN history[p] \cup {Len(history[p]) + 1}
      /\ history'[p][Len(history[p]) + 1] = revision
    BY RecordEffect
<1> SUFFICES ASSUME NEW q \in Projects, NEW n \in DOMAIN history'[q],
                    n > 1, history'[q][n].by \in Tabs
             PROVE  MarksOf(history'[q][n - 1]) \ MarksOf(history'[q][n])
                        \subseteq seen'[history'[q][n].by]
    BY DEF NoBlindOverwrite
<1>2. ASSUME n \in DOMAIN history[q]
      PROVE  MarksOf(history'[q][n - 1]) \ MarksOf(history'[q][n])
                 \subseteq seen'[history'[q][n].by]
    <2>1. PICK len : len = Len(history[q])
        OBVIOUS
    <2>2. len \in Nat /\ DOMAIN history[q] = 1 .. len
        BY <2>1, LenProperties DEF TypeInv, TypeOK
    <2>3. n - 1 \in DOMAIN history[q]
        BY <1>2, <2>2
    <2>4. history'[q][n] = history[q][n] /\ history'[q][n - 1] = history[q][n - 1]
        BY <1>1, <1>2, <2>3 DEF Grows
    <2>5. MarksOf(history[q][n - 1]) \ MarksOf(history[q][n]) \subseteq seen[history[q][n].by]
        BY <1>2, <2>4 DEF NoBlindOverwrite
    <2> QED BY <2>4, <2>5 DEF SeenGrows
<1>3. ASSUME n \notin DOMAIN history[q]
      PROVE  MarksOf(history'[q][n - 1]) \ MarksOf(history'[q][n])
                 \subseteq seen'[history'[q][n].by]
    <2>1. PICK len : len = Len(history[p])
        OBVIOUS
    <2>2. len \in Nat /\ len \in DOMAIN history[p]
        BY <2>1, LatestType
    <2>3. q = p /\ n = len + 1
        BY <1>1, <1>3, <2>1
    <2>4. n - 1 = len
        BY <2>2, <2>3
    <2>5. history'[p][len] = Latest(p)
        BY <1>1, <2>1, <2>2 DEF Grows, Latest
    <2>6. history'[p][n] = revision
        BY <1>1, <2>1, <2>3
    <2> QED BY <2>3, <2>4, <2>5, <2>6 DEF SeenGrows
<1> QED BY <1>2, <1>3

LEMMA SameNotBlind ==
    ASSUME NoBlindOverwrite, SeenGrows, history' = history
    PROVE  NoBlindOverwrite'
BY DEF NoBlindOverwrite, SeenGrows

\* The screen of a tab: its own draft, or the document of an answer, all of it seen.
LEMMA TabEffect ==
    ASSUME TypeInv, NEW t \in Tabs, TabStep(t)
    PROVE  /\ seen[t] \subseteq seen'[t]
           /\ \/ DraftOnly(tab[t], tab'[t])
              \/ \E s \in Slots : /\ FromAnswer(tab'[t], calls[t][s])
                                 /\ MarksOf(tab'[t]) \subseteq seen'[t]
<1>1. /\ tab \in [Tabs -> Stores] /\ tab[t] \in Stores
      /\ seen \in [Tabs -> SUBSET Marks]
    BY DEF TypeInv, TypeOK
<1>2. CASE Edit(t)
    BY <1>2, EditDraft DEF Drafted
<1>3. CASE \E p \in Projects : Navigate(t, p)
    <2>1. seen' = seen
        BY <1>3 DEF Navigate
    <2>2. DraftOnly(tab[t], tab'[t])
        BY <1>1, <1>3 DEF Navigate, DraftOnly, Stores
    <2> QED BY <2>1, <2>2
<1>4. CASE ReloadLatest(t) \/ StartAction(t) \/ Save(t)
    <2>1. seen' = seen
        BY <1>4 DEF ReloadLatest, StartAction, Save
    <2>2. DraftOnly(tab[t], tab'[t])
        BY <1>1, <1>4 DEF ReloadLatest, StartAction, Save, DraftOnly, Stores
    <2> QED BY <2>1, <2>2
<1>5. CASE \E s \in Slots : Serve(t, s)
    BY <1>5 DEF Serve, ServeLoad, ServeSave, DraftOnly
<1>6. ASSUME NEW s \in Slots, SaveRefused(t, s) \/ CallFails(t, s) \/ ActionAnswered(t, s)
      PROVE  seen' = seen /\ DraftOnly(tab[t], tab'[t])
    <2>1. CASE SaveRefused(t, s)
        BY <1>1, <2>1 DEF SaveRefused, DraftOnly, Stores
    <2>2. CASE CallFails(t, s)
        BY <1>1, <2>2 DEF CallFails, DraftOnly, Stores
    <2>3. CASE ActionAnswered(t, s)
        BY <1>1, <2>3 DEF ActionAnswered, DraftOnly, Stores
    <2> QED BY <1>6, <2>1, <2>2, <2>3
<1>7. ASSUME NEW s \in Slots, LoadAnswered(t, s) \/ SaveAnswered(t, s)
      PROVE  /\ seen[t] \subseteq seen'[t]
             /\ FromAnswer(tab'[t], calls[t][s]) /\ MarksOf(tab'[t]) \subseteq seen'[t]
    <2>1. PICK store \in Stores : Take(t, s, store) /\ FromAnswer(store, calls[t][s])
        BY <1>7, AnswerStores
    <2>2. PICK new : new = [store EXCEPT !.loading = TRUE]
        OBVIOUS
    <2>3. FromAnswer(new, calls[t][s])
        BY <2>1, <2>2 DEF FromAnswer, Stores
    <2>4. Show(t, store) \/ Show(t, new)
        BY <2>1, <2>2 DEF Take
    <2>5. tab'[t] = store \/ tab'[t] = new
        BY <1>1, <2>4 DEF Show
    <2>6. seen'[t] = seen[t] \cup MarksOf(tab'[t])
        BY <1>1, <2>4 DEF Show
    <2> QED BY <2>1, <2>3, <2>5, <2>6
<1> QED BY <1>2, <1>3, <1>4, <1>5, <1>6, <1>7 DEF TabStep, Answer

\* A call that carries a document or a revision has it from a store or a history.
LEMMA SentEffect ==
    ASSUME TypeInv, NEW t \in Tabs, NEW s \in Slots,
           \/ Edit(t) \/ \E p \in Projects : Navigate(t, p)
           \/ ReloadLatest(t) \/ StartAction(t) \/ Save(t)
    PROVE  LET c == calls'[t][s]
           IN  \/ c = calls[t][s]
               \/ c.state = "sent" /\ c.kind # "save"
               \/ c.state = "sent" /\ c.id = tab[t].id /\ c.revision = tab[t].revision
<1>1. calls \in [Tabs -> [Slots -> Calls]]
    BY DEF TypeInv, TypeOK
<1>2. ASSUME NEW s2 \in Slots, NEW c, calls' = [calls EXCEPT ![t][s2] = c]
      PROVE  calls'[t][s] = calls[t][s] \/ calls'[t][s] = c
    BY <1>1, <1>2
<1>3. \A k, p : Call(k, p).state = "sent" /\ Call(k, p).kind = k
    BY DEF Call, Free
<1>4. CASE Edit(t)
    BY <1>4, EditDraft
<1>5. CASE \E p \in Projects : Navigate(t, p)
    <2>1. \/ calls' = calls
          \/ \E s2 \in Slots, p \in Projects : calls' = [calls EXCEPT ![t][s2] = Call("load", p)]
        BY <1>5 DEF Navigate, FreeSlots
    <2> QED BY <1>2, <1>3, <2>1
<1>6. CASE ReloadLatest(t) \/ StartAction(t)
    <2>1. PICK s2 \in Slots, k \in {"load", "action"} :
             calls' = [calls EXCEPT ![t][s2] = Call(k, tab[t].id)]
        BY <1>6 DEF ReloadLatest, StartAction, FreeSlots
    <2>2. calls'[t][s] = calls[t][s] \/ calls'[t][s] = Call(k, tab[t].id)
        BY <1>2, <2>1
    <2> QED BY <1>3, <2>2
<1>7. CASE Save(t)
    <2>1. PICK c : c = [Call("save", tab[t].id) EXCEPT
                    !.revision = tab[t].revision, !.fields = tab[t].dirty,
                    !.layout = tab[t].layout, !.switch = tab[t].switch]
        OBVIOUS
    <2>2. c.state = "sent" /\ c.id = tab[t].id /\ c.revision = tab[t].revision
        BY <2>1 DEF Call, Free
    <2>3. \E s2 \in Slots : calls' = [calls EXCEPT ![t][s2] = c]
        BY <1>7, <2>1 DEF Save, FreeSlots
    <2> QED BY <1>2, <2>2, <2>3
<1> QED BY <1>4, <1>5, <1>6, <1>7

LEMMA AnswerEffect ==
    ASSUME TypeInv, NEW t \in Tabs, NEW s \in Slots, NEW s2 \in Slots, Answer(t, s2)
    PROVE  LET c == calls'[t][s]
           IN  c = calls[t][s] \/ c.state = "free" \/ (c.state = "sent" /\ c.kind # "save")
<1>1. calls \in [Tabs -> [Slots -> Calls]]
    BY DEF TypeInv, TypeOK
<1>2. \A p : Call("load", p).state = "sent" /\ Call("load", p).kind = "load"
    BY DEF Call, Free
<1>3. Free.state = "free"
    BY DEF Free
<1>4. \/ calls' = [calls EXCEPT ![t][s2] = Free]
      \/ \E p : calls' = [calls EXCEPT ![t][s2] = Call("load", p)]
    <2>1. CASE LoadAnswered(t, s2) \/ SaveAnswered(t, s2)
        <3>1. \E store : Take(t, s2, store)
            BY <2>1 DEF LoadAnswered, SaveAnswered
        <3> QED BY <3>1 DEF Take
    <2>2. CASE SaveRefused(t, s2) \/ ActionAnswered(t, s2) \/ CallFails(t, s2)
        BY <2>2 DEF SaveRefused, ActionAnswered, CallFails
    <2> QED BY <2>1, <2>2 DEF Answer
<1>5. ASSUME NEW c, calls' = [calls EXCEPT ![t][s2] = c]
      PROVE  calls'[t][s] = calls[t][s] \/ calls'[t][s] = c
    BY <1>1, <1>5
<1> QED BY <1>2, <1>3, <1>4, <1>5

\* An answer that the history holds after the step.
RecordedNext(c) ==
    /\ c.revision \in DOMAIN history'[c.id]
    /\ history'[c.id][c.revision].layout = c.layout
    /\ history'[c.id][c.revision].switch = c.switch

\* What the server answers is in the history then, and an edit it takes is by a tab
\* that has seen all of the revision before.
LEMMA ServeEffect ==
    ASSUME TypeInv, NEW t \in Tabs, NEW s2 \in Slots, Serve(t, s2), SoundInv
    PROVE  /\ Grows /\ NoBlindOverwrite'
           /\ \A s \in Slots : LET c == calls'[t][s]
                             IN  \/ c = calls[t][s]
                                 \/ c.state = "refused"
                                 \/ /\ c.state = "answered"
                                    /\ RecordedNext(c)
<1> DEFINE call == calls[t][s2]
<1>1. /\ calls \in [Tabs -> [Slots -> Calls]] /\ call \in Calls
      /\ call.state = "sent" /\ call.id \in Projects
      /\ seen' = seen
    BY DEF TypeInv, TypeOK, CallsFit, Serve, ServeLoad, ServeSave
<1>2. PICK p \in Projects : p = call.id
    BY <1>1
<1>3. PICK len : len = Len(history[p])
    OBVIOUS
<1>4. len \in Nat /\ len \in DOMAIN history[p] /\ Latest(p) \in Revisions
      /\ Latest(p) = history[p][len]
    BY <1>3, LatestType DEF Latest
<1>5. ASSUME NEW c, NEW s \in Slots, calls' = [calls EXCEPT ![t][s2] = c]
      PROVE  calls'[t][s] = calls[t][s] \/ calls'[t][s] = c
    BY <1>1, <1>5
<1>6. NoBlindOverwrite /\ SeenGrows
    BY <1>1 DEF SoundInv, SeenGrows
<1>7. CASE ServeLoad(t, s2)
    <2>1. PICK c : c = Answered(call, len, Latest(p))
        OBVIOUS
    <2>2. c.state = "answered" /\ c.id = p /\ c.revision = len
          /\ c.layout = Latest(p).layout /\ c.switch = Latest(p).switch
        <3>1. PICK doc \in Revisions : doc = Latest(p)
            BY <1>4
        <3>2. c = Answered(call, len, doc)
            BY <2>1, <3>1
        <3>3. /\ c.state = "answered" /\ c.id = call.id /\ c.revision = len
              /\ c.layout = doc.layout /\ c.switch = doc.switch
            BY <1>1, <1>4, <3>2, AnsweredType
        <3> QED BY <1>2, <3>1, <3>3
    <2>3. history' = history /\ calls' = [calls EXCEPT ![t][s2] = c]
        BY <1>2, <1>3, <1>7, <2>1 DEF ServeLoad
    <2>4. RecordedNext(c)
        BY <1>4, <2>2, <2>3 DEF RecordedNext
    <2>5. Grows /\ NoBlindOverwrite'
        BY <1>6, <2>3, SameNotBlind DEF Grows
    <2> QED BY <1>5, <2>2, <2>3, <2>4, <2>5
<1>8. CASE ServeSave(t, s2)
    <2>1. PICK doc : doc = [layout |-> Pick(call, "layout"), switch |-> Pick(call, "switch"), by |-> t]
        OBVIOUS
    <2>2. PICK r : r = [Call("save", call.id) EXCEPT !.state = "refused"]
        OBVIOUS
    <2>3. PICK n : n = len + 1
        OBVIOUS
    <2>4. PICK c : c = Answered(call, n, doc)
        OBVIOUS
    <2>5. call.kind = "save"
        BY <1>8 DEF ServeSave
    <2>6. \/ /\ Accepted(call) /\ Record(p, doc)
             /\ calls' = [calls EXCEPT ![t][s2] = c]
          \/ history' = history /\ calls' = [calls EXCEPT ![t][s2] = r]
        BY <1>2, <1>3, <1>8, <2>1, <2>2, <2>3, <2>4 DEF ServeSave
    <2>7. CASE history' = history /\ calls' = [calls EXCEPT ![t][s2] = r]
        <3>1. r.state = "refused"
            BY <2>2 DEF Call, Free
        <3>2. Grows /\ NoBlindOverwrite'
            BY <1>6, <2>7, SameNotBlind DEF Grows
        <3> QED BY <1>5, <2>7, <3>1, <3>2
    <2>8. CASE Accepted(call) /\ Record(p, doc) /\ calls' = [calls EXCEPT ![t][s2] = c]
        <3>1. doc \in Revisions /\ doc.by = t
            <4>1. Pick(call, "layout") \in SUBSET Marks
                BY <1>1, <1>2, <1>4 DEF Pick, Calls, Revisions
            <4>2. Pick(call, "switch") \in Marks \cup {Nothing}
                BY <1>1, <1>2, <1>4 DEF Pick, Calls, Revisions
            <4> QED BY <2>1, <4>1, <4>2 DEF Revisions
        <3>2. /\ c.state = "answered" /\ c.id = p /\ c.revision = n
              /\ c.layout = doc.layout /\ c.switch = doc.switch
            <4>1. n \in Nat
                BY <1>4, <2>3
            <4> QED BY <1>1, <1>2, <2>4, <3>1, <4>1, AnsweredType
        <3>3. /\ Grows /\ DOMAIN history'[p] = DOMAIN history[p] \cup {n}
              /\ history'[p][n] = doc
            BY <1>3, <2>3, <2>8, <3>1, RecordEffect
        <3>4. RecordedNext(c)
            BY <3>2, <3>3 DEF RecordedNext
        <3>5. MarksOf(Latest(p)) \subseteq seen[t]
            <4>1. call.revision = len
                BY <1>2, <1>3, <2>8 DEF Accepted
            <4>2. KnownTo(t, call.id, call.revision)
                BY <1>1, <2>5 DEF SoundInv, CallSound
            <4> QED BY <1>2, <1>4, <4>1, <4>2 DEF KnownTo
        <3>6. NoBlindOverwrite'
            BY <1>6, <2>8, <3>1, <3>5, RecordNotBlind
        <3> QED BY <1>5, <2>8, <3>2, <3>3, <3>4, <3>6
    <2> QED BY <2>6, <2>7, <2>8
<1> QED BY <1>7, <1>8 DEF Serve

LEMMA HistoryEffect ==
    ASSUME TypeInv, SoundInv, NEW t \in Tabs, TabStep(t), SeenGrows
    PROVE  Grows /\ NoBlindOverwrite'
<1>1. NoBlindOverwrite
    BY DEF SoundInv
<1>2. ASSUME history' = history PROVE Grows /\ NoBlindOverwrite'
    BY <1>1, <1>2, SameNotBlind DEF Grows
<1>3. CASE \E s \in Slots : Serve(t, s)
    BY <1>3, ServeEffect
<1>4. ASSUME NEW s \in Slots, ActionAnswered(t, s) PROVE Grows /\ NoBlindOverwrite'
    <2>1. PICK p \in Projects : p = calls[t][s].id
        BY <1>4 DEF ActionAnswered, TypeInv, CallsFit
    <2>2. PICK doc : doc = [Latest(p) EXCEPT !.by = Nothing]
        OBVIOUS
    <2>3. doc \in Revisions /\ doc.by \notin Tabs
        BY <2>2, LatestType, ClientAssumption DEF Revisions
    <2>4. history' = history \/ Record(p, doc)
        BY <1>4, <2>1, <2>2 DEF ActionAnswered
    <2>5. CASE Record(p, doc)
        BY <1>1, <2>3, <2>5, RecordEffect, RecordNotBlind
    <2> QED BY <1>2, <2>4, <2>5
<1>5. ASSUME NEW s \in Slots,
             LoadAnswered(t, s) \/ SaveAnswered(t, s) \/ SaveRefused(t, s) \/ CallFails(t, s)
      PROVE  history' = history
    BY <1>5 DEF LoadAnswered, SaveAnswered, SaveRefused, CallFails
<1>6. CASE Edit(t)
    BY <1>2, <1>6 DEF Edit, PushUndo, Undo, Redo, UpdateElement, AddElement, RemoveElement, SetSwitch
<1>7. CASE \/ \E p \in Projects : Navigate(t, p)
           \/ ReloadLatest(t) \/ StartAction(t) \/ Save(t)
    BY <1>2, <1>7 DEF Navigate, ReloadLatest, StartAction, Save
<1> QED BY <1>2, <1>3, <1>4, <1>5, <1>6, <1>7 DEF TabStep, Answer

\* A store that takes the document of a sound answer is sound.
LEMMA AnswerSound ==
    ASSUME TypeInv, NEW t \in Tabs, NEW s \in Slots, CallSound(t, s), Grows,
           FromAnswer(tab'[t], calls[t][s]), MarksOf(tab'[t]) \subseteq seen'[t]
    PROVE  StoreSound(t)'
<1>1. PICK p, n : p \in Projects /\ p = calls[t][s].id /\ n = calls[t][s].revision
    BY DEF FromAnswer, TypeInv, CallsFit
<1>2. RecordedAs(p, n, calls[t][s].layout, calls[t][s].switch)
    BY <1>1 DEF FromAnswer, CallSound
<1>3. n \in DOMAIN history'[p] /\ history'[p][n] = history[p][n]
    BY <1>1, <1>2 DEF RecordedAs, Grows
<1>4. /\ tab'[t].id = p /\ tab'[t].revision = n
      /\ tab'[t].layout = history'[p][n].layout /\ tab'[t].switch = history'[p][n].switch
    BY <1>1, <1>2, <1>3 DEF FromAnswer, RecordedAs
<1>5. MarksOf(history'[p][n]) = MarksOf(tab'[t])
    BY <1>4 DEF MarksOf
<1> QED BY <1>3, <1>4, <1>5 DEF StoreSound, KnownTo

\* A call that carries the revision of a sound store is sound.
LEMMA SentSound ==
    ASSUME TypeInv, NEW t \in Tabs, NEW s \in Slots, StoreSound(t), Grows, SeenGrows,
           calls'[t][s].state = "sent",
           calls'[t][s].id = tab[t].id, calls'[t][s].revision = tab[t].revision
    PROVE  CallSound(t, s)'
<1>1. PICK p, n : p \in Projects /\ p = tab[t].id /\ n = tab[t].revision
    BY DEF TypeInv, TypeOK, Stores
<1>2. KnownTo(t, p, n)
    BY <1>1 DEF StoreSound
<1>3. KnownTo(t, p, n)'
    BY <1>1, <1>2, KnownStays DEF SeenGrows
<1>4. calls'[t][s].id = p /\ calls'[t][s].revision = n
    BY <1>1
<1> QED BY <1>3, <1>4 DEF CallSound

LEMMA SoundTabStep ==
    ASSUME TypeInv, SoundInv, NEW t \in Tabs, TabStep(t)
    PROVE  SoundInv'
<1>1. SeenGrows
    BY Frame, TabEffect DEF SeenGrows
<1>2. Grows /\ NoBlindOverwrite'
    BY <1>1, HistoryEffect
<1>3. ASSUME NEW x \in Tabs PROVE StoreSound(x)'
    <2>1. StoreSound(x)
        BY DEF SoundInv
    <2>2. CASE x # t
        <3>1. DraftOnly(tab[x], tab'[x])
            BY <2>2, Frame DEF DraftOnly
        <3> QED BY <1>1, <1>2, <2>1, <3>1, StoreStays DEF SeenGrows
    <2>3. CASE x = t
        <3>1. CASE DraftOnly(tab[t], tab'[t])
            BY <1>1, <1>2, <2>1, <2>3, <3>1, StoreStays DEF SeenGrows
        <3>2. CASE \E s \in Slots : /\ FromAnswer(tab'[t], calls[t][s])
                                   /\ MarksOf(tab'[t]) \subseteq seen'[t]
            BY <1>2, <2>3, <3>2, AnswerSound DEF SoundInv
        <3> QED BY <3>1, <3>2, TabEffect
    <2> QED BY <2>2, <2>3
<1>4. ASSUME NEW x \in Tabs, NEW s \in Slots PROVE CallSound(x, s)'
    <2>1. CallSound(x, s) /\ StoreSound(x)
        BY DEF SoundInv
    <2>2. ASSUME calls'[x][s] = calls[x][s] PROVE CallSound(x, s)'
        BY <1>1, <1>2, <2>1, <2>2, CallStays DEF SeenGrows
    <2>3. CASE x # t
        BY <2>2, <2>3, Frame
    <2>4. ASSUME \/ calls'[x][s].state \in {"free", "refused"}
                 \/ calls'[x][s].state = "sent" /\ calls'[x][s].kind # "save"
          PROVE  CallSound(x, s)'
        BY <2>4 DEF CallSound
    <2>5. CASE x = t
        <3>1. CASE \E s2 \in Slots : Serve(t, s2)
            <4>1. \/ calls'[t][s] = calls[t][s] \/ calls'[t][s].state = "refused"
                  \/ calls'[t][s].state = "answered" /\ RecordedNext(calls'[t][s])
                BY <3>1, ServeEffect
            <4>2. CASE calls'[t][s].state = "answered" /\ RecordedNext(calls'[t][s])
                BY <2>5, <4>2 DEF CallSound, RecordedAs, RecordedNext
            <4> QED BY <2>2, <2>4, <2>5, <4>1, <4>2
        <3>2. CASE \E s2 \in Slots : Answer(t, s2)
            <4>1. \/ calls'[t][s] = calls[t][s] \/ calls'[t][s].state = "free"
                  \/ calls'[t][s].state = "sent" /\ calls'[t][s].kind # "save"
                BY <3>2, AnswerEffect
            <4> QED BY <2>2, <2>4, <2>5, <4>1
        <3>3. CASE \/ Edit(t) \/ \E p \in Projects : Navigate(t, p)
                   \/ ReloadLatest(t) \/ StartAction(t) \/ Save(t)
            <4>1. \/ calls'[t][s] = calls[t][s]
                  \/ calls'[t][s].state = "sent" /\ calls'[t][s].kind # "save"
                  \/ /\ calls'[t][s].state = "sent"
                     /\ calls'[t][s].id = tab[t].id /\ calls'[t][s].revision = tab[t].revision
                BY <3>3, SentEffect
            <4>2. CASE /\ calls'[t][s].state = "sent"
                       /\ calls'[t][s].id = tab[t].id /\ calls'[t][s].revision = tab[t].revision
                BY <1>1, <1>2, <2>1, <2>5, <4>2, SentSound
            <4> QED BY <2>2, <2>4, <2>5, <4>1, <4>2
        <3> QED BY <3>1, <3>2, <3>3 DEF TabStep
    <2> QED BY <2>3, <2>5
<1> QED BY <1>2, <1>3, <1>4 DEF SoundInv

LEMMA SoundStep == TypeInv /\ SoundInv /\ [Next]_vars => SoundInv'
<1> SUFFICES ASSUME TypeInv, SoundInv, [Next]_vars PROVE SoundInv'
    OBVIOUS
<1>1. CASE UNCHANGED vars
    BY <1>1 DEF vars, SoundInv, StoreSound, CallSound, KnownTo, RecordedAs, NoBlindOverwrite
<1>2. ASSUME NEW t \in Tabs, TabStep(t) PROVE SoundInv'
    BY <1>2, SoundTabStep
<1>3. ASSUME NEW p \in Projects, NEW m \in Marks, OtherClientSaves(p, m) PROVE SoundInv'
    <2>1. PICK doc \in Revisions : doc.by = Nothing /\ Record(p, doc)
        <3>1. /\ [Latest(p) EXCEPT !.layout = @ \cup {m}, !.by = Nothing] \in Revisions
              /\ [Latest(p) EXCEPT !.layout = @ \cup {m}, !.by = Nothing].by = Nothing
              /\ [Latest(p) EXCEPT !.switch = m, !.by = Nothing] \in Revisions
              /\ [Latest(p) EXCEPT !.switch = m, !.by = Nothing].by = Nothing
            BY LatestType DEF Revisions
        <3> QED BY <1>3, <3>1 DEF OtherClientSaves
    <2>2. tab' = tab /\ calls' = calls /\ seen' = seen /\ SeenGrows
        BY <1>3 DEF OtherClientSaves, SeenGrows
    <2>3. Grows
        BY <2>1, RecordEffect
    <2>4. doc.by \notin Tabs
        BY <2>1, ClientAssumption
    <2>5. NoBlindOverwrite'
        BY <2>1, <2>2, <2>4, RecordNotBlind DEF SoundInv
    <2>6. ASSUME NEW x \in Tabs PROVE StoreSound(x)'
        <3>1. DraftOnly(tab[x], tab'[x]) /\ seen[x] \subseteq seen'[x]
            BY <2>2 DEF DraftOnly
        <3> QED BY <2>3, <3>1, StoreStays DEF SoundInv
    <2>7. ASSUME NEW x \in Tabs, NEW s \in Slots PROVE CallSound(x, s)'
        <3>1. seen[x] \subseteq seen'[x] /\ calls'[x][s] = calls[x][s]
            BY <2>2
        <3> QED BY <2>3, <3>1, CallStays DEF SoundInv
    <2> QED BY <2>5, <2>6, <2>7 DEF SoundInv
<1> QED BY <1>1, <1>2, <1>3, Steps

LEMMA SoundInit == Init => SoundInv
<1> SUFFICES ASSUME Init PROVE SoundInv
    OBVIOUS
<1>1. \A p \in Projects : history[p] = <<Created>> /\ DOMAIN history[p] = {1}
                            /\ history[p][1] = Created
    BY DEF Init
<1>2. MarksOf(Created) = {}
    BY DEF MarksOf, Created
<1>3. ASSUME NEW t \in Tabs PROVE StoreSound(t)
    <2>1. /\ tab[t].id \in Projects /\ tab[t].revision = 1
          /\ tab[t].layout = {} /\ tab[t].switch = Nothing
        BY DEF Init
    <2> QED BY <1>1, <1>2, <2>1 DEF StoreSound, KnownTo, Created
<1>4. ASSUME NEW t \in Tabs, NEW s \in Slots PROVE CallSound(t, s)
    BY DEF Init, Free, CallSound
<1>5. NoBlindOverwrite
    BY <1>1 DEF NoBlindOverwrite
<1> QED BY <1>3, <1>4, <1>5 DEF SoundInv

LEMMA SoundAlways == Spec => []SoundInv
<1> QED BY SoundInit, SoundStep, TypeAlways, PTL DEF Spec

\* What a tab shows as saved is saved: no order, loss or lateness of answers leaves a
\* clean field with anything but the recorded value of the revision shown.
THEOREM CleanFields == Spec => []CleanFieldsAreCommitted
<1>1. SoundInv => CleanFieldsAreCommitted
    <2> SUFFICES ASSUME SoundInv, NEW t \in Tabs
                 PROVE  /\ tab[t].revision \in DOMAIN history[tab[t].id]
                        /\ \A f \in Fields \ tab[t].dirty :
                             tab[t][f] = history[tab[t].id][tab[t].revision][f]
        BY DEF CleanFieldsAreCommitted
    <2>1. StoreSound(t)
        BY DEF SoundInv
    <2>2. tab[t].revision \in DOMAIN history[tab[t].id]
        BY <2>1 DEF StoreSound, KnownTo
    <2>3. ASSUME NEW f \in Fields, f \notin tab[t].dirty
          PROVE  tab[t][f] = history[tab[t].id][tab[t].revision][f]
        <3>1. CASE f = "layout"
            BY <2>1, <2>3, <3>1 DEF StoreSound
        <3>2. CASE f = "switch"
            BY <2>1, <2>3, <3>2 DEF StoreSound
        <3> QED BY <3>1, <3>2 DEF Fields
    <2> QED BY <2>2, <2>3
<1> QED BY <1>1, SoundAlways, PTL

\* With the revision check, an element disappears from a project only by a tab that
\* showed it.
THEOREM NothingLostUnseen == Spec => []NoBlindOverwrite
<1>1. SoundInv => NoBlindOverwrite
    BY DEF SoundInv
<1> QED BY <1>1, SoundAlways, PTL
=============================================================================

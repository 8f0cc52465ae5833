---------------------------- MODULE ClientStore ----------------------------
(***************************************************************************)
(* The browser's project store, client/src/stores/projectStore.ts, in      *)
(* several tabs of one user, with the calls it has in flight and the       *)
(* revision histories of the projects it edits.                            *)
(*                                                                         *)
(* A tab has a URL naming a project, and one store: the project it shows,  *)
(* which fields of it are edited and not saved, and undo and redo stacks   *)
(* of layouts.  Calls are answered in any order, or fail; the store        *)
(* applies every answer as it comes.  The server is the one                *)
(* EditsKeepLock of ProjectRevisions describes: a PATCH takes effect at    *)
(* once, on the revision it expects, or is refused with 409.               *)
(*                                                                         *)
(* A layout is the set of the marks it contains, a mark being one element  *)
(* as one edit left it; the switch is a mark, too.  The selection, the     *)
(* error text and the revisionConflict notice are only shown: no operation *)
(* reads them.                                                             *)
(***************************************************************************)
EXTENDS Naturals, Sequences, FiniteSets

CONSTANTS
    Tabs,
    Projects,
    Marks,          \* what edits can leave in a document
    Nothing,        \* the switch nobody has chosen yet; the author of no tab
    Slots,          \* the calls a tab may have in flight
    MaxUndo,        \* MAX_UNDO
    MaxSaves        \* bound: the revisions recorded in a behaviour

ASSUME ClientAssumption ==
    /\ Nothing \notin Marks \cup Tabs
    /\ MaxUndo \in Nat \ {0}
    /\ MaxSaves \in Nat

VARIABLES
    history,    \* per project: its revisions, a sequence of [layout, switch, by]
    tab,        \* per tab: the URL's project and the store
    calls,      \* per tab and slot: a call in flight, or Free
    seen,       \* history variable: the marks a tab has shown
    minted      \* history variable: the project a mark was made in, or Nothing

vars == <<history, tab, calls, seen, minted>>

Fields == {"layout", "switch"}      \* the DirtyFields an editor exists for

Created == [layout |-> {}, switch |-> Nothing, by |-> Nothing]

Free == [state |-> "free", kind |-> "load", id |-> Nothing, revision |-> 0,
         fields |-> {}, layout |-> {}, switch |-> Nothing]

\* Every tab has its project loaded.
Init ==
    /\ history = [p \in Projects |-> <<Created>>]
    /\ tab \in [Tabs -> {[route |-> p, id |-> p, revision |-> 1,
                          layout |-> {}, switch |-> Nothing, dirty |-> {},
                          undo |-> <<>>, redo |-> <<>>,
                          loading |-> FALSE, failed |-> FALSE] : p \in Projects}]
    /\ calls = [t \in Tabs |-> [s \in Slots |-> Free]]
    /\ seen = [t \in Tabs |-> {}]
    /\ minted = [m \in Marks |-> Nothing]

-----------------------------------------------------------------------------
(* Editing: synchronous changes of the store.                              *)

MarksOf(doc) == doc.layout \cup ({doc.switch} \ {Nothing})

\* The tab shows what its store now holds.
Show(t, store) ==
    /\ tab' = [tab EXCEPT ![t] = store]
    /\ seen' = [seen EXCEPT ![t] = @ \cup MarksOf(store)]

Mint(t, m) ==
    /\ minted[m] = Nothing
    /\ minted' = [minted EXCEPT ![m] = tab[t].id]

\* Mutant of Newest: one too many is kept.
NewestPlusOne(stack) ==
    IF Len(stack) > MaxUndo + 1
    THEN SubSeq(stack, Len(stack) - MaxUndo, Len(stack)) ELSE stack

\* .slice(-MAX_UNDO)
Newest(stack) ==
    IF Len(stack) > MaxUndo
    THEN SubSeq(stack, Len(stack) - MaxUndo + 1, Len(stack)) ELSE stack

\* Mutant of Remembered: redo survives a new edit.
RememberedKeepsRedo(store) ==
    [store EXCEPT !.undo = Newest(Append(store.undo, store.layout))]

\* The layout goes on the undo stack, and what was undone is forgotten.
Remembered(store) ==
    [store EXCEPT !.undo = Newest(Append(store.undo, store.layout)), !.redo = <<>>]

WithLayout(store, layout) ==
    [store EXCEPT !.layout = layout, !.dirty = @ \cup {"layout"}]

PushUndo(t) ==
    /\ Show(t, Remembered(tab[t]))
    /\ UNCHANGED <<history, calls, minted>>

\* updateElement: no undo entry of its own.
UpdateElement(t, old, new) ==
    /\ old \in tab[t].layout
    /\ Mint(t, new)
    /\ Show(t, WithLayout(tab[t], (tab[t].layout \ {old}) \cup {new}))
    /\ UNCHANGED <<history, calls>>

AddElement(t, new) ==
    /\ Mint(t, new)
    /\ Show(t, WithLayout(Remembered(tab[t]), tab[t].layout \cup {new}))
    /\ UNCHANGED <<history, calls>>

RemoveElement(t, old) ==
    /\ old \in tab[t].layout
    /\ Show(t, WithLayout(Remembered(tab[t]), tab[t].layout \ {old}))
    /\ UNCHANGED <<history, calls, minted>>

SetSwitch(t, new) ==
    /\ Mint(t, new)
    /\ Show(t, [tab[t] EXCEPT !.switch = new, !.dirty = @ \cup {"switch"}])
    /\ UNCHANGED <<history, calls>>

LastOf(stack) == stack[Len(stack)]
ButLast(stack) == SubSeq(stack, 1, Len(stack) - 1)

Undo(t) ==
    LET store == tab[t]
    IN  /\ store.undo # <<>>
        /\ Show(t, WithLayout([store EXCEPT !.undo = ButLast(@),
                                            !.redo = Newest(Append(@, store.layout))],
                              LastOf(store.undo)))
        /\ UNCHANGED <<history, calls, minted>>

Redo(t) ==
    LET store == tab[t]
    IN  /\ store.redo # <<>>
        /\ Show(t, WithLayout([store EXCEPT !.redo = ButLast(@),
                                            !.undo = Newest(Append(@, store.layout))],
                              LastOf(store.redo)))
        /\ UNCHANGED <<history, calls, minted>>

-----------------------------------------------------------------------------
(* Calls.                                                                  *)

Call(kind, id) == [Free EXCEPT !.state = "sent", !.kind = kind, !.id = id]

FreeSlots(t) == {s \in Slots : calls[t][s].state = "free"}

\* Mutant of Reloads: only a change of the URL loads a project.
ReloadsNever(old, new) == FALSE

\* The effect of App.tsx on [project_id, projectId], when an answer has changed the
\* store from old to new: the URL's project is loaded if another one is shown.
Reloads(old, new) == old.id # new.id /\ new.id # new.route

\* A project is opened: its URL, and loadProject unless the store shows it.
Navigate(t, p) ==
    /\ \/ /\ p = tab[t].id
          /\ tab' = [tab EXCEPT ![t].route = p]
          /\ UNCHANGED calls
       \/ /\ p # tab[t].id
          /\ tab' = [tab EXCEPT ![t].route = p, ![t].loading = TRUE]
          /\ \E s \in FreeSlots(t) : calls' = [calls EXCEPT ![t][s] = Call("load", p)]
    /\ UNCHANGED <<history, seen, minted>>

\* reloadLatest
ReloadLatest(t) ==
    \E s \in FreeSlots(t) :
        /\ tab' = [tab EXCEPT ![t].loading = TRUE]
        /\ calls' = [calls EXCEPT ![t][s] = Call("load", tab[t].id)]
        /\ UNCHANGED <<history, seen, minted>>

\* A panel compiles, validates or generates, and then loads the project it did it for.
StartAction(t) ==
    \E s \in FreeSlots(t) :
        /\ calls' = [calls EXCEPT ![t][s] = Call("action", tab[t].id)]
        /\ UNCHANGED <<history, tab, seen, minted>>

\* save, from a button that is there when something is dirty and enabled when
\* nothing is loading.
Save(t) ==
    LET store == tab[t]
    IN  /\ store.dirty # {} /\ ~store.loading
        /\ \E s \in FreeSlots(t) :
            calls' = [calls EXCEPT ![t][s] =
                [Call("save", store.id) EXCEPT
                    !.revision = store.revision, !.fields = store.dirty,
                    !.layout = store.layout, !.switch = store.switch]]
        /\ tab' = [tab EXCEPT ![t].loading = TRUE]
        /\ UNCHANGED <<history, seen, minted>>

Latest(p) == history[p][Len(history[p])]

\* The answer that carries revision n of a project.
Answered(call, n, doc) ==
    [call EXCEPT !.state = "answered", !.revision = n, !.fields = {},
                 !.layout = doc.layout, !.switch = doc.switch]

ServeLoad(t, s) ==
    LET call == calls[t][s]
    IN  /\ call.state = "sent" /\ call.kind = "load"
        /\ calls' = [calls EXCEPT ![t][s] =
                        Answered(call, Len(history[call.id]), Latest(call.id))]
        /\ UNCHANGED <<history, tab, seen, minted>>

\* One more revision, within the bound.
Recorded == UNION {{<<p, n>> : n \in 2 .. Len(history[p])} : p \in Projects}

Record(p, revision) ==
    /\ Cardinality(Recorded) < MaxSaves
    /\ history' = [history EXCEPT ![p] = Append(@, revision)]

\* Mutant of Accepted: the server is not told which revision the edit is for.
AcceptedAlways(call) == TRUE

Accepted(call) == call.revision = Len(history[call.id])

\* Mutant of Pick: a field the request leaves out is emptied.
PickOrEmpty(call, field) == IF field \in call.fields THEN call[field] ELSE {}

Pick(call, field) == IF field \in call.fields THEN call[field] ELSE Latest(call.id)[field]

ServeSave(t, s) ==
    LET call == calls[t][s]
        doc == [layout |-> Pick(call, "layout"), switch |-> Pick(call, "switch"), by |-> t]
        n == Len(history[call.id]) + 1
    IN  /\ call.state = "sent" /\ call.kind = "save"
        /\ IF Accepted(call)
           THEN /\ Record(call.id, doc)
                /\ calls' = [calls EXCEPT ![t][s] = Answered(call, n, doc)]
           ELSE /\ calls' = [calls EXCEPT ![t][s] = [Call("save", call.id) EXCEPT !.state = "refused"]]
                /\ UNCHANGED history
        /\ UNCHANGED <<tab, seen, minted>>

\* External: another user's client or script saves an edit of its own.
OtherClientSaves(p, m) ==
    /\ minted[m] = Nothing
    /\ minted' = [minted EXCEPT ![m] = p]
    /\ \/ Record(p, [Latest(p) EXCEPT !.layout = @ \cup {m}, !.by = Nothing])
       \/ Record(p, [Latest(p) EXCEPT !.switch = m, !.by = Nothing])
    /\ UNCHANGED <<tab, calls, seen>>

\* The store takes an answer, and the effect follows if the project changed.
Take(t, s, store) ==
    IF Reloads(tab[t], store)
    THEN /\ Show(t, [store EXCEPT !.loading = TRUE])
         /\ calls' = [calls EXCEPT ![t][s] = Call("load", store.route)]
    ELSE /\ Show(t, store)
         /\ calls' = [calls EXCEPT ![t][s] = Free]

\* The document of an answer in place of the shown one.
Replaced(store, call) ==
    [store EXCEPT !.id = call.id, !.revision = call.revision, !.layout = call.layout,
                  !.switch = call.switch, !.dirty = {}, !.loading = FALSE]

LoadAnswered(t, s) ==
    /\ calls[t][s].state = "answered" /\ calls[t][s].kind = "load"
    /\ Take(t, s, [Replaced(tab[t], calls[t][s]) EXCEPT !.undo = <<>>, !.redo = <<>>])
    /\ UNCHANGED <<history, minted>>

\* Mutant of SaveAnswered: the draft stays, only the number is taken.
SaveKeepsDraftClean(t, s) ==
    /\ calls[t][s].state = "answered" /\ calls[t][s].kind = "save"
    /\ Take(t, s, [tab[t] EXCEPT !.id = calls[t][s].id, !.revision = calls[t][s].revision,
                                 !.dirty = {}, !.loading = FALSE])
    /\ UNCHANGED <<history, minted>>

\* A save puts the answer in place of the draft and leaves the stacks.
SaveAnswered(t, s) ==
    /\ calls[t][s].state = "answered" /\ calls[t][s].kind = "save"
    /\ Take(t, s, Replaced(tab[t], calls[t][s]))
    /\ UNCHANGED <<history, minted>>

SaveRefused(t, s) ==
    /\ calls[t][s].state = "refused"
    /\ tab' = [tab EXCEPT ![t].loading = FALSE]
    /\ calls' = [calls EXCEPT ![t][s] = Free]
    /\ UNCHANGED <<history, seen, minted>>

\* A panel's request is answered, having recorded a revision of the same content
\* (compile-pcb) or none, and loadProject of the project it was for begins.
ActionAnswered(t, s) ==
    LET call == calls[t][s]
    IN  /\ call.state = "sent" /\ call.kind = "action"
        /\ tab' = [tab EXCEPT ![t].loading = TRUE]
        /\ calls' = [calls EXCEPT ![t][s] = Call("load", call.id)]
        /\ UNCHANGED history \/ Record(call.id, [Latest(call.id) EXCEPT !.by = Nothing])
        /\ UNCHANGED <<seen, minted>>

\* No answer, or an error: the network, the session, the server.  A call that failed
\* may have been served.  A panel's call does not touch the store.
CallFails(t, s) ==
    /\ calls[t][s].state # "free"
    /\ calls' = [calls EXCEPT ![t][s] = Free]
    /\ tab' = IF calls[t][s].kind = "action"
              THEN [tab EXCEPT ![t].failed = TRUE]
              ELSE [tab EXCEPT ![t].failed = TRUE, ![t].loading = FALSE]
    /\ UNCHANGED <<history, seen, minted>>

Edit(t) ==
    \/ PushUndo(t) \/ Undo(t) \/ Redo(t)
    \/ \E old, new \in Marks : UpdateElement(t, old, new)
    \/ \E m \in Marks : AddElement(t, m) \/ RemoveElement(t, m) \/ SetSwitch(t, m)

Serve(t, s) == ServeLoad(t, s) \/ ServeSave(t, s)

Answer(t, s) ==
    \/ LoadAnswered(t, s) \/ SaveAnswered(t, s) \/ SaveRefused(t, s)
    \/ ActionAnswered(t, s) \/ CallFails(t, s)

Next ==
    \/ \E t \in Tabs :
        \/ Edit(t)
        \/ \E p \in Projects : Navigate(t, p)
        \/ ReloadLatest(t) \/ StartAction(t) \/ Save(t)
        \/ \E s \in Slots : Serve(t, s) \/ Answer(t, s)
    \/ \E p \in Projects, m \in Marks : OtherClientSaves(p, m)

Spec == Init /\ [][Next]_vars

-----------------------------------------------------------------------------
(* Properties.                                                             *)

Stores ==
    [route : Projects, id : Projects, revision : Nat, layout : SUBSET Marks,
     switch : Marks \cup {Nothing}, dirty : SUBSET Fields,
     undo : Seq(SUBSET Marks), redo : Seq(SUBSET Marks),
     loading : BOOLEAN, failed : BOOLEAN]

Revisions == [layout : SUBSET Marks, switch : Marks \cup {Nothing}, by : Tabs \cup {Nothing}]

Calls ==
    [state : {"free", "sent", "answered", "refused"}, kind : {"load", "action", "save"},
     id : Projects \cup {Nothing}, revision : Nat, fields : SUBSET Fields,
     layout : SUBSET Marks, switch : Marks \cup {Nothing}]

\* Every variable has the shape its store, call or table gives it.
TypeOK ==
    /\ history \in [Projects -> Seq(Revisions)]
    /\ tab \in [Tabs -> Stores]
    /\ calls \in [Tabs -> [Slots -> Calls]]
    /\ seen \in [Tabs -> SUBSET Marks]
    /\ minted \in [Marks -> Projects \cup {Nothing}]

\* What a tab shows without marking it edited is what the server has recorded for
\* the revision it shows: late, lost or crossing answers never leave a field clean
\* with a value of another revision or of the draft.
CleanFieldsAreCommitted ==
    \A t \in Tabs :
        LET store == tab[t]
        IN  /\ store.revision \in DOMAIN history[store.id]
            /\ \A f \in Fields \ store.dirty :
                    store[f] = history[store.id][store.revision][f]

\* No tab overwrites what it has never shown: an element or a switch another tab
\* saved disappears from one revision to the next only by a tab that had it on
\* screen, whatever was undone, redone or answered late in between.
NoBlindOverwrite ==
    \A p \in Projects : \A n \in DOMAIN history[p] :
        LET author == history[p][n].by
        IN  n > 1 /\ author \in Tabs =>
                MarksOf(history[p][n - 1]) \ MarksOf(history[p][n]) \subseteq seen[author]

\* The two stacks together never hold more than MAX_UNDO layouts, so undo and redo
\* never push one off the other end.
UndoRedoFits == \A t \in Tabs : Len(tab[t].undo) + Len(tab[t].redo) <= MaxUndo

\* The layouts a tab can step through, oldest first.
Timeline(store) ==
    LET u == Len(store.undo)
        r == Len(store.redo)
    IN  [i \in 1 .. (u + 1 + r) |->
            IF i <= u THEN store.undo[i]
            ELSE IF i = u + 1 THEN store.layout
            ELSE store.redo[u + 2 + r - i]]

\* Undo and redo move along the timeline and lose none of it, at the limit as well.
UndoRedoKeepsTimeline ==
    [][\A t \in Tabs : Undo(t) \/ Redo(t) => Timeline(tab'[t]) = Timeline(tab[t])]_vars

InFlight(t) == Slots \ FreeSlots(t)

\* When a tab's calls are answered, none of which failed, it shows the project its
\* URL names, however loads, saves and panels of several projects crossed.
RouteIsShown ==
    \A t \in Tabs : InFlight(t) = {} /\ ~tab[t].failed => tab[t].id = tab[t].route

\* A revision of a project contains only what was edited in that project, as long as
\* no call has failed: a layout undone to, or saved, after the tab changed its
\* project is never the other one's.
ProjectsDoNotMix ==
    (\A t \in Tabs : ~tab[t].failed) =>
        \A p \in Projects : \A n \in DOMAIN history[p] :
            \A m \in MarksOf(history[p][n]) : minted[m] = p
=============================================================================

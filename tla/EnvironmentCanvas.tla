------------------------- MODULE EnvironmentCanvas -------------------------
(***************************************************************************)
(* Moving cards on a canvas (resources/js/canvas/environment/              *)
(* EnvironmentCanvas.svelte).  The canvas shows the positions that the     *)
(* last load returned, together with the moves of its user that are not    *)
(* saved or not loaded back yet.  Loads (polls, status events, refreshes)  *)
(* and saves are in flight at the same time, and the server may process    *)
(* them in any order.                                                      *)
(*                                                                         *)
(* A position is the number of the move that chose it, so a larger number  *)
(* is a later position; 0 is the position before the first move.  The      *)
(* canvas has one user.                                                    *)
(***************************************************************************)
EXTENDS Naturals

CONSTANTS
    Cards,
    Views,      \* the views considered: "environment" saves moves after a pause,
                \* "server" saves a moved group or zone at once
    MaxMoves,   \* bound: moves of the user
    MaxLoads,   \* bound: loads
    None

ASSUME ViewsAssumption == Views \subseteq {"environment", "server"}
ASSUME BoundsAssumption == MaxMoves \in Nat /\ MaxLoads \in Nat \ {0}

VARIABLES
    view,         \* the kind of canvas, fixed for a page
    stored,       \* the positions in the database
    shown,        \* the positions on the canvas
    full,         \* the positions of the loaded graph
    deferred,     \* a graph that waits for the end of a drag
    unsaved,      \* moves that wait for the save timer, 0 for none
    settling,     \* moves that are saved but not loaded back yet
    saveTimer,
    patches,      \* position updates in flight
    loads,        \* number of loads started
    get,          \* the load in flight
    reloadQueued, \* another load was asked for during a load
    containers,   \* the request for the unmanaged containers of a server
    dragging,     \* the card that the user drags
    moves,        \* number of moves so far
    failed,       \* history: cards of which a save failed
    reordered,    \* history: cards of which the server stored an older place last
    destroyed     \* the canvas was left

dataVars == <<full, deferred>>
saveVars == <<unsaved, settling, saveTimer>>
loadVars == <<loads, get, reloadQueued, containers>>
vars == <<view, stored, shown, dataVars, saveVars, patches, loadVars, dragging, moves,
          failed, reordered, destroyed>>

Position == 0..MaxMoves
Positions == [Cards -> Position]
ASSUME NoneAssumption == None \notin Cards /\ None \notin Positions
Never == MaxLoads + 1   \* Infinity: no load has this number
NoMove == [at |-> 0, after |-> 0]
NoMoves == [c \in Cards |-> 0]

TypeOK ==
    /\ view \in Views
    /\ stored \in Positions
    /\ shown \in Positions
    /\ full \in Positions
    /\ deferred \in Positions \cup {None}
    /\ unsaved \in Positions
    /\ settling \in [Cards -> [at : Position, after : 0..Never]]
    /\ saveTimer \in BOOLEAN
    /\ patches \subseteq [moves : Positions, state : {"sent", "stored", "failed"}]
    /\ loads \in 1..MaxLoads
    /\ get \in [started : 1..MaxLoads, answer : Positions \cup {None}] \cup {None}
    /\ reloadQueued \in BOOLEAN
    /\ containers \in {"none", "asked", "known"}
    /\ dragging \in Cards \cup {None}
    /\ moves \in 0..MaxMoves
    /\ failed \subseteq Cards
    /\ reordered \subseteq Cards
    /\ destroyed \in BOOLEAN

\* The page after its first load.
Init ==
    /\ view \in Views
    /\ stored = NoMoves
    /\ shown = NoMoves
    /\ full = NoMoves
    /\ deferred = None
    /\ unsaved = NoMoves
    /\ settling = [c \in Cards |-> NoMove]
    /\ saveTimer = FALSE
    /\ patches = {}
    /\ loads = 1
    /\ get = None
    /\ reloadQueued = FALSE
    /\ containers = IF view = "server" THEN "asked" ELSE "none"
    /\ dragging = None
    /\ moves = 0
    /\ failed = {}
    /\ reordered = {}
    /\ destroyed = FALSE

-----------------------------------------------------------------------------
(* Shared steps of the handlers. *)

\* Positions with the moves of the second argument.
Overlay(positions, changes) ==
    [c \in Cards |-> IF changes[c] # 0 THEN changes[c] ELSE positions[c]]

\* The cards for which a save is still the latest one (settle, release).
Latest(c, saved) == saved[c] # 0 /\ settling[c].at = saved[c]

\* Mutant: a move is held only until the next load, not until it is saved.
Hold_untilAnyLoad(saved) == [c \in Cards |-> IF saved[c] # 0 THEN [at |-> saved[c], after |-> loads]
                                                             ELSE settling[c]]

Hold(saved) == [c \in Cards |-> IF saved[c] # 0 THEN [at |-> saved[c], after |-> Never]
                                                ELSE settling[c]]
Settle(saved) == [c \in Cards |-> IF Latest(c, saved) THEN [settling[c] EXCEPT !.after = loads]
                                                      ELSE settling[c]]
Release(saved) == [c \in Cards |-> IF Latest(c, saved) THEN NoMove ELSE settling[c]]
\* Mutant: a load in flight during the save counts as fresh.
DropSettled_sameLoad(started) == [c \in Cards |-> IF settling[c].after <= started THEN NoMove
                                                                                  ELSE settling[c]]

DropSettled(started) == [c \in Cards |-> IF settling[c].after < started THEN NoMove
                                                                        ELSE settling[c]]

\* applyGraph with the moves that are held back.  It waits for the end of a drag.
Apply(graph, kept, waiting) ==
    IF destroyed
    THEN UNCHANGED <<shown, full, deferred>>
    ELSE IF dragging # None
    THEN deferred' = graph /\ UNCHANGED <<shown, full>>
    ELSE /\ full' = Overlay(Overlay(graph, [c \in Cards |-> kept[c].at]), waiting)
         /\ shown' = full'
         /\ UNCHANGED deferred

\* load(): one at a time, another one is queued.
Load ==
    IF destroyed \/ (get = None /\ loads = MaxLoads)
    THEN UNCHANGED <<loads, get, reloadQueued>>
    ELSE IF get # None
    THEN reloadQueued' = TRUE /\ UNCHANGED <<loads, get>>
    ELSE /\ loads' = loads + 1
         /\ get' = [started |-> loads', answer |-> None]
         /\ UNCHANGED reloadQueued

\* The end of load(): a queued load starts.
LoadEnds ==
    /\ reloadQueued' = (reloadQueued /\ destroyed)
    /\ IF reloadQueued /\ ~destroyed /\ loads < MaxLoads
       THEN loads' = loads + 1 /\ get' = [started |-> loads', answer |-> None]
       ELSE get' = None /\ UNCHANGED loads

\* flushSave: all waiting moves in one request.
Flush ==
    /\ saveTimer' = FALSE
    /\ IF unsaved = NoMoves
       THEN UNCHANGED <<unsaved, settling, patches>>
       ELSE /\ settling' = Hold(unsaved)
            /\ patches' = patches \cup {[moves |-> unsaved, state |-> "sent"]}
            /\ unsaved' = NoMoves

-----------------------------------------------------------------------------
(* The user. *)

DragStarts(c) ==
    /\ ~destroyed
    /\ dragging = None
    /\ dragging' = c
    /\ UNCHANGED <<view, stored, shown, dataVars, saveVars, patches, loadVars, moves,
                   failed, reordered, destroyed>>

\* The end of a drag: save the move, then apply a graph that has waited.
DragEnds(c) ==
    LET place == [NoMoves EXCEPT ![c] = moves + 1]
        moved == Overlay(shown, place)
    IN
    /\ dragging = c
    /\ moves < MaxMoves
    /\ ~destroyed
    /\ dragging' = None
    /\ moves' = moves + 1
    /\ IF view = "environment"
       THEN /\ unsaved' = Overlay(unsaved, place)
            /\ saveTimer' = TRUE
            /\ UNCHANGED <<settling, patches>>
       ELSE /\ settling' = Hold(place)
            /\ patches' = patches \cup {[moves |-> place, state |-> "sent"]}
            /\ UNCHANGED <<unsaved, saveTimer>>
    /\ deferred' = None
    /\ IF deferred = None
       THEN shown' = moved /\ UNCHANGED full
       ELSE /\ full' = Overlay(Overlay(deferred, [d \in Cards |-> settling'[d].at]), unsaved')
            /\ shown' = full'
    /\ UNCHANGED <<view, stored, loadVars, failed, reordered, destroyed>>

\* A press without a move selects the card.
Click(c) ==
    /\ dragging = c
    /\ ~destroyed
    /\ dragging' = None
    /\ deferred' = None
    /\ IF deferred = None
       THEN UNCHANGED <<shown, full>>
       ELSE /\ full' = Overlay(Overlay(deferred, [d \in Cards |-> settling[d].at]), unsaved)
            /\ shown' = full'
    /\ UNCHANGED <<view, stored, saveVars, patches, loadVars, moves, failed, reordered,
                   destroyed>>

\* The page is hidden or the canvas is left: waiting moves are sent at once.
PageHides ==
    /\ ~destroyed
    /\ unsaved # NoMoves
    /\ Flush
    /\ UNCHANGED <<view, stored, shown, dataVars, loadVars, dragging, moves, failed,
                   reordered, destroyed>>

\* Mutant: leaving the canvas drops the save timer.
Leave_withoutFlush ==
    /\ ~destroyed
    /\ destroyed' = TRUE
    /\ saveTimer' = FALSE
    /\ UNCHANGED <<view, stored, shown, dataVars, unsaved, settling, patches, loadVars,
                   dragging, moves, failed, reordered>>

Leave ==
    /\ ~destroyed
    /\ destroyed' = TRUE
    /\ Flush
    /\ UNCHANGED <<view, stored, shown, dataVars, loadVars, dragging, moves, failed,
                   reordered>>

-----------------------------------------------------------------------------
(* Saves. *)

\* 400 ms after the last move.
SaveTimer ==
    /\ saveTimer
    /\ ~destroyed
    /\ Flush
    /\ UNCHANGED <<view, stored, shown, dataVars, loadVars, dragging, moves, failed,
                   reordered, destroyed>>

\* The server stores a request, or does not answer or refuses it.
PatchStored(p) ==
    /\ p.state = "sent"
    /\ stored' = Overlay(stored, p.moves)
    /\ reordered' = reordered \cup {c \in Cards : stored'[c] < stored[c]}
    /\ patches' = (patches \ {p}) \cup {[p EXCEPT !.state = "stored"]}
    /\ UNCHANGED <<view, shown, dataVars, saveVars, loadVars, dragging, moves, failed,
                   destroyed>>

\* Mutant: nothing handles a lost request.
PatchLost_unhandled(p) ==
    /\ p.state \in {"sent", "stored"}
    /\ patches' = (patches \ {p}) \cup {[p EXCEPT !.state = "lost"]}
    /\ UNCHANGED <<view, stored, shown, dataVars, saveVars, loadVars, dragging, moves,
                   failed, reordered, destroyed>>

PatchLost(p) ==
    /\ p.state \in {"sent", "stored"}
    /\ patches' = (patches \ {p}) \cup {[p EXCEPT !.state = "failed"]}
    /\ UNCHANGED <<view, stored, shown, dataVars, saveVars, loadVars, dragging, moves,
                   failed, reordered, destroyed>>

\* The save is done.  The server view lays out its graph again.
PatchDone(p) ==
    /\ p.state = "stored"
    /\ patches' = patches \ {p}
    /\ settling' = Settle(p.moves)
    /\ IF view = "environment"
       THEN /\ full' = IF destroyed THEN full ELSE Overlay(full, p.moves)
            /\ UNCHANGED <<shown, deferred>>
       ELSE Apply(full, settling', unsaved)
    /\ UNCHANGED <<view, stored, unsaved, saveTimer, loadVars, dragging, moves, failed,
                   reordered, destroyed>>

\* The save failed: its moves are forgotten and the positions loaded again.
PatchFailed(p) ==
    /\ p.state = "failed"
    /\ patches' = patches \ {p}
    /\ settling' = Release(p.moves)
    /\ failed' = failed \cup {c \in Cards : p.moves[c] # 0}
    /\ Load
    /\ UNCHANGED <<view, stored, shown, dataVars, unsaved, saveTimer, containers,
                   dragging, moves, reordered, destroyed>>

-----------------------------------------------------------------------------
(* Loads. *)

\* A poll, a status event, the refresh button or the tab becoming visible.
Refresh ==
    /\ ~destroyed
    /\ Load
    /\ UNCHANGED <<view, stored, shown, dataVars, saveVars, patches, containers, dragging,
                   moves, failed, reordered, destroyed>>

LoadAnswered ==
    /\ get # None
    /\ get.answer = None
    /\ get' = [get EXCEPT !.answer = stored]
    /\ UNCHANGED <<view, stored, shown, dataVars, saveVars, patches, loads, reloadQueued,
                   containers, dragging, moves, failed, reordered, destroyed>>

\* The answer arrives: moves that it must contain are not held back any more.
LoadDelivered ==
    /\ get # None
    /\ get.answer # None
    /\ settling' = DropSettled(get.started)
    /\ Apply(get.answer, settling', unsaved)
    /\ LoadEnds
    /\ UNCHANGED <<view, stored, unsaved, saveTimer, patches, containers, dragging, moves,
                   failed, reordered, destroyed>>

LoadFails ==
    /\ get # None
    /\ LoadEnds
    /\ UNCHANGED <<view, stored, shown, dataVars, saveVars, patches, containers, dragging,
                   moves, failed, reordered, destroyed>>

\* loadContainers: the containers are added to the graph that is there.
ContainersLoaded ==
    /\ containers = "asked"
    /\ containers' = "known"
    /\ Apply(full, settling, unsaved)
    /\ UNCHANGED <<view, stored, saveVars, patches, loads, get, reloadQueued, dragging,
                   moves, failed, reordered, destroyed>>

-----------------------------------------------------------------------------
Next ==
    \/ \E c \in Cards : DragStarts(c) \/ DragEnds(c) \/ Click(c)
    \/ PageHides \/ Leave \/ SaveTimer
    \/ \E p \in patches : PatchStored(p) \/ PatchLost(p) \/ PatchDone(p) \/ PatchFailed(p)
    \/ Refresh \/ LoadAnswered \/ LoadDelivered \/ LoadFails
    \/ ContainersLoaded

\* The save timer fires and requests come to an end; users need not do anything.
Fairness ==
    /\ WF_vars(SaveTimer)
    /\ WF_vars(\E p \in patches : PatchStored(p) \/ PatchLost(p) \/ PatchDone(p) \/ PatchFailed(p))
    /\ WF_vars(LoadAnswered)
    /\ WF_vars(LoadDelivered \/ LoadFails)

Spec == Init /\ [][Next]_vars
FairSpec == Spec /\ Fairness

-----------------------------------------------------------------------------
(* Properties. *)

\* The cards whose saves succeeded, in their order.
Undisturbed == Cards \ (failed \cup reordered)

\* No response puts a card back to an older place, whatever loads and saves are in
\* flight (settling, dropSettled).  The exception is the end of a drag in the server
\* view: the graph that waited may be an older one, because applyGraph(full)
\* replaced a fresher one.
NeverPutBack ==
    [][\A c \in Undisturbed : shown'[c] >= shown[c] \/ (view = "server" /\ dragging # None)]_vars

\* When every move has been saved, an environment canvas shows what the database
\* has, even while answers that are older than the last save are on their way
\* (applyGraph, flushSave).
CanvasAgrees ==
    (view = "environment" /\ unsaved = NoMoves /\ patches = {})
        => \A c \in Undisturbed : shown[c] = stored[c]

\* Every move reaches the server, also when the canvas is left (queueSave,
\* flushSave, onPageHide), unless its request failed.
EveryMoveSaved ==
    \A c \in Cards : \A m \in 1..MaxMoves :
        (unsaved[c] = m) ~> (stored[c] >= m \/ c \in failed)
=============================================================================

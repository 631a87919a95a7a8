---------------------- MODULE EnvironmentCanvas_proofs ----------------------
(***************************************************************************)
(* Theorems about EnvironmentCanvas, for every set of cards and any number *)
(* of moves and loads: the types, that no response puts a card back, and   *)
(* that the canvas agrees with the database when every move is saved.      *)
(***************************************************************************)
EXTENDS EnvironmentCanvas, TLAPS

\* The last move of a card that was sent or, after that, loaded back.
Flushed(c) == IF settling[c].at # 0 THEN settling[c].at ELSE stored[c]

\* What the handlers of the page agree on.
Agreed ==
    /\ get # None => get.started = loads
    /\ containers = "asked" => view = "server"
    /\ deferred # None => dragging # None
    /\ \A c \in Cards : view = "server" => unsaved[c] = 0
    /\ \A c \in Cards : settling[c].at = 0 => settling[c].after = 0

\* A move that waits is newer than the ones that were sent, and those are newer
\* than the stored one until their save is done.
InOrder(c) ==
    /\ unsaved[c] <= moves
    /\ Flushed(c) <= moves
    /\ unsaved[c] # 0 => Flushed(c) < unsaved[c]
    /\ stored[c] <= Flushed(c)
    /\ settling[c].after # Never => stored[c] = Flushed(c)

\* The requests of a card.  The newest one is in flight until its save is done.
Requests(c) ==
    /\ \A p \in patches :
          /\ p.moves[c] <= Flushed(c)
          /\ p.state = "stored" => p.moves[c] <= stored[c]
          /\ p.state = "sent" /\ p.moves[c] # 0 /\ p.moves[c] = Flushed(c)
                => settling[c].after = Never
    /\ \A p, q \in patches : p.moves[c] # 0 /\ p.moves[c] = q.moves[c] => p = q
    /\ settling[c].after = Never => \E p \in patches : p.moves[c] = Flushed(c)

\* The graphs that wait to be shown: an answer is fresh for a card that is not held.
Answers(c) ==
    /\ get # None /\ get.answer # None =>
          /\ get.answer[c] <= stored[c]
          /\ settling[c].after < get.started => get.answer[c] = stored[c]
    /\ deferred # None =>
          /\ deferred[c] <= Flushed(c)
          /\ view = "environment" /\ ~destroyed /\ settling[c].at = 0
                => deferred[c] = stored[c]

\* What the canvas shows.
Display(c) ==
    /\ view = "environment" => shown[c] = IF unsaved[c] # 0 THEN unsaved[c] ELSE Flushed(c)
    /\ view = "server" => shown[c] <= Flushed(c) /\ full[c] <= Flushed(c)
    /\ view = "server" /\ ~destroyed /\ deferred = None /\ settling[c].at = 0
          => full[c] = shown[c]

CardInv(c) == InOrder(c) /\ Requests(c) /\ Answers(c) /\ Display(c)
IInv == TypeOK /\ Agreed /\ \A c \in Undisturbed : CardInv(c)

-----------------------------------------------------------------------------
(* Type correctness. *)

Held == [at : Position, after : 0..Never]
Loading == [started : 1..MaxLoads, answer : Positions \cup {None}] \cup {None}

\* The numbers of moves and of loads.
LEMMA Numbers ==
    /\ Position \subseteq Nat /\ 0 \in Position
    /\ MaxLoads \in Nat \ {0} /\ Never \in Nat
    /\ NoMoves \in Positions /\ NoMove \in Held
  BY BoundsAssumption DEF Position, Never, NoMoves, Positions, NoMove, Held

\* A graph stays a graph when moves are laid over it.
LEMMA OverlayType ==
  ASSUME NEW g \in Positions, NEW h \in Positions
  PROVE  /\ Overlay(g, h) \in Positions
         /\ \A c \in Cards : Overlay(g, h)[c] = IF h[c] # 0 THEN h[c] ELSE g[c]
  BY DEF Overlay, Positions

\* What hold, settle, release and dropSettled return, and the places they hold.
LEMMA HeldTypes ==
  ASSUME TypeOK, NEW m \in Positions, NEW n \in Nat
  PROVE  /\ {Hold(m), Settle(m), Release(m), DropSettled(n)} \subseteq [Cards -> Held]
         /\ \A k \in [Cards -> Held] : [c \in Cards |-> k[c].at] \in Positions
<1>1. /\ settling \in [Cards -> Held] /\ loads \in 0..Never
      /\ \A c \in Cards : m[c] \in Position /\ settling[c].at \in Position
  BY Numbers DEF TypeOK, Held, Positions, Never
<1>2. Never \in 0..Never
  BY Numbers
<1>3. Hold(m) \in [Cards -> Held]
  BY <1>1, <1>2 DEF Hold, Held
<1>4. Settle(m) \in [Cards -> Held]
  BY <1>1 DEF Settle, Held
<1>5. Release(m) \in [Cards -> Held] /\ DropSettled(n) \in [Cards -> Held]
  BY <1>1, Numbers DEF Release, DropSettled
<1>6. \A k \in [Cards -> Held] : [c \in Cards |-> k[c].at] \in Positions
  BY DEF Held, Positions
<1> QED BY <1>3, <1>4, <1>5, <1>6

\* The data of the page after applyGraph.
LEMMA ApplyType ==
  ASSUME TypeOK, NEW g \in Positions, NEW k \in [Cards -> Held], Apply(g, k, unsaved)
  PROVE  shown' \in Positions /\ full' \in Positions /\ deferred' \in Positions \cup {None}
<1>1. [c \in Cards |-> k[c].at] \in Positions
  BY DEF Held, Positions
<1>2. Overlay(Overlay(g, [c \in Cards |-> k[c].at]), unsaved) \in Positions
  BY <1>1, OverlayType DEF TypeOK
<1> QED BY <1>2 DEF Apply, TypeOK

\* The loads after load() and after one has ended.
LEMMA LoadType ==
  ASSUME TypeOK, Load \/ (get # None /\ LoadEnds)
  PROVE  loads' \in 1..MaxLoads /\ get' \in Loading /\ reloadQueued' \in BOOLEAN
<1>1. /\ loads \in 1..MaxLoads /\ get \in Loading /\ reloadQueued \in BOOLEAN
      /\ loads # MaxLoads => loads + 1 \in 1..MaxLoads
  BY Numbers DEF TypeOK, Loading
<1>2. CASE Load
  <2>1. CASE get = None /\ loads # MaxLoads /\ ~destroyed
    BY <1>1, <1>2, <2>1 DEF Load, Loading
  <2>2. CASE destroyed \/ get # None \/ loads = MaxLoads
    BY <1>1, <1>2, <2>2 DEF Load
  <2> QED BY <2>1, <2>2
<1>3. CASE get # None /\ LoadEnds
  BY <1>1, <1>3 DEF LoadEnds, Loading
<1> QED BY <1>2, <1>3

\* The moves and requests after flushSave.
LEMMA FlushType ==
  ASSUME TypeOK, Flush
  PROVE  /\ unsaved' \in Positions /\ settling' \in [Cards -> Held] /\ saveTimer' = FALSE
         /\ patches' \subseteq [moves : Positions, state : {"sent", "stored", "failed"}]
<1>1. /\ unsaved \in Positions /\ settling \in [Cards -> Held]
      /\ patches \subseteq [moves : Positions, state : {"sent", "stored", "failed"}]
  BY DEF TypeOK, Held
<1>2. Hold(unsaved) \in [Cards -> Held]
  BY <1>1, HeldTypes, Numbers
<1> QED BY <1>1, <1>2, Numbers DEF Flush

\* Every step keeps the types.
LEMMA NextType == TypeOK /\ [Next]_vars => TypeOK'
<1> SUFFICES ASSUME TypeOK, [Next]_vars PROVE TypeOK'
  OBVIOUS
<1>t. /\ settling \in [Cards -> Held] /\ get \in Loading /\ unsaved \in Positions
      /\ stored \in Positions /\ shown \in Positions /\ full \in Positions
      /\ patches \subseteq [moves : Positions, state : {"sent", "stored", "failed"}]
      /\ loads \in Nat
  BY Numbers DEF TypeOK, Held, Loading
<1>1. ASSUME NEW c \in Cards, DragStarts(c) PROVE TypeOK'
  BY <1>1 DEF DragStarts, TypeOK, dataVars, saveVars, loadVars
<1>2. ASSUME NEW c \in Cards, DragEnds(c) PROVE TypeOK'
  <2> DEFINE place == [NoMoves EXCEPT ![c] = moves + 1]
  <2>1. moves + 1 \in 0..MaxMoves /\ moves + 1 \in Position
    BY <1>2, BoundsAssumption DEF DragEnds, TypeOK, Position
  <2>2. place \in Positions
    BY <2>1, Numbers DEF Positions, NoMoves
  <2>3. /\ Overlay(shown, place) \in Positions /\ Overlay(unsaved, place) \in Positions
        /\ Hold(place) \in [Cards -> Held]
    BY <1>t, <2>2, OverlayType, HeldTypes, Numbers
  <2>4. /\ unsaved' \in Positions /\ settling' \in [Cards -> Held] /\ saveTimer' \in BOOLEAN
        /\ patches' \subseteq [moves : Positions, state : {"sent", "stored", "failed"}]
    <3>1. saveTimer \in BOOLEAN
      BY DEF TypeOK
    <3>2. CASE view = "environment"
      BY <1>2, <1>t, <2>3, <3>1, <3>2 DEF DragEnds
    <3>3. CASE view # "environment"
      <4>1. /\ settling' = Hold(place) /\ UNCHANGED <<unsaved, saveTimer>>
            /\ patches' = patches \cup {[moves |-> place, state |-> "sent"]}
        BY <1>2, <3>3 DEF DragEnds
      <4>2. [moves |-> place, state |-> "sent"]
              \in [moves : Positions, state : {"sent", "stored", "failed"}]
        BY <2>2
      <4> HIDE DEF place
      <4> QED BY <4>1, <4>2, <1>t, <2>3, <3>1
    <3> QED BY <3>2, <3>3
  <2>5. [d \in Cards |-> settling'[d].at] \in Positions
    BY <2>4 DEF Held, Positions
  <2>6. deferred # None =>
          Overlay(Overlay(deferred, [d \in Cards |-> settling'[d].at]), unsaved') \in Positions
    BY <2>4, <2>5, OverlayType DEF TypeOK
  <2>7. shown' \in Positions /\ full' \in Positions /\ deferred' = None
    BY <1>2, <1>t, <2>3, <2>6 DEF DragEnds
  <2> QED BY <1>2, <2>1, <2>4, <2>7 DEF DragEnds, TypeOK, Held, loadVars
<1>3. ASSUME NEW c \in Cards, Click(c) PROVE TypeOK'
  <2>1. [d \in Cards |-> settling[d].at] \in Positions
    BY <1>t DEF Held, Positions
  <2>2. deferred # None =>
          Overlay(Overlay(deferred, [d \in Cards |-> settling[d].at]), unsaved) \in Positions
    BY <1>t, <2>1, OverlayType DEF TypeOK
  <2>3. shown' \in Positions /\ full' \in Positions /\ deferred' = None
    BY <1>3, <1>t, <2>2 DEF Click
  <2> QED BY <1>3, <2>3 DEF Click, TypeOK, saveVars, loadVars
<1>4. CASE PageHides \/ Leave \/ SaveTimer
  <2>1. Flush
    BY <1>4 DEF PageHides, Leave, SaveTimer
  <2> QED BY <1>4, <2>1, FlushType
          DEF PageHides, Leave, SaveTimer, TypeOK, Held, dataVars, loadVars
<1>5. ASSUME NEW p \in patches, PatchStored(p) \/ PatchLost(p) PROVE TypeOK'
  <2>1. /\ p.moves \in Positions
        /\ \A s \in {"stored", "failed"} :
             [p EXCEPT !.state = s] \in [moves : Positions, state : {"sent", "stored", "failed"}]
    BY <1>t
  <2>2. Overlay(stored, p.moves) \in Positions
    BY <1>t, <2>1, OverlayType
  <2> QED BY <1>5, <2>1, <2>2
          DEF PatchStored, PatchLost, TypeOK, dataVars, saveVars, loadVars
<1>6. ASSUME NEW p \in patches, PatchDone(p) PROVE TypeOK'
  <2>1. p.moves \in Positions
    BY <1>t
  <2>2. Settle(p.moves) \in [Cards -> Held] /\ Overlay(full, p.moves) \in Positions
    BY <1>t, <2>1, HeldTypes, OverlayType
  <2>3. shown' \in Positions /\ full' \in Positions /\ deferred' \in Positions \cup {None}
    BY <1>6, <1>t, <2>2, ApplyType DEF PatchDone, TypeOK
  <2> QED BY <1>6, <2>2, <2>3 DEF PatchDone, TypeOK, Held, loadVars
<1>7. ASSUME NEW p \in patches, PatchFailed(p) PROVE TypeOK'
  <2>1. p.moves \in Positions
    BY <1>t
  <2>2. Release(p.moves) \in [Cards -> Held]
    BY <1>t, <2>1, HeldTypes
  <2> QED BY <1>7, <2>2, LoadType DEF PatchFailed, TypeOK, Held, Loading, dataVars
<1>8. CASE Refresh
  BY <1>8, LoadType DEF Refresh, TypeOK, Loading, dataVars, saveVars
<1>9. CASE LoadAnswered
  BY <1>9 DEF LoadAnswered, TypeOK, dataVars, saveVars
<1>10. CASE LoadDelivered
  <2>1. get.started \in Nat /\ get.answer \in Positions
    BY <1>10, <1>t DEF LoadDelivered, Loading
  <2>2. DropSettled(get.started) \in [Cards -> Held]
    BY <1>t, <2>1, HeldTypes
  <2>3. shown' \in Positions /\ full' \in Positions /\ deferred' \in Positions \cup {None}
    BY <1>10, <2>1, <2>2, ApplyType DEF LoadDelivered
  <2> QED BY <1>10, <2>2, <2>3, LoadType DEF LoadDelivered, TypeOK, Held, Loading
<1>11. CASE LoadFails
  BY <1>11, LoadType DEF LoadFails, TypeOK, Loading, dataVars, saveVars
<1>12. CASE ContainersLoaded
  <2>1. shown' \in Positions /\ full' \in Positions /\ deferred' \in Positions \cup {None}
    BY <1>12, <1>t, ApplyType DEF ContainersLoaded
  <2> QED BY <1>12, <2>1 DEF ContainersLoaded, TypeOK, saveVars
<1>13. CASE UNCHANGED vars
  BY <1>13 DEF vars, TypeOK, dataVars, saveVars, loadVars
<1> QED BY <1>1, <1>2, <1>3, <1>4, <1>5, <1>6, <1>7, <1>8, <1>9, <1>10, <1>11, <1>12, <1>13
        DEF Next

LEMMA InitType == Init => TypeOK
<1> SUFFICES ASSUME Init PROVE TypeOK
  OBVIOUS
<1>1. settling \in [Cards -> Held] /\ stored \in Positions
  BY Numbers DEF Init
<1>2. /\ view \in Views /\ shown \in Positions /\ full \in Positions
      /\ unsaved \in Positions /\ deferred \in Positions \cup {None}
  BY Numbers DEF Init
<1>3. loads \in 1..MaxLoads /\ moves \in 0..MaxMoves
  BY BoundsAssumption DEF Init
<1>4. saveTimer \in BOOLEAN /\ reloadQueued \in BOOLEAN /\ destroyed \in BOOLEAN
  BY DEF Init
<1>5. /\ patches \subseteq [moves : Positions, state : {"sent", "stored", "failed"}]
      /\ get \in Loading /\ containers \in {"none", "asked", "known"}
      /\ dragging \in Cards \cup {None} /\ failed \subseteq Cards /\ reordered \subseteq Cards
  BY DEF Init, Loading
<1> QED BY <1>1, <1>2, <1>3, <1>4, <1>5 DEF TypeOK, Held, Loading

-----------------------------------------------------------------------------
(* The inductive invariant. *)

LEMMA InitIInv == Init => IInv
<1> SUFFICES ASSUME Init PROVE IInv
  OBVIOUS
<1>1. TypeOK
  BY InitType
<1>2. Agreed
  BY DEF Init, Agreed, NoMoves, NoMove
<1>3. Never # 0
  BY BoundsAssumption DEF Never
<1>4. ASSUME NEW c \in Undisturbed PROVE CardInv(c)
  <2>1. c \in Cards /\ stored[c] = 0 /\ shown[c] = 0 /\ full[c] = 0 /\ unsaved[c] = 0
        /\ settling[c] = NoMove /\ Flushed(c) = 0
    BY DEF Init, Undisturbed, NoMoves, NoMove, Flushed
  <2>2. InOrder(c) /\ Answers(c) /\ Display(c)
    BY <2>1 DEF Init, InOrder, Answers, Display
  <2>3. Requests(c)
    BY <1>3, <2>1 DEF Init, Requests, NoMove
  <2> QED BY <2>2, <2>3 DEF CardInv
<1> QED BY <1>1, <1>2, <1>4 DEF IInv

\* What a move becomes when it is held, settled, released or dropped.
LEMMA HoldValue ==
  ASSUME NEW m, NEW c \in Cards
  PROVE  /\ m[c] # 0 => Hold(m)[c].at = m[c] /\ Hold(m)[c].after = Never
         /\ m[c] = 0 => Hold(m)[c] = settling[c]
  BY DEF Hold

LEMMA SettleValue ==
  ASSUME TypeOK, NEW m, NEW c \in Cards
  PROVE  /\ Settle(m)[c].at = settling[c].at
         /\ Settle(m)[c].after = IF m[c] # 0 /\ settling[c].at = m[c] THEN loads
                                                                    ELSE settling[c].after
<1>1. settling[c] \in Held
  BY DEF TypeOK, Held
<1> QED BY <1>1 DEF Settle, Latest, Held

LEMMA ReleaseValue ==
  ASSUME NEW m, NEW c \in Cards
  PROVE  /\ m[c] = 0 => Release(m)[c] = settling[c]
         /\ Release(m)[c] \in {settling[c], NoMove}
  BY DEF Release, Latest

LEMMA DropValue ==
  ASSUME NEW n, NEW c \in Cards
  PROVE  DropSettled(n)[c] = IF settling[c].after < n THEN NoMove ELSE settling[c]
  BY DEF DropSettled

\* The loads after load() and after the end of one: a new one has no answer yet.
LEMMA LoadValues ==
  ASSUME TypeOK, Agreed, Load \/ (get # None /\ LoadEnds)
  PROVE  /\ get' # None => get'.started = loads'
         /\ get' # None /\ get'.answer # None => get' = get
         /\ loads' >= loads
<1>1. loads \in Nat
  BY Numbers DEF TypeOK
<1>2. CASE Load
  BY <1>1, <1>2 DEF Load, Agreed
<1>3. CASE get # None /\ LoadEnds
  BY <1>1, <1>3 DEF LoadEnds
<1> QED BY <1>2, <1>3

\* The handlers stay in agreement.
LEMMA NextAgreed == TypeOK /\ Agreed /\ [Next]_vars => Agreed'
<1> SUFFICES ASSUME TypeOK, Agreed, [Next]_vars PROVE Agreed'
  OBVIOUS
<1>t. /\ settling \in [Cards -> Held] /\ get \in Loading
      /\ unsaved \in Positions /\ loads \in Nat \ {0} /\ moves \in Nat
  BY Numbers, BoundsAssumption DEF TypeOK, Held, Loading
<1>1. ASSUME NEW c \in Cards, DragStarts(c) \/ Click(c) PROVE Agreed'
  BY <1>1, NoneAssumption DEF DragStarts, Click, Agreed, dataVars, saveVars, loadVars
<1>2. ASSUME NEW c \in Cards, DragEnds(c) PROVE Agreed'
  <2> DEFINE place == [NoMoves EXCEPT ![c] = moves + 1]
  <2>1. deferred' = None /\ UNCHANGED <<view, get, loads, containers>>
    BY <1>2 DEF DragEnds, loadVars
  <2>2. CASE view = "environment"
    BY <1>2, <2>1, <2>2 DEF DragEnds, Agreed
  <2>3. CASE view # "environment"
    <3>1. settling' = Hold(place) /\ unsaved' = unsaved
      BY <1>2, <2>3 DEF DragEnds
    <3> HIDE DEF place
    <3>2. \A d \in Cards : settling'[d].at = 0 => settling'[d].after = 0
      BY <3>1, HoldValue DEF Agreed
    <3> QED BY <2>1, <3>1, <3>2 DEF Agreed
  <2> QED BY <2>2, <2>3
<1>3. CASE PageHides \/ Leave \/ SaveTimer
  <2>1. Flush /\ UNCHANGED <<view, get, loads, containers, deferred, dragging>>
    BY <1>3 DEF PageHides, Leave, SaveTimer, dataVars, loadVars
  <2>2. CASE unsaved = NoMoves
    BY <2>1, <2>2 DEF Flush, Agreed
  <2>3. CASE unsaved # NoMoves
    <3>1. settling' = Hold(unsaved) /\ unsaved' = NoMoves
      BY <2>1, <2>3 DEF Flush
    <3>2. \A d \in Cards : settling'[d].at = 0 => settling'[d].after = 0
      BY <3>1, HoldValue DEF Agreed
    <3> QED BY <2>1, <3>1, <3>2 DEF Agreed, NoMoves
  <2> QED BY <2>2, <2>3
<1>4. ASSUME NEW p \in patches, PatchStored(p) \/ PatchLost(p) PROVE Agreed'
  BY <1>4 DEF PatchStored, PatchLost, Agreed, dataVars, saveVars, loadVars
<1>5. ASSUME NEW p \in patches, PatchDone(p) PROVE Agreed'
  <2>1. settling' = Settle(p.moves)
        /\ UNCHANGED <<view, get, loads, containers, unsaved, dragging>>
    BY <1>5 DEF PatchDone, loadVars
  <2>2. \A d \in Cards : settling'[d].at = 0 => settling'[d].after = 0
    BY <2>1, SettleValue DEF Agreed
  <2>3. deferred' # None => dragging' # None
    BY <1>5, <2>1 DEF PatchDone, Apply, Agreed
  <2> QED BY <2>1, <2>2, <2>3 DEF Agreed
<1>6. ASSUME NEW p \in patches, PatchFailed(p) PROVE Agreed'
  <2>1. /\ settling' = Release(p.moves) /\ Load
        /\ UNCHANGED <<view, containers, unsaved, dragging, deferred>>
    BY <1>6 DEF PatchFailed, dataVars
  <2>2. \A d \in Cards : settling'[d].at = 0 => settling'[d].after = 0
    BY <2>1, ReleaseValue DEF Agreed, NoMove
  <2> QED BY <2>1, <2>2, LoadValues DEF Agreed
<1>7. CASE Refresh \/ LoadFails
  BY <1>7, LoadValues DEF Refresh, LoadFails, Agreed, dataVars, saveVars
<1>8. CASE LoadAnswered
  BY <1>8, <1>t DEF LoadAnswered, Agreed, Loading, dataVars, saveVars
<1>9. CASE LoadDelivered
  <2>1. /\ settling' = DropSettled(get.started) /\ get # None /\ LoadEnds
        /\ UNCHANGED <<view, containers, unsaved, dragging>>
    BY <1>9 DEF LoadDelivered
  <2>2. \A d \in Cards : settling'[d].at = 0 => settling'[d].after = 0
    BY <2>1, DropValue DEF Agreed, NoMove
  <2>3. deferred' # None => dragging' # None
    BY <1>9, <2>1 DEF LoadDelivered, Apply, Agreed
  <2> QED BY <2>1, <2>2, <2>3, LoadValues DEF Agreed
<1>10. CASE ContainersLoaded
  <2>1. deferred' # None => dragging' # None
    BY <1>10 DEF ContainersLoaded, Apply, Agreed
  <2> QED BY <1>10, <2>1 DEF ContainersLoaded, Agreed, saveVars
<1>11. CASE UNCHANGED vars
  BY <1>11 DEF vars, Agreed, dataVars, saveVars, loadVars
<1> QED BY <1>1, <1>2, <1>3, <1>4, <1>5, <1>6, <1>7, <1>8, <1>9, <1>10, <1>11 DEF Next

\* What is known of a card whose saves go well.
LEMMA CardFacts ==
  ASSUME IInv, NEW c \in Undisturbed
  PROVE  /\ c \in Cards
         /\ InOrder(c) /\ Requests(c) /\ Answers(c) /\ Display(c)
         /\ {stored[c], shown[c], full[c], unsaved[c], Flushed(c), moves} \subseteq Nat
         /\ {settling[c].at, settling[c].after} \subseteq Nat
         /\ loads \in Nat /\ loads # 0 /\ loads < Never /\ Never \in Nat
         /\ settling[c].at = 0 => settling[c].after = 0
         /\ \A p \in patches : p.moves[c] \in Nat
         /\ get # None => get.started = loads
         /\ get # None /\ get.answer # None => get.answer[c] \in Nat
         /\ deferred # None => deferred[c] \in Nat
         /\ unsaved[c] # 0 => view # "server"
         /\ view \in {"environment", "server"}
<1>1. c \in Cards /\ TypeOK /\ Agreed /\ CardInv(c)
  BY DEF IInv, Undisturbed
<1>2. settling[c] \in Held /\ get \in Loading
  BY <1>1 DEF TypeOK, Held, Loading
<1>3. /\ {stored[c], shown[c], full[c], unsaved[c], moves} \subseteq Nat
      /\ {settling[c].at, settling[c].after} \subseteq Nat
  BY <1>1, <1>2, Numbers, BoundsAssumption DEF TypeOK, Positions, Position, Held
<1>4. Flushed(c) \in Nat
  BY <1>3 DEF Flushed
<1>5. loads \in Nat /\ loads # 0 /\ loads < Never /\ Never \in Nat
  BY <1>1, Numbers DEF TypeOK, Never
<1>6. /\ \A p \in patches : p.moves[c] \in Nat
      /\ get # None /\ get.answer # None => get.answer[c] \in Nat
      /\ deferred # None => deferred[c] \in Nat
  BY <1>1, <1>2, Numbers DEF TypeOK, Positions, Loading
<1>7. view \in {"environment", "server"}
  BY <1>1, ViewsAssumption DEF TypeOK
<1> QED BY <1>1, <1>3, <1>4, <1>5, <1>6, <1>7 DEF CardInv, Agreed

\* flushSave: the moves that waited are held, and one request carries them.
LEMMA FlushKeeps ==
  ASSUME IInv, Flush, NEW c \in Undisturbed, c \in Undisturbed',
         ~destroyed' => ~destroyed,
         UNCHANGED <<view, stored, shown, full, deferred, get, moves>>
  PROVE  CardInv(c)'
<1>1. CASE unsaved = NoMoves
  <2>1. UNCHANGED <<unsaved, settling, patches>>
    BY <1>1 DEF Flush
  <2> QED BY <2>1, CardFacts
          DEF CardInv, Flushed, InOrder, Requests, Answers, Display
<1>2. CASE unsaved # NoMoves
  <2> DEFINE p0 == [moves |-> unsaved, state |-> "sent"]
  <2>1. /\ settling' = Hold(unsaved) /\ unsaved' = NoMoves
        /\ patches' = patches \cup {p0}
    BY <1>2 DEF Flush
  <2>2. p0.moves[c] = unsaved[c] /\ p0.state = "sent" /\ unsaved'[c] = 0 /\ c \in Cards
    BY <2>1, CardFacts DEF NoMoves
  <2> HIDE DEF p0
  <2>3. CASE unsaved[c] = 0
    <3>1. settling'[c] = settling[c] /\ Flushed(c)' = Flushed(c)
      BY <2>1, <2>2, <2>3, HoldValue DEF Flushed
    <3>2. Requests(c)'
      BY <2>1, <2>2, <2>3, <3>1, CardFacts DEF Requests
    <3>3. InOrder(c)' /\ Answers(c)' /\ Display(c)'
      BY <2>1, <2>2, <2>3, <3>1, CardFacts DEF InOrder, Answers, Display
    <3> QED BY <3>2, <3>3 DEF CardInv
  <2>4. CASE unsaved[c] # 0
    <3>1. /\ settling'[c].at = unsaved[c] /\ settling'[c].after = Never
          /\ Flushed(c)' = unsaved[c] /\ Flushed(c) < unsaved[c]
      BY <2>1, <2>2, <2>4, HoldValue, CardFacts DEF Flushed, InOrder
    <3>2. \A p \in patches : p.moves[c] < unsaved[c]
      BY <3>1, CardFacts DEF Requests
    <3>3. Requests(c)'
      BY <2>1, <2>2, <2>4, <3>1, <3>2, CardFacts DEF Requests
    <3>4. InOrder(c)'
      BY <2>2, <2>4, <3>1, CardFacts DEF InOrder
    <3>5. Answers(c)' /\ Display(c)'
      BY <2>2, <2>4, <3>1, CardFacts DEF Answers, Display
    <3> QED BY <3>3, <3>4, <3>5 DEF CardInv
  <2> QED BY <2>3, <2>4
<1> QED BY <1>1, <1>2

\* A request is stored, or gets lost.  A card is reordered if its place goes back.
LEMMA PatchArrives ==
  ASSUME IInv, NEW p \in patches, PatchStored(p) \/ PatchLost(p),
         NEW c \in Undisturbed, c \in Undisturbed'
  PROVE  CardInv(c)'
<1>1. /\ UNCHANGED <<view, shown, full, deferred, unsaved, settling, get, moves, destroyed>>
  BY DEF PatchStored, PatchLost, dataVars, saveVars, loadVars
<1>p. p \in [moves : Positions, state : {"sent", "stored", "failed"}]
  BY DEF IInv, TypeOK
<1>2. CASE PatchLost(p)
  <2> DEFINE r == [p EXCEPT !.state = "failed"]
  <2>1. /\ patches' = (patches \ {p}) \cup {r}
        /\ r.moves = p.moves /\ r.state = "failed"
    BY <1>2, <1>p DEF PatchLost
  <2> HIDE DEF r
  <2>2. stored' = stored /\ Flushed(c)' = Flushed(c)
    BY <1>1, <1>2 DEF PatchLost, Flushed
  <2>3. Requests(c)'
    BY <1>1, <2>1, <2>2, CardFacts DEF Requests
  <2> QED BY <1>1, <2>2, <2>3, CardFacts DEF CardInv, InOrder, Answers, Display
<1>3. CASE PatchStored(p)
  <2> DEFINE r == [p EXCEPT !.state = "stored"]
  <2>1. /\ patches' = (patches \ {p}) \cup {r}
        /\ r.moves = p.moves /\ r.state = "stored" /\ p.state = "sent"
    BY <1>3, <1>p DEF PatchStored
  <2> HIDE DEF r
  <2>2. /\ stored'[c] = IF p.moves[c] # 0 THEN p.moves[c] ELSE stored[c]
        /\ ~(stored'[c] < stored[c])
    BY <1>3, CardFacts DEF PatchStored, Overlay, Undisturbed
  <2>3. CASE p.moves[c] = 0
    <3>1. stored'[c] = stored[c] /\ Flushed(c)' = Flushed(c)
      BY <1>1, <2>2, <2>3 DEF Flushed
    <3>2. Requests(c)'
      BY <1>1, <2>1, <2>3, <3>1, CardFacts DEF Requests
    <3> QED BY <1>1, <3>1, <3>2, CardFacts DEF CardInv, InOrder, Answers, Display
  <2>4. CASE p.moves[c] # 0
    <3>1. stored'[c] = p.moves[c] /\ p.moves[c] >= stored[c] /\ p.moves[c] <= Flushed(c)
      BY <2>2, <2>4, CardFacts DEF Requests
    <3>2. settling[c].after = Never
      <4> SUFFICES ASSUME settling[c].after # Never PROVE FALSE
        OBVIOUS
      <4>1. stored[c] = Flushed(c)
        BY CardFacts DEF InOrder
      <4>2. p.moves[c] = Flushed(c)
        BY <3>1, <4>1, CardFacts
      <4> QED BY <2>1, <2>4, <4>2, CardFacts DEF Requests
    <3>3. settling[c].at # 0 /\ Flushed(c)' = Flushed(c)
      BY <1>1, <3>2, CardFacts DEF Flushed
    <3>4. Requests(c)'
      BY <1>1, <2>1, <3>1, <3>2, <3>3, CardFacts DEF Requests
    <3>5. InOrder(c)'
      BY <1>1, <3>1, <3>2, <3>3, CardFacts DEF InOrder
    <3>6. Answers(c)'
      BY <1>1, <3>1, <3>2, <3>3, CardFacts DEF Answers
    <3> QED BY <1>1, <3>3, <3>4, <3>5, <3>6, CardFacts DEF CardInv, Display
  <2> QED BY <2>3, <2>4
<1> QED BY <1>2, <1>3

\* The graph that applyGraph shows.
LEMMA ApplyValue ==
  ASSUME NEW g, NEW k, NEW c \in Cards, Apply(g, k, unsaved)
  PROVE  \/ /\ ~destroyed /\ dragging = None /\ deferred' = deferred
            /\ shown'[c] = full'[c]
            /\ full'[c] = IF unsaved[c] # 0 THEN unsaved[c]
                          ELSE IF k[c].at # 0 THEN k[c].at ELSE g[c]
         \/ ~destroyed /\ dragging # None /\ deferred' = g /\ UNCHANGED <<shown, full>>
         \/ destroyed /\ UNCHANGED <<shown, full, deferred>>
<1>1. CASE destroyed
  BY <1>1 DEF Apply
<1>2. CASE ~destroyed /\ dragging # None
  BY <1>2 DEF Apply
<1>3. CASE ~destroyed /\ dragging = None
  BY <1>3 DEF Apply, Overlay
<1> QED BY <1>1, <1>2, <1>3

\* What a step does to a card: it keeps the invariant, and the place on the canvas
\* goes back only in the server view during a drag.
Fine(c) ==
  /\ c \in Undisturbed' => CardInv(c)'
  /\ shown'[c] >= shown[c] \/ (view = "server" /\ dragging # None)

\* A save is done: the moves of its cards that are still the newest are settled.
LEMMA PatchDoneKeeps ==
  ASSUME IInv, NEW p \in patches, PatchDone(p), NEW c \in Undisturbed
  PROVE  Fine(c)
<1>1. /\ UNCHANGED <<view, stored, unsaved, get, moves, destroyed>>
      /\ settling' = Settle(p.moves) /\ p.state = "stored" /\ patches' = patches \ {p}
  BY DEF PatchDone, loadVars
<1>2. c \in Cards /\ TypeOK
  BY DEF IInv, Undisturbed
<1>3. settling'[c].at = settling[c].at /\ Flushed(c)' = Flushed(c)
  BY <1>1, <1>2, SettleValue DEF Flushed
<1>4. settling'[c].after = IF p.moves[c] # 0 /\ settling[c].at = p.moves[c]
                           THEN loads ELSE settling[c].after
  BY <1>1, <1>2, SettleValue
<1>5. p.moves[c] # 0 /\ settling[c].at = p.moves[c] => stored[c] = Flushed(c)
  BY <1>1, CardFacts DEF Requests, InOrder, Flushed
<1>6. InOrder(c)'
  BY <1>1, <1>3, <1>4, <1>5, CardFacts DEF InOrder
<1>7. Requests(c)'
  <2>1. CASE p.moves[c] # 0 /\ settling[c].at = p.moves[c]
    <3>1. Flushed(c) = p.moves[c]
      BY <2>1 DEF Flushed
    <3>2. settling'[c].after # Never
      BY <1>4, <2>1, CardFacts
    <3>3. \A q \in patches' : q.moves[c] # Flushed(c)
      BY <1>1, <2>1, <3>1, CardFacts DEF Requests
    <3> QED BY <1>1, <1>3, <3>2, <3>3, CardFacts DEF Requests
  <2>2. CASE ~(p.moves[c] # 0 /\ settling[c].at = p.moves[c])
    <3>1. settling'[c].after = settling[c].after
      BY <1>4, <2>2
    <3>2. settling[c].after = Never => p.moves[c] # Flushed(c)
      BY <2>2, CardFacts DEF Flushed
    <3> QED BY <1>1, <1>3, <3>1, <3>2, CardFacts DEF Requests
  <2> QED BY <2>1, <2>2
<1>8. get # None /\ get.answer # None /\ settling'[c].after < get.started
        => get.answer[c] = stored[c]
  BY <1>1, <1>4, CardFacts DEF Answers
<1>9. CASE view = "environment"
  <2>1. shown' = shown /\ deferred' = deferred
    BY <1>9 DEF PatchDone
  <2> QED BY <1>1, <1>3, <1>6, <1>7, <1>8, <1>9, <2>1, CardFacts
          DEF Fine, CardInv, Answers, Display
<1>10. CASE view = "server"
  <2>1. Apply(full, settling', unsaved) /\ unsaved[c] = 0
    BY <1>10, CardFacts DEF PatchDone
  <2>2. CASE ~destroyed /\ dragging = None
    <3>1. deferred' = deferred /\ deferred = None /\ shown'[c] = full'[c]
          /\ full'[c] = IF settling[c].at # 0 THEN settling[c].at ELSE full[c]
      BY <1>2, <1>3, <2>1, <2>2, ApplyValue DEF IInv, Agreed
    <3>2. full'[c] <= Flushed(c) /\ shown'[c] >= shown[c]
      BY <1>10, <2>2, <3>1, CardFacts DEF Display, Flushed
    <3> QED BY <1>1, <1>3, <1>6, <1>7, <1>8, <1>10, <3>1, <3>2, CardFacts
            DEF Fine, CardInv, Answers, Display
  <2>3. CASE ~destroyed /\ dragging # None
    <3>1. deferred' = full /\ shown' = shown /\ full' = full /\ full # None
      BY <1>2, <2>1, <2>3, ApplyValue, NoneAssumption DEF TypeOK
    <3> QED BY <1>1, <1>3, <1>6, <1>7, <1>8, <1>10, <3>1, CardFacts
            DEF Fine, CardInv, Answers, Display
  <2>4. CASE destroyed
    <3>1. UNCHANGED <<deferred, shown, full>>
      BY <1>2, <2>1, <2>4, ApplyValue
    <3> QED BY <1>1, <1>3, <1>6, <1>7, <1>8, <1>10, <2>4, <3>1, CardFacts
            DEF Fine, CardInv, Answers, Display
  <2> QED BY <2>2, <2>3, <2>4
<1> QED BY <1>9, <1>10, CardFacts

\* A failed save releases its own cards only, and asks for a load.
LEMMA PatchFailedKeeps ==
  ASSUME IInv, NEW p \in patches, PatchFailed(p), NEW c \in Undisturbed
  PROVE  Fine(c)
<1>1. /\ UNCHANGED <<view, stored, shown, full, deferred, unsaved, moves, destroyed>>
      /\ settling' = Release(p.moves) /\ patches' = patches \ {p} /\ Load
  BY DEF PatchFailed, dataVars
<1>s. shown'[c] >= shown[c]
  BY <1>1, CardFacts
<1> SUFFICES ASSUME c \in Undisturbed' PROVE CardInv(c)'
  BY <1>s DEF Fine
<1>2. p.moves[c] = 0
  BY DEF PatchFailed, Undisturbed
<1>3. settling'[c] = settling[c] /\ Flushed(c)' = Flushed(c)
  BY <1>1, <1>2, CardFacts, ReleaseValue DEF Flushed
<1>4. get' # None /\ get'.answer # None => get' = get
  BY <1>1, LoadValues DEF IInv
<1>5. Requests(c)'
  <2>1. settling[c].after = Never => Flushed(c) # 0
    BY CardFacts DEF Flushed
  <2> QED BY <1>1, <1>2, <1>3, <2>1, CardFacts DEF Requests
<1> QED BY <1>1, <1>3, <1>4, <1>5, CardFacts DEF CardInv, InOrder, Answers, Display

\* A load starts, fails, or is answered with the positions of the database.
LEMMA LoadKeeps ==
  ASSUME IInv, NEW c \in Undisturbed, Refresh \/ LoadFails \/ LoadAnswered
  PROVE  Fine(c)
<1>1. UNCHANGED <<view, stored, shown, full, deferred, unsaved, settling, patches, moves,
                  destroyed>>
  BY DEF Refresh, LoadFails, LoadAnswered, dataVars, saveVars
<1>2. get' # None /\ get'.answer # None => get' = get \/ get'.answer = stored
  <2>1. CASE Refresh \/ LoadFails
    BY <2>1, LoadValues DEF Refresh, LoadFails, IInv
  <2>2. CASE LoadAnswered
    BY <2>2 DEF LoadAnswered, IInv, TypeOK
  <2> QED BY <2>1, <2>2
<1>3. Flushed(c)' = Flushed(c)
  BY <1>1 DEF Flushed
<1>4. Answers(c)'
  BY <1>1, <1>2, <1>3, CardFacts DEF Answers
<1> QED BY <1>1, <1>3, <1>4, CardFacts DEF Fine, CardInv, InOrder, Requests, Display

\* The answer of a load is shown, or waits for the end of a drag.  It is fresh for
\* the moves that it frees.
LEMMA DeliveryKeeps ==
  ASSUME IInv, LoadDelivered, NEW c \in Undisturbed
  PROVE  Fine(c)
<1>1. /\ UNCHANGED <<view, stored, unsaved, patches, moves, destroyed>>
      /\ settling' = DropSettled(get.started) /\ get # None /\ get.answer # None
      /\ Apply(get.answer, settling', unsaved) /\ LoadEnds
  BY DEF LoadDelivered
<1>2. c \in Cards /\ TypeOK /\ Agreed
  BY DEF IInv, Undisturbed
<1>3. settling'[c] = IF settling[c].after < get.started THEN NoMove ELSE settling[c]
  BY <1>1, <1>2, DropValue
<1>4. Flushed(c)' = Flushed(c) /\ settling'[c].at \in Nat
  <2>1. CASE settling[c].after < get.started
    <3>1. stored[c] = Flushed(c) /\ settling'[c].at = 0
      BY <1>1, <1>3, <2>1, CardFacts DEF InOrder, NoMove
    <3> QED BY <1>1, <3>1 DEF Flushed
  <2>2. CASE ~(settling[c].after < get.started)
    BY <1>1, <1>3, <2>2, CardFacts DEF Flushed
  <2> QED BY <2>1, <2>2
<1>5. settling'[c].after = Never <=> settling[c].after = Never
  BY <1>1, <1>3, CardFacts DEF NoMove
<1>6. settling'[c].after # Never => stored[c] = Flushed(c)
  BY <1>5, CardFacts DEF InOrder
<1>7. InOrder(c)' /\ Requests(c)'
  BY <1>1, <1>4, <1>5, <1>6, CardFacts DEF InOrder, Requests
<1>8. get' = None \/ get'.answer = None
  BY <1>1, <1>2 DEF LoadEnds
<1>9. /\ get.answer[c] <= Flushed(c) /\ get.answer[c] \in Nat
      /\ settling'[c].at = 0 => get.answer[c] = Flushed(c) /\ stored[c] = Flushed(c)
  <2>1. settling'[c].at = 0 => settling[c].after < get.started
    BY <1>1, <1>3, CardFacts
  <2> QED BY <1>1, <2>1, CardFacts DEF Answers, InOrder
<1>10. CASE ~destroyed /\ dragging = None
  <2>1. /\ deferred' = deferred /\ deferred = None /\ shown'[c] = full'[c]
        /\ full'[c] = IF unsaved[c] # 0 THEN unsaved[c]
                      ELSE IF settling'[c].at # 0 THEN settling'[c].at ELSE get.answer[c]
    BY <1>1, <1>2, <1>10, ApplyValue DEF Agreed
  <2>2. full'[c] = IF unsaved[c] # 0 THEN unsaved[c] ELSE Flushed(c)
    BY <1>1, <1>4, <1>9, <2>1 DEF Flushed
  <2>3. shown'[c] >= shown[c]
    BY <2>1, <2>2, CardFacts DEF Display
  <2>4. Answers(c)' /\ Display(c)'
    BY <1>1, <1>4, <1>8, <2>1, <2>2, CardFacts DEF Answers, Display
  <2> QED BY <1>7, <2>3, <2>4 DEF Fine, CardInv
<1>11. CASE ~destroyed /\ dragging # None
  <2>1. deferred' = get.answer /\ deferred' # None /\ shown' = shown /\ full' = full
    BY <1>1, <1>2, <1>11, ApplyValue
  <2>2. Answers(c)'
    BY <1>1, <1>4, <1>8, <1>9, <2>1, CardFacts DEF Answers
  <2>3. Display(c)'
    BY <1>1, <1>4, <2>1, CardFacts DEF Display
  <2> QED BY <1>7, <2>1, <2>2, <2>3, CardFacts DEF Fine, CardInv
<1>12. CASE destroyed
  <2>1. UNCHANGED <<deferred, shown, full>>
    BY <1>1, <1>2, <1>12, ApplyValue
  <2>2. Answers(c)' /\ Display(c)'
    BY <1>1, <1>4, <1>8, <1>12, <2>1, CardFacts DEF Answers, Display
  <2> QED BY <1>7, <2>1, <2>2, CardFacts DEF Fine, CardInv
<1> QED BY <1>10, <1>11, <1>12

\* The containers of a server are added to the graph of the page.
LEMMA ContainersKeep ==
  ASSUME IInv, ContainersLoaded, NEW c \in Undisturbed
  PROVE  Fine(c)
<1>1. /\ UNCHANGED <<view, stored, unsaved, settling, patches, get, moves, destroyed>>
      /\ Apply(full, settling, unsaved) /\ view = "server" /\ unsaved[c] = 0
  BY CardFacts DEF ContainersLoaded, saveVars, IInv, Agreed
<1>2. c \in Cards /\ TypeOK /\ Agreed
  BY DEF IInv, Undisturbed
<1>3. Flushed(c)' = Flushed(c) /\ InOrder(c)' /\ Requests(c)'
  BY <1>1, CardFacts DEF Flushed, InOrder, Requests
<1>4. CASE ~destroyed /\ dragging = None
  <2>1. /\ deferred' = deferred /\ deferred = None /\ shown'[c] = full'[c]
        /\ full'[c] = IF settling[c].at # 0 THEN settling[c].at ELSE full[c]
    BY <1>1, <1>2, <1>4, ApplyValue DEF Agreed
  <2>2. full'[c] <= Flushed(c) /\ shown'[c] >= shown[c]
    BY <1>1, <1>4, <2>1, CardFacts DEF Display, Flushed
  <2> QED BY <1>1, <1>3, <2>1, <2>2, CardFacts DEF Fine, CardInv, Answers, Display
<1>5. CASE ~destroyed /\ dragging # None
  <2>1. deferred' = full /\ shown' = shown /\ full' = full /\ full # None
    BY <1>1, <1>2, <1>5, ApplyValue, NoneAssumption DEF TypeOK
  <2> QED BY <1>1, <1>3, <2>1, CardFacts DEF Fine, CardInv, Answers, Display
<1>6. CASE destroyed
  <2>1. UNCHANGED <<deferred, shown, full>>
    BY <1>1, <1>2, <1>6, ApplyValue
  <2> QED BY <1>1, <1>3, <1>6, <2>1, CardFacts DEF Fine, CardInv, Answers, Display
<1> QED BY <1>4, <1>5, <1>6

\* The end of a drag shows the graph that has waited, with the moves that are held.
LEMMA ClickKeeps ==
  ASSUME IInv, NEW d \in Cards, Click(d), NEW c \in Undisturbed
  PROVE  Fine(c)
<1>1. /\ UNCHANGED <<view, stored, unsaved, settling, patches, get, moves, destroyed>>
      /\ dragging # None /\ deferred' = None /\ ~destroyed /\ c \in Cards
  BY NoneAssumption DEF Click, saveVars, loadVars, Undisturbed
<1>2. Flushed(c)' = Flushed(c) /\ InOrder(c)' /\ Requests(c)' /\ Answers(c)'
  BY <1>1, CardFacts DEF Flushed, InOrder, Requests, Answers
<1>3. CASE deferred = None
  <2>1. UNCHANGED <<shown, full>>
    BY <1>3 DEF Click
  <2> QED BY <1>1, <1>2, <1>3, <2>1, CardFacts DEF Fine, CardInv, Display
<1>4. CASE deferred # None
  <2>1. /\ shown'[c] = full'[c]
        /\ full'[c] = IF unsaved[c] # 0 THEN unsaved[c]
                      ELSE IF settling[c].at # 0 THEN settling[c].at ELSE deferred[c]
    BY <1>1, <1>4 DEF Click, Overlay
  <2>2. view = "environment" => shown'[c] = shown[c]
    BY <1>1, <1>4, <2>1, CardFacts DEF Answers, Display, Flushed
  <2>3. view = "server" => full'[c] <= Flushed(c)
    BY <1>4, <2>1, CardFacts DEF Answers, Flushed
  <2> QED BY <1>1, <1>2, <2>1, <2>2, <2>3, CardFacts DEF Fine, CardInv, Display
<1> QED BY <1>3, <1>4

\* A move has the largest number so far.
LEMMA DragEndsKeeps ==
  ASSUME IInv, NEW d \in Cards, DragEnds(d), NEW c \in Undisturbed
  PROVE  Fine(c)
<1> DEFINE place == [NoMoves EXCEPT ![d] = moves + 1]
<1>1. /\ UNCHANGED <<view, stored, get, destroyed>> /\ moves' = moves + 1
      /\ dragging # None /\ deferred' = None /\ ~destroyed /\ c \in Cards
  BY NoneAssumption DEF DragEnds, loadVars, Undisturbed
<1>2. /\ place[c] = IF c = d THEN moves + 1 ELSE 0
      /\ moves + 1 \in Nat /\ moves + 1 # 0
  BY <1>1, CardFacts DEF NoMoves
<1>3. deferred = None => full' = full /\ shown'[c] = IF c = d THEN moves + 1 ELSE shown[c]
  BY <1>1, <1>2 DEF DragEnds, Overlay
<1>4. deferred # None =>
        /\ shown'[c] = full'[c]
        /\ full'[c] = IF unsaved'[c] # 0 THEN unsaved'[c]
                      ELSE IF settling'[c].at # 0 THEN settling'[c].at ELSE deferred[c]
  BY <1>1 DEF DragEnds, Overlay
<1>5. CASE view = "environment"
  <2>1. /\ UNCHANGED <<settling, patches>>
        /\ unsaved'[c] = IF c = d THEN moves + 1 ELSE unsaved[c]
    BY <1>1, <1>2, <1>5 DEF DragEnds, Overlay
  <2>2. Flushed(c)' = Flushed(c) /\ InOrder(c)' /\ Requests(c)' /\ Answers(c)'
    BY <1>1, <1>2, <2>1, CardFacts DEF Flushed, InOrder, Requests, Answers
  <2>3. shown'[c] = IF c = d THEN moves + 1 ELSE shown[c]
    BY <1>1, <1>2, <1>3, <1>4, <1>5, <2>1, CardFacts DEF Answers, Display, Flushed
  <2>4. shown'[c] >= shown[c]
    BY <1>2, <1>5, <2>3, CardFacts DEF Display, InOrder
  <2>5. Display(c)'
    BY <1>1, <1>2, <1>5, <2>1, <2>2, <2>3, CardFacts DEF Display
  <2> QED BY <2>2, <2>4, <2>5 DEF Fine, CardInv
<1>6. CASE view = "server"
  <2> DEFINE p0 == [moves |-> place, state |-> "sent"]
  <2>1. settling' = Hold(place) /\ patches' = patches \cup {p0} /\ unsaved' = unsaved
    BY <1>6 DEF DragEnds
  <2>2. p0.moves[c] = place[c] /\ p0.state = "sent"
    OBVIOUS
  <2> HIDE DEF p0, place
  <2>3. CASE c = d
    <3>1. /\ settling'[c].at = moves + 1 /\ settling'[c].after = Never
          /\ Flushed(c)' = moves + 1 /\ Flushed(c) < moves + 1
      BY <1>1, <1>2, <2>1, <2>3, HoldValue, CardFacts DEF Flushed, InOrder
    <3>2. \A p \in patches : p.moves[c] < moves + 1
      BY <3>1, CardFacts DEF Requests
    <3>3. Requests(c)'
      BY <1>1, <1>2, <2>1, <2>2, <2>3, <3>1, <3>2, CardFacts DEF Requests
    <3>4. InOrder(c)' /\ Answers(c)'
      BY <1>1, <1>6, <2>1, <3>1, CardFacts DEF InOrder, Answers
    <3>5. shown'[c] <= moves + 1 /\ full'[c] <= moves + 1
      BY <1>2, <1>3, <1>4, <1>6, <2>1, <2>3, <3>1, CardFacts DEF Display
    <3>6. Display(c)'
      BY <1>1, <1>2, <1>6, <3>1, <3>5 DEF Display
    <3> QED BY <1>1, <1>6, <3>3, <3>4, <3>6 DEF Fine, CardInv
  <2>4. CASE c # d
    <3>1. settling'[c] = settling[c] /\ Flushed(c)' = Flushed(c)
      BY <1>1, <1>2, <2>1, <2>4, HoldValue DEF Flushed
    <3>2. Requests(c)'
      BY <1>1, <1>2, <2>1, <2>2, <2>4, <3>1, CardFacts DEF Requests
    <3>3. InOrder(c)' /\ Answers(c)'
      BY <1>1, <2>1, <3>1, CardFacts DEF InOrder, Answers
    <3>4. Display(c)'
      BY <1>1, <1>3, <1>4, <1>6, <2>1, <2>4, <3>1, CardFacts DEF Answers, Display, Flushed
    <3> QED BY <1>1, <1>6, <3>2, <3>3, <3>4 DEF Fine, CardInv
  <2> QED BY <2>3, <2>4
<1> QED BY <1>5, <1>6, CardFacts

\* Every step, for every card whose saves have gone well so far.
LEMMA NextCard ==
  ASSUME IInv, [Next]_vars, NEW c \in Undisturbed
  PROVE  Fine(c)
<1>1. CASE UNCHANGED vars \/ \E d \in Cards : DragStarts(d)
  <2>1. UNCHANGED <<view, stored, shown, full, deferred, unsaved, settling, patches, get,
                    moves, destroyed>>
    BY <1>1 DEF vars, DragStarts, dataVars, saveVars, loadVars
  <2> QED BY <2>1, CardFacts
          DEF Fine, CardInv, Flushed, InOrder, Requests, Answers, Display
<1>2. CASE PageHides \/ Leave \/ SaveTimer
  <2>1. /\ Flush /\ UNCHANGED <<view, stored, shown, full, deferred, get, moves>>
        /\ ~destroyed' => ~destroyed
    BY <1>2 DEF PageHides, Leave, SaveTimer, dataVars, loadVars
  <2> QED BY <2>1, FlushKeeps, CardFacts DEF Fine
<1>3. ASSUME NEW p \in patches, PatchStored(p) \/ PatchLost(p) PROVE Fine(c)
  <2>1. shown' = shown
    BY <1>3 DEF PatchStored, PatchLost
  <2> QED BY <1>3, <2>1, PatchArrives, CardFacts DEF Fine
<1> QED BY <1>1, <1>2, <1>3, DragEndsKeeps, ClickKeeps, PatchDoneKeeps,
           PatchFailedKeeps, LoadKeeps, DeliveryKeeps, ContainersKeep DEF Next

-----------------------------------------------------------------------------
(* Theorems. *)

\* The invariant holds in every reachable state.
THEOREM Invariance == Spec => []IInv
<1>1. IInv /\ [Next]_vars => IInv'
  <2> SUFFICES ASSUME IInv, [Next]_vars PROVE IInv'
    OBVIOUS
  <2>1. failed \subseteq failed' /\ reordered \subseteq reordered'
    <3>1. CASE \E p \in patches : PatchFailed(p) \/ PatchStored(p)
      BY <3>1 DEF PatchFailed, PatchStored
    <3>2. CASE ~\E p \in patches : PatchFailed(p) \/ PatchStored(p)
      BY <3>2 DEF Next, vars, DragStarts, DragEnds, Click, PageHides, Leave, SaveTimer,
            PatchLost, PatchDone, Refresh, LoadAnswered, LoadDelivered, LoadFails,
            ContainersLoaded
    <3> QED BY <3>1, <3>2
  <2>2. Undisturbed' \subseteq Undisturbed
    BY <2>1 DEF Undisturbed
  <2> QED BY <2>2, NextType, NextAgreed, NextCard DEF IInv, Fine
<1> QED BY <1>1, InitIInv, PTL DEF Spec

\* The variables keep their types (the state of EnvironmentCanvas.svelte).
THEOREM TypeCorrect == Spec => []TypeOK
<1>1. IInv => TypeOK
  BY DEF IInv
<1> QED BY <1>1, Invariance, PTL

\* No response puts a card back to an older place, for any number of loads and
\* saves in flight (applyGraph, settling, dropSettled).
THEOREM NeverPutBackHolds == Spec => NeverPutBack
<1>1. IInv /\ [Next]_vars =>
        [\A c \in Undisturbed : shown'[c] >= shown[c] \/ (view = "server" /\ dragging # None)]_vars
  BY NextCard DEF Fine
<1> QED BY <1>1, Invariance, PTL DEF Spec, NeverPutBack

\* When every move has been saved, an environment canvas and the database agree
\* (flushSave, applyGraph).
THEOREM CanvasAgreesHolds == Spec => []CanvasAgrees
<1>1. ASSUME IInv, view = "environment", unsaved = NoMoves, patches = {},
             NEW c \in Undisturbed
      PROVE  shown[c] = stored[c]
  <2>1. unsaved[c] = 0 /\ settling[c].after # Never
    BY <1>1, CardFacts DEF NoMoves, Requests
  <2> QED BY <1>1, <2>1, CardFacts DEF InOrder, Display
<1>2. IInv => CanvasAgrees
  BY <1>1 DEF CanvasAgrees
<1> QED BY <1>2, Invariance, PTL
=============================================================================

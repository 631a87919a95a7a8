-------------------------- MODULE DeliveryPromise --------------------------
(***************************************************************************)
(* What the delivery of one schedule promises: its occurrences are taken   *)
(* up in the order they are due, each at most once and a repeated local    *)
(* time once; an open occurrence is started, when no other body of the     *)
(* schedule runs, or closed without a run; only a closed occurrence that   *)
(* never ran is reported as missed, once; and closed is the end.           *)
(***************************************************************************)
EXTENDS Naturals

CONSTANTS Occurrences, Twins

VARIABLES
  latest,   \* the occurrence that was taken up last
  stage,    \* of an occurrence: none, open, claimed or closed
  runs,     \* how often its body was started
  reports,  \* how often it was reported as missed
  busy      \* the occurrences whose body runs

promises == <<latest, stage, runs, reports, busy>>

Init ==
  /\ latest = 0
  /\ stage = [o \in Occurrences |-> "none"]
  /\ runs = [o \in Occurrences |-> 0] /\ reports = [o \in Occurrences |-> 0]
  /\ busy = {}

IsNext(o) == o > latest /\ ~(o \in Twins /\ latest = o - 1)

Open(o) ==
  /\ IsNext(o) /\ stage[o] = "none"
  /\ latest' = o
  /\ stage' = [stage EXCEPT ![o] = "open"]
  /\ UNCHANGED <<runs, reports, busy>>

\* The occurrence is never opened.
PassOver(o) ==
  /\ IsNext(o)
  /\ latest' = o
  /\ UNCHANGED <<stage, runs, reports, busy>>

Start(o) ==
  /\ stage[o] = "open" /\ busy = {}
  /\ stage' = [stage EXCEPT ![o] = "claimed"]
  /\ runs' = [runs EXCEPT ![o] = 1]
  /\ busy' = {o}
  /\ UNCHANGED <<latest, reports>>

CloseAll(S) ==
  stage' = [o \in Occurrences |-> IF o \in S THEN "closed" ELSE stage[o]]

\* The body ends; its occurrence is closed with it or later.
Stop ==
  /\ busy # {} /\ busy' = {}
  /\ \E S \in {{}, busy} : CloseAll(S)
  /\ UNCHANGED <<latest, runs, reports>>

Close ==
  /\ \E S \in SUBSET {o \in Occurrences : stage[o] \in {"open", "claimed"}} : CloseAll(S)
  /\ UNCHANGED <<latest, runs, reports, busy>>

Report(o) ==
  /\ stage[o] = "closed" /\ runs[o] = 0 /\ reports[o] = 0
  /\ reports' = [reports EXCEPT ![o] = 1]
  /\ UNCHANGED <<latest, stage, runs, busy>>

Next ==
  \/ Stop \/ Close
  \/ \E o \in Occurrences : Open(o) \/ PassOver(o) \/ Start(o) \/ Report(o)

Spec == Init /\ [][Next]_promises
=============================================================================

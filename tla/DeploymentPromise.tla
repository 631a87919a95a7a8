-------------------------- MODULE DeploymentPromise --------------------------
(***************************************************************************)
(* What the deployment queue promises its users: a deployment waits, runs  *)
(* and ends, never again after it ended; it starts when nothing runs for   *)
(* its target and deployments that respect the limits leave a build slot,  *)
(* unless it is exempt itself; and only an exempt deployment moves to      *)
(* another build slot while it runs, taken or not.                         *)
(***************************************************************************)
EXTENDS Naturals, FiniteSets

CONSTANTS Deployments, Targets, Servers, NoSlot, Limit, New

VARIABLE deployment

In(stage) == {d \in Deployments : deployment[d].stage = stage}
Builds(s) == Cardinality({d \in In("running") :
                            deployment[d].slot = s /\ ~deployment[d].exempt})

\* A deployment of target t may take a slot of server s.
MayRun(t, s, exempt) ==
  exempt \/ /\ \A d \in In("running") : deployment[d].target # t
            /\ Builds(s) < Limit[s]

Waiting(t) == [stage |-> "waiting", target |-> t, slot |-> NoSlot, exempt |-> FALSE]
Running(t, s, x) == [stage |-> "running", target |-> t, slot |-> s, exempt |-> x]
Ended(t) == [stage |-> "ended", target |-> t, slot |-> NoSlot, exempt |-> FALSE]

Init == deployment = [d \in Deployments |-> New]

\* d becomes new, and the deployments of S end.
Place(d, new, S) ==
  deployment' = [e \in Deployments |->
    IF e = d THEN new
    ELSE IF e \in S THEN Ended(deployment[e].target) ELSE deployment[e]]

\* A submitted deployment ends the deployments of its target that it replaces.
\* It runs at once only if those were all waiting.
Submit(d) ==
  /\ deployment[d] = New
  /\ \E t \in Targets :
       \/ \E S \in SUBSET {e \in In("waiting") \cup In("running") :
                             deployment[e].target = t} :
            Place(d, Waiting(t), S)
       \/ \E S \in SUBSET {e \in In("waiting") : deployment[e].target = t},
             s \in Servers, x \in BOOLEAN :
            MayRun(t, s, x) /\ Place(d, Running(t, s, x), S)

Start(d) ==
  /\ deployment[d].stage = "waiting"
  /\ \E s \in Servers, x \in BOOLEAN :
       /\ MayRun(deployment[d].target, s, x)
       /\ deployment' = [deployment EXCEPT ![d] = Running(@.target, s, x)]

End(d) ==
  /\ deployment[d].stage \in {"waiting", "running"}
  /\ deployment' = [deployment EXCEPT ![d] = Ended(@.target)]

Relocate(d) ==
  /\ deployment[d].stage = "running" /\ deployment[d].exempt
  /\ \E s \in Servers :
       deployment' = [deployment EXCEPT ![d] = Running(@.target, s, TRUE)]

Next == \E d \in Deployments : Submit(d) \/ Start(d) \/ End(d) \/ Relocate(d)

Spec == Init /\ [][Next]_deployment
=============================================================================

-------------------------- MODULE MCDeploymentQueue --------------------------
(***************************************************************************)
(* Instances of DeploymentQueue for TLC: two applications, up to four      *)
(* servers, and the requests that each run submits.  A build server hosts  *)
(* no application (Server::canHostResources).                              *)
(***************************************************************************)
EXTENDS DeploymentQueue

CONSTANTS a1, a2, s1, s2, s3, s4, c1, c2, noServer

Deploy(app, server, commit, source) ==
  [app |-> app, pr |-> 0, server |-> server, commit |-> commit,
   source |-> source, kind |-> "deploy", force |-> FALSE, nqa |-> FALSE,
   cancel |-> "none"]

\* The kinds of request that the admission treats differently: a1 on its own server s1
\* and on its additional server s2, where it must build on s4, and a2 on s3, which
\* builds on s4 too.
MixedRequests ==
  {Deploy(a1, s1, c1, "webhook"),
   [Deploy(a1, s1, c2, "api") EXCEPT !.cancel = "building"],
   [Deploy(a1, s1, c1, "manual") EXCEPT !.kind = "rollback"],
   Deploy(a1, s2, c1, "manual"), [Deploy(a1, s2, c1, "manual") EXCEPT !.nqa = TRUE],
   Deploy(a2, s3, c1, "manual"), [Deploy(a2, s3, c1, "manual") EXCEPT !.force = TRUE]}

\* a1 is deployed on its own server and on an additional one.
AdditionalServerRequests ==
  {Deploy(a1, s1, c1, "webhook"), Deploy(a1, s1, c2, "webhook"),
   Deploy(a1, s2, c1, "manual")}

\* Both applications build on build servers.  Webhooks deploy a1, so a newer push
\* can supersede a build; a user's rollback is not replaced and may repeat a commit.
ServerRequests ==
  {Deploy(a1, s1, c1, "webhook"), Deploy(a1, s1, c2, "webhook"),
   [Deploy(a1, s1, c1, "manual") EXCEPT !.kind = "rollback"],
   Deploy(a2, s2, c1, "manual")}

OnS1 == [a \in Apps |-> s1]
EachOnItsOwn == [a \in Apps |-> IF a = a1 THEN s1 ELSE s2]
OnS1AndS3 == [a \in Apps |-> IF a = a1 THEN s1 ELSE s3]
NoBuildServers == [a \in Apps |-> [s \in Servers |-> {}]]
SharedBuildServers == [a \in Apps |-> [s \in Servers |-> {s3, s4} \ {s}]]

\* a1 builds on its primary server, but its additional server is set to deployments
\* only; a2 uses the build server.
BuilderOfAdditional ==
  [a \in Apps |-> [s \in Servers |->
     IF a = a1 /\ s # s2 THEN {} ELSE {s4} \ {s}]]
OneBuild == [s \in Servers |-> 1]
OneQueued == [s \in Servers |-> 1]
TwoQueued == [s \in Servers |-> 2]
WebhooksReplaceBuilds == [a \in Apps |-> "building"]
WebhooksReplaceQueued == [a \in Apps |-> IF a = a1 THEN "queued" ELSE "none"]
=============================================================================

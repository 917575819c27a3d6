---------------------------- MODULE MCDeployment ----------------------------
(* The deployment on the main network by deploy.js, and, on a local chain, the *)
(* three scripts one after another in any order.                               *)
EXTENDS Deployment

VARIABLE place

Local == INSTANCE Deployment WITH
  Network <- "localhost", Scripts <- {"deploy", "simulate", "alternate"}

MCInit == Init /\ place \in {"main", "local"}

MCNext ==
  /\ UNCHANGED place
  /\ \/ place = "main" /\ Next
     \/ place = "local" /\ Local!Next

mcVars == <<vars, place>>

\* As FairSpec; on the local chain nobody has to start again.
MCSpec ==
  /\ MCInit /\ [][MCNext]_mcVars
  /\ WF_mcVars(ScriptStep /\ UNCHANGED place)
  /\ WF_mcVars((\E tx \in pending : Mined(tx)) /\ UNCHANGED place)
  /\ WF_mcVars(place = "main" /\ handedOut = {} /\ (\E s \in Scripts : Begin(s)) /\ UNCHANGED place)

\* Deploys, on the main network.
MainDeploys == place = "main" => Deploys
=============================================================================

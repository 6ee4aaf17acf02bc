--------------------------- MODULE SyncService ---------------------------
(***************************************************************************)
(* The service as a whole: the webhook handlers of module Webhook and the  *)
(* job pipeline of JobPipeline in one process.  They share the jobs        *)
(* directory -- a handler's SaveJob is the pipeline's WebhookSave -- and   *)
(* they stop together: what a handler has answered and what the directory  *)
(* holds must still agree after any crash or shutdown.                     *)
(*                                                                         *)
(* Jobs are those that the webhook makes, named by their type and the ID   *)
(* of what they synchronise, and those that discover jobs make of a run.   *)
(***************************************************************************)
EXTENDS JobPipeline, JobIdentity

CONSTANTS Deliveries, EventOf, Config, Whole \* as in Webhook

VARIABLES
  hpc, htodo, hfailed,  \* the webhook handlers
  reply                 \* what GitHub has been told

handlers == <<hpc, htodo, hfailed, reply>>
service == <<vars, handlers>>

Hook == INSTANCE Webhook WITH
  pc <- hpc, todo <- htodo, failed <- hfailed,
  persisted <- saved \cap Posted,
  SaveMayFail <- "save" \in Faults

-----------------------------------------------------------------------------
(* handleDiscoverWorkflowArtifacts: what GitHub lists of a run, matched    *)
(* with the configuration of its workflow.  The event also has the path of *)
(* its workflow, as its field workflow -- a run has a path of its own, by  *)
(* which the webhook has gone -- and the fields sha and artifacts (name,   *)
(* id, ok, expired) of the run.                                            *)

(* What the expression captures, or else the commit of the run.            *)
ArtifactVersion(e, ghArtifact, cfgArtifact) ==
  IF cfgArtifact.regexp[ghArtifact.name] # Whole
  THEN cfgArtifact.regexp[ghArtifact.name]
  ELSE e.sha

Discovered(e) ==
  IF e.repo \in DOMAIN Config /\ e.workflow \in DOMAIN Config[e.repo].workflows
  THEN {ArtifactJob(e, m[1], ArtifactVersion(e, m[1], m[2]), m[2].destinations) :
          m \in {m \in e.artifacts \X Config[e.repo].workflows[e.workflow].artifacts :
                   m[1].ok /\ ~m[1].expired /\ m[1].name \in DOMAIN m[2].regexp}}
  ELSE {}

(* The pipeline's jobs are those that events call for, and those that runs *)
(* are found to have made.                                                 *)
ASSUME ServiceAssumption ==
  /\ \A j \in Jobs : FileOf[j] = j.file
  /\ \A d \in Deliveries : \A j \in Hook!Called(d) :
       /\ j \in Posted
       /\ Children[j] = IF EventOf[d].kind = "workflow" THEN Discovered(EventOf[d]) ELSE {}

ServiceInit == Init /\ Hook!Init

-----------------------------------------------------------------------------
(* The server accepts connections until the shutdown begins; handlers      *)
(* under way go on, at the latest until the process ends.                  *)
Take(d) ==
  /\ phase = "up"
  /\ UNCHANGED vars
  /\ Hook!Accept(d) \/ Hook!Reject(d)

Post(d, j) ==
  /\ WebhookSave(j)
  /\ Hook!SaveJob(d, j)

PostFails(d, j) ==
  /\ Alive
  /\ UNCHANGED vars
  /\ Hook!SaveFails(d, j)

Reply(d) ==
  /\ Alive
  /\ UNCHANGED vars
  /\ Hook!Answer(d)

Redeliver(d) ==
  /\ UNCHANGED vars
  /\ Hook!Redeliver(d)

(* The goroutines leave the handlers alone, and so does a shutdown ...     *)
Ticking == Ticker /\ UNCHANGED handlers
Working == Worker /\ UNCHANGED handlers
Signal == StopSignal /\ UNCHANGED handlers

(* ... until the process ends, and they with it.                           *)
EndHandlers ==
  \/ Hook!Crash
  \/ (\A d \in Deliveries : hpc[d] # "saving") /\ UNCHANGED handlers

Running ==
  \/ (StopTicker \/ CloseJobs \/ Restart) /\ UNCHANGED handlers
  \/ (Exit \/ SendOnClosed) /\ EndHandlers

Kill == Crash /\ EndHandlers

Handler(d) ==
  \/ Reply(d)
  \/ \E j \in htodo[d] : Post(d, j) \/ PostFails(d, j)

ServiceNext ==
  \/ \E d \in Deliveries : Take(d) \/ Handler(d) \/ Redeliver(d)
  \/ Ticking \/ Working \/ Signal \/ Running \/ Kill

ServiceSpec == ServiceInit /\ [][ServiceNext]_service

(* As for the pipeline; in addition, handlers that run return.             *)
FairService ==
  /\ ServiceSpec
  /\ WF_service(Ticking) /\ WF_service(Working) /\ WF_service(Running)
  /\ \A d \in Deliveries : WF_service(Handler(d))

-----------------------------------------------------------------------------
(* Properties.                                                             *)

(* The jobs that a delivery answered with 200 stands for.  Of a run only   *)
(* those that were saved: its handler answers 200 whatever happened.       *)
Promised(d) ==
  IF reply[d] # "ok" THEN {}
  ELSE IF EventOf[d].kind = "workflow" THEN Hook!Called(d) \cap saved
  ELSE Hook!Called(d)

(* What GitHub was told is true at any time, also while the process is     *)
(* down: the jobs of an accepted event have had their verdict or are on    *)
(* disk, wherever saves, crashes and the shutdown came between.            *)
PromisesOnDisk ==
  \A d \in Deliveries : \A j \in Promised(d) : j \in settled \/ dirJobs[FileOf[j]] = j

ServiceTrouble ==
  \/ HandleRetryable \/ StopSignal \/ Crash
  \/ \E k \in Jobs : SaveChildFails(k)

AllKept ==
  \A d \in Deliveries : \A j \in Promised(d) : {j} \cup Children[j] \subseteq settled

(* From end to end: once nothing fails any more, every job of an accepted  *)
(* event reaches its verdict, and with it each job that it discovers.      *)
PromisesKept == <>[][~ServiceTrouble]_service => <>[]AllKept
=============================================================================

--------------------------- MODULE ServiceProofs ---------------------------
(***************************************************************************)
(* The service implements each of its two parts: what is proved of the     *)
(* pipeline holds with the webhook handlers running beside it, and what a  *)
(* handler has answered is true of the jobs directory.                     *)
(***************************************************************************)
EXTENDS SyncService, JobLossProofs

-----------------------------------------------------------------------------
(* The invariant of the handlers.                                          *)

HandlersTyped ==
  /\ hpc \in [Deliveries -> {"sent", "saving", "answered"}]
  /\ htodo \in [Deliveries -> SUBSET Posted]
  /\ hfailed \in [Deliveries -> BOOLEAN]
  /\ reply \in [Deliveries -> {"none", "ok", "error"}]

(* A job that the event of d calls for is still to be saved, is saved, or  *)
(* has made the delivery fail; with the answer 200, it is saved.           *)
Answering(d) ==
  EventOf[d].kind # "workflow" =>
    /\ hpc[d] = "saving" /\ ~hfailed[d] => Hook!Called(d) \subseteq htodo[d] \cup saved
    /\ reply[d] = "ok" => Hook!Called(d) \subseteq saved

(* The jobs that the discover handler saves are none that events call for. *)
KidsNotPosted == kids \cap Posted = {}

SInv == HandlersTyped /\ KidsNotPosted /\ \A d \in Deliveries : Answering(d)

LEMMA CalledPosted ==
  ASSUME NEW d \in Deliveries
  PROVE  Hook!Called(d) \subseteq Posted
BY ServiceAssumption

LEMMA ServiceInitial == ServiceInit => Init /\ Hook!Init /\ SInv
BY DEF ServiceInit, Init, Hook!Init, SInv, HandlersTyped, KidsNotPosted, Answering

-----------------------------------------------------------------------------
(* Each step of the service is one of the pipeline, or leaves it alone ... *)

LEMMA StepOfPipeline ==
  ASSUME SInv, [ServiceNext]_service
  PROVE  [Next]_vars
<1>1. ASSUME NEW d \in Deliveries, NEW j \in htodo[d], Post(d, j) PROVE Next
  <2>1. j \in Posted
    BY DEF SInv, HandlersTyped
  <2> QED
    BY <1>1, <2>1 DEF Post, Next
<1> QED
  BY <1>1 DEF ServiceNext, service, Take, Handler, PostFails, Reply, Redeliver, Ticking, Working,
     Signal, Running, Kill, Next, Process

(* ... and one of the handlers, or leaves them alone, with the jobs that   *)
(* they have saved.                                                        *)
Mine == saved \cap Posted

LEMMA MineAlone ==
  ASSUME SInv, Ticking \/ Working \/ Signal \/ Running \/ Kill
  PROVE  Mine' = Mine
<1>1. ASSUME NEW k \in Jobs, SaveChild(k) PROVE Mine' = Mine
  BY <1>1 DEF SaveChild, Save, Mine, SInv, KidsNotPosted
<1>2. CASE UNCHANGED saved
  BY <1>2 DEF Mine
<1> QED
  BY <1>1, <1>2 DEF Ticking, Working, Signal, Running, Kill, Ticker, Worker, Tick, LoadJob,
     LoadFails, Send, Count, Receive, HandleCleanup, HandleFinal, HandleRetryable, ListArtifacts,
     SaveChildFails, DiscoverFails, DiscoverDone, MoveJob, UnlinkJob, Finish, StopTicker,
     CloseJobs, Exit, SendOnClosed, Restart, StopSignal, Crash, LoseMemory, history

LEMMA StepOfHandlers ==
  ASSUME SInv, [ServiceNext]_service
  PROVE  [Hook!Next]_(Hook!vars)
<1>1. ASSUME NEW d \in Deliveries, Take(d) \/ Handler(d) \/ Redeliver(d)
      PROVE  [Hook!Next]_(Hook!vars)
  BY <1>1 DEF Take, Handler, Post, PostFails, Reply, Redeliver, Hook!Next
<1>2. CASE Ticking \/ Working \/ Signal \/ Running \/ Kill
  <2>1. UNCHANGED handlers \/ Hook!Crash
    BY <1>2 DEF Ticking, Working, Signal, Running, Kill, EndHandlers
  <2> QED
    BY <1>2, <2>1, MineAlone DEF handlers, Mine, Hook!vars, Hook!Next
<1>3. CASE UNCHANGED service
  BY <1>3 DEF service, handlers, vars, history, Hook!vars
<1> QED
  BY <1>1, <1>2, <1>3 DEF ServiceNext

-----------------------------------------------------------------------------
(* The invariant is one.                                                   *)

LEMMA SavedGrows ==
  ASSUME [Next]_vars
  PROVE  saved \subseteq saved'
BY DEF Next, Ticker, Worker, Process, WebhookSave, SaveChild, Save, Tick, LoadJob, LoadFails, Send,
   Count, Receive, HandleCleanup, HandleFinal, HandleRetryable, ListArtifacts, SaveChildFails,
   DiscoverFails, DiscoverDone, MoveJob, UnlinkJob, Finish, StopTicker, CloseJobs, Exit,
   SendOnClosed, Restart, StopSignal, Crash, LoseMemory, vars, history

LEMMA KidsNext ==
  ASSUME KidsNotPosted, [Next]_vars
  PROVE  KidsNotPosted'
<1>1. ASSUME NEW listed \in SUBSET Jobs, ListArtifacts(listed) PROVE KidsNotPosted'
  BY <1>1 DEF ListArtifacts, Handling, Discovers, KidsNotPosted, Posted
<1>2. CASE kids' \subseteq kids
  BY <1>2 DEF KidsNotPosted, Posted
<1> QED
  BY <1>1, <1>2 DEF Next, Ticker, Worker, Process, WebhookSave, SaveChild, Tick, LoadJob, LoadFails,
     Send, Count, Receive, HandleCleanup, HandleFinal, HandleRetryable, SaveChildFails,
     DiscoverFails, DiscoverDone, MoveJob, UnlinkJob, Finish, StopTicker, CloseJobs, Exit,
     SendOnClosed, Restart, StopSignal, Crash, LoseMemory, vars, worker

LEMMA HandlersNext ==
  ASSUME SInv, [Hook!Next]_(Hook!vars), saved \subseteq saved'
  PROVE  HandlersTyped' /\ \A d \in Deliveries : Answering(d)'
<1> USE CalledPosted DEF SInv, HandlersTyped, Answering, Hook!Called
<1>1. ASSUME NEW d \in Deliveries, Hook!Reject(d) \/ Hook!Redeliver(d)
      PROVE  HandlersTyped' /\ \A e \in Deliveries : Answering(e)'
  BY <1>1 DEF Hook!Reject, Hook!Redeliver
<1>2. ASSUME NEW d \in Deliveries, Hook!Accept(d)
      PROVE  HandlersTyped' /\ \A e \in Deliveries : Answering(e)'
  BY <1>2 DEF Hook!Accept
<1>3. ASSUME NEW d \in Deliveries, Hook!Answer(d)
      PROVE  HandlersTyped' /\ \A e \in Deliveries : Answering(e)'
  BY <1>3 DEF Hook!Answer
<1>4. ASSUME NEW d \in Deliveries, NEW j \in htodo[d], Hook!SaveJob(d, j)
      PROVE  HandlersTyped' /\ \A e \in Deliveries : Answering(e)'
  <2>1. j \in saved' /\ htodo'[d] = htodo[d] \ {j} /\ htodo'[d] \in SUBSET Posted
    BY <1>4 DEF Hook!SaveJob
  <2>2. \A e \in Deliveries \ {d} : htodo'[e] = htodo[e]
    BY <1>4 DEF Hook!SaveJob
  <2>3. HandlersTyped'
    BY <1>4, <2>1 DEF Hook!SaveJob
  <2>4. UNCHANGED <<hpc, hfailed, reply>>
    BY <1>4 DEF Hook!SaveJob
  <2> QED
    BY <2>1, <2>2, <2>3, <2>4
<1>7. ASSUME NEW d \in Deliveries, NEW j \in htodo[d], Hook!SaveFails(d, j)
      PROVE  HandlersTyped' /\ \A e \in Deliveries : Answering(e)'
  <2>1. /\ htodo'[d] = htodo[d] \ {j}
        /\ EventOf[d].kind # "workflow" => hfailed'[d]
    BY <1>7 DEF Hook!SaveFails
  <2>2. \A e \in Deliveries \ {d} : htodo'[e] = htodo[e] /\ hfailed'[e] = hfailed[e]
    BY <1>7 DEF Hook!SaveFails
  <2>3. HandlersTyped'
    <3>1. htodo' \in [Deliveries -> SUBSET Posted]
      BY <1>7 DEF Hook!SaveFails
    <3>2. hfailed' \in [Deliveries -> BOOLEAN]
      BY <1>7 DEF Hook!SaveFails
    <3> QED
      BY <1>7, <3>1, <3>2 DEF Hook!SaveFails
  <2>4. UNCHANGED <<hpc, reply>>
    BY <1>7 DEF Hook!SaveFails
  <2> QED
    BY <2>1, <2>2, <2>3, <2>4
<1>5. CASE Hook!Crash
  BY <1>5 DEF Hook!Crash
<1>6. CASE UNCHANGED Hook!vars
  BY <1>6 DEF Hook!vars
<1> QED
  BY <1>1, <1>2, <1>3, <1>4, <1>5, <1>6, <1>7 DEF Hook!Next

LEMMA ServiceInvariant == ServiceSpec => []SInv
<1>1. SInv /\ [ServiceNext]_service => SInv'
  BY StepOfPipeline, StepOfHandlers, SavedGrows, KidsNext, HandlersNext DEF SInv
<1> QED
  BY <1>1, ServiceInitial, PTL DEF ServiceSpec

-----------------------------------------------------------------------------
(* With webhook handlers running, the pipeline goes its own way: whatever  *)
(* is proved of Spec is true of the service.                               *)
THEOREM ServiceRunsPipeline == ServiceSpec => Spec
<1>1. SInv /\ [ServiceNext]_service => [Next]_vars
  BY StepOfPipeline
<1> QED
  BY <1>1, ServiceInitial, ServiceInvariant, PTL DEF ServiceSpec, Spec

(* The handlers of webhook.go behave as module Webhook says, though they   *)
(* share directory and process with the goroutines.                        *)
THEOREM ServiceRunsWebhook == ServiceSpec => Hook!Spec
<1>1. SInv /\ [ServiceNext]_service => [Hook!Next]_(Hook!vars)
  BY StepOfHandlers
<1> QED
  BY <1>1, ServiceInitial, ServiceInvariant, PTL DEF ServiceSpec, Hook!Spec

(* Where each job has a file of its own, what GitHub was told is true:     *)
(* every job of an event answered with 200 is settled or on disk, for any  *)
(* number of deliveries, jobs, faults and stops.                           *)
THEOREM ServiceKeepsPromises ==
  ASSUME Unshared
  PROVE  ServiceSpec => []PromisesOnDisk
<1>1. SInv /\ UnfinishedJobsPersist => PromisesOnDisk
  BY DEF SInv, Answering, UnfinishedJobsPersist, PromisesOnDisk, Promised
<1> QED
  BY <1>1, ServiceInvariant, ServiceRunsPipeline, UnfinishedJobsKept, PTL
=============================================================================

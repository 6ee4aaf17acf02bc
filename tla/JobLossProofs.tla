-------------------------- MODULE JobLossProofs --------------------------
(***************************************************************************)
(* No job is lost: what a file's removal may rest on, proved for every     *)
(* value of the constants; and, where each job has a file of its own and   *)
(* loads do not fail, that the pipeline implements JobLedger.              *)
(***************************************************************************)
EXTENDS JobPipelineProofs

-----------------------------------------------------------------------------
(* The invariant: what the disk, the pipeline and the verdicts know of one *)
(* another.                                                                *)

(* A file holds a job that was saved under its name.                       *)
DiskNamed ==
  \A f \in Files : dirJobs[f] \in Jobs => dirJobs[f] \in saved /\ FileOf[dirJobs[f]] = f

(* What goes through the pipeline was loaded from a file that held it, or  *)
(* stands for a file whose load failed.                                    *)
Genuine(e) ==
  \/ e.job \in saved /\ FileOf[e.job] = e.file
  \/ e.job = Cleanup /\ e.file \in unread

PipelineGenuine ==
  /\ tpc = "send" => Genuine(loaded)
  /\ \A n \in 1..Len(jobs) : Genuine(jobs[n])
  /\ Busy => Genuine(cur)

RemovalDecided == Removing => cur.job \in settled \cup {Cleanup}

Loss == DiskNamed /\ PipelineGenuine /\ RemovalDecided /\ LostOnlyIfExposed
LInv == IInv /\ Loss

LEMMA LossInit == Init => Loss
BY ConstantsAssumption DEF Init, Loss, DiskNamed, PipelineGenuine, RemovalDecided, Removing,
   LostOnlyIfExposed, Busy

(* Nothing is lost as long as the disk and the history stay as they are.   *)
LEMMA LossKept ==
  ASSUME LInv, UNCHANGED <<dirJobs, saved, unread>>, settled \subseteq settled'
  PROVE  DiskNamed' /\ LostOnlyIfExposed'
BY DEF LInv, Loss, DiskNamed, LostOnlyIfExposed, Exposed

(* Saving a job exposes the others of its file, and no job of another.     *)
LEMMA LossSave ==
  ASSUME LInv, NEW j \in Jobs, Save(j),
         UNCHANGED <<tpc, loaded, jobs, wpc, cur, settled, unread>>
  PROVE  Loss'
<1> USE ConstantsAssumption DEF LInv, Loss, Save, IInv
<1>1. DiskNamed'
  BY DEF DiskNamed, Typed, TypeOK
<1>2. PipelineGenuine'
  BY DEF PipelineGenuine, Genuine, Busy
<1>3. RemovalDecided'
  BY DEF RemovalDecided, Removing
<1>4. LostOnlyIfExposed'
  BY DEF LostOnlyIfExposed, Exposed, Typed, TypeOK
<1> QED
  BY <1>1, <1>2, <1>3, <1>4

(* The worker may take its file away: whatever it holds is settled, or     *)
(* exposed by the job the worker has, or by the load that failed.          *)
LEMMA LossRemoval ==
  ASSUME LInv, Removing, UNCHANGED <<saved, settled, unread>>,
         dirJobs' \in {dirJobs, [dirJobs EXCEPT ![cur.file] = Absent]}
  PROVE  DiskNamed' /\ LostOnlyIfExposed'
<1> USE ConstantsAssumption DEF LInv, Loss, IInv
<1>1. CASE dirJobs' = dirJobs
  BY <1>1, LossKept
<1>2. CASE dirJobs' = [dirJobs EXCEPT ![cur.file] = Absent]
  <2>1. Busy /\ cur.file \in Files
    BY DEF Removing, Busy, Typed, TypeOK, Entry
  <2>2. DiskNamed'
    BY <1>2, <2>1 DEF DiskNamed, Typed, TypeOK
  <2>3. ASSUME NEW j \in saved, FileOf[j] = cur.file PROVE j \in settled \/ Exposed(j)
    <3>1. CASE cur.job = Cleanup
      BY <2>1, <2>3, <3>1 DEF PipelineGenuine, Genuine, Exposed, Typed, TypeOK
    <3>2. CASE cur.job \in settled
      BY <2>1, <2>3, <3>2 DEF PipelineGenuine, Genuine, Exposed, Typed, TypeOK
    <3> QED
      BY <3>1, <3>2 DEF RemovalDecided
  <2>4. LostOnlyIfExposed'
    BY <1>2, <2>1, <2>3 DEF LostOnlyIfExposed, Exposed, Typed, TypeOK
  <2> QED
    BY <2>2, <2>4
<1> QED
  BY <1>1, <1>2

LEMMA LossLoseMemory == LInv /\ LoseMemory => Loss'
<1> SUFFICES ASSUME LInv, LoseMemory PROVE Loss'
  OBVIOUS
<1>1. DiskNamed' /\ LostOnlyIfExposed'
  BY LossKept DEF LoseMemory, disk, history
<1>2. PipelineGenuine' /\ RemovalDecided'
  BY DEF LoseMemory, PipelineGenuine, RemovalDecided, Removing, Busy
<1> QED
  BY <1>1, <1>2 DEF Loss

(* A failed load exposes a file, and that is all it does.                  *)
LEMMA LossLoad ==
  ASSUME LInv, NEW f \in Files, LoadJob(f) \/ LoadFails(f)
  PROVE  Loss'
<1> USE DEF LInv, Loss, LoadJob, LoadFails, Visit, disk, channel, worker, history
<1>1. DiskNamed' /\ LostOnlyIfExposed'
  BY DEF DiskNamed, LostOnlyIfExposed, Exposed
<1>2. Genuine(loaded)'
  BY DEF DiskNamed, Genuine
<1>3. PipelineGenuine'
  BY <1>2 DEF PipelineGenuine, Genuine, Busy
<1>4. RemovalDecided'
  BY DEF RemovalDecided, Removing
<1> QED
  BY <1>1, <1>3, <1>4

LEMMA LossSend == LInv /\ Send => Loss'
<1> SUFFICES ASSUME LInv, Send PROVE Loss'
  OBVIOUS
<1>1. DiskNamed' /\ LostOnlyIfExposed'
  BY LossKept DEF Send, disk, history
<1>2. /\ jobs \in Seq(Entry) /\ loaded \in Entry /\ jobs' = Append(jobs, loaded)
      /\ tpc = "send" /\ tpc' = "count"
      /\ UNCHANGED <<cur, wpc, saved, settled, unread>>
  BY DEF LInv, IInv, Send, Typed, TypeOK, worker, history
<1>3. \A n \in 1..Len(jobs') : jobs'[n] = IF n <= Len(jobs) THEN jobs[n] ELSE loaded
  BY <1>2
<1>4. PipelineGenuine'
  BY <1>2, <1>3 DEF LInv, Loss, PipelineGenuine, Genuine, Busy
<1>5. RemovalDecided'
  BY <1>2 DEF LInv, Loss, RemovalDecided, Removing
<1> QED
  BY <1>1, <1>4, <1>5 DEF Loss

LEMMA LossReceive == LInv /\ Receive => Loss'
<1> SUFFICES ASSUME LInv, Receive PROVE Loss'
  OBVIOUS
<1>1. DiskNamed' /\ LostOnlyIfExposed'
  BY LossKept DEF Receive, disk, history
<1>2. /\ jobs \in Seq(Entry) /\ jobs # <<>> /\ jobs' = Tail(jobs)
      /\ cur' = Head(jobs) /\ wpc' = "handle"
      /\ UNCHANGED <<tpc, loaded, saved, settled, unread>>
  BY DEF LInv, IInv, Receive, Typed, TypeOK, ticker, history
<1>3. /\ Len(jobs) \in Nat \ {0} /\ cur' = jobs[1]
      /\ \A n \in 1..Len(jobs') : n + 1 \in 1..Len(jobs) /\ jobs'[n] = jobs[n + 1]
  BY <1>2, HeadOfNonempty
<1>4. PipelineGenuine'
  BY <1>2, <1>3 DEF LInv, Loss, PipelineGenuine, Genuine
<1>5. RemovalDecided'
  BY <1>2 DEF RemovalDecided, Removing
<1> QED
  BY <1>1, <1>4, <1>5 DEF Loss

(* A step of the worker that leaves disk and pipeline alone.               *)
LEMMA LossHandling ==
  ASSUME LInv, Busy, UNCHANGED <<dirJobs, saved, unread, tpc, loaded, jobs, cur>>,
         settled \subseteq settled', RemovalDecided'
  PROVE  Loss'
<1>1. DiskNamed' /\ LostOnlyIfExposed'
  BY LossKept
<1>2. PipelineGenuine'
  BY DEF LInv, Loss, PipelineGenuine, Genuine
<1> QED
  BY <1>1, <1>2 DEF Loss

LEMMA LossNext == LInv /\ [Next]_vars => Loss'
<1> SUFFICES ASSUME LInv, [Next]_vars PROVE Loss'
  OBVIOUS
<1> USE DEF disk, channel, ticker, worker, history
<1>1. ASSUME NEW j \in Posted, WebhookSave(j) PROVE Loss'
  BY <1>1, LossSave DEF WebhookSave, Posted
<1>2. CASE Tick \/ Count
  <2>1. DiskNamed' /\ LostOnlyIfExposed'
    BY <1>2, LossKept DEF Tick, Count
  <2>2. PipelineGenuine' /\ RemovalDecided'
    BY <1>2 DEF Tick, Count, LInv, Loss, PipelineGenuine, Genuine, RemovalDecided, Removing, Busy
  <2> QED
    BY <2>1, <2>2 DEF Loss
<1>3. ASSUME NEW f \in Files, LoadJob(f) \/ LoadFails(f) PROVE Loss'
  BY <1>3, LossLoad
<1>4. CASE Send
  BY <1>4, LossSend
<1>5. CASE Receive
  BY <1>5, LossReceive
<1>6. CASE HandleCleanup
  BY <1>6, LossHandling DEF HandleCleanup, Handling, BeginRemoval, RemovalDecided, Busy
<1>7. CASE HandleFinal
  BY <1>7, LossHandling DEF HandleFinal, Handling, Settle, BeginRemoval, RemovalDecided, Busy
<1>8. CASE HandleRetryable
  BY <1>8, LossHandling DEF HandleRetryable, Handling, RemovalDecided, Removing, Busy
<1>9. ASSUME NEW listed \in SUBSET Jobs, ListArtifacts(listed) PROVE Loss'
  BY <1>9, LossHandling DEF ListArtifacts, Handling, RemovalDecided, Removing, Busy
<1>10. ASSUME NEW k \in Jobs, SaveChild(k) PROVE Loss'
  BY <1>10, LossSave DEF SaveChild
<1>11. ASSUME NEW k \in Jobs, SaveChildFails(k) PROVE Loss'
  BY <1>11, LossHandling DEF SaveChildFails, RemovalDecided, Removing, Busy
<1>12. CASE DiscoverFails
  BY <1>12, LossHandling DEF DiscoverFails, RemovalDecided, Removing, Busy
<1>13. CASE DiscoverDone
  BY <1>13, LossHandling DEF DiscoverDone, Settle, BeginRemoval, RemovalDecided, Busy
<1>14. CASE MoveJob \/ UnlinkJob
  <2>1. /\ Removing /\ dirJobs' \in {dirJobs, [dirJobs EXCEPT ![cur.file] = Absent]}
        /\ UNCHANGED <<cur, saved, settled, unread, tpc, loaded, jobs>>
        /\ Busy
    BY <1>14 DEF MoveJob, UnlinkJob, Removing, Busy
  <2>2. DiskNamed' /\ LostOnlyIfExposed'
    BY <2>1, LossRemoval
  <2>3. PipelineGenuine' /\ RemovalDecided'
    BY <2>1 DEF LInv, Loss, PipelineGenuine, Genuine, RemovalDecided
  <2> QED
    BY <2>2, <2>3 DEF Loss
<1>15. CASE Finish
  <2>1. DiskNamed' /\ LostOnlyIfExposed'
    BY <1>15, LossKept DEF Finish
  <2>2. PipelineGenuine' /\ RemovalDecided'
    BY <1>15 DEF Finish, LInv, Loss, PipelineGenuine, Genuine, RemovalDecided, Removing, Busy
  <2> QED
    BY <2>1, <2>2 DEF Loss
<1>16. CASE StopSignal \/ StopTicker \/ CloseJobs \/ Restart \/ UNCHANGED vars
  <2>1. UNCHANGED <<disk, channel, ticker, worker, history>>
    BY <1>16 DEF StopSignal, StopTicker, CloseJobs, Restart, vars
  <2>2. DiskNamed' /\ LostOnlyIfExposed'
    BY <2>1, LossKept
  <2>3. PipelineGenuine' /\ RemovalDecided'
    BY <2>1 DEF LInv, Loss, PipelineGenuine, Genuine, RemovalDecided, Removing, Busy
  <2> QED
    BY <2>2, <2>3 DEF Loss
<1>17. CASE Exit \/ SendOnClosed \/ Crash
  BY <1>17, LossLoseMemory DEF Exit, SendOnClosed, Crash
<1> QED
  BY <1>1, <1>2, <1>3, <1>4, <1>5, <1>6, <1>7, <1>8, <1>9, <1>10, <1>11, <1>12, <1>13,
     <1>14, <1>15, <1>16, <1>17 DEF Next, Ticker, Worker, Process

LEMMA LossInvariant == Spec => []LInv
<1>1. Init => LInv
  BY TypedInit, DispatchInit, LossInit DEF LInv, IInv
<1>2. LInv /\ [Next]_vars => LInv'
  BY TypedNext, DispatchNext, LossNext DEF LInv, IInv
<1> QED
  BY <1>1, <1>2, PTL DEF Spec

(* Whatever stops, fails or is retried: a saved job that has no verdict is *)
(* in its file, unless another was saved there or a load of it failed.     *)
THEOREM NothingLostUnlessExposed == Spec => []LostOnlyIfExposed
<1>1. LInv => LostOnlyIfExposed
  BY DEF LInv, Loss
<1> QED
  BY <1>1, LossInvariant, PTL

(* Nothing but the worker's verdict takes a file out of the directory.     *)
THEOREM VerdictBeforeRemoval == Spec => RemovalOnlyAfterVerdict
<1>1. LInv /\ [Next]_vars =>
        [\A f \in Files : dirJobs[f] # Absent /\ dirJobs'[f] = Absent =>
           /\ Busy /\ cur.file = f
           /\ cur.job \in settled \/ cur.job = Cleanup]_vars
  <2> SUFFICES ASSUME LInv, Next, NEW f \in Files, dirJobs[f] # Absent, dirJobs'[f] = Absent
               PROVE  Busy /\ cur.file = f /\ (cur.job \in settled \/ cur.job = Cleanup)
    OBVIOUS
  <2>1. dirJobs' # dirJobs
    OBVIOUS
  <2>2. ASSUME NEW j \in Jobs, Save(j) PROVE FALSE
    BY <2>2, ConstantsAssumption DEF Save, LInv, IInv, Typed, TypeOK
  <2>3. MoveJob \/ UnlinkJob
    BY <2>1, <2>2 DEF Next, Ticker, Worker, Process, WebhookSave, Tick, LoadJob, LoadFails, Send,
       Count, Receive, HandleCleanup, HandleFinal, HandleRetryable, ListArtifacts, SaveChild,
       SaveChildFails, DiscoverFails, DiscoverDone, Finish, StopTicker, CloseJobs, Exit,
       SendOnClosed, Restart, StopSignal, Crash, LoseMemory, Posted, disk
  <2>4. f = cur.file /\ Removing
    BY <2>3 DEF MoveJob, UnlinkJob, Removing, LInv, IInv, Typed, TypeOK, disk
  <2> QED
    BY <2>4 DEF LInv, Loss, RemovalDecided, Removing, Busy
<1> QED
  BY <1>1, LossInvariant, PTL DEF Spec, RemovalOnlyAfterVerdict

-----------------------------------------------------------------------------
(* Where every job has a file of its own and loads do not fail, none is    *)
(* ever exposed.                                                           *)

Unshared ==
  /\ \A j, k \in Jobs : FileOf[j] = FileOf[k] => j = k
  /\ Strays = {}
  /\ "read" \notin Faults

NoJunk == unread = {} /\ \A f \in Files : dirJobs[f] # Junk

LEMMA NoJunkNext ==
  ASSUME Unshared, LInv, NoJunk, [Next]_vars
  PROVE  NoJunk'
<1> USE DEF NoJunk, disk, channel, ticker, worker, history
<1>1. ASSUME NEW j \in Jobs, Save(j), unread' = unread PROVE NoJunk'
  BY <1>1, ConstantsAssumption DEF Save, LInv, IInv, Typed, TypeOK
<1>2. ASSUME NEW f \in Files, LoadFails(f) PROVE FALSE
  BY <1>2 DEF LoadFails, Visit, Unshared, LInv, IInv, Typed, TypeOK, Content, Dispatch,
     PipelineFilesPresent
<1>3. ASSUME dirJobs' \in {dirJobs, [dirJobs EXCEPT ![cur.file] = Absent]}, unread' = unread
      PROVE  NoJunk'
  BY <1>3, ConstantsAssumption DEF LInv, IInv, Typed, TypeOK
<1>4. CASE MoveJob \/ UnlinkJob
  BY <1>3, <1>4 DEF MoveJob, UnlinkJob
<1>5. CASE UNCHANGED <<dirJobs, unread>>
  BY <1>5
<1> QED
  BY <1>1, <1>2, <1>4, <1>5
     DEF Next, Ticker, Worker, Process, WebhookSave, Tick, LoadJob, Send, Count, Receive,
     HandleCleanup, HandleFinal, HandleRetryable, ListArtifacts, SaveChild, SaveChildFails,
     DiscoverFails, DiscoverDone, Finish, StopTicker, CloseJobs, Exit, SendOnClosed, Restart,
     StopSignal, Crash, LoseMemory, Posted, Settle, vars

LEMMA UnsharedInvariant ==
  ASSUME Unshared
  PROVE  Spec => [](LInv /\ NoJunk)
<1>1. Init => LInv /\ NoJunk
  BY TypedInit, DispatchInit, LossInit, ConstantsAssumption
     DEF LInv, IInv, Init, NoJunk, Unshared
<1>2. LInv /\ NoJunk /\ [Next]_vars => (LInv /\ NoJunk)'
  BY TypedNext, DispatchNext, LossNext, NoJunkNext DEF LInv, IInv
<1> QED
  BY <1>1, <1>2, PTL DEF Spec

LEMMA UnsharedPersist ==
  ASSUME Unshared, LInv, NoJunk
  PROVE  UnfinishedJobsPersist
BY DEF Unshared, LInv, IInv, Typed, TypeOK, Loss, NoJunk, LostOnlyIfExposed, Exposed,
   UnfinishedJobsPersist

(* There, every job is in the jobs directory from its Save to its verdict. *)
THEOREM UnfinishedJobsKept ==
  ASSUME Unshared
  PROVE  Spec => []UnfinishedJobsPersist
BY UnsharedInvariant, UnsharedPersist, PTL

-----------------------------------------------------------------------------
(* Refinement.                                                             *)

LEMMA PendingInit == Init => Ledger!Init
BY ConstantsAssumption DEF Init, Ledger!Init, Pending

(* A save makes its job pending, or changes nothing if it is settled.      *)
LEMMA PendingSave ==
  ASSUME Unshared, LInv, NEW j \in Jobs, Save(j), settled' = settled
  PROVE  [Ledger!Next]_Ledger!vars
<1>1. Pending' = IF j \in settled THEN Pending ELSE Pending \cup {j}
  BY ConstantsAssumption DEF Pending, Save, Unshared, LInv, IInv, Typed, TypeOK
<1> QED
  BY <1>1 DEF Ledger!Next, Ledger!vars, Ledger!Accept

(* A verdict settles a job that was pending, or has been settled before.   *)
LEMMA PendingSettle ==
  ASSUME Unshared, LInv, NoJunk, Busy, cur.job \in Jobs,
         settled' = settled \cup {cur.job}, dirJobs' = dirJobs
  PROVE  [Ledger!Next]_Ledger!vars
<1>1. cur.job \in settled \/ cur.job \in Pending
  BY UnsharedPersist, ConstantsAssumption
     DEF LInv, Loss, PipelineGenuine, Genuine, UnfinishedJobsPersist, Pending
<1>2. Pending' = Pending \ {cur.job}
  BY <1>1 DEF Pending
<1>3. CASE cur.job \in settled
  BY <1>2, <1>3 DEF Pending, Ledger!vars
<1>4. CASE cur.job \in Pending
  BY <1>2, <1>4 DEF Ledger!Next, Ledger!SettleJob, Pending
<1> QED
  BY <1>1, <1>3, <1>4

(* A removal takes away only what is settled.                              *)
LEMMA PendingRemoval ==
  ASSUME Unshared, LInv, NoJunk, Removing, settled' = settled,
         dirJobs' \in {dirJobs, [dirJobs EXCEPT ![cur.file] = Absent]}
  PROVE  UNCHANGED Ledger!vars
<1>1. cur.job \in settled /\ FileOf[cur.job] = cur.file
  BY ConstantsAssumption DEF LInv, Loss, RemovalDecided, PipelineGenuine, Genuine, Removing, Busy,
     NoJunk, IInv, Typed, TypeOK
<1>2. Pending' = Pending
  BY <1>1, ConstantsAssumption DEF Pending, Unshared, LInv, IInv, Typed, TypeOK
<1> QED
  BY <1>2 DEF Ledger!vars

LEMMA PendingNext ==
  ASSUME Unshared, LInv, NoJunk, [Next]_vars
  PROVE  [Ledger!Next]_Ledger!vars
<1> USE DEF disk, channel, ticker, worker, history
<1>1. ASSUME NEW j \in Jobs, WebhookSave(j) \/ SaveChild(j) PROVE [Ledger!Next]_Ledger!vars
  BY <1>1, PendingSave DEF WebhookSave, SaveChild
<1>2. CASE HandleFinal \/ DiscoverDone
  <2>1. /\ Busy /\ cur.job \in Jobs
        /\ settled' = settled \cup {cur.job} /\ dirJobs' = dirJobs
    BY <1>2 DEF HandleFinal, DiscoverDone, Handling, Settle, Busy, LInv, IInv, Typed,
       SpawnsDiscover, Discovers
  <2> QED
    BY <2>1, PendingSettle
<1>3. CASE MoveJob \/ UnlinkJob
  <2>1. /\ Removing /\ settled' = settled
        /\ dirJobs' \in {dirJobs, [dirJobs EXCEPT ![cur.file] = Absent]}
    BY <1>3 DEF MoveJob, UnlinkJob, Removing
  <2> QED
    BY <2>1, PendingRemoval
<1>4. CASE UNCHANGED <<dirJobs, settled>>
  BY <1>4 DEF Ledger!vars, Pending
<1> QED
  BY <1>1, <1>2, <1>3, <1>4
     DEF Next, Ticker, Worker, Process, Tick, LoadJob, LoadFails, Send, Count, Receive,
     HandleCleanup, HandleRetryable, ListArtifacts, SaveChildFails, DiscoverFails, Finish,
     StopTicker, CloseJobs, Exit, SendOnClosed, Restart, StopSignal, Crash, LoseMemory, Posted,
     vars

(* There, the whole pipeline implements the ledger: to it the file system, *)
(* the goroutines, the crashes and the restarts are invisible.             *)
THEOREM PipelineImplementsLedger ==
  ASSUME Unshared
  PROVE  Spec => LedgerKept
<1>1. LInv /\ NoJunk /\ [Next]_vars => [Ledger!Next]_Ledger!vars
  BY PendingNext
<1> QED
  BY <1>1, PendingInit, UnsharedInvariant, PTL DEF Spec, LedgerKept, Ledger!Spec

-----------------------------------------------------------------------------
(* Discovery.                                                              *)

(* While a discover job saves the jobs it found, each of its artifacts has *)
(* a job, is still to get one, or has made it fail.                        *)
Spawned ==
  \A c \in Children[cur.job] : c \in saved \/ c \in kids \/ kidFailed
SpawnInv == (wpc = "spawn" => Spawned) /\ DiscoverComplete

LEMMA SpawnNext ==
  ASSUME "expire" \notin Faults, Typed, SpawnInv, [Next]_vars
  PROVE  SpawnInv'
<1> USE ConstantsAssumption DEF Typed, TypeOK, SpawnsDiscover, SpawnInv, Spawned,
      DiscoverComplete, disk, channel, ticker, worker, history
<1>1. CASE HandleFinal
  BY <1>1 DEF HandleFinal, Handling, Settle, BeginRemoval, Discovers
<1>2. CASE DiscoverDone
  BY <1>2 DEF DiscoverDone, Settle, BeginRemoval, Discovers
<1>3. ASSUME NEW listed \in SUBSET Jobs, ListArtifacts(listed) PROVE SpawnInv'
  BY <1>3 DEF ListArtifacts, Handling
<1>4. ASSUME NEW k \in Jobs, SaveChild(k) \/ SaveChildFails(k) PROVE SpawnInv'
  BY <1>4 DEF SaveChild, SaveChildFails, Save
<1>5. CASE settled' = settled /\ saved \subseteq saved' /\ (wpc' # "spawn")
  BY <1>5
<1>6. CASE settled' = settled /\ saved \subseteq saved' /\ UNCHANGED <<wpc, cur, kids, kidFailed>>
  BY <1>6
<1> QED
  BY <1>1, <1>2, <1>3, <1>4, <1>5, <1>6
     DEF Next, Ticker, Worker, Process, WebhookSave, Save, Tick, LoadJob, LoadFails, Send, Count,
     Receive, HandleCleanup, HandleRetryable, DiscoverFails, MoveJob, UnlinkJob, Finish,
     StopTicker, CloseJobs, Exit, SendOnClosed, Restart, StopSignal, Crash, LoseMemory,
     BeginRemoval, Removing, vars

(* Unless artifacts expire first, a discover job is done with only when    *)
(* every artifact of its run has become a job.                             *)
THEOREM DiscoversAll ==
  ASSUME "expire" \notin Faults
  PROVE  Spec => []DiscoverComplete
<1>1. Init => Typed /\ SpawnInv
  BY TypedInit DEF Init, SpawnInv, DiscoverComplete
<1>2. Typed /\ SpawnInv /\ [Next]_vars => (Typed /\ SpawnInv)'
  BY TypedNext, SpawnNext
<1>3. SpawnInv => DiscoverComplete
  BY DEF SpawnInv
<1> QED
  BY <1>1, <1>2, <1>3, PTL DEF Spec

-----------------------------------------------------------------------------
(* Soft deletion.                                                          *)

(* Junk is what was there at the start: a save has written over it.        *)
JunkUnsaved ==
  \A f \in Files : dirJobs[f] = Junk => \A j \in saved : FileOf[j] # f

InEither(j) == j \in {dirJobs[FileOf[j]], dirSoftDelete[FileOf[j]]}

(* Whatever is settled is in one of the directories, unless it is exposed. *)
SettledKeptUnlessExposed ==
  SoftDelete => \A j \in settled : InEither(j) \/ Exposed(j)

(* The move has been made before the path is removed.                      *)
MovedFirst ==
  SoftDelete /\ wpc = "unlink" /\ cur.job \in Jobs =>
    dirSoftDelete[cur.file] = cur.job \/ Exposed(cur.job)

KInv == JunkUnsaved /\ SettledKeptUnlessExposed /\ MovedFirst

LEMMA KeptSave ==
  ASSUME LInv, KInv, NEW j \in Jobs, Save(j), UNCHANGED <<dirSoftDelete, settled, unread, wpc, cur>>
  PROVE  KInv'
<1> USE ConstantsAssumption DEF LInv, IInv, Typed, TypeOK, Save, KInv
<1>1. \A f \in Files : dirJobs'[f] = IF f = FileOf[j] THEN j ELSE dirJobs[f]
  OBVIOUS
<1>2. \A k \in Jobs : Exposed(k) => Exposed(k)'
  BY DEF Exposed
<1>3. JunkUnsaved'
  BY <1>1 DEF JunkUnsaved
<1>4. SettledKeptUnlessExposed'
  BY <1>1, <1>2 DEF SettledKeptUnlessExposed, InEither, Exposed
<1>5. MovedFirst'
  BY <1>2 DEF MovedFirst
<1> QED
  BY <1>3, <1>4, <1>5

LEMMA KeptSettle ==
  ASSUME LInv, KInv, Busy, cur.job \in Jobs, Settle, UNCHANGED <<disk, saved, unread, cur>>
  PROVE  KInv'
<1> USE DEF disk, LInv, Loss, KInv
<1>1. \A k \in Jobs : Exposed(k)' = Exposed(k)
  BY DEF Exposed
<1>2. SoftDelete => InEither(cur.job) \/ Exposed(cur.job)
  <2>1. cur.job \in saved
    BY ConstantsAssumption DEF PipelineGenuine, Genuine
  <2> QED
    BY <2>1 DEF LostOnlyIfExposed, SettledKeptUnlessExposed, InEither
<1>3. SettledKeptUnlessExposed'
  <2>1. settled' = settled \cup {cur.job} /\ settled' \subseteq Jobs
    BY DEF Settle, IInv, Typed, TypeOK
  <2>2. \A k \in Jobs : InEither(k)' = InEither(k)
    BY DEF InEither
  <2> QED
    BY <1>1, <1>2, <2>1, <2>2 DEF SettledKeptUnlessExposed
<1>4. JunkUnsaved' /\ MovedFirst'
  BY DEF JunkUnsaved, MovedFirst, Settle, BeginRemoval
<1> QED
  BY <1>3, <1>4

(* What is settled under the file that the worker has is its job, or       *)
(* exposed by it.                                                          *)
LEMMA SettledHere ==
  ASSUME LInv, Removing, NEW j \in Jobs, FileOf[j] = cur.file, ~Exposed(j)
  PROVE  cur.job = j /\ j \in settled
<1>1. Genuine(cur) /\ cur.job \in settled \cup {Cleanup}
  BY DEF LInv, Loss, PipelineGenuine, RemovalDecided, Removing, Busy
<1>2. cur.file \notin unread /\ \A k \in saved \ {j} : FileOf[k] # cur.file
  BY DEF Exposed
<1> QED
  BY <1>1, <1>2, ConstantsAssumption DEF Genuine

LEMMA KeptMove ==
  ASSUME "move" \notin Faults, LInv, KInv, MoveJob
  PROVE  KInv'
<1> USE ConstantsAssumption DEF LInv, IInv, Typed, TypeOK, KInv, worker
<1>1. /\ Removing /\ cur.file \in Files
      /\ UNCHANGED <<saved, settled, unread, cur>>
  BY DEF MoveJob, Removing, Busy, Entry, history
<1>2. \A k \in Jobs : Exposed(k)' = Exposed(k)
  BY <1>1 DEF Exposed
<1>3. /\ \A f \in Files \ {cur.file} :
           dirJobs'[f] = dirJobs[f] /\ dirSoftDelete'[f] = dirSoftDelete[f]
      /\ dirJobs'[cur.file] = Absent
      /\ dirSoftDelete'[cur.file] =
           IF dirJobs[cur.file] = Absent THEN dirSoftDelete[cur.file] ELSE dirJobs[cur.file]
  BY <1>1 DEF MoveJob, disk
<1>4. ASSUME SoftDelete, NEW j \in settled, FileOf[j] = cur.file, ~Exposed(j)
      PROVE  dirSoftDelete'[cur.file] = j
  <2>1. InEither(j)
    BY <1>4 DEF SettledKeptUnlessExposed
  <2>2. CASE dirJobs[cur.file] = Absent
    BY <1>3, <1>4, <2>1, <2>2 DEF InEither
  <2>3. CASE dirJobs[cur.file] \in Jobs
    BY <1>1, <1>3, <1>4, <2>3 DEF Loss, DiskNamed, Exposed
  <2>4. CASE dirJobs[cur.file] = Junk
    <3>1. j \in saved
      BY <1>1, <1>4, SettledHere DEF Loss, PipelineGenuine, Genuine, Removing, Busy
    <3> QED
      BY <1>1, <1>4, <2>4, <3>1 DEF JunkUnsaved
  <2> QED
    BY <1>1, <2>2, <2>3, <2>4 DEF Content
<1>5. JunkUnsaved'
  BY <1>1, <1>3 DEF JunkUnsaved
<1>6. SettledKeptUnlessExposed'
  BY <1>1, <1>2, <1>3, <1>4 DEF SettledKeptUnlessExposed, InEither
<1>7. MovedFirst'
  <2>1. ASSUME cur.job \in Jobs PROVE cur.job \in settled /\ FileOf[cur.job] = cur.file
    BY <1>1, <2>1 DEF Loss, RemovalDecided, PipelineGenuine, Genuine, Removing, Busy
  <2> QED
    BY <1>1, <1>2, <1>4, <2>1 DEF MovedFirst
<1> QED
  BY <1>5, <1>6, <1>7

LEMMA KeptUnlink ==
  ASSUME LInv, KInv, UnlinkJob
  PROVE  KInv'
<1> USE ConstantsAssumption DEF LInv, IInv, Typed, TypeOK, KInv, worker
<1>1. /\ Removing /\ cur.file \in Files /\ wpc = "unlink"
      /\ UNCHANGED <<dirSoftDelete, saved, settled, unread, cur>>
      /\ \A f \in Files :
           dirJobs'[f] = dirJobs[f] \/ (f = cur.file /\ dirJobs'[f] = Absent)
  BY DEF UnlinkJob, Removing, Busy, Entry, history
<1>2. \A k \in Jobs : Exposed(k)' = Exposed(k)
  BY <1>1 DEF Exposed
<1>3. JunkUnsaved'
  BY <1>1 DEF JunkUnsaved
<1>4. SettledKeptUnlessExposed'
  BY <1>1, <1>2, SettledHere DEF SettledKeptUnlessExposed, InEither, MovedFirst
<1>5. MovedFirst'
  BY <1>1, <1>2 DEF UnlinkJob, MovedFirst
<1> QED
  BY <1>3, <1>4, <1>5

LEMMA KeptOtherwise ==
  ASSUME LInv, KInv, UNCHANGED <<disk, saved, settled>>, unread \subseteq unread',
         UNCHANGED cur \/ wpc' # "unlink", wpc' = "unlink" => wpc = "unlink" \/ ~SoftDelete
  PROVE  KInv'
<1>1. \A k \in Jobs : Exposed(k) => Exposed(k)'
  BY DEF Exposed
<1> QED
  BY <1>1 DEF LInv, IInv, Typed, TypeOK, disk, KInv, JunkUnsaved, SettledKeptUnlessExposed,
     InEither, MovedFirst

LEMMA KeptNext ==
  ASSUME "move" \notin Faults, LInv, KInv, [Next]_vars
  PROVE  KInv'
<1> USE DEF worker, history
<1>1. ASSUME NEW j \in Jobs, WebhookSave(j) \/ SaveChild(j) PROVE KInv'
  BY <1>1, KeptSave DEF WebhookSave, SaveChild
<1>2. CASE HandleFinal \/ DiscoverDone
  BY <1>2, KeptSettle DEF HandleFinal, DiscoverDone, Handling, Busy, LInv, IInv, Typed,
     SpawnsDiscover, Discovers
<1>3. CASE MoveJob \/ UnlinkJob
  BY <1>3, KeptMove, KeptUnlink
<1>4. CASE HandleCleanup \/ Receive \/ Finish
  BY <1>4, KeptOtherwise DEF HandleCleanup, BeginRemoval, Receive, Finish
<1>5. CASE UNCHANGED <<disk, saved, settled, wpc, cur>> /\ unread \subseteq unread'
  BY <1>5, KeptOtherwise
<1>6. CASE UNCHANGED <<disk, saved, settled, unread>> /\ wpc' # "unlink"
  BY <1>6, KeptOtherwise
<1> QED
  BY <1>1, <1>2, <1>3, <1>4, <1>5, <1>6
     DEF Next, Ticker, Worker, Process, Tick, LoadJob, LoadFails, Send, Count,
     HandleRetryable, ListArtifacts, SaveChildFails, DiscoverFails, StopTicker, CloseJobs, Exit,
     SendOnClosed, Restart, StopSignal, Crash, LoseMemory, Posted, vars

(* With a soft-delete directory that files can be moved to, a settled job  *)
(* is in one of the two directories, unless another job was saved under    *)
(* its name or a load of its file had failed.                              *)
THEOREM SettledUnlessExposed ==
  ASSUME "move" \notin Faults
  PROVE  Spec => []SettledKeptUnlessExposed
<1>1. Init => LInv /\ KInv
  BY TypedInit, DispatchInit, LossInit, ConstantsAssumption
     DEF LInv, IInv, Init, KInv, JunkUnsaved, SettledKeptUnlessExposed, MovedFirst
<1>2. LInv /\ KInv /\ [Next]_vars => (LInv /\ KInv)'
  BY TypedNext, DispatchNext, LossNext, KeptNext DEF LInv, IInv
<1>3. KInv => SettledKeptUnlessExposed
  BY DEF KInv
<1> QED
  BY <1>1, <1>2, <1>3, PTL DEF Spec

(* Where each job has a file of its own and loads do not fail, none is     *)
(* exposed: nothing settled is deleted, wherever the process stops.        *)
THEOREM SettledKept ==
  ASSUME Unshared, "move" \notin Faults
  PROVE  Spec => []SettledJobsKept
<1>1. LInv /\ NoJunk /\ SettledKeptUnlessExposed => SettledJobsKept
  BY DEF LInv, IInv, Typed, TypeOK, NoJunk, Unshared, SettledKeptUnlessExposed, InEither, Exposed,
     SettledJobsKept
<1> QED
  BY <1>1, UnsharedInvariant, SettledUnlessExposed, PTL
=============================================================================

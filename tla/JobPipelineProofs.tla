------------------------ MODULE JobPipelineProofs ------------------------
(***************************************************************************)
(* Proofs about JobPipeline, for every number of jobs and files, every     *)
(* capacity, every choice of faults and every number of stops.             *)
(***************************************************************************)
EXTENDS JobPipeline, TLAPS

-----------------------------------------------------------------------------
(* Type correctness.  That passes stays in 0..2 needs to know that a       *)
(* removal in progress still has a pass to make, and that only jobs are    *)
(* settled, that only a discover job saves others.                         *)

Removing == wpc \in {"move", "unlink"}
PassesLeft == Removing => passes \in 1..2
SpawnsDiscover == wpc = "spawn" => cur.job \in Discovers
Typed == TypeOK /\ PassesLeft /\ SpawnsDiscover

LEMMA TypedInit == Init => Typed
<1> SUFFICES ASSUME Init PROVE Typed
  OBVIOUS
<1> USE ConstantsAssumption DEF Init, Typed, TypeOK, PassesLeft, SpawnsDiscover, Removing, Content, Entry, Busy
<1>1. dirJobs \in [Files -> Content] /\ dirSoftDelete \in [Files -> Content]
  OBVIOUS
<1>2. jobs \in Seq(Entry)
  OBVIOUS
<1>3. kidFailed \in BOOLEAN
  OBVIOUS
<1> QED
  BY <1>1, <1>2, <1>3

(* What a stop leaves is well typed whatever there was before.             *)
LEMMA TypedLoseMemory ==
  ASSUME Typed, LoseMemory, phase' \in {"down", "panicked"}
  PROVE  Typed'
<1> USE DEF Typed, TypeOK, PassesLeft, SpawnsDiscover, Removing, LoseMemory, Content, Entry, Busy, disk, history
<1>1. jobs' \in Seq(Entry)
  OBVIOUS
<1>2. kidFailed' \in BOOLEAN /\ ~Busy'
  OBVIOUS
<1> QED
  BY <1>1, <1>2

LEMMA HeadOfNonempty ==
  ASSUME NEW S, NEW s \in Seq(S), s # <<>>
  PROVE  Head(s) \in S /\ s[1] = Head(s)
OBVIOUS

LEMMA TypedNext == Typed /\ [Next]_vars => Typed'
<1> SUFFICES ASSUME Typed, [Next]_vars PROVE Typed'
  OBVIOUS
<1> USE ConstantsAssumption DEF Typed, TypeOK, PassesLeft, SpawnsDiscover, Removing, Content, Entry, Busy,
      disk, channel, ticker, worker, history
<1>1. ASSUME NEW j \in Posted, WebhookSave(j) PROVE Typed'
  BY <1>1 DEF WebhookSave, Save, Posted
<1>2. CASE Tick
  BY <1>2 DEF Tick
<1>3. ASSUME NEW f \in Files, LoadJob(f) PROVE Typed'
  BY <1>3 DEF LoadJob, Visit
<1>4. ASSUME NEW f \in Files, LoadFails(f) PROVE Typed'
  BY <1>4 DEF LoadFails, Visit
<1>5. CASE Send
  BY <1>5 DEF Send
<1>6. CASE Count
  BY <1>6 DEF Count
<1>7. CASE Receive
  <2>1. Head(jobs) \in Entry
    BY <1>7, HeadOfNonempty DEF Receive
  <2>2. jobs' \in Seq(Entry)
    BY <1>7 DEF Receive
  <2> QED
    BY <1>7, <2>1, <2>2 DEF Receive
<1>8. CASE HandleCleanup
  BY <1>8 DEF HandleCleanup, Handling, BeginRemoval
<1>9. CASE HandleFinal
  BY <1>9 DEF HandleFinal, Handling, Settle, BeginRemoval
<1>10. CASE HandleRetryable
  BY <1>10 DEF HandleRetryable, Handling
<1>11. ASSUME NEW listed \in SUBSET Jobs, ListArtifacts(listed) PROVE Typed'
  BY <1>11 DEF ListArtifacts, Handling
<1>12. ASSUME NEW k \in Jobs, SaveChild(k) PROVE Typed'
  BY <1>12 DEF SaveChild, Save
<1>13. ASSUME NEW k \in Jobs, SaveChildFails(k) PROVE Typed'
  BY <1>13 DEF SaveChildFails
<1>14. CASE DiscoverFails
  BY <1>14 DEF DiscoverFails
<1>15. CASE DiscoverDone
  BY <1>15 DEF DiscoverDone, Settle, BeginRemoval, Discovers
<1>16. CASE MoveJob
  <2>1. /\ cur.file \in Files
        /\ dirJobs[cur.file] \in Content /\ dirSoftDelete[cur.file] \in Content
    BY <1>16 DEF MoveJob
  <2>2. dirJobs' \in [Files -> Content] /\ dirSoftDelete' \in [Files -> Content]
    <3>1. CASE UNCHANGED disk
      BY <3>1
    <3>2. CASE \E c \in Content : dirSoftDelete' = [dirSoftDelete EXCEPT ![cur.file] = c]
      BY <1>16, <3>2 DEF MoveJob
    <3> QED
      BY <1>16, <2>1, <3>1, <3>2 DEF MoveJob
  <2> QED
    BY <1>16, <2>2 DEF MoveJob
<1>17. CASE UnlinkJob
  <2>1. dirJobs' \in [Files -> Content]
    BY <1>17 DEF UnlinkJob
  <2>2. passes' \in 0..2 /\ PassesLeft'
    BY <1>17 DEF UnlinkJob
  <2> QED
    BY <1>17, <2>1, <2>2 DEF UnlinkJob
<1>18. CASE Finish
  BY <1>18 DEF Finish
<1>19. CASE StopSignal
  BY <1>19 DEF StopSignal
<1>20. CASE StopTicker
  BY <1>20 DEF StopTicker
<1>21. CASE CloseJobs
  BY <1>21 DEF CloseJobs
<1>22. CASE Exit
  BY <1>22, TypedLoseMemory DEF Exit
<1>23. CASE SendOnClosed
  BY <1>23, TypedLoseMemory DEF SendOnClosed
<1>24. CASE Crash
  BY <1>24, TypedLoseMemory DEF Crash
<1>25. CASE Restart
  BY <1>25 DEF Restart
<1>26. CASE UNCHANGED vars
  BY <1>26 DEF vars
<1> QED
  BY <1>1, <1>2, <1>3, <1>4, <1>5, <1>6, <1>7, <1>8, <1>9, <1>10, <1>11, <1>12, <1>13,
     <1>14, <1>15, <1>16, <1>17, <1>18, <1>19, <1>20, <1>21, <1>22, <1>23, <1>24, <1>25,
     <1>26 DEF Next, Ticker, Worker, Process

(* Every variable keeps its type: no file holds anything but a job, junk   *)
(* or nothing, and a removal is attempted at most twice.                   *)
THEOREM TypeCorrect == Spec => []TypeOK
<1>1. Typed => TypeOK
  BY DEF Typed
<1> QED
  BY <1>1, TypedInit, TypedNext, PTL DEF Spec

-----------------------------------------------------------------------------
(* The counter and the pipeline.  The three invariants need one another: a *)
(* tick finds the pipeline empty because the counter is exact, so that no  *)
(* file gets into it twice, so that no file in it is the one the worker    *)
(* removes.                                                                *)

Dispatch == InFlightExact /\ NoDuplicateDispatch /\ PipelineFilesPresent
IInv == Typed /\ Dispatch

LEMMA DispatchInit == Init => Dispatch
BY DEF Init, Dispatch, InFlightExact, NoDuplicateDispatch, PipelineFilesPresent,
       Outstanding, Uncounted, Busy

LEMMA DispatchLoseMemory == LoseMemory => Dispatch'
BY DEF LoseMemory, Dispatch, InFlightExact, NoDuplicateDispatch, PipelineFilesPresent,
       Outstanding, Uncounted, Busy

LEMMA ChannelEntries == Typed => \A n \in 1..Len(jobs) : jobs[n] \in Entry
<1>1. ASSUME NEW S, NEW s \in Seq(S), NEW n \in 1..Len(s) PROVE s[n] \in S
  OBVIOUS
<1> QED
  BY <1>1 DEF Typed, TypeOK

(* Files come and go in the jobs directory without a change to the         *)
(* pipeline as long as none that is in it goes.                            *)
LEMMA DispatchDisk ==
  ASSUME IInv, UNCHANGED <<jobs, jobInFlight, tpc, todo, loaded, Busy, cur>>,
         \A f \in Files : dirJobs'[f] = Absent /\ dirJobs[f] # Absent => Busy /\ f = cur.file
  PROVE  Dispatch'
<1> USE DEF IInv, Dispatch, Busy
<1>1. InFlightExact'
  BY DEF InFlightExact, Outstanding, Uncounted
<1>2. NoDuplicateDispatch'
  BY DEF NoDuplicateDispatch
<1>3. PipelineFilesPresent'
  <2>1. \A f \in todo : dirJobs'[f] # Absent
    BY DEF Typed, TypeOK, NoDuplicateDispatch, PipelineFilesPresent
  <2>2. tpc = "send" => dirJobs'[loaded.file] # Absent
    BY DEF Typed, TypeOK, Entry, NoDuplicateDispatch, PipelineFilesPresent
  <2>3. \A n \in 1..Len(jobs) : jobs[n].file \in Files
    BY ChannelEntries DEF Entry
  <2>4. \A n \in 1..Len(jobs) : dirJobs'[jobs[n].file] # Absent
    BY <2>3 DEF NoDuplicateDispatch, PipelineFilesPresent
  <2> QED
    BY <2>1, <2>2, <2>4 DEF PipelineFilesPresent
<1> QED
  BY <1>1, <1>2, <1>3

(* With nothing between send and count, a counter that is not positive     *)
(* means that the pipeline is empty.                                       *)
LEMMA EmptyPipeline ==
  ASSUME IInv, tpc = "idle", jobInFlight <= 0
  PROVE  Len(jobs) = 0 /\ ~Busy
BY DEF IInv, Typed, TypeOK, Dispatch, InFlightExact, Outstanding, Uncounted

LEMMA DispatchTick == IInv /\ Tick => Dispatch'
<1> SUFFICES ASSUME IInv, Tick PROVE Dispatch'
  OBVIOUS
<1>1. Len(jobs) = 0 /\ ~Busy
  BY EmptyPipeline DEF Tick
<1>2. UNCHANGED <<jobs, jobInFlight, dirJobs, Busy>> /\ tpc' \in {"idle", "load"}
  BY DEF Tick, disk, channel, worker, Busy
<1> QED
  BY <1>1, <1>2 DEF Tick, IInv, Dispatch, InFlightExact, NoDuplicateDispatch,
     PipelineFilesPresent, Outstanding, Uncounted

LEMMA DispatchVisit ==
  ASSUME IInv, NEW f \in Files, Visit(f), loaded'.file = f,
         UNCHANGED <<dirJobs, channel, worker>>
  PROVE  Dispatch'
<1> USE DEF IInv, Dispatch, Visit, channel, worker
<1>1. InFlightExact'
  BY DEF InFlightExact, Outstanding, Uncounted, Busy
<1>2. NoDuplicateDispatch'
  BY DEF NoDuplicateDispatch, Busy
<1>3. PipelineFilesPresent'
  BY DEF PipelineFilesPresent
<1> QED
  BY <1>1, <1>2, <1>3

LEMMA DispatchSend == IInv /\ Send => Dispatch'
<1> SUFFICES ASSUME IInv, Send PROVE Dispatch'
  OBVIOUS
<1> USE DEF IInv, Dispatch, disk, worker
<1>1. /\ jobs \in Seq(Entry) /\ loaded \in Entry
      /\ tpc = "send" /\ tpc' = "count" /\ jobs' = Append(jobs, loaded)
      /\ UNCHANGED <<dirJobs, jobInFlight, todo, wpc, cur>>
  BY DEF Send, Typed, TypeOK
<1>2. /\ Len(jobs') = Len(jobs) + 1
      /\ \A n \in 1..Len(jobs) : jobs'[n] = jobs[n]
      /\ jobs'[Len(jobs) + 1] = loaded
  BY <1>1
<1>3. InFlightExact'
  BY <1>1, <1>2 DEF InFlightExact, Outstanding, Uncounted, Busy, Typed, TypeOK
<1>4. NoDuplicateDispatch'
  BY <1>1, <1>2 DEF NoDuplicateDispatch, Busy
<1>5. PipelineFilesPresent'
  BY <1>1, <1>2 DEF PipelineFilesPresent
<1> QED
  BY <1>3, <1>4, <1>5

LEMMA DispatchReceive == IInv /\ Receive => Dispatch'
<1> SUFFICES ASSUME IInv, Receive PROVE Dispatch'
  OBVIOUS
<1> USE DEF IInv, Dispatch, disk, ticker
<1>1. /\ jobs \in Seq(Entry) /\ jobs # <<>> /\ jobs' = Tail(jobs)
      /\ cur' = Head(jobs) /\ ~Busy /\ Busy'
      /\ UNCHANGED <<dirJobs, jobInFlight, tpc, todo, loaded>>
  BY DEF Receive, Typed, TypeOK, Busy
<1>2. /\ Len(jobs) \in Nat \ {0}
      /\ Len(jobs') = Len(jobs) - 1
      /\ \A n \in 1..Len(jobs') : jobs'[n] = jobs[n + 1]
      /\ cur' = jobs[1]
  BY <1>1, HeadOfNonempty
<1>3. InFlightExact'
  BY <1>1, <1>2 DEF InFlightExact, Outstanding, Uncounted
<1>4. NoDuplicateDispatch'
  BY <1>1, <1>2 DEF NoDuplicateDispatch
<1>5. PipelineFilesPresent'
  BY <1>1, <1>2 DEF PipelineFilesPresent
<1> QED
  BY <1>3, <1>4, <1>5

LEMMA DispatchNext == IInv /\ [Next]_vars => Dispatch'
<1> SUFFICES ASSUME IInv, [Next]_vars PROVE Dispatch'
  OBVIOUS
<1> USE DEF disk, channel, ticker, worker, history
<1>1. ASSUME NEW j \in Posted, WebhookSave(j) PROVE Dispatch'
  BY <1>1, DispatchDisk, ConstantsAssumption
     DEF WebhookSave, Save, Posted, IInv, Typed, TypeOK, Content, Busy
<1>2. CASE Tick
  BY <1>2, DispatchTick
<1>3. ASSUME NEW f \in Files, LoadJob(f) \/ LoadFails(f) PROVE Dispatch'
  BY <1>3, DispatchVisit DEF LoadJob, LoadFails
<1>4. CASE Send
  BY <1>4, DispatchSend
<1>5. CASE Count
  BY <1>5 DEF Count, IInv, Typed, TypeOK, Dispatch, InFlightExact, NoDuplicateDispatch,
     PipelineFilesPresent, Outstanding, Uncounted, Busy
<1>6. CASE Receive
  BY <1>6, DispatchReceive
<1>7. CASE HandleCleanup \/ HandleFinal \/ HandleRetryable
  BY <1>7, DispatchDisk DEF HandleCleanup, HandleFinal, HandleRetryable, Handling, Settle,
     BeginRemoval, Busy
<1>8. ASSUME NEW listed \in SUBSET Jobs, ListArtifacts(listed) PROVE Dispatch'
  BY <1>8, DispatchDisk DEF ListArtifacts, Handling, Busy
<1>9. ASSUME NEW k \in Jobs, SaveChild(k) PROVE Dispatch'
  BY <1>9, DispatchDisk, ConstantsAssumption
     DEF SaveChild, Save, IInv, Typed, TypeOK, Content, Busy
<1>10. ASSUME NEW k \in Jobs, SaveChildFails(k) PROVE Dispatch'
  BY <1>10, DispatchDisk DEF SaveChildFails, Busy
<1>11. CASE DiscoverFails \/ DiscoverDone
  BY <1>11, DispatchDisk DEF DiscoverFails, DiscoverDone, Settle, BeginRemoval, Busy
<1>12. CASE MoveJob
  <2>1. \A f \in Files : dirJobs'[f] = Absent /\ dirJobs[f] # Absent => f = cur.file
    BY <1>12 DEF MoveJob, IInv, Typed, TypeOK
  <2> QED
    BY <1>12, <2>1, DispatchDisk DEF MoveJob, Busy
<1>13. CASE UnlinkJob
  <2>1. \A f \in Files : dirJobs'[f] = Absent /\ dirJobs[f] # Absent => f = cur.file
    BY <1>13 DEF UnlinkJob, IInv, Typed, TypeOK
  <2> QED
    BY <1>13, <2>1, DispatchDisk DEF UnlinkJob, Busy
<1>14. CASE Finish
  BY <1>14 DEF Finish, IInv, Typed, TypeOK, Dispatch, InFlightExact, NoDuplicateDispatch,
     PipelineFilesPresent, Outstanding, Uncounted, Busy
<1>15. CASE StopSignal \/ StopTicker \/ CloseJobs \/ Restart
  BY <1>15, DispatchDisk DEF StopSignal, StopTicker, CloseJobs, Restart, Busy
<1>16. CASE Exit \/ SendOnClosed \/ Crash
  BY <1>16, DispatchLoseMemory DEF Exit, SendOnClosed, Crash
<1>17. CASE UNCHANGED vars
  BY <1>17, DispatchDisk DEF vars, Busy
<1> QED
  BY <1>1, <1>2, <1>3, <1>4, <1>5, <1>6, <1>7, <1>8, <1>9, <1>10, <1>11, <1>12, <1>13,
     <1>14, <1>15, <1>16, <1>17 DEF Next, Ticker, Worker, Process

LEMMA DispatchInvariant == Spec => []IInv
<1>1. Init => IInv
  BY TypedInit, DispatchInit DEF IInv
<1>2. IInv /\ [Next]_vars => IInv'
  BY TypedNext, DispatchNext DEF IInv
<1> QED
  BY <1>1, <1>2, PTL DEF Spec

(* Server.jobInFlight never drifts from the jobs it counts, although it is *)
(* raised after the send and lowered by another goroutine.                 *)
THEOREM CounterExact == Spec => []InFlightExact
<1>1. IInv => InFlightExact
  BY DEF IInv, Dispatch
<1> QED
  BY <1>1, DispatchInvariant, PTL

(* A job is never dispatched again while it is in the channel or handled.  *)
THEOREM NeverDispatchedTwice == Spec => []NoDuplicateDispatch
<1>1. IInv => NoDuplicateDispatch
  BY DEF IInv, Dispatch
<1> QED
  BY <1>1, DispatchInvariant, PTL

(* No walk ever meets a file that the worker has removed since.            *)
THEOREM WalkMeetsNoRemoval == Spec => []PipelineFilesPresent
<1>1. IInv => PipelineFilesPresent
  BY DEF IInv, Dispatch
<1> QED
  BY <1>1, DispatchInvariant, PTL
=============================================================================

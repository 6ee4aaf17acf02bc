--------------------------- MODULE JobPipeline ---------------------------
(***************************************************************************)
(* The life of a job file: written to the jobs directory by a webhook or   *)
(* by a discover job, listed and loaded by the ticker goroutine, passed    *)
(* through the channel Server.jobs, handled by the worker goroutine, and   *)
(* removed -- or kept for another attempt.  The process may stop at any    *)
(* step, gracefully or not; only the directories survive.                  *)
(***************************************************************************)
EXTENDS Integers, Sequences, FiniteSets

CONSTANTS
  Jobs,       \* job contents; two contents of one file are two deliveries
  Files,      \* names <id>.json in the jobs directory
  FileOf,     \* job content -> the file its Meta.ID names
  Rank,       \* file -> its place in lexical order, the order of WalkDir
  Children,   \* job -> the jobs a discover job saves ({} for a sync job)
  Strays,     \* files that hold something unparseable at start
  QueueCap,   \* capacity of Server.jobs (100 in the code)
  SoftDelete, \* is a soft-delete directory for jobs configured?
  Faults,     \* which file operations may fail, see FaultKinds
  Absent, Junk, Cleanup, NoEntry  \* sentinels

FaultKinds == {"read", "save", "move", "unlink", "expire"}

ASSUME ConstantsAssumption ==
  /\ FileOf \in [Jobs -> Files]
  /\ Rank \in [Files -> Nat]
  /\ Children \in [Jobs -> SUBSET Jobs]
  /\ Strays \subseteq Files
  /\ QueueCap \in Nat \ {0}
  /\ SoftDelete \in BOOLEAN
  /\ Faults \subseteq FaultKinds
  /\ Absent \notin Jobs /\ Junk \notin Jobs /\ Cleanup \notin Jobs
  /\ Absent # Junk

VARIABLES
  dirJobs,       \* cfg.Dir.Jobs: file -> content
  dirSoftDelete, \* cfg.SoftDelete.Jobs: file -> content
  phase,         \* how far Server.Run has got, and how the process ended
  jobs,          \* Server.jobs, the channel
  jobInFlight,   \* Server.jobInFlight
  tpc, todo, loaded,         \* the ticker goroutine
  wpc, cur, kids, kidFailed, passes,  \* the worker goroutine
  saved,         \* history: jobs whose Save succeeded
  settled,       \* history: jobs with a final verdict
  unread         \* history: files whose Load failed

ticker == <<tpc, todo, loaded>>
worker == <<wpc, cur, kids, kidFailed, passes>>
channel == <<jobs, jobInFlight>>
disk == <<dirJobs, dirSoftDelete>>
history == <<saved, settled, unread>>
vars == <<disk, channel, ticker, worker, phase, history>>

(* What the worker is given: a file and the job loaded from it, or the     *)
(* cleanup job that stands for a file that could not be loaded.            *)
Entry == [file : Files, job : Jobs \cup {Cleanup}]
Content == Jobs \cup {Absent, Junk}

Posted == Jobs \ UNION {Children[j] : j \in Jobs}
Discovers == {j \in Jobs : Children[j] # {}}
Alive == phase \notin {"down", "panicked"}

Init ==
  /\ dirJobs = [f \in Files |-> IF f \in Strays THEN Junk ELSE Absent]
  /\ dirSoftDelete = [f \in Files |-> Absent]
  /\ phase = "up"
  /\ jobs = <<>> /\ jobInFlight = 0
  /\ tpc = "idle" /\ todo = {} /\ loaded = NoEntry
  /\ wpc = "idle" /\ cur = NoEntry /\ kids = {} /\ kidFailed = FALSE /\ passes = 0
  /\ saved = {} /\ settled = {} /\ unread = {}

-----------------------------------------------------------------------------
(* job.Save writes a temporary file and renames it over the job's file, so *)
(* the write is atomic and replaces whatever the file held.                *)
Save(j) ==
  /\ dirJobs' = [dirJobs EXCEPT ![FileOf[j]] = j]
  /\ saved' = saved \cup {j}

(* A webhook handler saves a job.  Handlers run concurrently with both     *)
(* goroutines and are still running while the server shuts down.           *)
WebhookSave(j) ==
  /\ Alive
  /\ Save(j)
  /\ UNCHANGED <<dirSoftDelete, channel, ticker, worker, phase, settled, unread>>

-----------------------------------------------------------------------------
(* schedulerIngestJobs on the ticker goroutine.                            *)

TickAlways ==                            \* mutant: no look at the counter
  /\ phase \in {"up", "draining"}
  /\ tpc = "idle"
  /\ todo' = {f \in Files : dirJobs[f] # Absent}
  /\ tpc' = IF todo' = {} THEN "idle" ELSE "load"
  /\ UNCHANGED <<disk, channel, loaded, worker, phase, history>>

(* A tick lists the jobs directory unless jobs are still in flight.        *)
Tick ==
  /\ phase \in {"up", "draining"}
  /\ tpc = "idle"
  /\ jobInFlight <= 0
  /\ todo' = {f \in Files : dirJobs[f] # Absent}
  /\ tpc' = IF todo' = {} THEN "idle" ELSE "load"
  /\ UNCHANGED <<disk, channel, loaded, worker, phase, history>>

(* The walk visits the listed files in lexical order.                      *)
Visit(f) ==
  /\ Alive
  /\ tpc = "load"
  /\ f \in todo
  /\ \A g \in todo : Rank[f] <= Rank[g]
  /\ todo' = todo \ {f}
  /\ tpc' = "send"

LoadJob(f) ==
  /\ Visit(f)
  /\ dirJobs[f] \in Jobs
  /\ loaded' = [file |-> f, job |-> dirJobs[f]]
  /\ UNCHANGED <<disk, channel, worker, phase, history>>

(* Any error of job.Load, an I/O error included, makes a cleanup job.      *)
LoadFails(f) ==
  /\ Visit(f)
  /\ dirJobs[f] \notin Jobs \/ "read" \in Faults
  /\ loaded' = [file |-> f, job |-> Cleanup]
  /\ unread' = unread \cup {f}
  /\ UNCHANGED <<disk, channel, worker, phase, saved, settled>>

(* s.jobs <- j blocks while the channel is full ...                        *)
Send ==
  /\ Alive /\ phase # "closed"
  /\ tpc = "send"
  /\ Len(jobs) < QueueCap
  /\ jobs' = Append(jobs, loaded)
  /\ loaded' = NoEntry
  /\ tpc' = "count"
  /\ UNCHANGED <<disk, jobInFlight, todo, worker, phase, history>>

(* ... and the counter is raised only after the send.                      *)
Count ==
  /\ Alive
  /\ tpc = "count"
  /\ jobInFlight' = jobInFlight + 1
  /\ tpc' = IF todo = {} THEN "idle" ELSE "load"
  /\ UNCHANGED <<disk, jobs, todo, loaded, worker, phase, history>>

-----------------------------------------------------------------------------
(* schedulerHandleJob on the worker goroutine.                             *)

Receive ==
  /\ Alive
  /\ wpc = "idle"
  /\ jobs # <<>>
  /\ cur' = Head(jobs)
  /\ jobs' = Tail(jobs)
  /\ wpc' = "handle"
  /\ UNCHANGED <<disk, jobInFlight, ticker, kids, kidFailed, passes, phase, history>>

(* RemoveJob moves the file first if a soft-delete directory is set.       *)
BeginRemoval(n) ==
  /\ wpc' = IF SoftDelete THEN "move" ELSE "unlink"
  /\ passes' = n

Handling(isMine) == Alive /\ wpc = "handle" /\ isMine

(* handleCleanupUnparseableJob removes the file itself and returns nil, so *)
(* schedulerHandleJob removes it once more.                                *)
HandleCleanup ==
  /\ Handling(cur.job = Cleanup)
  /\ BeginRemoval(2)
  /\ UNCHANGED <<disk, channel, ticker, cur, kids, kidFailed, phase, history>>

(* No error, or a non-retryable one: the job is done with.                 *)
Settle ==
  /\ settled' = settled \cup {cur.job}
  /\ BeginRemoval(1)

HandleFinal ==
  /\ Handling(cur.job \in Jobs \ Discovers)
  /\ Settle
  /\ UNCHANGED <<disk, channel, ticker, cur, kids, kidFailed, phase, saved, unread>>

RetryableRemoves ==                      \* mutant: the verdict without its return
  /\ Handling(cur.job \in Jobs)
  /\ BeginRemoval(1)
  /\ UNCHANGED <<disk, channel, ticker, cur, kids, kidFailed, phase, history>>

RetryableUncounted ==                    \* mutant: returns without the deferred Sub
  /\ Handling(cur.job \in Jobs)
  /\ wpc' = "idle" /\ cur' = NoEntry
  /\ UNCHANGED <<disk, channel, ticker, kids, kidFailed, passes, phase, history>>

(* A retryable error, of a sync or of listing artifacts: the file stays.   *)
HandleRetryable ==
  /\ Handling(cur.job \in Jobs)
  /\ wpc' = "finish"
  /\ UNCHANGED <<disk, channel, ticker, cur, kids, kidFailed, passes, phase, history>>

(* The artifacts of the run are listed, all pages before the first Save.   *)
(* Those that have expired since, or that the configuration no longer      *)
(* names, are skipped; so are those that slipped between two pages.        *)
ListArtifacts(listed) ==
  /\ Handling(cur.job \in Discovers)
  /\ listed \subseteq Children[cur.job]
  /\ "expire" \notin Faults => listed = Children[cur.job]
  /\ kids' = listed
  /\ kidFailed' = FALSE
  /\ wpc' = "spawn"
  /\ UNCHANGED <<disk, channel, ticker, cur, passes, phase, history>>

SaveChild(k) ==
  /\ Alive
  /\ wpc = "spawn"
  /\ k \in kids
  /\ kids' = kids \ {k}
  /\ Save(k)
  /\ UNCHANGED <<dirSoftDelete, channel, ticker, wpc, cur, kidFailed, passes,
                 phase, settled, unread>>

SaveChildSkipped(k) ==                   \* mutant: the error is only logged
  /\ Alive
  /\ wpc = "spawn"
  /\ "save" \in Faults
  /\ k \in kids
  /\ kids' = kids \ {k}
  /\ UNCHANGED <<disk, channel, ticker, wpc, cur, kidFailed, passes, phase, history>>

SaveChildFails(k) ==
  /\ Alive
  /\ wpc = "spawn"
  /\ "save" \in Faults
  /\ k \in kids
  /\ kids' = kids \ {k}
  /\ kidFailed' = TRUE
  /\ UNCHANGED <<disk, channel, ticker, wpc, cur, passes, phase, history>>

(* One failed Save makes the whole discover job fail, retryably.           *)
DiscoverFails ==
  /\ Alive
  /\ wpc = "spawn" /\ kids = {} /\ kidFailed
  /\ wpc' = "finish"
  /\ kidFailed' = FALSE
  /\ UNCHANGED <<disk, channel, ticker, cur, kids, passes, phase, history>>

DiscoverNeverDone ==                     \* mutant: no error is an error as well
  /\ Alive
  /\ wpc = "spawn" /\ kids = {} /\ ~kidFailed
  /\ wpc' = "finish"
  /\ UNCHANGED <<disk, channel, ticker, cur, kids, kidFailed, passes, phase, history>>

DiscoverDone ==
  /\ Alive
  /\ wpc = "spawn" /\ kids = {} /\ ~kidFailed
  /\ Settle
  /\ UNCHANGED <<disk, channel, ticker, cur, kids, kidFailed, phase, saved, unread>>

MoveNothing ==                           \* mutant: straight to os.Remove
  /\ Alive
  /\ wpc = "move"
  /\ wpc' = "unlink"
  /\ UNCHANGED <<disk, channel, ticker, cur, kids, kidFailed, passes, phase, history>>

(* utils.SoftDelete renames the file into the soft-delete directory; a     *)
(* missing file is not an error.  Across devices it copies instead, and a  *)
(* copy that breaks off leaves a truncated file.                           *)
MoveJob ==
  LET f == cur.file IN
  /\ Alive
  /\ wpc = "move"
  /\ wpc' = "unlink"
  /\ \/ /\ dirJobs[f] = Absent
        /\ UNCHANGED disk
     \/ /\ dirJobs[f] # Absent
        /\ dirSoftDelete' = [dirSoftDelete EXCEPT ![f] = dirJobs[f]]
        /\ dirJobs' = [dirJobs EXCEPT ![f] = Absent]
     \/ /\ "move" \in Faults
        /\ dirJobs[f] # Absent
        /\ \E c \in {dirJobs[f], Junk, dirSoftDelete[f]} :
             dirSoftDelete' = [dirSoftDelete EXCEPT ![f] = c]
        /\ UNCHANGED dirJobs
  /\ UNCHANGED <<channel, ticker, cur, kids, kidFailed, passes, phase, history>>

UnlinkOnceMore ==                        \* mutant: one pass too many
  /\ Alive
  /\ wpc = "unlink"
  /\ dirJobs' = [dirJobs EXCEPT ![cur.file] = Absent]
  /\ passes' = passes - 1
  /\ wpc' = IF passes >= 0 THEN "unlink" ELSE "finish"
  /\ UNCHANGED <<dirSoftDelete, channel, ticker, cur, kids, kidFailed, phase, history>>

(* Whatever became of the rename, the path is removed.                     *)
UnlinkJob ==
  LET f == cur.file IN
  /\ Alive
  /\ wpc = "unlink"
  /\ \/ dirJobs' = [dirJobs EXCEPT ![f] = Absent]
     \/ "unlink" \in Faults /\ UNCHANGED dirJobs
  /\ passes' = passes - 1
  /\ wpc' = IF passes > 1 THEN (IF SoftDelete THEN "move" ELSE "unlink") ELSE "finish"
  /\ UNCHANGED <<dirSoftDelete, channel, ticker, cur, kids, kidFailed, phase, history>>

(* The deferred jobInFlight.Sub(1).                                        *)
Finish ==
  /\ Alive
  /\ wpc = "finish"
  /\ jobInFlight' = jobInFlight - 1
  /\ wpc' = "idle" /\ cur' = NoEntry
  /\ UNCHANGED <<disk, jobs, ticker, kids, kidFailed, passes, phase, history>>

-----------------------------------------------------------------------------
(* Server.Run and the process.                                             *)

(* A stop signal, or the listener failing, begins the shutdown.            *)
StopSignal ==
  /\ phase = "up"
  /\ phase' = "draining"
  /\ UNCHANGED <<disk, channel, ticker, worker, history>>

(* server.Shutdown has returned: no further tick, but a walk that has      *)
(* begun goes on.                                                          *)
StopTicker ==
  /\ phase = "draining"
  /\ phase' = "stopped"
  /\ UNCHANGED <<disk, channel, ticker, worker, history>>

CloseJobs ==
  /\ phase = "stopped"
  /\ phase' = "closed"
  /\ UNCHANGED <<disk, channel, ticker, worker, history>>

(* The process ends: goroutines, channel and counter are gone.             *)
LoseMemory ==
  /\ jobs' = <<>> /\ jobInFlight' = 0
  /\ tpc' = "idle" /\ todo' = {} /\ loaded' = NoEntry
  /\ wpc' = "idle" /\ cur' = NoEntry /\ kids' = {} /\ kidFailed' = FALSE /\ passes' = 0
  /\ UNCHANGED <<disk, history>>

(* Run returns and main exits without waiting for the worker.              *)
Exit ==
  /\ phase = "closed"
  /\ phase' = "down"
  /\ LoseMemory

(* A send on the closed channel panics, and nothing recovers it.           *)
SendOnClosed ==
  /\ phase = "closed"
  /\ tpc = "send"
  /\ phase' = "panicked"
  /\ LoseMemory

(* The process is killed, or a handler panics on the worker goroutine.  It *)
(* may happen any number of times: some jobs panic at every attempt.       *)
Crash ==
  /\ Alive
  /\ phase' = "down"
  /\ LoseMemory

Restart ==
  /\ ~Alive
  /\ phase' = "up"
  /\ UNCHANGED <<disk, channel, ticker, worker, history>>

-----------------------------------------------------------------------------
Ticker ==
  \/ Tick
  \/ \E f \in Files : LoadJob(f) \/ LoadFails(f)
  \/ Send
  \/ Count

Worker ==
  \/ Receive
  \/ HandleCleanup
  \/ HandleFinal
  \/ HandleRetryable
  \/ \E listed \in SUBSET Jobs : ListArtifacts(listed)
  \/ \E k \in Jobs : SaveChild(k) \/ SaveChildFails(k)
  \/ DiscoverFails
  \/ DiscoverDone
  \/ MoveJob
  \/ UnlinkJob
  \/ Finish

Process ==
  \/ StopTicker
  \/ CloseJobs
  \/ Exit
  \/ SendOnClosed
  \/ Restart

Next ==
  \/ \E j \in Posted : WebhookSave(j)
  \/ Ticker
  \/ Worker
  \/ Process
  \/ StopSignal
  \/ Crash

Spec == Init /\ [][Next]_vars

(* Both goroutines are scheduled by the Go runtime, handlers return, Run   *)
(* goes through its shutdown, and a stopped process is started again.      *)
(* Webhooks, signals and crashes need not happen.                          *)
Fairness == WF_vars(Ticker) /\ WF_vars(Worker) /\ WF_vars(Process)
FairSpec == Spec /\ Fairness

-----------------------------------------------------------------------------
(* Properties.                                                             *)

Busy == wpc # "idle"
Outstanding == Len(jobs) + (IF Busy THEN 1 ELSE 0)
Uncounted == IF tpc = "count" THEN 1 ELSE 0

TypeOK ==
  /\ dirJobs \in [Files -> Content]
  /\ dirSoftDelete \in [Files -> Content]
  /\ phase \in {"up", "draining", "stopped", "closed", "down", "panicked"}
  /\ jobs \in Seq(Entry)
  /\ jobInFlight \in Int
  /\ tpc \in {"idle", "load", "send", "count"}
  /\ todo \subseteq Files
  /\ tpc = "send" => loaded \in Entry
  /\ wpc \in {"idle", "handle", "spawn", "move", "unlink", "finish"}
  /\ Busy => cur \in Entry
  /\ kids \subseteq Jobs
  /\ kidFailed \in BOOLEAN
  /\ passes \in 0..2
  /\ saved \subseteq Jobs
  /\ settled \subseteq Jobs
  /\ unread \subseteq Files

(* The counter is raised after the send, so the worker may lower it first  *)
(* and it may even be negative; yet apart from the one job between send    *)
(* and count it says exactly how many jobs wait in the channel or are      *)
(* being handled.  A tick therefore never takes a busy pipeline for an     *)
(* idle one, and an idle one is never taken for busy for good.             *)
InFlightExact == jobInFlight + Uncounted = Outstanding

(* No file is twice in the pipeline: of the files still to visit, the one  *)
(* about to be sent, those in the channel and the one being handled, no    *)
(* two are the same.  schedulerIngestJobs has no other guard against       *)
(* dispatching a job again while it is being handled than its counter.     *)
NoDuplicateDispatch ==
  /\ \A i, k \in 1..Len(jobs) : jobs[i].file = jobs[k].file => i = k
  /\ \A i \in 1..Len(jobs) :
       /\ jobs[i].file \notin todo
       /\ tpc = "send" => jobs[i].file # loaded.file
       /\ Busy => jobs[i].file # cur.file
  /\ tpc = "send" => loaded.file \notin todo
  /\ Busy => cur.file \notin todo
  /\ Busy /\ tpc = "send" => cur.file # loaded.file

(* A file that is listed, about to be sent or in the channel is still in   *)
(* the jobs directory, so a walk never loads a file that the worker has    *)
(* removed in the meantime (which would make a cleanup job for its path).  *)
PipelineFilesPresent ==
  /\ \A f \in todo : dirJobs[f] # Absent
  /\ tpc = "send" => dirJobs[loaded.file] # Absent
  /\ \A i \in 1..Len(jobs) : dirJobs[jobs[i].file] # Absent

(* The worker removes a file only after a final verdict on the job it had  *)
(* loaded from it, or when the load had failed; a retryable error, a crash *)
(* or a shutdown never removes one.                                        *)
RemovalOnlyAfterVerdict ==
  [][\A f \in Files : dirJobs[f] # Absent /\ dirJobs'[f] = Absent =>
       /\ Busy /\ cur.file = f
       /\ cur.job \in settled \/ cur.job = Cleanup]_vars

(* A job is exposed when another job was saved under its name or when a    *)
(* load of its file has failed.                                            *)
Exposed(j) ==
  \/ FileOf[j] \in unread
  \/ \E k \in saved \ {j} : FileOf[k] = FileOf[j]

(* A saved job is never lost, over any number of crashes, shutdowns and    *)
(* failed removals, unless it is exposed: it was settled or is on disk.    *)
LostOnlyIfExposed ==
  \A j \in saved : j \in settled \/ dirJobs[FileOf[j]] = j \/ Exposed(j)

(* The unconditional form, what the persistent jobs directory is for: an   *)
(* unfinished job is in it.  The code keeps it only where every job has a  *)
(* file of its own and every load succeeds.                                *)
UnfinishedJobsPersist ==
  \A j \in saved : j \in settled \/ dirJobs[FileOf[j]] = j

(* A discover job is settled only when all its artifacts have become jobs, *)
(* whatever Save failed on the way and however often it was interrupted.   *)
DiscoverComplete ==
  \A j \in settled : Children[j] \subseteq saved

(* With a soft-delete directory that can be moved to, no job is deleted:   *)
(* whatever is settled has its content in one of the two directories, also *)
(* when the process dies between the rename and the remove.                *)
SettledJobsKept ==
  SoftDelete => \A j \in settled : j \in {dirJobs[FileOf[j]], dirSoftDelete[FileOf[j]]}

(* "Stop the job ticker" comes before the channel is closed, so that       *)
(* nothing is sent on it any more.                                         *)
NeverSendsOnClosed == phase # "panicked"

(* As long as the process goes down only finitely often, every file in the *)
(* jobs directory is handed to the worker, again and again until it is     *)
(* removed: jobs that fail for ever with an error, jobs that arrive during *)
(* a batch and a full channel starve none.  A job whose handler panics at  *)
(* every attempt does starve those after it: each walk begins again with   *)
(* the first file in lexical order, and ends at the one that panics.       *)
EveryFileDispatched ==
  <>[][~StopSignal /\ ~Crash]_vars =>
    \A f \in Files : dirJobs[f] # Absent ~> Busy /\ cur.file = f

Trouble ==
  HandleRetryable \/ StopSignal \/ Crash \/ (\E k \in Jobs : SaveChildFails(k))

(* Once nothing fails any more, every saved job reaches its verdict,       *)
(* however often it had failed and wherever crashes had interrupted it.    *)
RecoversWhenTroubleEnds ==
  <>[][~Trouble]_vars => \A j \in Jobs : j \in saved ~> j \in settled

(* The jobs on disk that still wait for a verdict.                         *)
Pending == {j \in Jobs \ settled : dirJobs[FileOf[j]] = j}

Ledger == INSTANCE JobLedger WITH pending <- Pending

(* Where jobs do not share files and loads succeed, the pipeline keeps the *)
(* ledger: a job is pending from its Save on, and nothing but its verdict  *)
(* -- no removal, overwrite, crash or restart -- makes it cease to be.     *)
LedgerKept == Ledger!Spec
=============================================================================

----------------------------- MODULE Transfer -----------------------------
(***************************************************************************)
(* One sync job over all its attempts: an attempt downloads an archive     *)
(* from GitHub, uploads what it holds to each destination in turn, removes *)
(* the download and ends in a verdict.  Downloads and destinations outlive *)
(* a crash; the job's file stays until a verdict removes it.               *)
(*                                                                         *)
(* JobPipeline has the same attempts as one step, HandleFinal or           *)
(* HandleRetryable.  A file is "right" at a destination when it is what    *)
(* this job has downloaded, of whatever version: which version a tag names *)
(* is the subject of ContainerSync.                                        *)
(***************************************************************************)
EXTENDS Naturals, FiniteSets

CONSTANTS
  Count,     \* number of destinations of the job, tried in order 1..Count
  Names,     \* files in the archive
  Archives,  \* names the download of this job may have
  Faults     \* what may go wrong, see FaultKinds

FaultKinds ==
  {"link",      \* no directory, token, link or descriptor to download from
   "gone",      \* GitHub answers 404 to the download
   "copy",      \* the download breaks off
   "torn",      \* the archive of a container cannot be completed on Close
   "client",    \* no client or token for the destination
   "list",      \* the files at the destination cannot be listed or hashed
   "lost",      \* an upload is refused, or done although its answer is lost
   "operation", \* an upload answers 200 with an Operation that failed or goes on
   "reject",    \* the registry refuses a push for good
   "unlink"}    \* a file cannot be removed

ASSUME TransferAssumption ==
  /\ Count \in Nat \ {0}
  /\ Faults \subseteq FaultKinds

Dests == 1..Count

VARIABLES
  source,    \* what is synchronised: an archive of a run or a release ("file"),
             \* a "container", or one that has no tag ("tagless")
  kind,      \* destination -> type of its registry
  wanted,    \* destinations that have a use for what is synchronised
  remote,    \* destination -> file -> state of the file there
  archive,   \* name of the download: the digest a container's tag had last
  downloads, \* archive -> download of that name
  jobFile,   \* the job in the jobs directory
  pc, at, left,  \* the handler: its step, its destination, its files to do
  errs,      \* the errors so far that concern no destination
  outcome,   \* destination -> errors of the last attempt
  verdict,   \* history: the verdict, "done" for good after an attempt without error
  trusted,   \* history: files not in place whose upload was answered with 200
  abandoned, \* history: archive -> why a download of that name is left
  panicked   \* history: a handler has panicked

input == <<source, kind, wanted>>
disk == <<archive, downloads>>
handler == <<pc, at, left, errs, outcome>>
history == <<verdict, trusted, abandoned, panicked>>
vars == <<input, remote, disk, jobFile, handler, history>>

Errors == {"retryable", "final"}

(* config.Artifact and config.Asset accept generic destinations only,      *)
(* config.Container accepts both.  An image without a tag, or of none of   *)
(* the platforms of a docker destination, is of no use to it.              *)
Accepted ==
  \/ source = "file" /\ kind = [d \in Dests |-> "generic"] /\ wanted = Dests
  \/ source = "container" /\ \A d \in Dests : kind[d] = "generic" => d \in wanted
  \/ source = "tagless" /\ wanted = {d \in Dests : kind[d] = "generic"}

Init ==
  /\ source \in {"file", "container", "tagless"}
  /\ kind \in [Dests -> {"generic", "docker"}]
  /\ wanted \in SUBSET Dests
  /\ Accepted
  /\ remote \in [Dests -> [Names -> {"absent", "stale"}]]
  /\ archive \in Archives
  /\ downloads = [a \in Archives |-> "absent"]
  /\ jobFile = "kept"
  /\ pc = "idle" /\ at = 1 /\ left = {} /\ errs = {}
  /\ outcome = [d \in Dests |-> {}]
  /\ verdict = "open"
  /\ trusted = {}
  /\ abandoned = [a \in Archives |-> "no"]
  /\ panicked = FALSE

-----------------------------------------------------------------------------
(* The handlers' download step.                                            *)

BeginWithOldErrors ==                    \* mutant: errs outlives the attempt
  /\ pc = "idle"
  /\ jobFile = "kept"
  /\ pc' = "link"
  /\ UNCHANGED <<input, remote, disk, jobFile, at, left, errs, outcome, history>>

(* The worker takes the job up, for the first time or again.               *)
Begin ==
  /\ pc = "idle"
  /\ jobFile = "kept"
  /\ pc' = "link"
  /\ errs' = {}
  /\ outcome' = [d \in Dests |-> {}]
  /\ UNCHANGED <<input, remote, disk, jobFile, at, left, history>>

(* A failed download returns no file name, so that the handler's           *)
(* RemoveDownload has nothing to remove.                                   *)
DownloadFails(error) ==
  /\ errs' = {error}
  /\ pc' = "verdict"
  /\ UNCHANGED <<input, remote, disk, jobFile, at, left, outcome, history>>

LinkFails ==
  /\ pc = "link"
  /\ "link" \in Faults
  /\ DownloadFails("retryable")

(* Only downloadUrl tells a 404 from other errors.                         *)
Gone ==
  /\ pc = "link"
  /\ source = "file" /\ "gone" \in Faults
  /\ DownloadFails("final")

Abandon(reason) == abandoned' = [abandoned EXCEPT ![archive] = reason]

(* The file is created, or truncated if an earlier attempt has left it.    *)
(* The archive of a container is named after the digest that its tag has   *)
(* now, which need not be the one it had at an earlier attempt.            *)
CreateDownload ==
  /\ pc = "link"
  /\ \E name \in Archives :
       /\ source = "container" \/ name = archive
       /\ archive' = name
       /\ downloads' = [downloads EXCEPT ![name] = "partial"]
       /\ abandoned' = [abandoned EXCEPT ![name] = "no"]
  /\ pc' = "copy"
  /\ UNCHANGED <<input, remote, jobFile, at, left, errs, outcome, verdict, trusted, panicked>>

CopyFails ==
  /\ pc = "copy"
  /\ "copy" \in Faults
  /\ errs' = {"retryable"}
  /\ pc' = "verdict"
  /\ Abandon("cut")
  /\ UNCHANGED <<input, remote, disk, jobFile, at, left, outcome, verdict, trusted, panicked>>

Download == downloads[archive]

CopyDoneFromZero ==                      \* mutant: destinations counted from 0
  /\ pc = "copy"
  /\ downloads' = [downloads EXCEPT ![archive] = "whole"]
  /\ pc' = "dest" /\ at' = 0
  /\ UNCHANGED <<input, remote, archive, jobFile, left, errs, outcome, history>>

(* The zip writer of a container is closed by a defer that drops its       *)
(* error: the archive may be broken without the download having failed.    *)
CopyDone ==
  /\ pc = "copy"
  /\ \/ downloads' = [downloads EXCEPT ![archive] = "whole"]
     \/ source # "file" /\ "torn" \in Faults /\ UNCHANGED downloads
  /\ pc' = "dest" /\ at' = 1
  /\ UNCHANGED <<input, remote, archive, jobFile, left, errs, outcome, history>>

-----------------------------------------------------------------------------
(* uploadFromZip: the destinations one by one, with all errors collected.  *)

Note(error) == outcome' = [outcome EXCEPT ![at] = @ \cup {error}]

AtDest(type) == pc = "dest" /\ at \in Dests /\ kind[at] = type

NextDest == pc' = "dest" /\ at' = at + 1

(* A destination that fails as a whole.                                    *)
DestFails ==
  /\ \/ AtDest("generic") /\ source = "file"
     \/ AtDest("docker") /\ source = "container"
  /\ \/ Download # "whole"
     \/ at \in wanted /\ "client" \in Faults
  /\ Note("retryable")
  /\ NextDest
  /\ UNCHANGED <<input, remote, disk, jobFile, left, errs, history>>

OpenForGeneric ==
  /\ AtDest("generic") /\ source = "file"
  /\ Download = "whole"
  /\ pc' = "files" /\ left' = Names
  /\ UNCHANGED <<input, remote, disk, jobFile, at, errs, outcome, history>>

ThisFile(n) == pc = "files" /\ n \in left /\ left' = left \ {n}

ListFailsSilently(n) ==                  \* mutant: continue without the error
  /\ ThisFile(n)
  /\ "list" \in Faults
  /\ UNCHANGED <<input, remote, disk, jobFile, pc, at, errs, outcome, history>>

ListFails(n) ==
  /\ ThisFile(n)
  /\ "list" \in Faults
  /\ Note("retryable")
  /\ UNCHANGED <<input, remote, disk, jobFile, pc, at, errs, history>>

SkipExisting(n) ==                       \* mutant: no comparison of hashes
  /\ ThisFile(n)
  /\ remote[at][n] # "absent"
  /\ UNCHANGED <<input, remote, disk, jobFile, pc, at, errs, outcome, history>>

(* The file is there already and has the hash of the one in the archive.   *)
SkipSame(n) ==
  /\ ThisFile(n)
  /\ remote[at][n] = "right"
  /\ UNCHANGED <<input, remote, disk, jobFile, pc, at, errs, outcome, history>>

Put(n) ==
  /\ remote' = [remote EXCEPT ![at][n] = "right"]
  /\ trusted' = trusted \ {<<at, n>>}

(* It is missing, or has another hash: upload it.                          *)
Upload(n) ==
  /\ ThisFile(n)
  /\ remote[at][n] # "right"
  /\ Put(n)
  /\ UNCHANGED <<input, disk, jobFile, pc, at, errs, outcome, verdict, abandoned, panicked>>

(* The answer is an Operation, whose error and whose end are not looked at *)
(* when the status is 200: no error is noted, and the file is not there.   *)
UploadTrusted(n) ==
  /\ ThisFile(n)
  /\ "operation" \in Faults
  /\ remote[at][n] # "right"
  /\ trusted' = trusted \cup {<<at, n>>}
  /\ UNCHANGED <<input, remote, disk, jobFile, pc, at, errs, outcome, verdict, abandoned, panicked>>

(* An Operation that was under way puts the file in its place after all.   *)
OperationEnds ==
  /\ \E c \in trusted :
       /\ remote' = [remote EXCEPT ![c[1]][c[2]] = "right"]
       /\ trusted' = trusted \ {c}
  /\ UNCHANGED <<input, disk, jobFile, handler, verdict, abandoned, panicked>>

UploadFails(n) ==
  /\ ThisFile(n)
  /\ "lost" \in Faults
  /\ remote[at][n] # "right"
  /\ Put(n) \/ UNCHANGED <<remote, trusted>>
  /\ Note("retryable")
  /\ UNCHANGED <<input, disk, jobFile, pc, at, errs, verdict, abandoned, panicked>>

FilesDone ==
  /\ pc = "files" /\ left = {}
  /\ NextDest
  /\ UNCHANGED <<input, remote, disk, jobFile, left, errs, outcome, history>>

(* An image that is of no use to the destination is no error: one without  *)
(* a tag is not looked at, the platforms of others are in the archive.     *)
SkipImage ==
  /\ AtDest("docker") /\ at \notin wanted
  /\ source = "tagless" \/ Download = "whole"
  /\ NextDest
  /\ UNCHANGED <<input, remote, disk, jobFile, left, errs, outcome, history>>

(* An image or index appears at once, when its manifest is written.        *)
Push ==
  /\ AtDest("docker") /\ at \in wanted
  /\ Download = "whole"
  /\ remote' = [remote EXCEPT ![at] = [n \in Names |-> "right"]]
  /\ NextDest
  /\ UNCHANGED <<input, disk, jobFile, left, errs, outcome, history>>

PushFails ==
  /\ AtDest("docker") /\ at \in wanted
  /\ Download = "whole"
  /\ \/ /\ "lost" \in Faults
        /\ \E image \in {remote[at], [n \in Names |-> "right"]} :
             remote' = [remote EXCEPT ![at] = image]
        /\ Note("retryable")
     \/ /\ "reject" \in Faults
        /\ UNCHANGED remote
        /\ Note("final")
  /\ NextDest
  /\ UNCHANGED <<input, disk, jobFile, left, errs, history>>

(* The defer of uploadFromZipAndDelete removes the download whatever has   *)
(* happened, an assertion that fails included.                             *)
RemoveDownload ==
  /\ \/ downloads' = [downloads EXCEPT ![archive] = "absent"] /\ Abandon("no")
     \/ "unlink" \in Faults /\ UNCHANGED downloads /\ Abandon("unlink")
  /\ UNCHANGED archive

CleanupOfFailures ==                     \* mutant: no removal without an error
  /\ pc = "dest" /\ at \notin Dests
  /\ pc' = "verdict"
  /\ \/ (\E d \in Dests : outcome[d] # {}) /\ RemoveDownload
     \/ (\A d \in Dests : outcome[d] = {}) /\ UNCHANGED <<disk, abandoned>>
  /\ UNCHANGED <<input, remote, jobFile, at, left, errs, outcome, verdict, trusted, panicked>>

Cleanup ==
  /\ pc = "dest" /\ at \notin Dests
  /\ pc' = "verdict"
  /\ RemoveDownload
  /\ UNCHANGED <<input, remote, jobFile, at, left, errs, outcome, verdict, trusted, panicked>>

-----------------------------------------------------------------------------
(* schedulerHandleJob: one error that is not to be retried decides for all *)
(* the others, because errors.As looks through the joined error.           *)

AllErrors == errs \cup UNION {outcome[d] : d \in Dests}

Retried == AllErrors = {"retryable"}

Keep ==
  /\ pc = "verdict"
  /\ Retried
  /\ pc' = "idle"
  /\ UNCHANGED <<input, remote, disk, jobFile, at, left, errs, outcome, history>>

Remove ==
  /\ pc = "verdict"
  /\ ~Retried
  /\ verdict' = IF AllErrors = {} \/ verdict = "done" THEN "done" ELSE "givenUp"
  /\ pc' = "idle"
  /\ \/ jobFile' = "removed"
     \/ "unlink" \in Faults /\ UNCHANGED jobFile
  /\ UNCHANGED <<input, remote, disk, at, left, errs, outcome, trusted, abandoned, panicked>>

-----------------------------------------------------------------------------
(* The process goes down and comes back.                                   *)
LoseHandler == pc' = "idle" /\ at' = 1 /\ left' = {} /\ errs' = {} /\ outcome' = [d \in Dests |-> {}]

Crash ==
  /\ pc # "idle"
  /\ IF pc \in {"copy", "dest", "files"} THEN Abandon("cut") ELSE UNCHANGED abandoned
  /\ LoseHandler
  /\ UNCHANGED <<input, remote, disk, jobFile, verdict, trusted, panicked>>

PanicWithoutDefer ==                     \* mutant: the removal is no defer
  /\ AtDest("generic") /\ source # "file"
  /\ panicked' = TRUE
  /\ LoseHandler
  /\ UNCHANGED <<input, remote, disk, jobFile, verdict, trusted, abandoned>>

(* A container has no version: the assertion j.(job.UploadableFile) fails, *)
(* and with it the process.                                                *)
AssertionPanics ==
  /\ AtDest("generic") /\ source # "file"
  /\ panicked' = TRUE
  /\ RemoveDownload
  /\ LoseHandler
  /\ UNCHANGED <<input, remote, jobFile, verdict, trusted>>

Handler ==
  \/ Begin \/ LinkFails \/ Gone \/ CreateDownload \/ CopyFails \/ CopyDone
  \/ DestFails \/ OpenForGeneric
  \/ \E n \in Names : ListFails(n) \/ SkipSame(n) \/ Upload(n) \/ UploadTrusted(n) \/ UploadFails(n)
  \/ FilesDone \/ SkipImage \/ Push \/ PushFails
  \/ Cleanup \/ Keep \/ Remove \/ AssertionPanics

Next == Handler \/ Crash \/ OperationEnds

Spec == Init /\ [][Next]_vars
FairSpec == Spec /\ WF_vars(Handler)

-----------------------------------------------------------------------------
(* Properties.                                                             *)

TypeOK ==
  /\ Accepted
  /\ kind \in [Dests -> {"generic", "docker"}]
  /\ wanted \subseteq Dests
  /\ remote \in [Dests -> [Names -> {"absent", "stale", "right"}]]
  /\ archive \in Archives
  /\ downloads \in [Archives -> {"absent", "partial", "whole"}]
  /\ jobFile \in {"kept", "removed"}
  /\ pc \in {"idle", "link", "copy", "dest", "files", "verdict"}
  /\ at \in 1..(Count + 1)
  /\ left \subseteq Names
  /\ errs \subseteq Errors
  /\ outcome \in [Dests -> SUBSET Errors]
  /\ verdict \in {"open", "done", "givenUp"}
  /\ trusted \subseteq Dests \X Names
  /\ abandoned \in [Archives -> {"no", "cut", "unlink"}]
  /\ panicked \in BOOLEAN

Cells == Dests \X Names
WantedCells == {c \in Cells : c[1] \in wanted}
Delivered == {c \in Cells : remote[c[1]][c[2]] = "right"}

(* A job whose handler reported no error has delivered every file to every *)
(* destination that wants it, whatever attempts broke off before, except   *)
(* those whose upload was answered with 200 although it had not been done. *)
DoneMeansDelivered == verdict = "done" => WantedCells \subseteq Delivered \cup trusted

(* A job that leaves after an attempt without error leaves no download     *)
(* behind that could not be removed, also when attempts before it broke    *)
(* off in the middle; but if the tag of a container has moved since, the   *)
(* archives named after its earlier digests are not looked at again.       *)
DoneLeavesNoDownload ==
  jobFile = "removed" /\ AllErrors = {} =>
    \A a \in Archives : downloads[a] # "absent" =>
      abandoned[a] = "unlink" \/ (source = "container" /\ a # archive)

(* Between two attempts, and after the last one however that one ended,    *)
(* nothing but a download that broke off, a process that stopped with it,  *)
(* or a removal that failed has left a download behind: no verdict, error, *)
(* moved tag or panic does.                                                *)
OnlyCutsLeaveDownloads ==
  pc = "idle" => \A a \in Archives : downloads[a] # "absent" => abandoned[a] # "no"

(* What may be retried is: a job is not removed as long as a destination   *)
(* has only failed in a way that may pass.                                 *)
RetryableErrorKeepsJob ==
  jobFile = "removed" => \A d \in Dests : outcome[d] # {"retryable"}

(* No configuration that the validation accepts makes a handler panic.     *)
HandlerNeverPanics == ~panicked

Trouble ==
  \/ LinkFails \/ Gone \/ CopyFails \/ PushFails \/ Crash
  \/ CopyDone /\ Download' # "whole"
  \/ DestFails
  \/ \E n \in Names : ListFails(n) \/ UploadTrusted(n) \/ UploadFails(n)
  \/ Cleanup /\ Download' # "absent"
  \/ Remove /\ jobFile' # "removed"

(* Once nothing fails any more, a job that can be handled is delivered     *)
(* everywhere and leaves, unless it has been given up before, or a file    *)
(* was answered with 200 before and is not there.                          *)
DeliversWhenTroubleEnds ==
  <>[][~Trouble]_vars /\ []~panicked =>
     <>(jobFile = "removed" /\ (verdict = "givenUp" \/ WantedCells \subseteq Delivered \cup trusted))

Promise == INSTANCE Delivery
             WITH wantedCells <- WantedCells, delivered <- Delivered, accepted <- trusted

(* Attempts, downloads, crashes and lost answers do not show: the          *)
(* destinations see each file arrive once, and after the job is done only  *)
(* what they had answered for before.                                      *)
DeliversAsPromised == Promise!Spec
=============================================================================

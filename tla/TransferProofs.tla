--------------------------- MODULE TransferProofs ---------------------------
(***************************************************************************)
(* A sync job that ends without error has delivered everything but what it *)
(* was told is delivered, and cleaned up, and to the destinations nothing  *)
(* but Delivery is to be seen: proved for any number of destinations,      *)
(* files, names of archives, crashes and attempts, and for any faults.     *)
(***************************************************************************)
EXTENDS Transfer, TLAPS

-----------------------------------------------------------------------------
(* The invariant: what the handler knows of the destinations.              *)

(* Only the files of a run or a release are uploaded one by one.           *)
FilesOfJob ==
  pc = "files" => at \in Dests /\ kind[at] = "generic" /\ source = "file" /\ Download = "whole"

Typed == TypeOK /\ FilesOfJob

(* Errors without destination are those of the download, and end the       *)
(* attempt: without one, a verdict comes after the last destination.       *)
ErrorsEnd ==
  /\ pc \in {"link", "copy", "dest", "files"} => errs = {}
  /\ pc = "verdict" /\ errs = {} => at = Count + 1

Answered(d, n) == remote[d][n] = "right" \/ <<d, n>> \in trusted

Right(d) == \A n \in Names : Answered(d, n)

(* What was answered for and is not there is wanted, of a destination that *)
(* takes files one by one, and there because of an unread Operation.       *)
Trust ==
  /\ \A d \in Dests, n \in Names : <<d, n>> \in trusted =>
       d \in wanted /\ kind[d] = "generic" /\ remote[d][n] # "right"
  /\ "operation" \notin Faults => trusted = {}

(* What the attempt has left behind without an error is right or was       *)
(* answered for: all files of the destinations before this one, and at     *)
(* this one those done with.                                               *)
Served ==
  /\ pc \in {"dest", "files", "verdict"} /\ errs = {} =>
       \A d \in wanted : d < at /\ outcome[d] = {} => Right(d)
  /\ pc = "files" /\ outcome[at] = {} =>
       \A n \in Names \ left : Answered(at, n)

(* A download lies at the name of this attempt while the attempt needs it, *)
(* and elsewhere only where it was abandoned.                              *)
Holding == pc \in {"copy", "dest", "files"}

Downloads ==
  \A a \in Archives : downloads[a] # "absent" =>
    abandoned[a] # "no" \/ (Holding /\ a = archive)

(* An attempt without error, once over, has left a download of its name    *)
(* only if that could not be removed, and of other names only if its       *)
(* source is a container, whose tag may have moved: from its verdict on    *)
(* for as long as the job's file does not come back.                       *)
OwnCleanedUp ==
  /\ jobFile = "removed" => pc = "idle"
  /\ (pc = "verdict" \/ jobFile = "removed") /\ AllErrors = {} =>
       downloads[archive] = "absent" \/ abandoned[archive] = "unlink"

CleanedUp ==
  /\ OwnCleanedUp
  /\ source # "container" => \A a \in Archives \ {archive} : downloads[a] = "absent"

TInv == Typed /\ ErrorsEnd /\ Trust /\ Served /\ DoneMeansDelivered /\ Downloads /\ CleanedUp

-----------------------------------------------------------------------------
(* Lemmas about the operators.                                             *)

LEMMA NoErrors == AllErrors = {} <=> errs = {} /\ \A d \in Dests : outcome[d] = {}
BY DEF AllErrors

(* An error noted stays noted, and none is noted of another destination.   *)
LEMMA Noted ==
  ASSUME Typed, at \in Dests, NEW error \in Errors, Note(error)
  PROVE  /\ outcome' \in [Dests -> SUBSET Errors]
         /\ outcome'[at] # {}
         /\ \A d \in Dests \ {at} : outcome'[d] = outcome[d]
BY DEF Note, Typed, TypeOK

(* The inputs of the job are what they are.                                *)
LEMMA InputKept == [Next]_vars => UNCHANGED input
BY DEF Next, Handler, vars, Begin, LinkFails, Gone, DownloadFails, CreateDownload, CopyFails,
   CopyDone, DestFails, OpenForGeneric, ListFails, SkipSame, Upload, UploadTrusted, UploadFails,
   FilesDone, SkipImage, Push, PushFails, Cleanup, Keep, Remove, AssertionPanics, Crash,
   OperationEnds

(* What a step may do to the destinations: a file comes, by an upload or   *)
(* an Operation that ends; or is answered for; or an image comes.          *)
Comes(d, n) ==
  /\ d \in Dests /\ d \in wanted /\ n \in Names /\ kind[d] = "generic"
  /\ remote[d][n] # "right"
  /\ remote' = [remote EXCEPT ![d][n] = "right"]
  /\ trusted' = trusted \ {<<d, n>>}

IsAnswered(d, n) ==
  /\ d \in Dests /\ d \in wanted /\ n \in Names /\ kind[d] = "generic"
  /\ "operation" \in Faults
  /\ remote[d][n] # "right"
  /\ trusted' = trusted \cup {<<d, n>>}
  /\ UNCHANGED remote

ImageComes(d) ==
  /\ d \in Dests /\ d \in wanted /\ kind[d] = "docker"
  /\ remote' = [remote EXCEPT ![d] = [n \in Names |-> "right"]]
  /\ UNCHANGED trusted

LEMMA RemoteSteps ==
  ASSUME Typed, Trust, [Next]_vars
  PROVE  \/ UNCHANGED <<remote, trusted>>
         \/ \E d \in Dests, n \in Names : Comes(d, n) \/ IsAnswered(d, n)
         \/ \E d \in Dests : ImageComes(d)
<1>1. ASSUME NEW n \in Names, Upload(n) \/ UploadTrusted(n) \/ UploadFails(n)
      PROVE  Comes(at, n) \/ IsAnswered(at, n) \/ UNCHANGED <<remote, trusted>>
  <2>1. at \in Dests /\ at \in wanted /\ kind[at] = "generic"
    BY <1>1 DEF Upload, UploadTrusted, UploadFails, ThisFile, Typed, TypeOK, FilesOfJob, Accepted
  <2> QED
    BY <1>1, <2>1 DEF Upload, UploadTrusted, UploadFails, Put, Comes, IsAnswered
<1>2. CASE Push \/ PushFails
  BY <1>2 DEF Push, PushFails, AtDest, ImageComes, Typed, TypeOK, history
<1>3. CASE OperationEnds
  <2>1. PICK c \in trusted :
          /\ remote' = [remote EXCEPT ![c[1]][c[2]] = "right"]
          /\ trusted' = trusted \ {c}
    BY <1>3 DEF OperationEnds
  <2>2. c[1] \in Dests /\ c[2] \in Names /\ c = <<c[1], c[2]>>
    BY <2>1 DEF Typed, TypeOK
  <2> QED
    BY <2>1, <2>2 DEF Comes, Trust
<1>4. \A n \in Names : Upload(n) \/ UploadTrusted(n) \/ UploadFails(n) => at \in Dests
  BY DEF Upload, UploadTrusted, UploadFails, ThisFile, Typed, FilesOfJob
<1> QED
  BY <1>1, <1>2, <1>3, <1>4 DEF Next, Handler, vars, history, Begin, LinkFails, Gone, DownloadFails,
     CreateDownload, CopyFails, CopyDone, DestFails, OpenForGeneric, ListFails, SkipSame, FilesDone,
     SkipImage, Cleanup, Keep, Remove, AssertionPanics, Crash

LEMMA RemoteNext ==
  ASSUME Typed, Trust, [Next]_vars
  PROVE  /\ remote' \in [Dests -> [Names -> {"absent", "stale", "right"}]]
         /\ trusted' \subseteq Dests \X Names
<1>1. ASSUME NEW d \in Dests, NEW n \in Names, Comes(d, n) \/ IsAnswered(d, n)
      PROVE  /\ remote' \in [Dests -> [Names -> {"absent", "stale", "right"}]]
             /\ trusted' \subseteq Dests \X Names
  BY <1>1 DEF Comes, IsAnswered, Typed, TypeOK
<1>2. ASSUME NEW d \in Dests, ImageComes(d)
      PROVE  /\ remote' \in [Dests -> [Names -> {"absent", "stale", "right"}]]
             /\ trusted' \subseteq Dests \X Names
  BY <1>2 DEF ImageComes, Typed, TypeOK
<1> QED
  BY <1>1, <1>2, RemoteSteps DEF Typed, TypeOK

(* Nothing right is ever replaced, and what was answered for stays so      *)
(* until it is right.                                                      *)
LEMMA AnsweredStays ==
  ASSUME Typed, Trust, [Next]_vars, NEW d \in Dests, NEW n \in Names
  PROVE  /\ remote[d][n] = "right" => remote'[d][n] = "right"
         /\ Answered(d, n) => Answered(d, n)'
<1>1. ASSUME NEW e \in Dests, NEW m \in Names, Comes(e, m)
      PROVE  /\ remote[d][n] = "right" => remote'[d][n] = "right"
             /\ Answered(d, n) => Answered(d, n)'
  <2>1. CASE d = e /\ n = m
    BY <1>1, <2>1 DEF Comes, Answered, Typed, TypeOK
  <2>2. CASE ~(d = e /\ n = m)
    <3>1. remote'[d][n] = remote[d][n]
      BY <1>1, <2>2 DEF Comes, Typed, TypeOK
    <3>2. <<d, n>> \in trusted => <<d, n>> \in trusted'
      BY <1>1, <2>2 DEF Comes
    <3> QED
      BY <3>1, <3>2 DEF Answered
  <2> QED
    BY <2>1, <2>2
<1>2. ASSUME NEW e \in Dests, NEW m \in Names, IsAnswered(e, m)
      PROVE  /\ remote[d][n] = "right" => remote'[d][n] = "right"
             /\ Answered(d, n) => Answered(d, n)'
  BY <1>2 DEF IsAnswered, Answered
<1>3. ASSUME NEW e \in Dests, ImageComes(e)
      PROVE  /\ remote[d][n] = "right" => remote'[d][n] = "right"
             /\ Answered(d, n) => Answered(d, n)'
  BY <1>3 DEF ImageComes, Answered, Typed, TypeOK
<1> QED
  BY <1>1, <1>2, <1>3, RemoteSteps DEF Answered

LEMMA TrustNext == Typed /\ Trust /\ [Next]_vars => Trust'
<1> SUFFICES ASSUME Typed, Trust, [Next]_vars PROVE Trust'
  OBVIOUS
<1>1. wanted' = wanted /\ kind' = kind
  BY InputKept DEF input
<1>2. ASSUME NEW e \in Dests, NEW m \in Names, Comes(e, m) PROVE Trust'
  <2>1. ASSUME NEW d \in Dests, NEW n \in Names, <<d, n>> \in trusted'
        PROVE  d \in wanted /\ kind[d] = "generic" /\ remote'[d][n] # "right"
    <3>1. ~(d = e /\ n = m) /\ <<d, n>> \in trusted
      BY <1>2, <2>1 DEF Comes
    <3>2. remote'[d][n] = remote[d][n]
      BY <1>2, <3>1 DEF Comes, Typed, TypeOK
    <3> QED
      BY <3>1, <3>2 DEF Trust
  <2> QED
    BY <1>1, <1>2, <2>1 DEF Trust, Comes
<1>3. ASSUME NEW e \in Dests, NEW m \in Names, IsAnswered(e, m) PROVE Trust'
  BY <1>1, <1>3 DEF IsAnswered, Trust
<1>4. ASSUME NEW e \in Dests, ImageComes(e) PROVE Trust'
  <2>1. ASSUME NEW d \in Dests, NEW n \in Names, <<d, n>> \in trusted
        PROVE  remote'[d][n] # "right"
    BY <1>4, <2>1 DEF ImageComes, Trust, Typed, TypeOK
  <2> QED
    BY <1>1, <1>4, <2>1 DEF Trust, ImageComes
<1>5. CASE UNCHANGED <<remote, trusted>>
  BY <1>1, <1>5 DEF Trust
<1> QED
  BY <1>2, <1>3, <1>4, <1>5, RemoteSteps

-----------------------------------------------------------------------------
(* The invariant is one.                                                   *)

LEMMA TransferInitial == Init => TInv
<1> SUFFICES ASSUME Init PROVE TInv
  OBVIOUS
<1>1. Typed
  <2>1. remote \in [Dests -> [Names -> {"absent", "stale", "right"}]]
    BY DEF Init
  <2>2. outcome \in [Dests -> SUBSET Errors]
    BY DEF Init
  <2>3. at \in 1..(Count + 1)
    BY TransferAssumption DEF Init
  <2>4. Accepted /\ kind \in [Dests -> {"generic", "docker"}] /\ wanted \subseteq Dests
    BY DEF Init
  <2>5. /\ archive \in Archives /\ downloads \in [Archives -> {"absent", "partial", "whole"}]
        /\ abandoned \in [Archives -> {"no", "cut", "unlink"}]
        /\ jobFile = "kept" /\ pc = "idle" /\ left = {} /\ errs = {}
        /\ verdict = "open" /\ trusted = {} /\ panicked = FALSE
    BY DEF Init
  <2> QED
    BY <2>1, <2>2, <2>3, <2>4, <2>5 DEF Typed, TypeOK, FilesOfJob
<1>2. ErrorsEnd /\ Trust /\ Served /\ DoneMeansDelivered /\ Downloads /\ CleanedUp
  BY DEF Init, ErrorsEnd, Trust, Served, DoneMeansDelivered, Downloads, CleanedUp, OwnCleanedUp
<1> QED
  BY <1>1, <1>2 DEF TInv

LEMMA DiskTyped ==
  ASSUME Typed, [Next]_vars
  PROVE  /\ archive' \in Archives
         /\ downloads' \in [Archives -> {"absent", "partial", "whole"}]
         /\ abandoned' \in [Archives -> {"no", "cut", "unlink"}]
<1> USE DEF Typed, TypeOK
<1>1. CASE CreateDownload
  BY <1>1 DEF CreateDownload
<1>2. CASE CopyFails \/ CopyDone \/ Crash
  BY <1>2 DEF CopyFails, CopyDone, Crash, Abandon, disk, history
<1>3. CASE Cleanup \/ AssertionPanics
  BY <1>3 DEF Cleanup, AssertionPanics, RemoveDownload, Abandon
<1>4. CASE UNCHANGED <<archive, downloads, abandoned>>
  BY <1>4
<1> QED
  BY <1>1, <1>2, <1>3, <1>4 DEF Next, Handler, vars, disk, history, Begin, LinkFails, Gone,
     DownloadFails, DestFails, OpenForGeneric, ListFails, SkipSame, Upload, UploadTrusted,
     UploadFails,
     FilesDone, SkipImage, Push, PushFails, Keep, Remove, OperationEnds

LEMMA TypedNext == Typed /\ Trust /\ [Next]_vars => Typed'
<1> SUFFICES ASSUME Typed, Trust, [Next]_vars PROVE Typed'
  OBVIOUS
<1> USE DEF Typed, TypeOK, FilesOfJob, Download, input, disk, history
<1>1. /\ Accepted'
      /\ kind' \in [Dests -> {"generic", "docker"}]
      /\ wanted' \subseteq Dests
      /\ remote' \in [Dests -> [Names -> {"absent", "stale", "right"}]]
      /\ trusted' \subseteq Dests \X Names
      /\ archive' \in Archives
      /\ downloads' \in [Archives -> {"absent", "partial", "whole"}]
      /\ abandoned' \in [Archives -> {"no", "cut", "unlink"}]
  BY InputKept, RemoteNext, DiskTyped DEF Accepted
<1>2. ASSUME NEW error \in Errors, at \in Dests, Note(error)
      PROVE  outcome' \in [Dests -> SUBSET Errors]
  BY <1>2, Noted
<1>3. CASE Begin \/ CreateDownload \/ CopyDone \/ OpenForGeneric
  BY <1>1, <1>3, TransferAssumption
     DEF Begin, CreateDownload, CopyDone, OpenForGeneric, AtDest, Dests
<1>4. CASE LinkFails \/ Gone \/ CopyFails
  BY <1>1, <1>4 DEF LinkFails, Gone, CopyFails, DownloadFails, Errors
<1>5. CASE DestFails \/ FilesDone \/ SkipImage \/ Push \/ PushFails
  <2>1. at \in Dests /\ at' \in 1..(Count + 1) /\ pc' = "dest"
    BY <1>5, TransferAssumption
       DEF DestFails, FilesDone, SkipImage, Push, PushFails, AtDest, NextDest, Dests
  <2>2. outcome' \in [Dests -> SUBSET Errors]
    BY <1>2, <1>5, <2>1 DEF DestFails, FilesDone, SkipImage, Push, PushFails, Errors
  <2> QED
    BY <1>1, <1>5, <2>1, <2>2 DEF DestFails, FilesDone, SkipImage, Push, PushFails
<1>6. ASSUME NEW n \in Names,
             ListFails(n) \/ SkipSame(n) \/ Upload(n) \/ UploadTrusted(n) \/ UploadFails(n)
      PROVE  Typed'
  <2>1. outcome' \in [Dests -> SUBSET Errors]
    BY <1>2, <1>6 DEF ListFails, SkipSame, Upload, UploadTrusted, UploadFails, ThisFile, Errors
  <2> QED
    BY <1>1, <1>6, <2>1 DEF ListFails, SkipSame, Upload, UploadTrusted, UploadFails, ThisFile
<1>7. CASE Cleanup \/ Keep \/ Remove
  BY <1>1, <1>7 DEF Cleanup, Keep, Remove
<1>8. CASE AssertionPanics \/ Crash
  <2>1. outcome' \in [Dests -> SUBSET Errors] /\ at' \in 1..(Count + 1)
    BY <1>8, TransferAssumption DEF AssertionPanics, Crash, LoseHandler
  <2> QED
    BY <1>1, <1>8, <2>1 DEF AssertionPanics, Crash, LoseHandler
<1>9. CASE OperationEnds \/ UNCHANGED vars
  BY <1>1, <1>9 DEF OperationEnds, vars, handler
<1> QED
  BY <1>3, <1>4, <1>5, <1>6, <1>7, <1>8, <1>9 DEF Next, Handler

LEMMA ErrorsEndNext == Typed /\ ErrorsEnd /\ [Next]_vars => ErrorsEnd'
<1> SUFFICES ASSUME Typed, ErrorsEnd, [Next]_vars PROVE ErrorsEnd'
  OBVIOUS
<1>1. CASE Cleanup
  BY <1>1, TransferAssumption DEF Cleanup, ErrorsEnd, Typed, TypeOK, Dests
<1>2. CASE ~Cleanup
  BY <1>2 DEF ErrorsEnd, Next, Handler, vars, handler, Begin, LinkFails, Gone, DownloadFails,
     CreateDownload, CopyFails, CopyDone, DestFails, NextDest, AtDest, OpenForGeneric, ThisFile,
     ListFails, SkipSame, Upload, UploadTrusted, UploadFails, FilesDone, SkipImage, Push,
     PushFails, Keep, Remove,
     AssertionPanics, Crash, OperationEnds, LoseHandler
<1> QED
  BY <1>1, <1>2

(* Errors of an attempt stay, so that where there is none now there was    *)
(* none before.                                                            *)
LEMMA ErrorsStay ==
  ASSUME Typed, [Next]_vars, pc' \in {"dest", "files", "verdict"}, pc \in {"dest", "files"},
         NEW d \in Dests, outcome'[d] = {}
  PROVE  outcome[d] = {}
<1>1. ASSUME NEW error \in Errors, at \in Dests, Note(error)
      PROVE  outcome[d] = {}
  BY <1>1, Noted
<1>2. CASE DestFails \/ PushFails \/ \E n \in Names : ListFails(n) \/ UploadFails(n)
  BY <1>1, <1>2 DEF DestFails, PushFails, AtDest, ListFails, UploadFails, ThisFile, Typed,
     FilesOfJob,
     Errors
<1> QED
  BY <1>2 DEF Next, Handler, vars, handler, Begin, LinkFails, Gone, DownloadFails, CreateDownload,
     CopyFails, CopyDone, OpenForGeneric, SkipSame, Upload, UploadTrusted, FilesDone, SkipImage,
     Push, Cleanup, Keep,
     Remove, AssertionPanics, Crash, OperationEnds, LoseHandler

(* A destination is left with an error, or with all its files right.       *)
LEMMA DestLeft ==
  ASSUME TInv, DestFails \/ FilesDone \/ SkipImage \/ Push \/ PushFails,
         NEW d \in wanted, d = at, outcome'[d] = {}
  PROVE  Right(d)'
<1> USE DEF TInv, Typed, TypeOK
<1>1. ASSUME NEW error \in Errors, at \in Dests, Note(error)
      PROVE  FALSE
  BY <1>1, Noted
<1>2. CASE DestFails \/ PushFails
  BY <1>1, <1>2 DEF DestFails, PushFails, AtDest, Errors
<1>3. CASE FilesDone
  BY <1>3 DEF FilesDone, Served, Right, Answered, history
<1>4. CASE SkipImage
  BY <1>4 DEF SkipImage
<1>5. CASE Push
  BY <1>5 DEF Push, AtDest, Right, Answered
<1> QED
  BY <1>2, <1>3, <1>4, <1>5

LEMMA ServedNext == TInv /\ [Next]_vars => Served'
<1> SUFFICES ASSUME TInv, [Next]_vars PROVE Served'
  OBVIOUS
<1> USE DEF TInv, Typed
<1>1. wanted' = wanted /\ wanted \subseteq Dests
  BY InputKept DEF input, TypeOK
<1>2. ASSUME NEW d \in Dests, Right(d) PROVE Right(d)'
  BY <1>2, AnsweredStays DEF Right
<1>3. CASE Begin \/ CreateDownload \/ AssertionPanics \/ Crash
  BY <1>3 DEF Begin, CreateDownload, AssertionPanics, Crash, OperationEnds, LoseHandler, Served
<1>4. CASE LinkFails \/ Gone \/ CopyFails
  BY <1>4 DEF LinkFails, Gone, CopyFails, DownloadFails, Served
<1>5. CASE CopyDone
  <2>1. \A d \in wanted : ~(d < at')
    BY <1>1, <1>5 DEF CopyDone, Dests
  <2>2. pc' = "dest"
    BY <1>5 DEF CopyDone
  <2> QED
    BY <1>1, <2>1, <2>2 DEF Served
<1>6. CASE DestFails \/ FilesDone \/ SkipImage \/ Push \/ PushFails
  <2>1. /\ at \in Dests /\ at' = at + 1 /\ pc' = "dest" /\ errs = {}
        /\ pc \in {"dest", "files"}
    BY <1>6 DEF DestFails, FilesDone, SkipImage, Push, PushFails, AtDest, NextDest, FilesOfJob,
       ErrorsEnd
  <2>2. ASSUME NEW d \in wanted, d < at', outcome'[d] = {} PROVE Right(d)'
    <3>1. CASE d = at
      BY <1>6, <2>2, <3>1, DestLeft
    <3>2. CASE d # at
      <4>1. d < at
        BY <1>1, <2>1, <2>2, <3>2 DEF Dests
      <4>2. outcome[d] = {}
        BY <1>1, <2>1, <2>2, ErrorsStay
      <4> QED
        BY <1>1, <1>2, <2>1, <4>1, <4>2 DEF Served
    <3> QED
      BY <3>1, <3>2
  <2> QED
    BY <1>1, <2>1, <2>2 DEF Served
<1>7. CASE OpenForGeneric \/ Cleanup
  BY <1>1, <1>2, <1>7 DEF OpenForGeneric, Cleanup, Served, ErrorsEnd, AtDest
<1>8. ASSUME NEW n \in Names,
             ListFails(n) \/ SkipSame(n) \/ Upload(n) \/ UploadTrusted(n) \/ UploadFails(n)
      PROVE  Served'
  <2>1. /\ pc = "files" /\ pc' = "files" /\ at' = at /\ at \in Dests
        /\ errs = {} /\ errs' = {}
        /\ left' = left \ {n}
    BY <1>8 DEF ListFails, SkipSame, Upload, UploadTrusted, UploadFails, ThisFile, FilesOfJob,
       ErrorsEnd
  <2>2. outcome'[at] = {} => Answered(at, n)'
    <3>1. ASSUME NEW error \in Errors, Note(error) PROVE outcome'[at] # {}
      BY <2>1, <3>1, Noted
    <3>2. CASE Upload(n)
      BY <2>1, <3>2 DEF Upload, Put, Answered, TypeOK
    <3>3. CASE SkipSame(n) \/ UploadTrusted(n)
      BY <2>1, <3>3 DEF SkipSame, UploadTrusted, Answered
    <3> QED
      BY <1>8, <3>1, <3>2, <3>3 DEF ListFails, UploadFails, Errors
  <2>3. \A d \in Dests : outcome'[d] = {} => outcome[d] = {}
    BY <2>1, ErrorsStay
  <2>4. ASSUME NEW m \in Names \ left', outcome'[at] = {} PROVE Answered(at, m)'
    BY <2>1, <2>2, <2>3, <2>4, AnsweredStays DEF Served
  <2> QED
    BY <1>1, <1>2, <2>1, <2>3, <2>4 DEF Served
<1>9. CASE Keep \/ Remove
  BY <1>9 DEF Keep, Remove, Served
<1>10. CASE OperationEnds \/ UNCHANGED vars
  <2>1. UNCHANGED handler
    BY <1>10 DEF OperationEnds, vars
  <2>2. pc = "files" => at \in Dests
    BY DEF FilesOfJob
  <2> QED
    BY <1>1, <1>2, <2>1, <2>2, AnsweredStays DEF Served, handler, TypeOK
<1> QED
  BY <1>3, <1>4, <1>5, <1>6, <1>7, <1>8, <1>9, <1>10 DEF Next, Handler

-----------------------------------------------------------------------------
(* What done means, and what is left of the downloads.                     *)

Answers == WantedCells \subseteq Delivered \cup trusted

(* When all that is wanted is there or answered for, nothing arrives any   *)
(* more but what was answered for, and there are no more answers.          *)
LEMMA ArrivedForGood ==
  ASSUME Typed, Trust, [Next]_vars
  PROVE  /\ WantedCells' = WantedCells
         /\ Answers => Answers'
<1>1. WantedCells' = WantedCells
  BY InputKept DEF input, WantedCells, Cells
<1>2. ASSUME Answers PROVE Answers'
  <2>1. ASSUME NEW d \in Dests, NEW n \in Names, d \in wanted PROVE Answered(d, n)'
    <3>1. Answered(d, n)
      BY <1>2, <2>1 DEF Answers, WantedCells, Delivered, Cells, Answered
    <3> QED
      BY <3>1, AnsweredStays
  <2> QED
    BY <1>1, <2>1 DEF Answers, WantedCells, Delivered, Cells, Answered
<1> QED
  BY <1>1, <1>2

(* A job is done only at the verdict of an attempt without error, and then *)
(* all that is wanted is there or answered for.                            *)
LEMMA VerdictNext ==
  ASSUME TInv, [Next]_vars, verdict' # verdict
  PROVE  /\ verdict # "done"
         /\ verdict' = "done" => Answers
         /\ verdict' \in {"done", "givenUp"}
         /\ UNCHANGED <<remote, trusted>>
<1> USE DEF TInv, Typed, history
<1>1. Remove
  BY DEF Next, Handler, vars, Begin, LinkFails, Gone, DownloadFails, CreateDownload, CopyFails,
   CopyDone, DestFails, OpenForGeneric, ListFails, SkipSame, Upload, UploadTrusted, UploadFails,
   FilesDone, SkipImage, Push, PushFails, Cleanup, Keep, AssertionPanics, Crash, OperationEnds
<1>2. verdict # "done" /\ verdict' \in {"done", "givenUp"}
  BY <1>1 DEF Remove
<1>3. ASSUME verdict' = "done" PROVE Answers
  <2>1. pc = "verdict" /\ errs = {} /\ \A d \in Dests : outcome[d] = {}
    BY <1>1, <1>2, <1>3, NoErrors DEF Remove
  <2>2. \A d \in wanted : d \in Dests /\ d < at
    BY <2>1, TransferAssumption DEF ErrorsEnd, TypeOK, Dests
  <2>3. \A d \in wanted : Right(d)
    BY <2>1, <2>2 DEF Served
  <2> QED
    BY <2>3 DEF Answers, WantedCells, Delivered, Right, Answered, Cells
<1>4. UNCHANGED <<remote, trusted>>
  BY <1>1 DEF Remove
<1> QED
  BY <1>2, <1>3, <1>4

LEMMA DoneNext == TInv /\ [Next]_vars => DoneMeansDelivered'
<1> SUFFICES ASSUME TInv, [Next]_vars PROVE DoneMeansDelivered'
  OBVIOUS
<1>1. verdict' = "done" => Answers
  BY VerdictNext DEF TInv, DoneMeansDelivered, Answers
<1> QED
  BY <1>1, ArrivedForGood DEF TInv, DoneMeansDelivered, Answers

LEMMA DownloadsNext == TInv /\ [Next]_vars => Downloads'
<1> SUFFICES ASSUME TInv, [Next]_vars PROVE Downloads'
  OBVIOUS
<1> USE DEF TInv, Typed, TypeOK, disk, history, Downloads, Holding
<1>1. CASE CreateDownload
  BY <1>1 DEF CreateDownload
<1>2. CASE CopyFails \/ CopyDone
  BY <1>2 DEF CopyFails, CopyDone, Abandon
<1>3. CASE Crash
  BY <1>3 DEF Crash, Abandon, LoseHandler
<1>4. CASE Cleanup \/ AssertionPanics
  BY <1>4 DEF Cleanup, AssertionPanics, RemoveDownload, Abandon, LoseHandler
<1>5. ASSUME UNCHANGED <<archive, downloads, abandoned>>, Holding => Holding'
      PROVE  Downloads'
  BY <1>5
<1>6. CASE OperationEnds \/ UNCHANGED vars
  BY <1>5, <1>6 DEF OperationEnds, vars, handler
<1> QED
  BY <1>1, <1>2, <1>3, <1>4, <1>5, <1>6 DEF Next, Handler, Begin, LinkFails, Gone,
     DownloadFails, DestFails, NextDest, OpenForGeneric, ThisFile, ListFails, SkipSame, Upload,
     UploadTrusted, UploadFails, FilesDone, SkipImage, Push, PushFails, Keep, Remove

(* The archive of a run or a release has one name only.                    *)
LEMMA OneName ==
  ASSUME TInv, [Next]_vars, source # "container", NEW a \in Archives, a # archive'
  PROVE  downloads'[a] = "absent"
<1> USE DEF TInv, Typed, TypeOK, disk, CleanedUp
<1>1. CASE CreateDownload
  BY <1>1 DEF CreateDownload
<1>2. CASE CopyDone
  BY <1>2 DEF CopyDone
<1>3. CASE Cleanup \/ AssertionPanics
  BY <1>3 DEF Cleanup, AssertionPanics, RemoveDownload
<1> QED
  BY <1>1, <1>2, <1>3 DEF Next, Handler, vars, Begin, LinkFails, Gone, CopyFails, DownloadFails,
     DestFails, OpenForGeneric, ListFails, SkipSame, Upload, UploadTrusted, UploadFails, FilesDone,
     SkipImage, Push, PushFails, Keep, Remove, Crash, OperationEnds

LEMMA OwnCleanedUpNext == TInv /\ [Next]_vars => OwnCleanedUp'
<1> SUFFICES ASSUME TInv, [Next]_vars PROVE OwnCleanedUp'
  OBVIOUS
<1> USE DEF TInv, Typed, disk, history, CleanedUp, OwnCleanedUp
<1>1. CASE jobFile = "removed"
  <2>1. UNCHANGED <<jobFile, pc, errs, outcome, disk, abandoned>>
    BY <1>1 DEF Next, Handler, vars, handler, Begin, LinkFails, Gone, DownloadFails,
       CreateDownload, CopyFails, CopyDone, DestFails, AtDest, OpenForGeneric, ThisFile, ListFails,
       SkipSame, Upload, UploadTrusted, UploadFails, FilesDone, SkipImage, Push, PushFails, Cleanup,
       Keep, Remove, AssertionPanics, Crash, OperationEnds
  <2> QED
    BY <2>1 DEF AllErrors
<1>2. CASE jobFile # "removed"
  <2>1. CASE LinkFails \/ Gone \/ CopyFails
    BY <1>2, <2>1 DEF LinkFails, Gone, CopyFails, DownloadFails, AllErrors
  <2>2. CASE Cleanup
    BY <1>2, <2>2 DEF Cleanup, RemoveDownload, Abandon, TypeOK
  <2>3. CASE Remove
    BY <1>2, <2>3 DEF Remove, AllErrors
  <2>4. CASE OperationEnds \/ UNCHANGED vars
    BY <2>4 DEF OperationEnds, vars, handler, AllErrors
  <2>5. ASSUME jobFile' = jobFile, pc' # "verdict" PROVE OwnCleanedUp'
    BY <1>2, <2>5
  <2> QED
    BY <1>2, <2>1, <2>2, <2>3, <2>4, <2>5 DEF Next, Handler, Begin, CreateDownload, CopyDone,
       DestFails, NextDest, OpenForGeneric, ThisFile, ListFails, SkipSame, Upload, UploadTrusted,
       UploadFails, FilesDone, SkipImage, Push, PushFails, Keep, AssertionPanics, Crash, LoseHandler
<1> QED
  BY <1>1, <1>2

LEMMA CleanedUpNext == TInv /\ [Next]_vars => CleanedUp'
BY OwnCleanedUpNext, OneName, InputKept DEF CleanedUp, input

LEMMA TransferInvariant == Spec => []TInv
<1>1. TInv /\ [Next]_vars => TInv'
  BY TypedNext, ErrorsEndNext, TrustNext, ServedNext, DoneNext, DownloadsNext,
     CleanedUpNext DEF TInv
<1> QED
  BY <1>1, TransferInitial, PTL DEF Spec

(* The handler's variables keep their types: the destinations are counted  *)
(* to one beyond the last, and what is accepted stays so.                  *)
THEOREM TransferTyped == Spec => []TypeOK
<1>1. TInv => TypeOK
  BY DEF TInv, Typed
<1> QED
  BY <1>1, TransferInvariant, PTL

(* A job without error has every file at every destination that wants it,  *)
(* whatever broke off in this attempt or in others before, except those    *)
(* answered with a 200 that did not hold.                                  *)
THEOREM DoneIsDelivered == Spec => []DoneMeansDelivered
<1>1. TInv => DoneMeansDelivered
  BY DEF TInv
<1> QED
  BY <1>1, TransferInvariant, PTL

(* Where a 200 always means that the Operation is done, done means that    *)
(* all is there, without exception.                                        *)
THEOREM DoneIsThereIfAnswersHold ==
  "operation" \notin Faults => (Spec => [](verdict = "done" => WantedCells \subseteq Delivered))
<1> SUFFICES ASSUME "operation" \notin Faults
             PROVE  Spec => [](verdict = "done" => WantedCells \subseteq Delivered)
  OBVIOUS
<1>1. TInv => (verdict = "done" => WantedCells \subseteq Delivered)
  BY DEF TInv, Trust, DoneMeansDelivered
<1> QED
  BY <1>1, TransferInvariant, PTL

(* It has no download either, unless the removal of that had failed or a   *)
(* container's tag has moved after a download that broke off.              *)
THEOREM DoneIsCleanedUp == Spec => []DoneLeavesNoDownload
<1>1. TInv => DoneLeavesNoDownload
  BY DEF TInv, CleanedUp, OwnCleanedUp, DoneLeavesNoDownload
<1> QED
  BY <1>1, TransferInvariant, PTL

(* However an attempt ends, by a verdict, an error or a panic, it leaves a *)
(* download only when that broke off, the process stopped with it, or the  *)
(* removal failed.                                                         *)
THEOREM DownloadsLeftAreCut == Spec => []OnlyCutsLeaveDownloads
<1>1. TInv => OnlyCutsLeaveDownloads
  BY DEF TInv, Downloads, Holding, OnlyCutsLeaveDownloads
<1> QED
  BY <1>1, TransferInvariant, PTL

-----------------------------------------------------------------------------
(* Refinement.                                                             *)

LEMMA DeliverStep ==
  ASSUME TInv, [Next]_vars, UNCHANGED verdict, NEW d \in Dests, NEW n \in Names, Comes(d, n)
  PROVE  Promise!Deliver({<<d, n>>})
<1> USE DEF TInv, Typed, TypeOK, Comes
<1>1. <<d, n>> \in WantedCells /\ <<d, n>> \notin Delivered
  BY DEF WantedCells, Delivered, Cells
<1>2. verdict # "done" \/ <<d, n>> \in trusted
  BY <1>1 DEF DoneMeansDelivered
<1>3. Delivered' = Delivered \cup {<<d, n>>}
  <2>1. \A e \in Dests, m \in Names :
          remote'[e][m] = IF e = d /\ m = n THEN "right" ELSE remote[e][m]
    OBVIOUS
  <2> QED
    BY <2>1 DEF Delivered, Cells
<1> QED
  BY <1>1, <1>2, <1>3, ArrivedForGood DEF Promise!Deliver

LEMMA AcceptStep ==
  ASSUME TInv, [Next]_vars, UNCHANGED verdict, NEW d \in Dests, NEW n \in Names, IsAnswered(d, n)
  PROVE  Promise!Accept({<<d, n>>}) \/ UNCHANGED Promise!vars
<1> USE DEF TInv, Typed, TypeOK, IsAnswered
<1>1. <<d, n>> \in WantedCells /\ <<d, n>> \notin Delivered /\ Delivered' = Delivered
  BY DEF WantedCells, Delivered, Cells
<1>2. verdict # "done" \/ <<d, n>> \in trusted
  BY <1>1 DEF DoneMeansDelivered
<1> QED
  BY <1>1, <1>2, ArrivedForGood DEF Promise!Accept, Promise!vars

LEMMA ImageStep ==
  ASSUME TInv, [Next]_vars, UNCHANGED verdict, NEW d \in Dests, ImageComes(d)
  PROVE  Promise!Deliver(Delivered' \ Delivered)
<1> USE DEF TInv, Typed, TypeOK, ImageComes
<1>1. \A e \in Dests, m \in Names : remote'[e][m] = IF e = d THEN "right" ELSE remote[e][m]
  OBVIOUS
<1>2. Delivered' = Delivered \cup (Delivered' \ Delivered)
  BY <1>1 DEF Delivered, Cells
<1>3. \A c \in Delivered' \ Delivered :
        c \in WantedCells /\ c[1] = d /\ c[2] \in Names /\ c = <<c[1], c[2]>>
  BY <1>1 DEF Delivered, WantedCells, Cells
<1>4. trusted' = trusted \ (Delivered' \ Delivered)
  BY <1>3 DEF Trust
<1>5. verdict = "done" => Delivered' \ Delivered = {}
  BY <1>3 DEF Trust, DoneMeansDelivered
<1> QED
  BY <1>2, <1>4, <1>5, ArrivedForGood DEF Promise!Deliver

(* Attempts, faults and crashes implement Delivery: the upload of a file   *)
(* or the push of an image is its Deliver, whether the answer is lost or   *)
(* not, an unread Operation its Accept, the verdict its Complete or        *)
(* GiveUp, and all else does not show.                                     *)
THEOREM TransferImplementsDelivery == Spec => DeliversAsPromised
<1> USE DEF Promise!vars
<1>1. Init => Promise!Init
  BY DEF Init, Promise!Init, WantedCells, Delivered, Cells
<1>2. TInv /\ [Next]_vars => [Promise!Next]_(Promise!vars)
  <2> SUFFICES ASSUME TInv, [Next]_vars PROVE [Promise!Next]_(Promise!vars)
    OBVIOUS
  <2>1. WantedCells' = WantedCells
    BY ArrivedForGood DEF TInv
  <2>2. UNCHANGED <<remote, trusted>> => UNCHANGED <<Delivered, trusted>>
    BY DEF Delivered, Cells
  <2>3. CASE verdict' # verdict
    BY <2>1, <2>2, <2>3, VerdictNext DEF Answers, Promise!Next, Promise!Complete, Promise!GiveUp
  <2>4. ASSUME verdict' = verdict, NEW d \in Dests, NEW n \in Names, Comes(d, n) \/ IsAnswered(d, n)
        PROVE  [Promise!Next]_(Promise!vars)
    <3>1. {<<d, n>>} \in SUBSET Cells
      BY DEF Cells
    <3> QED
      BY <2>4, <3>1, DeliverStep, AcceptStep DEF Promise!Next
  <2>5. ASSUME verdict' = verdict, NEW d \in Dests, ImageComes(d)
        PROVE  [Promise!Next]_(Promise!vars)
    <3>1. Delivered' \ Delivered \in SUBSET Cells
      BY DEF Delivered, Cells
    <3> QED
      BY <2>5, <3>1, ImageStep DEF Promise!Next
  <2> QED
    BY <2>1, <2>2, <2>3, <2>4, <2>5, RemoteSteps DEF TInv
<1> QED
  BY <1>1, <1>2, TransferInvariant, PTL DEF Spec, DeliversAsPromised, Promise!Spec
=============================================================================

----------------------- MODULE ContainerSyncProofs -----------------------
(***************************************************************************)
(* What becomes of a tag, proved for any versions, order of events and     *)
(* faults but one: the destination ends up with the version that has the   *)
(* tag, and its sub-images can be reached by platform.  The fault left out *)
(* is an index json that cannot be opened: whichever of the images comes   *)
(* first is then pushed in place of the index.                             *)
(***************************************************************************)
EXTENDS ContainerImageProofs

-----------------------------------------------------------------------------
(* The invariant.                                                          *)

(* The tarballs that an archive of v has.                                  *)
Tars(v) ==
  IF Content[v].index
  THEN {d.digest : d \in {d \in Pulled(v) : d.platform # ""}}
  ELSE {Content[v].manifests[1].digest}

(* The archive is one of from, except for what was noticed to be missing.  *)
Faithful ==
  /\ archive.json = Content[from].index
  /\ archive.json =>
       archive.list = Content[from].manifests \/ (archive.list = <<>> /\ archive.errors)
  /\ archive.tars \subseteq Tars(from)
  /\ ~archive.errors => archive.tars = Tars(from)

(* A job that was taken up after the version that has the tag had its      *)
(* event delivered is about this version: the registry was asked later.    *)
Asks == current \notin events \cup pending \/ job = current

Following ==
  Asks /\ current # NoVersion /\ pc \in {"pull", "open", "push"} /\ job \notin Tagless =>
    from = current /\ (pc \in {"open", "push"} => Faithful)

(* Errors are those of reading the archive.                                *)
Unread == pc = "open" => ~archive.errors

(* Once that version's own job is done, or has but to tag the sub-images,  *)
(* the destination has it.                                                 *)
Synced ==
  Due /\ ~refused /\ (current \notin events \cup pending \/ (pc = "tag" /\ job = current)) =>
    remote = Mirror(current)

Items(image) == SubImages(image) \cup SubAttestations(image)
Reached(item) == [item EXCEPT !.digest = subTags[item.tag]] \in Items(remote)

(* What has been tagged since the push stands for entries of the index.    *)
Tagging ==
  pc = "tag" =>
    /\ left \subseteq Items(remote)
    /\ ~untagged => \A item \in Items(remote) \ left : Reached(item)

(* Tags are missing only as long as a job is left that may push again.     *)
Tagged ==
  Due /\ ~refused /\ remote.index /\ ~untagged /\ events \cup pending \subseteq Tagless =>
    \A item \in Items(remote) : Reached(item)

FInv == Unread /\ Following /\ Synced /\ Tagging /\ Tagged

-----------------------------------------------------------------------------
(* What is pushed of a faithful archive.                                   *)

LEMMA RegularTars ==
  ASSUME NEW v \in RegularOnes
  PROVE  Tars(v) = {d.digest : d \in Entries(Content[v].manifests)}
<1> DEFINE list == Content[v].manifests
<1>1. v \in Versions /\ list \in Seq(Descriptors) /\ Len(list) > 0
  BY RegularEntries
<1>2. CASE Content[v].index
  <2>1. \A d \in Entries(list) : d.kind # "other" /\ d.platform # ""
    BY RegularEntries
  <2>2. {d \in Pulled(v) : d.platform # ""} = Entries(list)
    BY <2>1 DEF Pulled
  <2> QED
    BY <1>2, <2>2 DEF Tars
<1>3. CASE ~Content[v].index
  <2>1. Entries(list) = {list[1]}
    BY <1>1, <1>3, ContentAssumption DEF Entries
  <2> QED
    BY <1>3, <2>1 DEF Tars
<1> QED
  BY <1>2, <1>3

LEMMA NothingChosen ==
  ASSUME NEW v, Chosen(v) = {}
  PROVE  Mirror(v) = Nothing
<1>1. (Cardinality(Chosen(v)) > 1) = FALSE
  BY FS_EmptySet
<1>2. {Copy(d) : d \in Chosen(v)} = {}
  OBVIOUS
<1> QED
  BY <1>1, <1>2, MirrorCopies DEF Nothing

LEMMA SingleChosen ==
  ASSUME NEW v \in RegularOnes, ~Content[v].index
  PROVE  LET d == Content[v].manifests[1] IN
         /\ Tars(v) = {d.digest}
         /\ HasPlatform(Config[d.digest]) => Mirror(v) = BareImage(d.digest)
         /\ ~HasPlatform(Config[d.digest]) => Mirror(v) = Nothing
<1> DEFINE d == Content[v].manifests[1]
<1>1. Entries(Content[v].manifests) = {d} /\ d.kind = "image"
  <2>1. v \in Versions /\ Content[v].manifests \in Seq(Descriptors)
    BY RegularEntries
  <2>2. Len(Content[v].manifests) = 1 /\ d.kind = "image"
    BY <2>1, ContentAssumption
  <2> QED
    BY <2>1, <2>2 DEF Entries
<1> HIDE DEF d
<1>2. d \in Entries(Content[v].manifests)
  BY <1>1
<1>3. d \in Descriptors /\ Config[d.digest] = d.platform /\ d.attests = NoDigest
  BY <1>1, <1>2, RegularEntries
<1>4. Tars(v) = {d.digest}
  BY DEF Tars, d
<1>5. ASSUME HasPlatform(Config[d.digest]) PROVE Mirror(v) = BareImage(d.digest)
  <2>1. Chosen(v) = {d}
    BY <1>1, <1>3, <1>5 DEF Chosen
  <2>2. (Cardinality(Chosen(v)) > 1) = FALSE
    <3>1. Cardinality({d}) = 1
      BY FS_Singleton
    <3> QED
      BY <2>1, <3>1
  <2>3. Copy(d) = Descriptor("image", Repacked[d.digest], Config[d.digest], NoDigest)
    BY <1>1, <1>3 DEF Copy
  <2>4. {Copy(x) : x \in Chosen(v)} = {Copy(d)}
    BY <2>1
  <2> QED
    BY <2>2, <2>3, <2>4, MirrorCopies DEF BareImage
<1>6. ASSUME ~HasPlatform(Config[d.digest]) PROVE Mirror(v) = Nothing
  <2>1. Chosen(v) = {}
    BY <1>1, <1>3, <1>6 DEF Chosen
  <2> QED
    BY <2>1, NothingChosen
<1> QED
  BY <1>4, <1>5, <1>6 DEF d

LEMMA FaithfulPrepared ==
  ASSUME Typed, pc = "push", Faithful, from \in RegularOnes, NEW image \in Prepared
  PROVE  image = Mirror(from)
<1>1. CASE archive.json
  BY <1>1, RegularPrepared
<1>2. CASE ~archive.json
  <2> DEFINE d == Content[from].manifests[1]
  <2>1. ~Content[from].index
    BY <1>2 DEF Faithful
  <2>2. PICK t \in archive.tars : HasPlatform(Config[t]) /\ image = BareImage(t)
    BY <1>2 DEF Prepared, Bare, Containers
  <2>3. t = d.digest
    BY <2>1, <2>2, SingleChosen DEF Faithful
  <2> QED
    BY <2>1, <2>2, <2>3, SingleChosen
<1> QED
  BY <1>1, <1>2

(* A job is given up only if the destination should have nothing of it.    *)
LEMMA NothingToPush ==
  ASSUME Typed, pc = "push", Faithful, from \in RegularOnes, ~archive.errors, Containers = {}
  PROVE  Mirror(from) = Nothing
<1>1. archive.tars = Tars(from)
  BY DEF Faithful
<1>2. CASE archive.json
  <2>1. Kept = Chosen(from)
    BY <1>2, RegularFiltered DEF Faithful, Kept
  <2>2. \A d \in Kept : d.digest \in archive.tars
    BY <1>1, <2>1, RegularTars DEF Chosen
  <2>3. Kept = {}
    BY <1>2, <2>2 DEF Containers
  <2> QED
    BY <2>1, <2>3, NothingChosen
<1>3. CASE ~archive.json
  <2>1. ~Content[from].index
    BY <1>3 DEF Faithful
  <2> QED
    BY <1>1, <1>3, <2>1, SingleChosen DEF Containers
<1> QED
  BY <1>2, <1>3

-----------------------------------------------------------------------------
(* The steps.                                                              *)

LEMMA FollowsFromStart == Init => FInv
BY DEF Init, Nothing, FInv, Unread, Following, Synced, Tagging, Tagged, Due

LEMMA UnreadNext ==
  ASSUME Unread, [Next]_vars
  PROVE  Unread'
<1> SUFFICES ASSUME pc' = "open" PROVE ~archive'.errors
  BY DEF Unread
<1>1. CASE UNCHANGED <<pc, archive>>
  BY <1>1 DEF Unread
<1>2. CASE PullImage \/ PullIndex \/ \E v \in Versions : \E d \in DefaultImages(v) : PullDefaultImage(d)
  <2>1. PICK json, list, tars : Pull(json, list, tars)
    BY <1>2 DEF PullImage, PullIndex, PullDefaultImage
  <2>2. archive' = [json |-> json, list |-> list, tars |-> tars, errors |-> FALSE]
    BY <2>1 DEF Pull
  <2> QED
    BY <2>2
<1> QED
  BY <1>1, <1>2
     DEF Next, Worker, Publish, DeliverEvent, Begin, GetDescriptor, DownloadFails, PullFails, SkipTagless,
     UploadFails, Open, NoMatch, CanPush, Push, PushLost, PushRejected, TagSubImage, TagFails, TagNext,
     NoIndexBack, Finish, Panic, Retry, Settle, Crash, LetGo, vars, worker

(* What the tag stands for is due as long as it does.                      *)
LEMMA DueStays ==
  ASSUME [Next]_vars, current' = current
  PROVE  /\ Due' => Due
         /\ Mirror(current)' = Mirror(current)
<1>1. filter' = filter
  BY RemoteNext
<1>2. Mirror(current)' = Mirror(current)
  BY <1>1 DEF Mirror, HasPlatform
<1> QED
  BY <1>2 DEF Due, RegularOnes

(* A version that takes the tag over has its event before it.              *)
LEMMA TagMoves ==
  ASSUME Typed, NEW v \in Versions, Publish(v)
  PROVE  /\ UNCHANGED <<pending, filter, worker, destination, untagged>>
         /\ \/ /\ v \in Tagless /\ current' = current /\ refused' = refused
               /\ current \notin events' \cup pending' => current \notin events \cup pending
               /\ events' \cup pending' \subseteq Tagless => events \cup pending \subseteq Tagless
            \/ /\ v \notin Tagless /\ current' = v /\ v \in events' /\ job # v
<1>1. UNCHANGED <<pending, filter, worker, destination, untagged>>
  BY DEF Publish
<1>2. CASE v \in Tagless
  <2>1. current' = current /\ refused' = (refused /\ TRUE) /\ events \subseteq events' /\ pending' = pending
    BY <1>2 DEF Publish
  <2> QED
    BY <1>1, <1>2, <2>1 DEF Typed, DestinationTyped
<1>3. CASE v \notin Tagless
  BY <1>1, <1>3, ContainerAssumption DEF Publish, Typed, SourceTyped, WorkerTyped
<1> QED
  BY <1>2, <1>3

-----------------------------------------------------------------------------
(* Jobs are about the version that has the tag.                            *)

LEMMA PullFollows ==
  ASSUME Typed, Following, NEW json \in BOOLEAN, NEW list, NEW tars, Pull(json, list, tars),
         Asks /\ current # NoVersion /\ job \notin Tagless =>
           /\ json = Content[Asked].index
           /\ json => list = Content[Asked].manifests
           /\ tars = Tars(Asked)
  PROVE  Following'
<1> SUFFICES ASSUME Asks', current' # NoVersion, job' \notin Tagless'
             PROVE  from' = current' /\ Faithful'
  BY DEF Following
<1>1. UNCHANGED <<published, current, events, pending, job>> /\ from' = Asked
  BY DEF Pull, source
<1>2. Asks /\ current # NoVersion /\ job \notin Tagless
  BY <1>1 DEF Asks
<1>3. Asked = current
  BY <1>2 DEF Asked
<1>4. archive' = [json |-> json, list |-> list, tars |-> tars, errors |-> FALSE]
  BY DEF Pull
<1>5. Faithful'
  BY <1>1, <1>2, <1>4 DEF Faithful, Tars, Pulled, Entries
<1> QED
  BY <1>1, <1>3, <1>5

LEMMA OpenFollows ==
  ASSUME "json" \notin Faults, Typed, Unread, Following, Open
  PROVE  Following'
<1> SUFFICES ASSUME Asks', current' # NoVersion, job' \notin Tagless'
             PROVE  from' = current' /\ Faithful'
  BY DEF Following
<1>1. UNCHANGED <<published, current, events, pending, job, from>> /\ pc = "open"
  BY DEF Open, source
<1>2. from = current /\ Faithful /\ ~archive.errors
  BY <1>1 DEF Asks, Following, Unread
<1>3. archive \in [json : BOOLEAN, list : Seq(Descriptors), tars : SUBSET Digests, errors : BOOLEAN]
  BY DEF Typed, WorkerTyped, ArchiveTyped
<1>4. PICK tars \in SUBSET archive.tars :
        \/ archive' = [archive EXCEPT !.tars = tars, !.errors = tars # archive.tars]
        \/ archive' = [archive EXCEPT !.tars = tars, !.list = <<>>, !.errors = TRUE]
  BY DEF Open
<1>5. /\ archive'.json = archive.json
      /\ archive'.tars \subseteq archive.tars
      /\ archive'.errors \/ archive'.tars = archive.tars
      /\ archive'.list = archive.list \/ (archive'.list = <<>> /\ archive'.errors)
  BY <1>3, <1>4
<1>6. Tars(from)' = Tars(from)
  BY <1>1 DEF Tars, Pulled, Entries
<1>7. Faithful'
  BY <1>1, <1>2, <1>5, <1>6 DEF Faithful
<1> QED
  BY <1>1, <1>2, <1>7

LEMMA FollowingNext ==
  ASSUME "json" \notin Faults, Typed, Unread, Following, [Next]_vars
  PROVE  Following'
<1> DEFINE Away == pc' \notin {"pull", "open", "push"}
<1>1. ASSUME NEW v \in Versions, Publish(v) PROVE Following'
  BY <1>1, TagMoves DEF Following, Asks, Faithful, Tars, Pulled, worker
<1>2. ASSUME NEW v \in Versions, DeliverEvent(v) PROVE Following'
  BY <1>2 DEF DeliverEvent, Following, Asks, Faithful, Tars, Pulled, worker
<1>3. CASE GetDescriptor
  BY <1>3 DEF GetDescriptor, Asked, Following, source, Asks
<1>4. CASE PullImage
  <2>1. Asked \in Versions => Tars(Asked) = {Content[Asked].manifests[1].digest}
    BY <1>4 DEF PullImage, Tars
  <2>2. Asked \in Versions
    BY <1>4, AskedPublished DEF PullImage, Typed, SourceTyped
  <2>3. Pull(FALSE, <<>>, {Content[Asked].manifests[1].digest}) /\ Content[Asked].index = FALSE
    BY <1>4, <2>2, ContainerAssumption DEF PullImage
  <2> QED
    BY <2>1, <2>2, <2>3, PullFollows
<1>5. CASE PullIndex
  BY <1>5, PullFollows DEF PullIndex, Tars
<1>6. ASSUME NEW v \in Versions, NEW d \in DefaultImages(v), PullDefaultImage(d) PROVE Following'
  <2>1. ~(Asks /\ current # NoVersion /\ job \notin Tagless)
    BY <1>6 DEF PullDefaultImage, Following, Asked
  <2> QED
    BY <1>6, <2>1, PullFollows DEF PullDefaultImage
<1>7. CASE Open
  BY <1>7, OpenFollows
<1>8. CASE UNCHANGED vars
  BY <1>8 DEF vars, source, worker, Following, Asks, Faithful, Tars, Pulled
<1>9. Away => Following'
  BY DEF Following
<1>10. ASSUME NEW v \in Versions, Begin(v) PROVE Away
  BY <1>10 DEF Begin
<1>11. CASE DownloadFails \/ PullFails \/ UploadFails \/ Crash \/ Panic \/ SkipTagless \/ NoMatch
            \/ Push \/ PushLost \/ PushRejected \/ NoIndexBack \/ Finish
  <2>1. Away
    BY <1>11 DEF DownloadFails, PullFails, UploadFails, Crash, Panic, SkipTagless, NoMatch, Push, PushLost,
       PushRejected, NoIndexBack, Finish, Retry, Settle, LetGo
  <2> QED
    BY <1>9, <2>1
<1>12. ASSUME NEW item \in left, TagSubImage(item) \/ TagFails(item) PROVE Away
  BY <1>12 DEF TagSubImage, TagFails, TagNext
<1> QED
  BY <1>1, <1>2, <1>3, <1>4, <1>5, <1>6, <1>7, <1>8, <1>9, <1>10, <1>11, <1>12 DEF Next, Worker

-----------------------------------------------------------------------------
(* What the destination has of it.                                         *)

LEMMA PushesCurrent ==
  ASSUME Typed, Following, pc = "push", Asks, current # NoVersion
  PROVE  from = current /\ Faithful
BY DEF Typed, WorkerTyped, Following

LEMMA SettlesLast ==
  ASSUME Settle, current \notin events' \cup pending'
  PROVE  Asks
BY DEF Settle, Asks

(* The steps that change neither jobs nor what is at the destination.      *)
Aside ==
  /\ UNCHANGED <<current, events, pending, destination, history>>
  /\ pc' # "tag" \/ UNCHANGED <<pc, job, left>>

LEMMA AsideSteps ==
  ASSUME [Next]_vars
  PROVE  \/ \E v \in Versions : Publish(v) \/ DeliverEvent(v)
         \/ Aside
         \/ SkipTagless
         \/ NoMatch /\ Settle /\ ~archive.errors
         \/ Push \/ PushLost \/ PushRejected
         \/ \E item \in left : TagSubImage(item) \/ TagFails(item)
         \/ NoIndexBack \/ Finish
<1>1. CASE UNCHANGED vars
  BY <1>1 DEF vars, Aside, source, worker
<1>2. (\E v \in Versions : Begin(v)) => Aside
  BY DEF Begin, Aside, source
<1>3. GetDescriptor \/ Open => Aside
  BY DEF GetDescriptor, Open, Aside, source
<1>4. PullImage \/ PullIndex \/ (\E v \in Versions : \E d \in DefaultImages(v) : PullDefaultImage(d)) => Aside
  BY DEF PullImage, PullIndex, PullDefaultImage, Pull, Aside, source
<1>5. DownloadFails \/ PullFails \/ UploadFails \/ Crash \/ Panic => Aside
  BY DEF DownloadFails, PullFails, UploadFails, Crash, Panic, Retry, LetGo, Aside, source
<1>6. NoMatch => Aside \/ (Settle /\ ~archive.errors)
  BY DEF NoMatch, Retry, LetGo, Aside, source
<1>7. CASE Worker
  BY <1>2, <1>3, <1>4, <1>5, <1>6, <1>7 DEF Worker
<1>8. CASE Crash
  BY <1>5, <1>8
<1> QED
  BY <1>1, <1>7, <1>8 DEF Next

LEMMA SyncedNext ==
  ASSUME Typed, Following, Synced, [Next]_vars
  PROVE  Synced'
<1> SUFFICES ASSUME Due', ~refused',
                    current' \notin events' \cup pending' \/ (pc' = "tag" /\ job' = current')
             PROVE  remote' = Mirror(current)'
  BY DEF Synced
<1>1. ASSUME current' = current
      PROVE  /\ Due /\ current \in Versions /\ current \notin Tagless /\ current # NoVersion
             /\ current \in RegularOnes /\ Mirror(current) # Nothing
             /\ Mirror(current)' = Mirror(current)
  BY <1>1, DueStays DEF Due, Typed, SourceTyped
<1>2. ASSUME NEW v \in Versions, Publish(v) PROVE remote' = Mirror(current)'
  BY <1>1, <1>2, TagMoves DEF Synced, worker, destination
<1>3. ASSUME NEW v \in Versions, DeliverEvent(v) PROVE remote' = Mirror(current)'
  <2>1. current' = current /\ refused' = refused /\ remote' = remote /\ pc' = pc /\ job' = job
    BY <1>3 DEF DeliverEvent, worker, destination, history
  <2>2. current \notin events' \cup pending' => current \notin events \cup pending
    BY <1>3 DEF DeliverEvent
  <2> QED
    BY <1>1, <2>1, <2>2 DEF Synced
<1>4. ASSUME Aside PROVE remote' = Mirror(current)'
  BY <1>1, <1>4 DEF Aside, destination, history, Synced
<1>5. CASE SkipTagless
  <2>1. current' = current /\ refused' = refused /\ remote' = remote /\ pc' = "idle" /\ job \in Tagless
    BY <1>5 DEF SkipTagless, Settle, LetGo, destination, history
  <2>2. current \notin events \cup pending
    BY <1>1, <1>5, <2>1 DEF SkipTagless, Settle
  <2> QED
    BY <1>1, <2>1, <2>2 DEF Synced
<1>6. CASE NoMatch /\ Settle /\ ~archive.errors
  <2>1. current' = current /\ pc' = "idle" /\ pc = "push" /\ Containers = {}
    BY <1>6 DEF NoMatch, Settle, LetGo
  <2>2. from = current /\ Faithful
    BY <1>1, <1>6, <2>1, SettlesLast, PushesCurrent
  <2> QED
    BY <1>1, <1>6, <2>1, <2>2, NothingToPush
<1>7. ASSUME Push PROVE remote' = Mirror(current)'
  <2>1. PICK image \in Prepared :
          /\ remote' = image
          /\ \/ pc' = "tag" /\ UNCHANGED <<source, job>>
             \/ Settle
    BY <1>7 DEF Push
  <2>2. current' = current /\ pc = "push"
    BY <1>7, <2>1 DEF Push, CanPush, Settle, source
  <2>3. Asks
    BY <2>1, <2>2, SettlesLast DEF source, Asks, Settle, LetGo
  <2>4. from = current /\ Faithful
    BY <1>1, <2>2, <2>3, PushesCurrent
  <2> QED
    BY <1>1, <2>1, <2>2, <2>4, FaithfulPrepared
<1>8. CASE PushLost
  <2>1. PICK image \in Prepared : remote' \in {remote, image}
    BY <1>8 DEF PushLost
  <2>2. /\ UNCHANGED <<current, events, pending, refused>> /\ pc = "push" /\ pc' = "idle"
    BY <1>8 DEF PushLost, CanPush, LetGo, source, history
  <2>3. remote = Mirror(current) /\ from = current /\ Faithful
    BY <1>1, <2>2, PushesCurrent DEF Synced, Asks
  <2> QED
    BY <1>1, <2>1, <2>2, <2>3, FaithfulPrepared
<1>9. CASE PushRejected
  <2>1. current' = current /\ pc = "push" /\ pc' = "idle" /\ Settle /\ (refused' = (refused \/ from = current))
    BY <1>9 DEF PushRejected, CanPush, Settle, LetGo
  <2>2. from = current
    BY <1>1, <2>1, SettlesLast, PushesCurrent
  <2> QED
    BY <2>1, <2>2
<1>10. ASSUME NEW item \in left, TagSubImage(item) \/ TagFails(item) PROVE remote' = Mirror(current)'
  BY <1>1, <1>10 DEF TagSubImage, TagFails, TagNext, source, Synced
<1>11. CASE NoIndexBack \/ Finish
  <2>1. /\ current' = current /\ refused' = refused /\ remote' = remote /\ pc = "tag" /\ pc' = "idle"
        /\ Settle
    BY <1>11 DEF NoIndexBack, Finish, Settle, LetGo, destination, history
  <2>2. current \notin events \cup pending \/ job = current
    BY <2>1, SettlesLast DEF Asks
  <2> QED
    BY <1>1, <2>1, <2>2 DEF Synced
<1> QED
  BY <1>2, <1>3, <1>4, <1>5, <1>6, <1>7, <1>8, <1>9, <1>10, <1>11, AsideSteps

-----------------------------------------------------------------------------
(* The tags of sub-images.                                                 *)

LEMMA TaggingNext ==
  ASSUME Typed, Tagging, [Next]_vars
  PROVE  Tagging'
<1> SUFFICES ASSUME pc' = "tag"
             PROVE  /\ left' \subseteq Items(remote')
                    /\ ~untagged' => \A item \in Items(remote') \ left' :
                         [item EXCEPT !.digest = subTags'[item.tag]] \in Items(remote')
  BY DEF Tagging, Reached, Items, SubImages, SubAttestations
<1>1. CASE pc = "tag" /\ UNCHANGED <<left, destination, untagged>>
  BY <1>1 DEF Tagging, Reached, destination
<1>2. ASSUME NEW v \in Versions, Publish(v) \/ DeliverEvent(v)
      PROVE  pc = "tag" /\ UNCHANGED <<left, destination, untagged>>
  BY <1>2 DEF Publish, DeliverEvent, worker, history
<1>3. Aside => pc = "tag" /\ UNCHANGED <<left, destination, untagged>>
  BY DEF Aside, history
<1>4. CASE Push
  <2>1. left' = Items(remote')
    BY <1>4 DEF Push, Settle, LetGo, Items
  <2> QED
    BY <2>1
<1>5. ASSUME NEW item \in left, TagSubImage(item) \/ TagFails(item)
      PROVE  /\ left' \subseteq Items(remote')
             /\ ~untagged' => \A x \in Items(remote') \ left' :
                  [x EXCEPT !.digest = subTags'[x.tag]] \in Items(remote')
  <2>1. pc = "tag" /\ remote' = remote /\ left' = left \ {item} /\ item \in Items(remote)
    BY <1>5 DEF TagSubImage, TagFails, TagNext, Tagging
  <2>2. CASE TagFails(item)
    BY <2>1, <2>2 DEF TagFails, Tagging
  <2>3. CASE TagSubImage(item)
    <3>1. untagged' = untagged /\ subTags' = [subTags EXCEPT ![item.tag] = item.digest]
      BY <2>3 DEF TagSubImage
    <3>2. \A x \in Items(remote) : x \in [tag : SubTagNames, digest : Digests]
      BY ItemsTyped DEF Items, Typed, DestinationTyped
    <3>3. subTags \in [SubTagNames -> DigestOrNone]
      BY DEF Typed, DestinationTyped
    <3>4. ASSUME NEW x \in Items(remote), x.tag = item.tag
          PROVE  [x EXCEPT !.digest = subTags'[x.tag]] \in Items(remote)
      <4>1. x \in [tag : SubTagNames, digest : Digests] /\ item \in [tag : SubTagNames, digest : Digests]
        BY <2>1, <3>2
      <4>2. subTags'[x.tag] = item.digest
        BY <3>1, <3>3, <3>4, <4>1
      <4>3. [x EXCEPT !.digest = item.digest] = item
        BY <3>4, <4>1
      <4> QED
        BY <2>1, <4>2, <4>3
    <3>5. ASSUME NEW x \in Items(remote) \ left, x.tag # item.tag, ~untagged
          PROVE  [x EXCEPT !.digest = subTags'[x.tag]] \in Items(remote)
      <4>1. [x EXCEPT !.digest = subTags[x.tag]] \in Items(remote)
        BY <2>1, <3>5 DEF Tagging, Reached
      <4>2. subTags'[x.tag] = subTags[x.tag]
        BY <3>1, <3>2, <3>3, <3>5
      <4> QED
        BY <4>1, <4>2
    <3> QED
      BY <2>1, <3>1, <3>4, <3>5 DEF Tagging
  <2> QED
    BY <1>5, <2>2, <2>3
<1>6. CASE SkipTagless \/ (NoMatch /\ Settle) \/ PushLost \/ PushRejected \/ NoIndexBack \/ Finish
  BY <1>6 DEF SkipTagless, PushLost, PushRejected, NoIndexBack, Finish, Settle, LetGo
<1> QED
  BY <1>1, <1>2, <1>3, <1>4, <1>5, <1>6, AsideSteps

LEMMA TaggedNext ==
  ASSUME Typed, Following, Tagging, Tagged, [Next]_vars
  PROVE  Tagged'
<1> SUFFICES ASSUME Due', ~refused', remote'.index, ~untagged', events' \cup pending' \subseteq Tagless
             PROVE  \A item \in Items(remote') :
                      [item EXCEPT !.digest = subTags'[item.tag]] \in Items(remote')
  BY DEF Tagged, Reached, Items, SubImages, SubAttestations
<1>1. ASSUME current' = current
      PROVE  /\ Due /\ current \in Versions /\ current \notin Tagless /\ current # NoVersion
             /\ current \in RegularOnes /\ Mirror(current) # Nothing
  BY <1>1, DueStays DEF Due, Typed, SourceTyped
<1>2. CASE UNCHANGED <<current, refused, destination, untagged>> /\ events \cup pending \subseteq Tagless
  BY <1>1, <1>2 DEF Tagged, Reached, destination
<1>3. ASSUME NEW v \in Versions, Publish(v)
      PROVE  UNCHANGED <<current, refused, destination, untagged>> /\ events \cup pending \subseteq Tagless
  BY <1>3, TagMoves
<1>4. ASSUME NEW v \in Versions, DeliverEvent(v)
      PROVE  UNCHANGED <<current, refused, destination, untagged>> /\ events \cup pending \subseteq Tagless
  BY <1>4 DEF DeliverEvent, history
<1>5. Aside => UNCHANGED <<current, refused, destination, untagged>> /\ events \cup pending \subseteq Tagless
  BY DEF Aside, history
<1>6. SkipTagless =>
        UNCHANGED <<current, refused, destination, untagged>> /\ events \cup pending \subseteq Tagless
  BY DEF SkipTagless, Settle, history
<1>7. ASSUME pc \in {"push", "tag"}, UNCHANGED source PROVE FALSE
  BY <1>7 DEF source, Typed, WorkerTyped, SourceTyped, ContainerAssumption
<1>8. ASSUME Settle PROVE current' = current /\ Asks
  <2>1. current' = current
    BY <1>8 DEF Settle
  <2> QED
    BY <1>1, <1>8, <2>1, SettlesLast
<1>9. CASE NoMatch /\ Settle /\ ~archive.errors
  <2>1. pc = "push" /\ Containers = {}
    BY <1>9 DEF NoMatch
  <2> QED
    BY <1>1, <1>8, <1>9, <2>1, PushesCurrent, NothingToPush
<1>10. CASE Push
  BY <1>7, <1>10 DEF Push, CanPush, source
<1>11. CASE PushLost
  BY <1>7, <1>11 DEF PushLost, CanPush
<1>12. CASE PushRejected
  BY <1>1, <1>8, <1>12, PushesCurrent DEF PushRejected, CanPush
<1>13. ASSUME NEW item \in left, TagSubImage(item) \/ TagFails(item) PROVE FALSE
  BY <1>7, <1>13 DEF TagSubImage, TagFails, TagNext
<1>14. CASE NoIndexBack
  BY <1>14 DEF NoIndexBack
<1>15. CASE Finish
  BY <1>15 DEF Finish, destination, history, Tagging, Reached
<1> QED
  BY <1>2, <1>3, <1>4, <1>5, <1>6, <1>9, <1>10, <1>11, <1>12, <1>13, <1>14, <1>15, AsideSteps

-----------------------------------------------------------------------------
LEMMA FollowsAlways ==
  ASSUME "json" \notin Faults
  PROVE  Spec => [](Typed /\ FInv)
<1>1. Init => Typed /\ FInv
  BY ImagesInitial, FollowsFromStart
<1>2. Typed /\ FInv /\ [Next]_vars => Typed' /\ FInv'
  BY ImagesTypedNext, UnreadNext, FollowingNext, SyncedNext, TaggingNext, TaggedNext DEF FInv
<1> QED
  BY <1>1, <1>2, PTL DEF Spec

(* Whatever order events come in, wherever the tag moves while a job is    *)
(* handled, and whatever fails on the way: once all is handled, the        *)
(* destination has the version that has the tag, all of it that it should  *)
(* have, unless it has refused it -- if index jsons can be opened.         *)
THEOREM CurrentAtLast ==
  ASSUME "json" \notin Faults
  PROVE  Spec => []FinallyCurrent
<1>1. Typed /\ FInv => FinallyCurrent
  BY DEF FInv, Synced, FinallyCurrent, Quiet, InSync
<1> QED
  BY <1>1, FollowsAlways, PTL

(* The tags of sub-images then stand for entries of this index and not of  *)
(* an earlier one, unless tagging failed.                                  *)
THEOREM SubImagesReached ==
  ASSUME "json" \notin Faults
  PROVE  Spec => []SubTagsFollow
<1>1. Typed /\ FInv => SubTagsFollow
  BY DEF FInv, Tagged, SubTagsFollow, Quiet, Reached, Items
<1> QED
  BY <1>1, FollowsAlways, PTL
=============================================================================

----------------------- MODULE ContainerImageProofs -----------------------
(***************************************************************************)
(* What a destination shows of a container, proved for any versions, order *)
(* of events and faults: the types, images of the wanted platforms only,   *)
(* and no index but a whole one.                                           *)
(***************************************************************************)
EXTENDS ContainerSync, FiniteSetTheorems, TLAPS

-----------------------------------------------------------------------------
(* What some of the theorems assume of the versions.                       *)

(* An image says of itself what the index says of it.                      *)
PlatformsAgree ==
  \A v \in Versions : \A d \in Entries(Content[v].manifests) :
    d.kind # "attestation" => Config[d.digest] = d.platform

(* An index has an image, or the attestation of one.                       *)
ImagesListed ==
  \A v \in Versions :
    Images(Content[v].manifests) \cup Attestations(Content[v].manifests) # {}

(* No two images of an index become one on their way through a tarball.    *)
OneToOne ==
  \A v \in Versions : \A d, e \in Entries(Content[v].manifests) :
    Repacked[d.digest] = Repacked[e.digest] => d.digest = e.digest

-----------------------------------------------------------------------------
(* The invariants.                                                         *)

ArchiveTyped ==
  archive \in [json : BOOLEAN, list : Seq(Descriptors), tars : SUBSET Digests, errors : BOOLEAN]

RemoteImages == [index : BOOLEAN, manifests : SUBSET Descriptors]

WorkerTyped ==
  /\ pc \in {"idle", "get", "pull", "open", "push", "tag"}
  /\ job \in pending \cup {NoVersion} /\ (job = NoVersion <=> pc = "idle")
  /\ from \in published \cup {NoVersion}
  /\ pc \in {"pull", "open", "push", "tag"} => from \in published
  /\ pc \in {"push", "tag"} => job \notin Tagless
  /\ ArchiveTyped
  /\ left \subseteq [tag : SubTagNames, digest : Digests]

SourceTyped ==
  /\ published \subseteq Versions
  /\ current \in (published \ Tagless) \cup {NoVersion}
  /\ published \subseteq Tagless \/ current # NoVersion
  /\ events \subseteq published /\ pending \subseteq published
  /\ filter \in Filters

DestinationTyped ==
  /\ remote \in RemoteImages
  /\ subTags \in [SubTagNames -> DigestOrNone]
  /\ refused \in BOOLEAN
  /\ untagged \in BOOLEAN

(* The index json in the archive is that of the version, or an empty one.  *)
Archived ==
  pc \in {"open", "push"} /\ archive.json =>
    /\ Content[from].index
    /\ archive.list \in {Content[from].manifests, <<>>}

Typed == SourceTyped /\ WorkerTyped /\ DestinationTyped /\ Archived

-----------------------------------------------------------------------------
(* Lemmas about the operators of docker.go.                                *)

LEMMA ListEntries ==
  ASSUME NEW list \in Seq(Descriptors)
  PROVE  /\ Entries(list) \subseteq Descriptors
         /\ IsFiniteSet(Entries(list))
         /\ Images(list) \subseteq Entries(list)
         /\ Attestations(list) \subseteq Entries(list)
         /\ Filtered(list) \subseteq Entries(list)
<1>1. /\ Entries(list) \subseteq Descriptors
      /\ Images(list) \subseteq Entries(list)
      /\ Attestations(list) \subseteq Entries(list)
  BY DEF Entries, Images, Attestations
<1>2. IsFiniteSet(Entries(list))
  <2>1. IsFiniteSet(1..Len(list))
    BY FS_Interval
  <2>2. [i \in 1..Len(list) |-> list[i]] \in Surjection(1..Len(list), Entries(list))
    BY DEF Entries, Surjection
  <2> QED
    BY <2>1, <2>2, FS_Surjection
<1> QED
  BY <1>1, <1>2 DEF Filtered

(* The maps have one image for a digest, and one attestation for an image. *)
LEMMA EntriesApart ==
  ASSUME NEW list \in Seq(Descriptors)
  PROVE  /\ \A d, e \in Images(list) : d.digest = e.digest => d = e
         /\ \A d, e \in Attestations(list) : d.attests = e.attests => d = e
<1>1. ASSUME NEW d \in Images(list), NEW e \in Images(list), d.digest = e.digest
      PROVE  d = e
  <2>1. PICK i \in DOMAIN list :
          /\ d = list[i] /\ list[i].kind # "attestation"
          /\ \A k \in (i + 1)..Len(list) :
               list[k].digest = list[i].digest => list[k].kind = "attestation"
    BY DEF Images
  <2>2. PICK j \in DOMAIN list :
          /\ e = list[j] /\ list[j].kind # "attestation"
          /\ \A k \in (j + 1)..Len(list) :
               list[k].digest = list[j].digest => list[k].kind = "attestation"
    BY DEF Images
  <2>3. ~(i < j) /\ ~(j < i)
    BY <1>1, <2>1, <2>2
  <2> QED
    BY <2>1, <2>2, <2>3
<1>2. ASSUME NEW d \in Attestations(list), NEW e \in Attestations(list), d.attests = e.attests
      PROVE  d = e
  <2>1. PICK i \in DOMAIN list :
          /\ d = list[i] /\ list[i].kind = "attestation"
          /\ \A k \in 1..(i - 1) : list[k].attests = list[i].attests => list[k].kind # "attestation"
    BY DEF Attestations
  <2>2. PICK j \in DOMAIN list :
          /\ e = list[j] /\ list[j].kind = "attestation"
          /\ \A k \in 1..(j - 1) : list[k].attests = list[j].attests => list[k].kind # "attestation"
    BY DEF Attestations
  <2>3. ~(i < j) /\ ~(j < i)
    BY <1>2, <2>1, <2>2
  <2> QED
    BY <2>1, <2>2, <2>3
<1> QED
  BY <1>1, <1>2

LEMMA KeptFinite ==
  ASSUME ArchiveTyped
  PROVE  IsFiniteSet(Kept)
<1>1. CASE archive.json
  <2>1. Filtered(archive.list) \in SUBSET Entries(archive.list) /\ IsFiniteSet(Entries(archive.list))
    BY ListEntries DEF ArchiveTyped
  <2> QED
    BY <1>1, <2>1, FS_Subset DEF Kept
<1>2. CASE ~archive.json
  BY <1>2, FS_EmptySet DEF Kept
<1> QED
  BY <1>1, <1>2

LEMMA PreparedTyped ==
  ASSUME ArchiveTyped, NEW image \in Prepared
  PROVE  image \in RemoteImages
<1>1. Kept \subseteq Descriptors
  BY ListEntries DEF Kept, ArchiveTyped
<1>2. Containers \subseteq Digests
  BY DEF Containers, ArchiveTyped
<1>3. ASSUME NEW d \in Descriptors PROVE Appended(d) \in Descriptors
  BY <1>2, <1>3, ContainerAssumption DEF Appended, Descriptor, Descriptors, DigestOrNone
<1>4. ASSUME NEW t \in Digests PROVE BareImage(t) \in RemoteImages
  <2>1. Descriptor("image", Repacked[t], Config[t], NoDigest) \in Descriptors
    BY <1>4, ContainerAssumption DEF Descriptor, Descriptors, DigestOrNone
  <2> QED
    BY <2>1 DEF BareImage, RemoteImages
<1>5. NewIndex \in RemoteImages
  <2>1. {Appended(d) : d \in Kept} \in SUBSET Descriptors
    BY <1>1, <1>3
  <2> QED
    BY <2>1 DEF NewIndex, RemoteImages
<1> QED
  BY <1>2, <1>4, <1>5 DEF Prepared

LEMMA ItemsTyped ==
  ASSUME NEW image \in RemoteImages
  PROVE  SubImages(image) \cup SubAttestations(image) \subseteq [tag : SubTagNames, digest : Digests]
<1>1. ASSUME NEW d \in image.manifests PROVE d \in Descriptors
  BY <1>1 DEF RemoteImages
<1>2. ASSUME NEW d \in Descriptors, d.platform # NoPlatform, NEW k \in {"image", "attestation"}
      PROVE  <<OsArch[d.platform], k>> \in SubTagNames
  BY <1>2 DEF Descriptors, PlatformOrNone, Platforms, SubTagNames
<1>3. ASSUME NEW item \in SubImages(image)
      PROVE  item \in [tag : SubTagNames, digest : Digests]
  <2>1. PICK d \in image.manifests :
          d.platform # NoPlatform /\ item = [tag |-> <<OsArch[d.platform], "image">>, digest |-> d.digest]
    BY DEF SubImages
  <2>2. d \in Descriptors /\ d.digest \in Digests
    BY <1>1 DEF Descriptors
  <2> QED
    BY <1>2, <2>1, <2>2
<1>4. ASSUME NEW item \in SubAttestations(image)
      PROVE  item \in [tag : SubTagNames, digest : Digests]
  <2>1. PICK m \in image.manifests \X image.manifests :
          /\ m[1].platform # NoPlatform
          /\ item = [tag |-> <<OsArch[m[1].platform], "attestation">>, digest |-> m[2].digest]
    BY DEF SubAttestations
  <2>2. m[1] \in Descriptors /\ m[2] \in Descriptors /\ m[2].digest \in Digests
    BY <1>1 DEF Descriptors
  <2> QED
    BY <1>2, <2>1, <2>2
<1> QED
  BY <1>3, <1>4

-----------------------------------------------------------------------------
(* Types.                                                                  *)

LEMMA ImagesInitial == Init => Typed
<1> SUFFICES ASSUME Init PROVE Typed
  OBVIOUS
<1>1. NoArchive \in [json : BOOLEAN, list : Seq(Descriptors), tars : SUBSET Digests, errors : BOOLEAN]
  BY DEF NoArchive
<1>2. Nothing \in RemoteImages
  BY DEF Nothing, RemoteImages
<1>3. SourceTyped
  BY DEF Init, SourceTyped
<1>4. WorkerTyped /\ Archived
  BY <1>1 DEF Init, WorkerTyped, ArchiveTyped, Archived
<1>5. DestinationTyped
  BY <1>2 DEF Init, DestinationTyped, DigestOrNone
<1> QED
  BY <1>3, <1>4, <1>5 DEF Typed

LEMMA AskedPublished ==
  ASSUME Typed, pc # "idle"
  PROVE  Asked \in published /\ (job \notin Tagless => Asked = current)
BY ContainerAssumption DEF Typed, SourceTyped, WorkerTyped, Asked

LEMMA WorkerLetsGo ==
  ASSUME LetGo
  PROVE  WorkerTyped' /\ Archived'
<1>1. NoArchive \in [json : BOOLEAN, list : Seq(Descriptors), tars : SUBSET Digests, errors : BOOLEAN]
  BY DEF NoArchive
<1> QED
  BY <1>1 DEF LetGo, WorkerTyped, ArchiveTyped, Archived

LEMMA WorkerSettles ==
  ASSUME SourceTyped, Settle
  PROVE  SourceTyped' /\ WorkerTyped' /\ Archived'
BY WorkerLetsGo DEF Settle, SourceTyped

LEMMA WorkerPulls ==
  ASSUME Typed, pc = "pull", NEW json \in BOOLEAN, NEW list \in Seq(Descriptors),
         NEW tars \in SUBSET Digests, Pull(json, list, tars),
         json => Content[Asked].index /\ list = Content[Asked].manifests
  PROVE  Typed'
<1>1. Asked \in published
  BY AskedPublished
<1>2. archive' \in [json : BOOLEAN, list : Seq(Descriptors), tars : SUBSET Digests, errors : BOOLEAN]
  BY DEF Pull
<1>3. WorkerTyped'
  BY <1>1, <1>2 DEF Pull, Typed, WorkerTyped, ArchiveTyped, source
<1>4. Archived'
  BY DEF Pull, Archived
<1>5. SourceTyped' /\ DestinationTyped'
  BY DEF Pull, source, destination, history, Typed, SourceTyped, DestinationTyped
<1> QED
  BY <1>3, <1>4, <1>5 DEF Typed

LEMMA VersionTyped ==
  ASSUME NEW v \in Versions
  PROVE  /\ Content[v].manifests \in Seq(Descriptors)
         /\ Content[v].manifests[1] \in Entries(Content[v].manifests)
         /\ \A d \in Entries(Content[v].manifests) : d \in Descriptors /\ d.digest \in Digests
<1>1. Content[v].manifests \in Seq(Descriptors) /\ Len(Content[v].manifests) > 0
  BY ContentAssumption
<1>2. Content[v].manifests[1] \in Entries(Content[v].manifests)
  BY <1>1 DEF Entries
<1>3. \A d \in Entries(Content[v].manifests) : d \in Descriptors
  BY <1>1, ListEntries
<1> QED
  BY <1>1, <1>2, <1>3 DEF Descriptors

LEMMA PullTyped ==
  ASSUME Typed,
         PullImage \/ PullIndex \/ \E v \in Versions : \E d \in DefaultImages(v) : PullDefaultImage(d)
  PROVE  Typed'
<1>1. pc = "pull" /\ Asked \in Versions
  BY AskedPublished DEF PullImage, PullIndex, PullDefaultImage, Typed, SourceTyped
<1>2. CASE PullImage
  <2>1. {Content[Asked].manifests[1].digest} \in SUBSET Digests /\ <<>> \in Seq(Descriptors)
    BY <1>1, VersionTyped
  <2>2. Pull(FALSE, <<>>, {Content[Asked].manifests[1].digest})
    BY <1>2 DEF PullImage
  <2> QED
    BY <1>1, <2>1, <2>2, WorkerPulls
<1>3. CASE PullIndex
  <2>1. {d.digest : d \in {d \in Pulled(Asked) : d.platform # ""}} \in SUBSET Digests
    BY <1>1, VersionTyped DEF Pulled
  <2> QED
    BY <1>1, <1>3, <2>1, VersionTyped, WorkerPulls DEF PullIndex
<1>4. ASSUME NEW v \in Versions, NEW d \in DefaultImages(v), PullDefaultImage(d) PROVE Typed'
  <2>1. {d.digest} \in SUBSET Digests /\ <<>> \in Seq(Descriptors)
    BY <1>4, VersionTyped DEF DefaultImages
  <2>2. Pull(FALSE, <<>>, {d.digest})
    BY <1>4 DEF PullDefaultImage
  <2> QED
    BY <1>1, <2>1, <2>2, WorkerPulls
<1> QED
  BY <1>2, <1>3, <1>4

LEMMA OpenTyped ==
  ASSUME Typed, Open
  PROVE  Typed'
<1> DEFINE Archives ==
      [json : BOOLEAN, list : Seq(Descriptors), tars : SUBSET Digests, errors : BOOLEAN]
<1>1. archive \in Archives
  BY DEF Typed, WorkerTyped, ArchiveTyped
<1>2. PICK tars \in SUBSET archive.tars :
        \/ archive' = [archive EXCEPT !.tars = tars, !.errors = tars # archive.tars]
        \/ archive' = [archive EXCEPT !.tars = tars, !.json = FALSE, !.errors = TRUE]
        \/ archive' = [archive EXCEPT !.tars = tars, !.list = <<>>, !.errors = TRUE]
  BY DEF Open
<1>3. tars \in SUBSET Digests /\ <<>> \in Seq(Descriptors)
  BY <1>1
<1>4. archive' \in Archives
  BY <1>1, <1>2, <1>3
<1>5. archive'.json => archive.json /\ archive'.list \in {archive.list, <<>>}
  BY <1>1, <1>2
<1>6. WorkerTyped'
  BY <1>4 DEF Open, Typed, WorkerTyped, ArchiveTyped, source
<1>7. Archived'
  BY <1>5 DEF Open, Typed, Archived
<1>8. SourceTyped' /\ DestinationTyped'
  BY DEF Open, source, destination, history, Typed, SourceTyped, DestinationTyped
<1> QED
  BY <1>6, <1>7, <1>8 DEF Typed

LEMMA PushTyped ==
  ASSUME Typed, Push
  PROVE  Typed'
<1>1. PICK image \in Prepared :
        /\ remote' = image
        /\ \/ /\ pc' = "tag"
              /\ left' = SubImages(image) \cup SubAttestations(image)
              /\ UNCHANGED <<source, filter, job, from, archive>>
           \/ Settle
  BY DEF Push
<1>2. image \in RemoteImages
  BY PreparedTyped DEF Typed, WorkerTyped
<1>3. DestinationTyped'
  BY <1>1, <1>2 DEF Push, Typed, DestinationTyped
<1>4. SourceTyped' /\ WorkerTyped' /\ Archived'
  <2>1. CASE Settle
    BY <2>1, WorkerSettles DEF Typed
  <2>2. CASE /\ pc' = "tag"
             /\ left' = SubImages(image) \cup SubAttestations(image)
             /\ UNCHANGED <<source, filter, job, from, archive>>
    <3>1. left' \subseteq [tag : SubTagNames, digest : Digests]
      BY <1>2, <2>2, ItemsTyped
    <3> QED
      BY <2>2, <3>1 DEF Push, CanPush, source, Typed, SourceTyped, WorkerTyped, ArchiveTyped, Archived
  <2> QED
    BY <1>1, <2>1, <2>2
<1> QED
  BY <1>3, <1>4 DEF Typed

LEMMA PushLostTyped ==
  ASSUME Typed, PushLost
  PROVE  Typed'
<1>1. remote' \in RemoteImages
  BY PreparedTyped DEF PushLost, Typed, WorkerTyped, DestinationTyped
<1> QED
  BY <1>1, WorkerLetsGo DEF PushLost, source, history, Typed, SourceTyped, DestinationTyped

LEMMA TagTyped ==
  ASSUME Typed, NEW item \in left, TagSubImage(item) \/ TagFails(item)
  PROVE  Typed'
<1>1. item \in [tag : SubTagNames, digest : Digests]
  BY DEF Typed, WorkerTyped
<1>2. subTags' \in [SubTagNames -> DigestOrNone]
  BY <1>1 DEF TagSubImage, TagFails, Typed, DestinationTyped, DigestOrNone
<1>3. DestinationTyped'
  BY <1>2 DEF TagSubImage, TagFails, TagNext, Typed, DestinationTyped
<1>4. SourceTyped' /\ WorkerTyped' /\ Archived'
  BY DEF TagSubImage, TagFails, TagNext, source, Typed, SourceTyped, WorkerTyped, ArchiveTyped,
     Archived
<1> QED
  BY <1>3, <1>4 DEF Typed

LEMMA ImagesTypedNext == Typed /\ [Next]_vars => Typed'
<1> SUFFICES ASSUME Typed, [Next]_vars PROVE Typed'
  OBVIOUS
<1> USE DEF source, destination, history
<1>1. ASSUME NEW v \in Versions, Publish(v) PROVE Typed'
  <2>1. SourceTyped'
    BY <1>1, ContainerAssumption DEF Publish, Typed, SourceTyped
  <2>2. WorkerTyped' /\ Archived'
    BY <1>1 DEF Publish, worker, Typed, WorkerTyped, ArchiveTyped, Archived
  <2>3. DestinationTyped'
    BY <1>1 DEF Publish, Typed, DestinationTyped
  <2> QED
    BY <2>1, <2>2, <2>3 DEF Typed
<1>2. ASSUME NEW v \in Versions, DeliverEvent(v) PROVE Typed'
  <2>1. SourceTyped' /\ DestinationTyped'
    BY <1>2 DEF DeliverEvent, Typed, SourceTyped, DestinationTyped
  <2>2. WorkerTyped' /\ Archived'
    BY <1>2 DEF DeliverEvent, worker, Typed, WorkerTyped, ArchiveTyped, Archived
  <2> QED
    BY <2>1, <2>2 DEF Typed
<1>3. ASSUME NEW v \in Versions, Begin(v) PROVE Typed'
  BY <1>3, ContainerAssumption
     DEF Begin, Typed, SourceTyped, WorkerTyped, ArchiveTyped, DestinationTyped, Archived
<1>4. CASE GetDescriptor
  BY <1>4, AskedPublished
     DEF GetDescriptor, Typed, SourceTyped, WorkerTyped, ArchiveTyped, DestinationTyped, Archived
<1>5. ASSUME Retry, UNCHANGED history PROVE Typed'
  BY <1>5, WorkerLetsGo DEF Retry, Typed, SourceTyped, DestinationTyped
<1>6. ASSUME Settle, UNCHANGED destination, refused' \in BOOLEAN, untagged' \in BOOLEAN PROVE Typed'
  BY <1>6, WorkerSettles DEF Typed, DestinationTyped
<1>7. CASE DownloadFails \/ PullFails \/ UploadFails \/ Crash \/ Panic
  BY <1>5, <1>7 DEF DownloadFails, PullFails, UploadFails, Crash, Retry, Panic
<1>8. CASE SkipTagless \/ NoMatch \/ PushRejected \/ NoIndexBack \/ Finish
  BY <1>5, <1>6, <1>8
     DEF SkipTagless, NoMatch, PushRejected, NoIndexBack, Finish, Typed, DestinationTyped
<1>9. CASE UNCHANGED vars
  BY <1>9 DEF vars, worker, Typed, SourceTyped, WorkerTyped, ArchiveTyped, DestinationTyped, Archived
<1> QED
  BY <1>1, <1>2, <1>3, <1>4, <1>7, <1>8, <1>9, PullTyped, OpenTyped, PushTyped, PushLostTyped, TagTyped
     DEF Next, Worker

LEMMA ImagesTyped == Spec => []Typed
BY ImagesInitial, ImagesTypedNext, PTL DEF Spec

-----------------------------------------------------------------------------
(* The platforms.                                                          *)

(* What a step may do to the destination: put a prepared image in place.   *)
LEMMA RemoteNext ==
  ASSUME [Next]_vars
  PROVE  /\ filter' = filter
         /\ remote' = remote \/ (pc = "push" /\ remote' \in Prepared)
BY DEF Next, Worker, Publish, DeliverEvent, Begin, GetDescriptor, DownloadFails, PullImage, PullIndex,
   PullFails, PullDefaultImage, Pull, SkipTagless, UploadFails, Open, NoMatch, CanPush, Push, PushLost,
   PushRejected, TagSubImage, TagFails, TagNext, NoIndexBack, Finish, Panic, Retry, Settle, Crash,
   LetGo, vars, destination, source, worker

LEMMA PublishedNext ==
  ASSUME [Next]_vars
  PROVE  published \subseteq published'
BY DEF Next, Worker, Publish, DeliverEvent, Begin, GetDescriptor, DownloadFails, PullImage, PullIndex,
   PullFails, PullDefaultImage, Pull, SkipTagless, UploadFails, Open, NoMatch, CanPush, Push, PushLost,
   PushRejected, TagSubImage, TagFails, TagNext, NoIndexBack, Finish, Panic, Retry, Settle, Crash,
   vars, source

LEMMA NothingKept ==
  ASSUME archive.json, archive.list = <<>>
  PROVE  Prepared = {}
<1>1. Kept = {}
  BY DEF Kept, Filtered, Images, Attestations, Entries
<1>2. Containers = {}
  BY <1>1 DEF Containers
<1>3. ~Bare
  BY <1>1, FS_EmptySet DEF Bare
<1> QED
  BY <1>2, <1>3 DEF Prepared

LEMMA PreparedWanted ==
  ASSUME PlatformsAgree, ImagesListed, Typed, pc = "push", NEW image \in Prepared,
         NEW d \in image.manifests, d.kind = "image"
  PROVE  HasPlatform(d.platform)
<1>1. CASE ~archive.json
  BY <1>1 DEF Prepared, Bare, Containers, BareImage, Descriptor
<1>2. CASE archive.json
  <2> DEFINE list == Content[from].manifests
  <2>1. from \in Versions /\ archive.list = list
    BY <1>2, NothingKept DEF Typed, Archived, WorkerTyped, SourceTyped
  <2>2. /\ list \in Seq(Descriptors)
        /\ Images(list) \cup Attestations(list) # {}
        /\ \A e \in Kept : e.kind # "attestation" => Config[e.digest] = e.platform
    BY <1>2, <2>1, VersionTyped, ListEntries DEF ImagesListed, PlatformsAgree, Kept
  <2>3. ASSUME NEW e \in Kept, e.kind # "attestation"
        PROVE  HasPlatform(Config[e.digest])
    BY <1>2, <2>1, <2>2, <2>3 DEF Kept, Filtered, Attestations
  <2>4. CASE Bare
    <3>1. PICK t \in Containers : image = BareImage(t)
      BY <2>4 DEF Prepared
    <3>2. PICK e \in Kept : e.digest = t
      BY <1>2, <3>1 DEF Containers
    <3>3. e.kind # "attestation"
      <4>1. PICK x : Kept = {x}
        BY <1>2, <2>4, KeptFinite, FS_Singleton DEF Bare, Typed, WorkerTyped
      <4>2. SUFFICES ASSUME e.kind = "attestation" PROVE FALSE
        OBVIOUS
      <4>3. PICK f \in Kept : f.kind # "attestation"
        BY <1>2, <2>1, <2>2, <4>2 DEF Kept, Filtered, Images
      <4> QED
        BY <4>1, <4>2, <4>3
    <3> QED
      BY <2>3, <3>1, <3>2, <3>3 DEF BareImage, Descriptor
  <2>5. CASE ~Bare
    BY <2>3, <2>5 DEF Prepared, NewIndex, Appended, Descriptor
  <2> QED
    BY <2>4, <2>5
<1> QED
  BY <1>1, <1>2

(* Nothing of other platforms than those wanted is ever to be seen at the  *)
(* destination, if images and indexes agree and each index is of images.   *)
THEOREM OnlyTheWanted ==
  ASSUME PlatformsAgree, ImagesListed
  PROVE  Spec => []NothingUnwanted
<1>1. Init => NothingUnwanted
  BY DEF Init, Nothing, NothingUnwanted
<1>2. Typed /\ NothingUnwanted /\ [Next]_vars => NothingUnwanted'
  BY RemoteNext, PreparedWanted DEF NothingUnwanted, HasPlatform
<1> QED
  BY <1>1, <1>2, ImagesTyped, PTL DEF Spec

-----------------------------------------------------------------------------
(* Indexes.                                                                *)

(* What the destination should have of v, before it is copied there.       *)
Chosen(v) ==
  LET all == Entries(Content[v].manifests)
      wanted == {d \in all : d.kind = "image" /\ HasPlatform(d.platform)}
  IN  wanted \cup {a \in all : \E d \in wanted : a.attests = d.digest}

Copy(d) ==
  Descriptor(d.kind, Repacked[d.digest], d.platform,
             IF d.attests = NoDigest THEN NoDigest ELSE Repacked[d.attests])

LEMMA MirrorCopies ==
  ASSUME NEW v
  PROVE  Mirror(v) =
           [index |-> Cardinality(Chosen(v)) > 1, manifests |-> {Copy(d) : d \in Chosen(v)}]
BY DEF Mirror, Chosen, Copy

(* What a regular version is: no two entries are of one digest, and none   *)
(* is anything but an image or the one attestation of an image.            *)
LEMMA RegularEntries ==
  ASSUME NEW v \in RegularOnes
  PROVE  LET list == Content[v].manifests IN
         /\ v \in Versions /\ list \in Seq(Descriptors) /\ Len(list) > 0
         /\ \A d \in Entries(list) :
              /\ d \in Descriptors /\ d.kind \in {"image", "attestation"}
              /\ Config[d.digest] = d.platform /\ d.platform \notin {NoPlatform, ""}
              /\ d.kind = "image" => d.attests = NoDigest
              /\ d.kind = "attestation" =>
                   d.attests \in Digests /\ \E e \in Entries(list) : e.kind = "image" /\ e.digest = d.attests
<1> DEFINE list == Content[v].manifests
<1>1. v \in Versions /\ list \in Seq(Descriptors) /\ Len(list) > 0
  BY ContentAssumption DEF RegularOnes
<1>2. ASSUME NEW i \in DOMAIN list
      PROVE  /\ list[i] \in Descriptors /\ list[i].kind \in {"image", "attestation"}
             /\ Config[list[i].digest] = list[i].platform /\ list[i].platform \notin {NoPlatform, ""}
             /\ list[i].kind = "image" => list[i].attests = NoDigest
             /\ list[i].kind = "attestation" =>
                  \E k \in DOMAIN list : list[k].kind = "image" /\ list[k].digest = list[i].attests
  <2>1. list[i] \in Descriptors
    BY <1>1
  <2> QED
    BY <1>1, <2>1, ContentAssumption DEF RegularOnes, Descriptors
<1>3. \A k \in DOMAIN list : list[k].digest \in Digests
  <2>1. \A k \in DOMAIN list : list[k] \in Descriptors
    BY <1>2
  <2> QED
    BY <2>1 DEF Descriptors
<1>4. ASSUME NEW d \in Entries(list)
      PROVE  /\ d \in Descriptors /\ d.kind \in {"image", "attestation"}
             /\ Config[d.digest] = d.platform /\ d.platform \notin {NoPlatform, ""}
             /\ d.kind = "image" => d.attests = NoDigest
             /\ d.kind = "attestation" =>
                  d.attests \in Digests /\ \E e \in Entries(list) : e.kind = "image" /\ e.digest = d.attests
  <2>1. PICK i \in DOMAIN list : d = list[i]
    BY DEF Entries
  <2>2. /\ list[i] \in Descriptors /\ list[i].kind \in {"image", "attestation"}
        /\ Config[list[i].digest] = list[i].platform /\ list[i].platform \notin {NoPlatform, ""}
        /\ list[i].kind = "image" => list[i].attests = NoDigest
        /\ list[i].kind = "attestation" =>
             \E k \in DOMAIN list : list[k].kind = "image" /\ list[k].digest = list[i].attests
    BY <1>2, <2>1
  <2>3. \A k \in DOMAIN list : list[k] \in Entries(list)
    BY DEF Entries
  <2> QED
    BY <1>3, <2>1, <2>2, <2>3
<1> QED
  BY <1>1, <1>4

LEMMA RegularFiltered ==
  ASSUME NEW v \in RegularOnes
  PROVE  Filtered(Content[v].manifests) = Chosen(v)
<1> DEFINE list == Content[v].manifests
<1>1. list \in Seq(Descriptors) /\ Len(list) > 0
  BY RegularEntries
<1>2. \A i, k \in DOMAIN list : i # k => list[i].digest # list[k].digest
  BY DEF RegularOnes
<1>3. \A i, k \in DOMAIN list :
         i # k /\ list[i].kind = "attestation" => list[k].attests # list[i].attests
  BY DEF RegularOnes
<1>4. \A d \in Entries(list) :
         /\ d.kind \in {"image", "attestation"}
         /\ d.kind = "image" => d.attests = NoDigest
         /\ d.kind = "attestation" => d.attests \in Digests
  BY RegularEntries
<1>5. Images(list) = {d \in Entries(list) : d.kind = "image"}
  BY <1>1, <1>2, <1>4 DEF Images, Entries
<1>6. Attestations(list) = {d \in Entries(list) : d.kind = "attestation"}
  BY <1>1, <1>3, <1>4, ContainerAssumption DEF Attestations, Entries
<1>7. Images(list) \cup Attestations(list) # {}
  <2>1. list[1] \in Entries(list)
    BY <1>1 DEF Entries
  <2> QED
    BY <1>4, <1>5, <1>6, <2>1
<1>8. \A d \in Images(list) : d.digest \in Digests
  BY <1>1, <1>5, ListEntries DEF Descriptors
<1> QED
  BY <1>4, <1>5, <1>6, <1>7, <1>8, ContainerAssumption DEF Filtered, Chosen

(* Whatever is pushed of the archive of a regular index, is all of it that *)
(* the destination should have.                                            *)
LEMMA RegularPrepared ==
  ASSUME Typed, pc = "push", archive.json, from \in RegularOnes, NEW image \in Prepared
  PROVE  image = Mirror(from)
<1> DEFINE list == Content[from].manifests
<1>1. archive.list = list /\ list \in Seq(Descriptors)
  BY NothingKept, RegularEntries DEF Typed, Archived
<1>2. Kept = Chosen(from)
  BY <1>1, RegularFiltered DEF Kept
<1>3. \A d \in Kept : d \in Entries(list)
  BY <1>2 DEF Chosen
<1>4. \A d \in Kept :
        /\ d \in Descriptors /\ d.kind \in {"image", "attestation"}
        /\ Config[d.digest] = d.platform
        /\ d.kind = "image" => d.attests = NoDigest
        /\ d.kind = "attestation" => d.attests \in Digests
  BY <1>3, RegularEntries
<1>5. \A d \in Kept : d.kind = "attestation" => \E e \in Kept : e.kind = "image" /\ e.digest = d.attests
  BY <1>2, <1>4, ContainerAssumption DEF Chosen
<1>6. Containers \subseteq Digests /\ NoDigest \notin Containers
  BY ContainerAssumption DEF Containers, Typed, WorkerTyped, ArchiveTyped
<1>7. Mirror(from) = [index |-> Cardinality(Kept) > 1, manifests |-> {Copy(d) : d \in Kept}]
  BY <1>2, MirrorCopies
<1>8. CASE Bare
  <2>1. PICK x : Kept = {x}
    BY <1>8, KeptFinite, FS_Singleton DEF Bare, Typed, WorkerTyped
  <2>2. x.kind = "image"
    BY <1>4, <1>5, <2>1
  <2>3. image = BareImage(x.digest)
    BY <1>8, <2>1 DEF Prepared, Containers
  <2>4. x \in Descriptors /\ Config[x.digest] = x.platform /\ x.attests = NoDigest
    BY <1>4, <2>1, <2>2
  <2>5. Copy(x) = Descriptor("image", Repacked[x.digest], Config[x.digest], NoDigest)
    BY <2>2, <2>4 DEF Copy
  <2>6. {Copy(d) : d \in Kept} = {Copy(x)}
    BY <2>1
  <2>7. (Cardinality(Kept) > 1) = FALSE
    BY <1>8 DEF Bare
  <2> QED
    BY <1>7, <2>3, <2>5, <2>6, <2>7 DEF BareImage
<1>9. CASE ~Bare
  <2>1. image = NewIndex /\ Containers # {} /\ \A d \in Kept : d.digest \in Containers
    BY <1>9 DEF Prepared, IndexPanics
  <2>2. ASSUME NEW d \in Kept PROVE Appended(d) = Copy(d)
    <3>1. d \in Descriptors /\ Config[d.digest] = d.platform
      BY <1>4
    <3>2. (IF d.attests \in Containers THEN Repacked[d.attests] ELSE d.attests) =
            (IF d.attests = NoDigest THEN NoDigest ELSE Repacked[d.attests])
      BY <1>4, <1>5, <1>6, <2>1
    <3> QED
      BY <3>1, <3>2 DEF Appended, Copy
  <2>3. {Appended(d) : d \in Kept} = {Copy(d) : d \in Kept}
    BY <2>2
  <2>4. (Cardinality(Kept) > 1) = TRUE
    <3>1. Kept # {}
      BY <2>1 DEF Containers
    <3>2. Cardinality(Kept) \in Nat /\ Cardinality(Kept) # 0
      BY <3>1, KeptFinite, FS_CardinalityType, FS_EmptySet DEF Typed, WorkerTyped
    <3> QED
      BY <1>9, <3>2 DEF Bare
  <2> QED
    BY <1>7, <2>1, <2>3, <2>4 DEF NewIndex
<1> QED
  BY <1>8, <1>9

(* No index is ever to be seen at the destination but one that holds all   *)
(* the images of the wanted platforms of one version, each with its        *)
(* attestation, as long as all versions are regular.                       *)
THEOREM OnlyWholeIndexes == Spec => []IndexesWhole
<1>1. Init => IndexesWhole
  BY DEF Init, Nothing, IndexesWhole
<1>2. Typed /\ IndexesWhole /\ [Next]_vars => IndexesWhole'
  <2> SUFFICES ASSUME Typed, IndexesWhole, [Next]_vars, remote'.index, published' \subseteq RegularOnes
               PROVE  \E v \in published' : remote' = Mirror(v)'
    BY DEF IndexesWhole, RegularOnes
  <2>1. filter' = filter /\ published \subseteq published'
    BY RemoteNext, PublishedNext
  <2>2. \A v : Mirror(v)' = Mirror(v)
    BY <2>1 DEF Mirror, HasPlatform
  <2>3. CASE remote' = remote
    BY <2>1, <2>2, <2>3 DEF IndexesWhole
  <2>4. CASE pc = "push" /\ remote' \in Prepared
    <3>1. archive.json
      BY <2>4 DEF Prepared, Bare, BareImage
    <3>2. from \in published /\ from \in RegularOnes
      BY <2>1, <2>4 DEF Typed, WorkerTyped
    <3>3. remote' = Mirror(from)
      BY <2>4, <3>1, <3>2, RegularPrepared
    <3> QED
      BY <2>1, <2>2, <3>2, <3>3
  <2> QED
    BY <2>3, <2>4, RemoteNext
<1> QED
  BY <1>1, <1>2, ImagesTyped, PTL DEF Spec

(* Entries of an index that differ still do when they are appended.        *)
LEMMA AppendedApart ==
  ASSUME OneToOne, ImagesListed, Typed, pc = "push", NewIndex \in Prepared, ~Bare,
         NEW d \in Kept, NEW e \in Kept, d # e
  PROVE  Appended(d) # Appended(e)
<1> DEFINE list == Content[from].manifests
<1>1. archive.json /\ \A x \in Kept : x.digest \in Containers
  BY DEF Prepared, IndexPanics, Bare
<1>2. archive.list = list /\ from \in Versions /\ list \in Seq(Descriptors)
  BY <1>1, NothingKept, VersionTyped DEF Typed, Archived, WorkerTyped, SourceTyped
<1>3. Kept = {x \in Images(list) : HasPlatform(x.platform)}
             \cup {a \in Attestations(list) :
                     \E x \in {x \in Images(list) : HasPlatform(x.platform)} : x.digest = a.attests}
  BY <1>1, <1>2 DEF Kept, Filtered, ImagesListed
<1>4. ASSUME NEW x \in Kept
      PROVE  /\ x \in Descriptors /\ x \in Entries(list)
             /\ x.kind # "attestation" => x \in Images(list)
             /\ x.kind = "attestation" =>
                  x \in Attestations(list) /\ \E y \in Kept : y \in Entries(list) /\ y.digest = x.attests
  BY <1>2, <1>3, ListEntries DEF Images, Attestations
<1>5. ASSUME NEW x \in Entries(list), NEW y \in Entries(list), Repacked[x.digest] = Repacked[y.digest]
      PROVE  x.digest = y.digest
  BY <1>2, <1>5 DEF OneToOne
<1>6. SUFFICES ASSUME Appended(d) = Appended(e) PROVE FALSE
  OBVIOUS
<1>7. /\ d.kind = e.kind
      /\ Repacked[d.digest] = Repacked[e.digest]
      /\ (IF d.attests \in Containers THEN Repacked[d.attests] ELSE d.attests) =
           (IF e.attests \in Containers THEN Repacked[e.attests] ELSE e.attests)
  BY <1>6 DEF Appended, Descriptor
<1>8. CASE d.kind = "attestation"
  <2>1. d.attests \in Containers /\ e.attests \in Containers
    BY <1>1, <1>4, <1>7, <1>8
  <2>2. d.attests = e.attests
    BY <1>4, <1>5, <1>7, <1>8, <2>1
  <2>3. d \in Attestations(list) /\ e \in Attestations(list)
    BY <1>4, <1>7, <1>8
  <2> QED
    BY <1>2, <2>2, <2>3, EntriesApart
<1>9. CASE d.kind # "attestation"
  BY <1>2, <1>4, <1>5, <1>7, <1>9, EntriesApart
<1> QED
  BY <1>8, <1>9

LEMMA IndexOfMany ==
  ASSUME OneToOne, ImagesListed, Typed, pc = "push", NEW image \in Prepared, image.index
  PROVE  Cardinality(image.manifests) > 1
<1> DEFINE Manifests == {Appended(d) : d \in Kept}
<1>1. image = NewIndex /\ ~Bare /\ archive.json /\ Containers # {}
  BY DEF Prepared, Bare, BareImage
<1>2. IsFiniteSet(Kept) /\ Kept # {} /\ Cardinality(Kept) # 1
  BY <1>1, KeptFinite DEF Typed, WorkerTyped, Containers, Bare
<1>3. PICK d \in Kept, e \in Kept : d # e
  BY <1>2, FS_Singleton
<1>4. Appended(d) # Appended(e)
  BY <1>1, <1>3, AppendedApart
<1>5. IsFiniteSet(Manifests)
  <2>1. [x \in Kept |-> Appended(x)] \in Surjection(Kept, Manifests)
    BY DEF Surjection
  <2> QED
    BY <1>2, <2>1, FS_Surjection
<1>6. Cardinality(Manifests) \in Nat /\ Cardinality(Manifests) # 0 /\ Cardinality(Manifests) # 1
  <2>1. Appended(d) \in Manifests /\ Appended(e) \in Manifests
    OBVIOUS
  <2> HIDE DEF Manifests
  <2>2. Cardinality(Manifests) \in Nat /\ Cardinality(Manifests) # 0
    BY <1>5, <2>1, FS_CardinalityType, FS_EmptySet
  <2>3. Cardinality(Manifests) # 1
    BY <1>4, <1>5, <2>1, FS_Singleton
  <2> QED
    BY <2>2, <2>3
<1>7. image.manifests = Manifests
  BY <1>1 DEF NewIndex
<1> HIDE DEF Manifests
<1> QED
  BY <1>6, <1>7

(* Types: the worker has a job while it is at work, of a version that was  *)
(* published and has its file; what the destination shows as an index has  *)
(* more than one manifest, if no two images become one on their way.       *)
THEOREM ImagesTypeCorrect ==
  ASSUME OneToOne, ImagesListed
  PROVE  Spec => []TypeOK
<1> DEFINE ManyIndexed == remote.index => Cardinality(remote.manifests) > 1
<1>1. Init => ManyIndexed
  BY DEF Init, Nothing
<1>2. Typed /\ ManyIndexed /\ [Next]_vars => ManyIndexed'
  BY RemoteNext, IndexOfMany
<1>3. Typed /\ ManyIndexed => TypeOK
  <2>1. Typed => /\ archive.tars \subseteq Digests
                 /\ \A d \in remote.manifests : d.digest \in Digests /\ d.attests \in DigestOrNone
    BY DEF Typed, WorkerTyped, ArchiveTyped, DestinationTyped, RemoteImages, Descriptors
  <2> QED
    BY <2>1 DEF Typed, SourceTyped, WorkerTyped, DestinationTyped, TypeOK
<1> HIDE DEF ManyIndexed
<1> QED
  BY <1>1, <1>2, <1>3, ImagesTyped, PTL DEF Spec
=============================================================================

--------------------------- MODULE ContainerSync ---------------------------
(***************************************************************************)
(* One tag of a container package on its way to one docker destination.    *)
(* At GitHub the tag moves from version to version; each version has its   *)
(* event, and events come late, out of order and more than once.  Each     *)
(* makes a job, but what a job transfers is what the tag stands for when   *)
(* the registry is asked -- and it is asked twice.  The worker archives    *)
(* index and images, keeps those of the platforms that the destination     *)
(* wants, puts them together again, pushes them and tags the sub-images.   *)
(*                                                                         *)
(* Transfer has the same attempts for several destinations, where an image *)
(* is one file; JobPipeline has the files of the jobs.                     *)
(***************************************************************************)
EXTENDS FiniteSets, Naturals, Sequences

CONSTANTS
  Versions, Tagless,  \* versions of the package; those that have no tag
  Content,    \* version -> index: is it one?, manifests: its list, or the image alone
  Config,     \* digest -> platform in the config file of the image
  Repacked,   \* digest -> digest after its way through a tarball
  OsArch,     \* platform -> os and architecture, without the variant
  Filters,    \* the platforms that the destination may be configured with
  DefaultPlatform, \* what the registry library takes for an image out of an index
  NoPlatform, NoDigest, NoVersion, \* sentinels
  Faults,     \* what may go wrong, see FaultKinds
  MaxPublished, \* bound: how many versions are published
  MaxUnreadable \* bound: how many images of an archive cannot be read

FaultKinds ==
  {"link",    \* GitHub's registry does not answer, or a copy breaks off
   "tar",     \* an image in the archive cannot be read
   "json",    \* the index json in the archive cannot be opened
   "decode",  \* the index json is no JSON
   "client",  \* the archive cannot be opened, no token, no such reference
   "lost",    \* a push is refused, or done although its answer is lost
   "reject",  \* the destination refuses a push for good
   "tag",     \* the destination does not let tag a sub-image
   "unlink"}  \* the file of a job cannot be removed

(* An entry of a list of manifests.  An attestation is one that has the    *)
(* annotation; "other" is neither annotated nor an image, as an index      *)
(* within an index.                                                        *)
Descriptor(kind, digest, platform, attests) ==
  [kind |-> kind, digest |-> digest, platform |-> platform, attests |-> attests]

Digests == DOMAIN Config
Platforms == DOMAIN OsArch
DigestOrNone == Digests \cup {NoDigest}
PlatformOrNone == Platforms \cup {NoPlatform}

Descriptors ==
  [kind : {"image", "attestation", "other"}, digest : Digests,
   platform : PlatformOrNone, attests : DigestOrNone]

ASSUME ContainerAssumption ==
  /\ Tagless \subseteq Versions
  /\ DOMAIN Content = Versions
  /\ Config \in [Digests -> PlatformOrNone]
  /\ Repacked \in [Digests -> Digests]
  /\ NoDigest \notin Digests
  /\ \A v \in Versions : Content[v].index \in BOOLEAN
  /\ Faults \subseteq FaultKinds
  /\ MaxPublished \in Nat /\ MaxUnreadable \in Nat
  /\ NoVersion \notin Versions

(* What is no index is one image; images refer to nothing.                 *)
ASSUME ContentAssumption ==
  \A v \in Versions :
    LET list == Content[v].manifests IN
    /\ list \in Seq(Descriptors) /\ Len(list) > 0
    /\ \A i \in DOMAIN list : list[i].kind # "attestation" => list[i].attests = NoDigest
    /\ ~Content[v].index => Len(list) = 1 /\ list[1].kind = "image"

VARIABLES
  published, current, \* GitHub: the versions there are, and the one with the tag
  events,    \* versions whose event has still to be delivered
  pending,   \* versions with a job file
  filter,    \* Destination.Platforms
  pc, job, from, archive, left, \* the worker: its step, its job, the version it
             \* has got, what it has of it, the sub-images it has to tag
  remote,    \* the destination: what the tag stands for
  subTags,   \* the destination: <<os and architecture, kind>> -> digest
  refused,   \* history: the destination has refused what now has the tag
  untagged   \* history: tagging has failed since the last push

source == <<published, current, events, pending>>
worker == <<pc, job, from, archive, left>>
destination == <<remote, subTags>>
history == <<refused, untagged>>
vars == <<source, filter, worker, destination, history>>

Entries(list) == {list[i] : i \in DOMAIN list}

Nothing == [index |-> FALSE, manifests |-> {}]
NoArchive == [json |-> FALSE, list |-> <<>>, tars |-> {}, errors |-> FALSE]

-----------------------------------------------------------------------------
(* dockerExtractImagesAndAttestations: two maps, by digest and by the      *)
(* digest an attestation refers to.  A later image replaces an earlier one *)
(* of its digest; a later attestation of an image is dropped, and so is    *)
(* one that refers to nothing.                                             *)
Images(list) ==
  {list[i] : i \in {i \in DOMAIN list :
     /\ list[i].kind # "attestation"
     /\ \A k \in (i + 1)..Len(list) :
          list[k].digest = list[i].digest => list[k].kind = "attestation"}}

Attestations(list) ==
  {list[i] : i \in {i \in DOMAIN list :
     /\ list[i].kind = "attestation" /\ list[i].attests # NoDigest
     /\ \A k \in 1..(i - 1) :
          list[k].attests = list[i].attests => list[k].kind # "attestation"}}

HasPlatform(platform) == filter = {} \/ platform \in filter

OfUnwantedToo(list) == Images(list) \cup Attestations(list)  \* mutant: no filter

(* dockerFilterIndexManifest, in any order: it goes through maps.          *)
Filtered(list) ==
  IF Images(list) \cup Attestations(list) = {}
  THEN Entries(list)
  ELSE LET kept == {d \in Images(list) : HasPlatform(d.platform)}
       IN  kept \cup {a \in Attestations(list) : \E d \in kept : d.digest = a.attests}

(* A list of nothing but attestations that refer to nothing is an error.   *)
FilterFails ==
  archive.json /\ archive.list # <<>> /\ Images(archive.list) \cup Attestations(archive.list) = {}

(* What is left in the index, and the tarballs that go with it.            *)
Kept == IF archive.json THEN Filtered(archive.list) ELSE {}

Containers ==
  IF archive.json
  THEN {d.digest : d \in Kept} \cap archive.tars
  ELSE {t \in archive.tars : HasPlatform(Config[t])}

(* The platform of a nil pointer is asked for its name.                    *)
FilterPanics ==
  /\ filter # {}
  /\ \/ archive.json /\ \E d \in Images(archive.list) : d.platform = NoPlatform
     \/ ~archive.json /\ \E t \in archive.tars : Config[t] = NoPlatform

BareWithoutIndex == ~archive.json        \* mutant: an index of one remains an index

Bare == ~archive.json \/ Cardinality(Kept) = 1

(* A manifest of the new index without its tarball is a nil pointer too.   *)
IndexPanics == ~Bare /\ Containers # {} /\ \E d \in Kept : d.digest \notin Containers

BareImage(digest) ==
  [index |-> FALSE, manifests |-> {Descriptor("image", Repacked[digest], Config[digest], NoDigest)}]

(* Attestations are made to refer to the digests of the repacked images.   *)
Appended(d) ==
  Descriptor(d.kind, Repacked[d.digest], Config[d.digest],
             IF d.attests \in Containers THEN Repacked[d.attests] ELSE d.attests)

NewIndex == [index |-> TRUE, manifests |-> {Appended(d) : d \in Kept}]

IncompleteToo ==                         \* mutant: continue instead of the nil pointer
  IF Bare THEN {BareImage(t) : t \in Containers}
  ELSE {[index |-> TRUE, manifests |-> {Appended(d) : d \in {d \in Kept : d.digest \in Containers}}]}

(* dockerPrepareImage.  Without an index, any of the images will do.       *)
Prepared ==
  IF Bare THEN {BareImage(t) : t \in Containers}
  ELSE IF Containers = {} \/ IndexPanics THEN {} ELSE {NewIndex}

(* Sub-images and attestations of an index with the tags they get.         *)
SubImages(image) ==
  {[tag |-> <<OsArch[d.platform], "image">>, digest |-> d.digest] :
     d \in {d \in image.manifests : d.kind # "attestation" /\ d.platform # NoPlatform}}
SubAttestations(image) ==
  {[tag |-> <<OsArch[m[1].platform], "attestation">>, digest |-> m[2].digest] :
     m \in {m \in image.manifests \X image.manifests :
              /\ m[1].kind # "attestation" /\ m[1].platform # NoPlatform
              /\ m[2].kind = "attestation" /\ m[2].attests = m[1].digest}}

SubTagNames == {OsArch[p] : p \in DOMAIN OsArch} \X {"image", "attestation"}

-----------------------------------------------------------------------------
Init ==
  /\ published = {} /\ current = NoVersion /\ events = {} /\ pending = {}
  /\ filter \in Filters
  /\ pc = "idle" /\ job = NoVersion /\ from = NoVersion
  /\ archive = NoArchive /\ left = {}
  /\ remote = Nothing
  /\ subTags = [t \in SubTagNames |-> NoDigest]
  /\ refused = FALSE /\ untagged = FALSE

(* A push to GitHub's registry makes a version.  It takes the tag over, if *)
(* it was pushed with one.                                                 *)
Publish(v) ==
  /\ v \notin published
  /\ Cardinality(published) < MaxPublished
  /\ published' = published \cup {v}
  /\ current' = IF v \in Tagless THEN current ELSE v
  /\ events' = events \cup {v}
  /\ refused' = (refused /\ v \in Tagless)
  /\ UNCHANGED <<pending, filter, worker, destination, untagged>>

(* The webhook saves a job, under the identity of the version.             *)
DeliverEvent(v) ==
  /\ v \in events
  /\ pending' = pending \cup {v}
  /\ events' \in {events, events \ {v}}
  /\ UNCHANGED <<published, current, filter, worker, destination, history>>

-----------------------------------------------------------------------------
(* The worker.                                                             *)

Begin(v) ==
  /\ pc = "idle"
  /\ v \in pending
  /\ pc' = "get" /\ job' = v
  /\ UNCHANGED <<source, filter, from, archive, left, destination, history>>

LetGo ==
  /\ pc' = "idle" /\ job' = NoVersion /\ from' = NoVersion
  /\ archive' = NoArchive /\ left' = {}

Retry ==
  /\ LetGo
  /\ UNCHANGED <<source, filter, destination>>

(* The attempt is over for good: the job's file is removed.                *)
Settle ==
  /\ LetGo
  /\ \/ pending' = pending \ {job}
     \/ "unlink" \in Faults /\ UNCHANGED pending
  /\ UNCHANGED <<published, current, events, filter>>

OwnVersion == job                        \* mutant: ask for the digest of the event

(* GetPackageUrl names the tag, or the digest of a version that has none.  *)
Asked == IF job \in Tagless THEN job ELSE current

GetDescriptor ==
  /\ pc = "get"
  /\ from' = Asked
  /\ pc' = "pull"
  /\ UNCHANGED <<source, filter, job, archive, left, destination, history>>

DownloadFails ==
  /\ pc \in {"get", "pull"}
  /\ "link" \in Faults
  /\ Retry
  /\ UNCHANGED history

(* The second request says what the archive holds, the first one whether   *)
(* it is an index: the tag may have moved in between.                      *)
Pull(json, list, tars) ==
  /\ from' = Asked
  /\ archive' = [json |-> json, list |-> list, tars |-> tars, errors |-> FALSE]
  /\ pc' = "open"
  /\ UNCHANGED <<source, filter, job, left, destination, history>>

PullImage ==
  /\ pc = "pull"
  /\ ~Content[from].index /\ ~Content[Asked].index
  /\ Pull(FALSE, <<>>, {Content[Asked].manifests[1].digest})

DefaultImages(v) ==
  {d \in Entries(Content[v].manifests) :
     d.kind # "other" /\ d.platform \in {DefaultPlatform, NoPlatform}}

PullDefaultImage(d) ==
  /\ pc = "pull"
  /\ ~Content[from].index /\ Content[Asked].index
  /\ d \in DefaultImages(Asked)
  /\ Pull(FALSE, <<>>, {d.digest})

(* Manifests that are no images get no tarball; nor do those of a platform *)
(* without a name, the empty string.                                       *)
Pulled(v) == {d \in Entries(Content[v].manifests) : d.kind # "other"}

PullIndex ==
  /\ pc = "pull"
  /\ Content[from].index /\ Content[Asked].index
  /\ Pulled(Asked) # {}
  /\ Pull(TRUE, Content[Asked].manifests,
          {d.digest : d \in {d \in Pulled(Asked) : d.platform # ""}})

PullFails ==
  /\ pc = "pull"
  /\ \/ Content[from].index /\ (~Content[Asked].index \/ Pulled(Asked) = {})
     \/ ~Content[from].index /\ Content[Asked].index /\ DefaultImages(Asked) = {}
  /\ Retry
  /\ UNCHANGED history

-----------------------------------------------------------------------------
(* uploadFromZipToGcpArtifactRegistryDocker                                *)

SkipTagless ==
  /\ pc = "open"
  /\ job \in Tagless
  /\ Settle
  /\ UNCHANGED <<destination, history>>

UploadFails ==
  /\ pc = "open"
  /\ job \notin Tagless
  /\ "client" \in Faults
  /\ Retry
  /\ UNCHANGED history

(* The archive is read file by file; errors are collected.  An index that  *)
(* is no JSON counts as an empty one, one that cannot be opened as none.   *)
Open ==
  /\ pc = "open"
  /\ job \notin Tagless
  /\ \E tars \in SUBSET archive.tars :
       /\ tars # archive.tars => "tar" \in Faults
       /\ Cardinality(archive.tars \ tars) <= MaxUnreadable
       /\ \/ archive' = [archive EXCEPT !.tars = tars, !.errors = tars # archive.tars]
          \/ /\ archive.json /\ "json" \in Faults
             /\ archive' = [archive EXCEPT !.tars = tars, !.json = FALSE, !.errors = TRUE]
          \/ /\ archive.json /\ "decode" \in Faults
             /\ archive' = [archive EXCEPT !.tars = tars, !.list = <<>>, !.errors = TRUE]
  /\ pc' = "push"
  /\ UNCHANGED <<source, filter, job, from, left, destination, history>>

(* No image for the destination: an error only if there were any.          *)
NoMatch ==
  /\ pc = "push"
  /\ ~FilterPanics /\ Containers = {}
  /\ \/ /\ archive.errors \/ FilterFails
        /\ Retry
     \/ /\ ~archive.errors /\ ~FilterFails
        /\ Settle
        /\ UNCHANGED destination
  /\ UNCHANGED history

CanPush == pc = "push" /\ ~FilterPanics

PushUnlessThere ==                       \* mutant: what is there is not pushed again
  /\ CanPush
  /\ \E image \in Prepared :
       /\ remote' = image
       /\ IF image.index /\ remote # image
          THEN /\ pc' = "tag"
               /\ left' = SubImages(image) \cup SubAttestations(image)
               /\ UNCHANGED <<source, filter, job, from, archive>>
          ELSE Settle
  /\ untagged' = FALSE
  /\ UNCHANGED <<subTags, refused>>

(* Errors of the preparation do not keep from pushing what there is.       *)
Push ==
  /\ CanPush
  /\ \E image \in Prepared :
       /\ remote' = image
       /\ IF image.index
          THEN /\ pc' = "tag"
               /\ left' = SubImages(image) \cup SubAttestations(image)
               /\ UNCHANGED <<source, filter, job, from, archive>>
          ELSE Settle
  /\ untagged' = FALSE
  /\ UNCHANGED <<subTags, refused>>

LostIsFinal ==                           \* mutant: no push is tried again
  /\ CanPush
  /\ "lost" \in Faults
  /\ \E image \in Prepared : remote' \in {remote, image}
  /\ Settle
  /\ UNCHANGED <<subTags, history>>

PushLost ==
  /\ CanPush
  /\ "lost" \in Faults
  /\ \E image \in Prepared : remote' \in {remote, image}
  /\ LetGo
  /\ UNCHANGED <<source, filter, subTags, history>>

PushRejected ==
  /\ CanPush
  /\ "reject" \in Faults
  /\ Prepared # {}
  /\ refused' = (refused \/ from = current)
  /\ Settle
  /\ UNCHANGED <<destination, untagged>>

-----------------------------------------------------------------------------
(* dockerTagRemoteSubImages reads back the index it has pushed and tags    *)
(* images, then attestations, in the order of a map.                       *)

TagNext(item) ==
  /\ pc = "tag"
  /\ item \in left
  /\ item.tag[2] = "attestation" => \A other \in left : other.tag[2] = "attestation"
  /\ left' = left \ {item}
  /\ UNCHANGED <<source, filter, pc, job, from, archive, remote, refused>>

TagSubImage(item) ==
  /\ TagNext(item)
  /\ subTags' = [subTags EXCEPT ![item.tag] = item.digest]
  /\ UNCHANGED untagged

(* Its errors are only logged.                                             *)
TagFails(item) ==
  /\ TagNext(item)
  /\ "tag" \in Faults
  /\ untagged' = TRUE
  /\ UNCHANGED subTags

(* The index cannot be read back.                                          *)
NoIndexBack ==
  /\ pc = "tag"
  /\ left = SubImages(remote) \cup SubAttestations(remote)
  /\ "tag" \in Faults
  /\ untagged' = TRUE
  /\ Settle
  /\ UNCHANGED <<destination, refused>>

TaggingPanics ==
  \E d \in remote.manifests : d.kind # "attestation" /\ d.platform = NoPlatform

(* An image that cannot be read back is not asked for its platform.        *)
Finish ==
  /\ pc = "tag"
  /\ left = {}
  /\ TaggingPanics => "tag" \in Faults
  /\ Settle
  /\ UNCHANGED <<destination, history>>

-----------------------------------------------------------------------------
(* The process is killed; the jobs are there when it is back.              *)
Crash ==
  /\ pc # "idle"
  /\ LetGo
  /\ UNCHANGED <<source, filter, destination, history>>

(* A nil pointer ends the process; the job is there when it is back.       *)
Panic ==
  /\ \/ pc = "push" /\ (FilterPanics \/ IndexPanics)
     \/ pc = "tag" /\ TaggingPanics
  /\ Retry
  /\ UNCHANGED history

Worker ==
  \/ \E v \in Versions : Begin(v)
  \/ GetDescriptor \/ DownloadFails
  \/ PullImage \/ PullIndex \/ PullFails
  \/ \E v \in Versions : \E d \in DefaultImages(v) : PullDefaultImage(d)
  \/ SkipTagless \/ UploadFails \/ Open
  \/ NoMatch \/ Push \/ PushLost \/ PushRejected
  \/ \E item \in left : TagSubImage(item) \/ TagFails(item)
  \/ NoIndexBack \/ Finish \/ Panic

Next ==
  \/ \E v \in Versions : Publish(v) \/ DeliverEvent(v)
  \/ Worker
  \/ Crash

Spec == Init /\ [][Next]_vars

(* GitHub delivers each event at last, and the worker goes on.             *)
FairSpec ==
  /\ Spec
  /\ \A v \in Versions : WF_vars(DeliverEvent(v) /\ v \notin events')
  /\ WF_vars(Worker)

-----------------------------------------------------------------------------
(* Properties.                                                             *)

TypeOK ==
  /\ published \subseteq Versions
  /\ current \in (published \ Tagless) \cup {NoVersion}
  /\ events \subseteq published /\ pending \subseteq published
  /\ filter \in Filters
  /\ pc \in {"idle", "get", "pull", "open", "push", "tag"}
  /\ job \in pending \cup {NoVersion} /\ (job = NoVersion <=> pc = "idle")
  /\ from \in published \cup {NoVersion}
  /\ archive.tars \subseteq Digests
  /\ left \subseteq [tag : SubTagNames, digest : Digests]
  /\ remote.index => Cardinality(remote.manifests) > 1
  /\ \A d \in remote.manifests : d.digest \in Digests /\ d.attests \in DigestOrNone
  /\ subTags \in [SubTagNames -> DigestOrNone]
  /\ refused \in BOOLEAN
  /\ untagged \in BOOLEAN

(* A version as build tools make them: one image, or an index of images,   *)
(* each of them once, with at most one attestation each.                   *)
RegularOnes ==
  {v \in Versions :
   LET list == Content[v].manifests IN
   \A i \in DOMAIN list :
       LET d == list[i] IN
       /\ d.kind # "other"
       /\ Config[d.digest] = d.platform /\ d.platform \notin {NoPlatform, ""}
       /\ d.kind = "attestation" =>
            \E k \in DOMAIN list : list[k].kind = "image" /\ list[k].digest = d.attests
       /\ \A k \in DOMAIN list \ {i} :
            /\ list[k].digest # d.digest
            /\ d.kind = "attestation" => list[k].attests # d.attests}

(* What the destination should have of it: the images of its platforms,    *)
(* each with its attestation, an only image without an index around it.    *)
Mirror(v) ==
  LET all == Entries(Content[v].manifests)
      wanted == {d \in all : d.kind = "image" /\ HasPlatform(d.platform)}
      chosen == wanted \cup {a \in all : \E d \in wanted : a.attests = d.digest}
      copy(d) == Descriptor(d.kind, Repacked[d.digest], d.platform,
                            IF d.attests = NoDigest THEN NoDigest ELSE Repacked[d.attests])
  IN  [index |-> Cardinality(chosen) > 1, manifests |-> {copy(d) : d \in chosen}]

(* Everything that was published has been delivered and handled.           *)
Quiet == events = {} /\ pending = {} /\ pc = "idle"

Due == current # NoVersion /\ current \in RegularOnes /\ Mirror(current) # Nothing

InSync == Due /\ ~refused => remote = Mirror(current)

(* Whatever order events came in, wherever the tag moved while a job was   *)
(* handled, the destination ends up with the version that has the tag:     *)
(* jobs of older versions transfer the newer one, not their own.           *)
FinallyCurrent == Quiet => InSync

(* No step shows the destination a part of an index, or an attestation of  *)
(* an image that it does not have.                                         *)
IndexesWhole ==
  remote.index /\ published \subseteq RegularOnes =>
    \E v \in published : remote = Mirror(v)

(* "only sync these platforms": whatever way an image took, by index, by   *)
(* default or alone.                                                       *)
NothingUnwanted ==
  \A d \in remote.manifests : d.kind = "image" => HasPlatform(d.platform)

(* The sub-images of an index can be reached by platform: unless tagging   *)
(* failed, their tags stand for entries of this index and not of an        *)
(* earlier one; images that differ by variant alone share one tag.         *)
SubTagsFollow ==
  Quiet /\ Due /\ InSync /\ ~refused /\ remote.index /\ ~untagged =>
    LET items == SubImages(remote) \cup SubAttestations(remote) IN
    \A item \in items : [item EXCEPT !.digest = subTags[item.tag]] \in items

(* dockerPrepareImage: "there's only 1 if there's no index".               *)
OnlyOneWithoutIndex ==
  pc = "push" /\ ~archive.json => Cardinality(Containers) <= 1

Trouble ==
  \/ DownloadFails \/ UploadFails \/ PushLost \/ PushRejected \/ Crash
  \/ \E item \in left : TagFails(item)
  \/ NoIndexBack
  \/ Open /\ archive'.errors
  \/ (SkipTagless \/ NoMatch \/ Push \/ Finish) /\ pc' = "idle" /\ job \in pending'
  \/ \E v \in Versions : DeliverEvent(v) /\ v \in events'

(* Once nothing fails any more the destination follows the tag for good,   *)
(* unless it has refused that version.                                     *)
Converges == <>[][~Trouble]_vars => <>[]InSync
=============================================================================

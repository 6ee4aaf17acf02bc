# gh-artifacts-sync in TLA+

`gh-artifacts-sync` receives GitHub webhooks, writes one JSON file per job to a
jobs directory, and a single worker downloads what each job names and uploads it
to the configured registries. This directory specifies that service in TLA+:
TLC checks small instances, TLAPS proves the safety core for every instance.

## Inventory

| Part | State | Operations | Talks to |
|---|---|---|---|
| Webhook (`server/webhook.go`, `sanitise.go`) | none of its own; one goroutine per delivery | per event: validate, match with the configuration, save jobs, answer | job store; GitHub through the status |
| Job store (`job/job.go`, `server/remove.go`, `utils/soft_delete.go`) | jobs directory, soft-delete directory | `Save`, `Load`, `RemoveJob` | file system |
| Scheduler (`server/scheduler.go`) | channel `jobs` (100), counter `jobInFlight` | `schedulerIngestJobs` on the ticker goroutine, `schedulerHandleJob` on the worker goroutine | job store, handlers |
| Life cycle (`server/server.go`) | ticker, HTTP server | start, stop signal, shutdown, close of the channel, exit | all |
| Discover handler (`handle_discover_artifacts.go`) | local | list artifacts, save a sync job for each | GitHub, job store |
| Sync handlers, downloads (`handle_sync_*.go`, `download*.go`) | downloads directory | download, upload, remove the download | GitHub, registries |
| Uploads (`upload*.go`, `zip_file_hash.go`) | files and images at the destinations | list, compare, upload; push and tag | registries |
| Image preparation (`docker.go`) | none of its own; tags at the destination | filter an index by platform, rebuild it, tag its sub-images | uploads, registries |
| Configuration (`config/`) | read once | validation | webhook, uploads |
| Command line, logging, metrics, cloud clients | - | - | - |

What is hard in it: handlers, ticker and worker share a directory and a counter
and nothing locks them together; the counter is raised after the send; a tick
works on a listing made earlier; jobs of different content can have one file
name; the process may stop anywhere and only files survive; downloads and
uploads are retried at every tick, for ever; errors of several destinations are
joined; an upload may be answered for and not be done; a container's tag moves
while jobs about it wait. `PROJECT.json` lists every such hazard at its line.

What makes each part correct:

- scheduler: the counter says exactly what is in flight, no file is dispatched
  twice, a walk never meets a file the worker has removed, every file is
  dispatched in the end if the process does not go down for ever;
- job store: a job disappears only after a verdict, and never unfinished;
  settled jobs are kept where soft deletion is configured;
- discover: settled only when all its artifacts have become jobs;
- sync: done means delivered, whatever broke off before, or at least answered
  for; downloads do not pile up;
- webhook: 200 means saved, and with the pipeline: saved and in the end handled;
- containers: the destination follows the tag at GitHub, whatever the order of
  events; it has the images of the wanted platforms, and no part of an index;
- life cycle: shutting down sends nothing on a closed channel.

## Modules

| Module | What it is |
|---|---|
| `JobPipeline` | webhook saves, ticker, channel, worker, removal, shutdown, crash, restart |
| `JobLedger` | abstract: a job is pending until it is settled |
| `MCJobPipeline` | jobs, files and their order for TLC |
| `JobPipelineProofs` | types, the dispatch invariant, and what follows from it |
| `JobLossProofs` | which jobs can be lost, the refinement of `JobLedger`, discovery, soft deletion |
| `Transfer` | one sync job over all its attempts |
| `Delivery` | abstract: files arrive, then the job is done |
| `TransferProofs` | what done means, and the refinement of `Delivery` |
| `JobIdentity` | the jobs that events, assets and artifacts make, and the files that their IDs name |
| `Webhook`, `MCWebhook` | deliveries of events and their jobs; the instance for TLC |
| `SyncService`, `MCSyncService` | `Webhook` and `JobPipeline` in one process, and what a discover job finds; its instance |
| `WebhookProofs`, `ServiceProofs` | answers are true; the composition implements its parts |
| `SampleEvents` | events and a configuration for the two instances |
| `ContainerSync`, `MCContainerSync` | a container's tag from GitHub to a docker destination; versions of an image for TLC |
| `ContainerImageProofs` | types, wanted platforms, whole indexes |
| `ContainerSyncProofs` | the destination and its sub-tags follow the tag |

Operators marked `mutant:` are wrong variants of the definition that follows
them; no specification uses them. Each run property is violated when one of them
takes the place of its original, which shows that the property depends on that
piece of code.

### JobPipeline

`dirJobs` and `dirSoftDelete` are the two directories (file to content), `jobs`
and `jobInFlight` the fields of `Server`. The ticker goroutine is `tpc`
(`idle`, `load`, `send`, `count`) with the listing `todo` and the loaded job; the
worker is `wpc` (`idle`, `handle`, `spawn`, `move`, `unlink`, `finish`). `phase`
is how far `Run` has got, and at the end how the process ended (`down`, or
`panicked` by the send on the closed channel). It may stop and crash any number
of times.

- A job is identified by its content; `FileOf` gives its file name. That is how
  two tags of one package version, or two patterns that match one artifact, come
  to share a file, as the constructors in `job/` make them.
- `Tick` merges the look at the counter with the directory read of `WalkDir`.
  Nothing is lost by that: with the ticker idle and the counter not positive,
  `InFlightExact` says that the channel is empty and the worker idle, so only
  webhooks can act between the two, and their saves commute with the look at
  the counter.
- `Send` and `Count` are two steps, as in the code; the worker may finish the
  job between them.
- `MoveJob` and `UnlinkJob` are the two halves of `utils.SoftDelete`. The move
  across devices is a copy, which may break off. A cleanup job is removed twice
  (`passes`), by its handler and again by `schedulerHandleJob`.
- `HandleFinal` and `HandleRetryable` stand for a whole attempt of a sync job,
  which `Transfer` opens up. `ListArtifacts`, `SaveChild`, `SaveChildFails` are
  the discover handler; the fault `expire` stands for artifacts that expired or
  are no longer configured.
- Five kinds of file operations fail when `Faults` says so: `read`, `save`,
  `move`, `unlink`, `expire`.
- `StopTicker` forbids further ticks: with the Go version of `go.mod` a stopped
  ticker leaves no stale tick in its channel. A walk under way goes on, as in
  the code.
- A jobs directory without subdirectories, and temporary files of `renameio`
  (which the walk skips by extension), are not represented.

`EveryFileDispatched` assumes that the process goes down only finitely often. A
job that panics at every attempt (see `ContainerToGeneric`) takes the process down
at every attempt; each walk after a restart begins with the first file in lexical
order, so that the files after that job are never handled. A `Crash` while a job
is handled is that panic.

History variables: `saved`, `settled`, `unread`.

### Transfer

One job, destinations `1..Count`, files `Names`. `remote` is the state of each
file at each destination; "right" is what this job has downloaded, whatever version
that is. `downloads` are the local archives by name. Runs, releases and images
without tag have one name; the archive of a container is named after the digest that its tag
has at the attempt, so `CreateDownload` picks any of `Archives`. Steps are those of the
handlers: link, create and copy; then per destination open, and per file list,
compare, upload; or push an image. All errors are collected and the verdict is
that of `schedulerHandleJob`. An image becomes visible at once, because its
manifest is written last. Hash types other than SHA256 and MD5 never occur in
the model: the code would upload again. `wanted` leaves out destinations with no
use for the image (no tag, or none of their platforms).

An upload is answered with an Operation. The code looks at its error only when
the status is not 200 and never at whether it is done, so that a 200 counts as
success while the file is not there. The fault `operation` is this
(`UploadTrusted`), and `OperationEnds` is such a file arriving later. `trusted`
remembers the files answered for and not there: `DoneMeansDelivered` says that a
job that is done has delivered everything but these, and
`DoneIsThereIfAnswersHold` that there are none without the fault.

`abandoned` remembers for each name why a download is there that no attempt holds:
it broke off or the process stopped with it (`cut`), or it could not be removed.
`OnlyCutsLeaveDownloads` says that nothing else leaves one, no error, verdict or
panic; `DoneLeavesNoDownload` that a job without error cleans up what earlier
attempts left under its name. What they left under earlier digests of a moved tag
stays, in the code as in the model, and so does a partial file when the
job is given up after a copy that broke off.

`Delivery` knows neither attempts nor downloads. Under the refinement mapping a
file arrives, perhaps several at once, or a destination answers for it before;
the job is `done` only when all that is wanted has arrived or was answered for,
and after that only what was answered for arrives.

### Webhook

Each delivery has a handler of its own; the jobs of an event are saved one by
one in any order (the code ranges over maps), each save may fail, the process
may crash between two, and what was not answered with 200 may be delivered
again. Regular expressions are functions from the names they match to what they
capture; `CapturesAssumption` says that the expression of a release always
captures something, the name it matches if it has no group. A job consists of
its file, its version or tag, and its destinations (`JobIdentity`): two patterns
that match one asset make two jobs of one file. `persisted` contains jobs: that
two of them may share a file is `JobPipeline`'s concern. An asset or artifact
without an ID, which sanitising lets through, gets a random number in its file
name. The number comes with the asset in the model, hence is the same at a
redelivery or another attempt, where the code would draw a new one and
write the same job a second time under another name. Payload validation (status 400) changes nothing and is
left out.

### SyncService

One process: the variables are those of `JobPipeline` and of `Webhook`, whose
`persisted` is the posted part of the pipeline's `saved`. A handler's `SaveJob` and the
pipeline's `WebhookSave` are one step (`Post`). New deliveries are taken until
the shutdown begins; handlers under way go on (`Shutdown` waits for them, but
only for 30 s) and end, at the latest, with the process (`EndHandlers`).
`Discovered` is the selection that `handleDiscoverWorkflowArtifacts` makes of a
run's artifacts, with the version that each gets; it looks the configuration up by
the path of the workflow, while the webhook has gone by the path of the run, and
finds nothing when these differ; `ServiceAssumption` ties it
to `Children`, and job files to IDs. What is promised is the jobs of the
deliveries answered with 200; of workflow runs only those that were saved, since
`RunAckedUnsaved` shows that their answer promises nothing.

### ContainerSync

The steps of one container job, with the data that `docker.go` works on. At
GitHub versions are published and take the tag over (`current`); each has an
event, delivered at least once, in any order, and each event a job. The worker
asks for the descriptor (`GetDescriptor`) and then for the image or the index
(`PullImage`, `PullIndex`): two requests, between which the tag may move, with
what the registry library does when an image is asked for and an index is there
(`PullDefaultImage`, external). `Open` reads the archive file by file with its
faults. `Images`, `Attestations`, `Filtered`, `Containers`, `Bare`, `NewIndex`
and `Prepared` are the functions of `docker.go` on descriptors; `Prepared` is
a set because the code takes any element of a map. `Push` replaces what the tag
stands for at once, since the manifest is written last; the sub-images of an
index are then tagged one by one (`TagSubImage`). Nil pointers are `FilterPanics`,
`IndexPanics` and `TaggingPanics`: the process ends and the job is there when it
is back. `Mirror` is the reference: what the destination should have of a
version whose index is as build tools make them (`RegularOnes`); odd versions
take part in every run, and only the promises about content are limited to
regular ones.

Digests stand for images. `Repacked` is the change of digest that a tarball
makes. A descriptor's platform and that of the image's config file are kept
apart, since the code uses both. `ContentAssumption` is what a registry ensures:
lists are not empty, only attestations refer to a digest, and what is no index is
a single image.

## Runs

| Run | Expect | What it shows | Bounds |
|---|---|---|---|
| `PipelineFaults` | pass | counter, dispatch, presence, removal and loss, with every fault | 3 jobs (a discover job, two that share a file), 2 files, one stray, capacity 1, any number of stops |
| `PipelineFair` | pass | ledger refinement, nothing lost, discovery, soft deletion, dispatch and recovery | 3 jobs with own files, faults `save` and `unlink`, capacity 1, any number of stops |
| `JobOverwritten` | violation | jobs with one ID lose one of them | 2 jobs, 1 file, no faults |
| `ShutdownRace` | violation | a walk sends on the closed channel | 2 jobs, any number of stops |
| `Transfer` | pass | done means delivered; what is left of downloads; refinement of `Delivery`; delivery in the end | 2 destinations of any accepted types, 2 files, 2 names of archives, all faults, any number of crashes |
| `MixedVerdict` | violation | a final error discards another destination's retry | 2 destinations, 1 file |
| `ContainerToGeneric` | violation | an accepted configuration panics | 2 destinations, no faults |
| `Webhook` | pass | 200 means saved, for packages and releases | 4 concurrent deliveries (a package, a malformed event and one release twice, with 3 jobs of which 2 share a file and one has no ID), failing saves, any number of crashes and redeliveries |
| `RunAckedUnsaved` | violation | a workflow run is acknowledged unsaved | 2 deliveries |
| `SyncService` | pass | accepted events are on disk or settled at any time, and handled with all they discover in the end | a package and a run with one artifact, faults `save` and `unlink`, capacity 1, any number of stops and redeliveries |
| `ContainerSync` | pass | the destination follows the tag; whole indexes, wanted platforms only, sub-tags | 6 versions of which any 2 are published, 2 filters, all faults but `json`, one unreadable tarball, any number of crashes, retries and repeated events |
| `WithoutIndex` | violation | one of several images pushed as the index | 1 version, fault `json` |

Bounds. `Jobs`, `Files` and `QueueCap` are small because TLC
enumerates; the theorems below hold for all of them. Capacity 1 is the hardest:
the ticker blocks in the middle of a walk. Two jobs sharing a file are enough
for every overwrite, since an overwrite concerns a pair. Stops, crashes, restarts
and attempts are not bounded, since nothing in the state counts them;
webhooks may save jobs again without limit. In `Transfer` two destinations
are what mixed verdicts need, and two names of archives are enough for one that
is left behind and one that is not. `Transfer` switches
the deadlock check off because a job that has been removed has nothing more to
do, and `ContainerSync` because everything published may have been handled; the
other passing specifications never stop.

The violation runs check one property each, quoted in `PROJECT.json` under
`findings` with the line that states it.

In `ContainerSync` what the destination has, what the worker has in hand and
what the tag stands for can be of different versions; two published versions
give every order of these, since the properties compare the destination with
one version, and what came before it is the same to the code whether it was one
version or several. The six versions are the shapes that the code tells apart:
an index with an attestation, an image alone, variants of one architecture, what
build tools do not make, an image without platform, no tag. The index json is
always readable there because `WithoutIndex` shows that all promises about
content end when it is not.

## Fairness

`FairSpec` of `JobPipeline` assumes weak fairness of the ticker goroutine, the
worker goroutine and the process. The first two are what the Go scheduler gives
a runnable goroutine, *if* handlers return: listings of artifacts and downloads
of files have deadlines, but pulls and pushes of containers have none, nor have
the requests of generic uploads (the deadline in `upload_gcp_generic.go` reaches
the making of the client, not `List` and `Upload`), so a registry that hangs
would stop the worker and the assumption with it. The
third says that `Run` goes through its shutdown (`Shutdown` has a deadline) and
that a supervisor restarts the process. Webhooks, signals and crashes are not
forced. No fairness is assumed of success: an attempt may fail retryably for
ever, and `RecoversWhenTroubleEnds` and `DeliversWhenTroubleEnds` state
explicitly from when on nothing fails. `FairSpec` of `Transfer` says the same of
the handler of one job. `FairService` adds that webhook handlers return: they
write a few small files, and the server's timeouts end the rest. `FairSpec` of
`ContainerSync` assumes that GitHub, or someone who redelivers, gets each event
through at last, and that the worker goes on; which job it takes next is left
open, because every pending job asks for the same tag.

## Proofs

All proofs are checked by TLAPS for arbitrary constants that satisfy the
assumptions of their module; TLC evaluates these in every run. For `JobPipeline`
they say that files have a rank, children are jobs, the capacity is positive and
the sentinels are not jobs; for the others see above. What a theorem assumes beyond that is
in its statement. Every invariant of the passing runs is a theorem, and
both refinements and the action property are.

`JobPipelineProofs`:

1. `TypeCorrect`, from `Typed`, which adds to `TypeOK` what typing needs:
   passes are left at `unlink`, and only a discover job is at `spawn`.
2. `CounterExact`, `NeverDispatchedTwice` and `WalkMeetsNoRemoval` from the
   inductive invariant `IInv`. The three need each other: a tick may list only
   if nothing is outstanding, which is what the exact counter says when it is not
   positive and the ticker is idle; only then can the new listing be disjoint
   from the channel and the worker's file; and because it is, the one file that
   the worker can remove is none of those listed.

`JobLossProofs`:

3. `NothingLostUnlessExposed` and `VerdictBeforeRemoval` from `LInv`. The
   strengthening says that the worker is in removal only with a settled job or a
   cleanup job, and that what is in the pipeline is a job that was saved under
   that file's name, or a cleanup job of a file whose load had failed.
4. `UnfinishedJobsKept` and `PipelineImplementsLedger` under `Unshared`: each
   job has a file of its own, nothing unparseable is in the directory at the start
   and loads succeed. The run `JobOverwritten` shows that the assumption
   cannot be dropped. Where it fails, 3. says precisely what can be lost.
5. `DiscoversAll` if artifacts do not expire: what is not yet saved of a
   listing is still to be saved or has made the attempt fail.
6. `SettledUnlessExposed` where moves succeed (a failed copy across devices loses
   the file, see `hazards`), from `KInv`: at `unlink` the file has been moved, and
   the stray contents of the directory are never those of a saved job's file.
   `SettledKept` follows under `Unshared`, where no job is exposed.

`TransferProofs`, for any numbers of destinations and files, all faults and any
number of attempts and crashes:

7. `TransferTyped`, `DoneIsDelivered`, `DoneIsThereIfAnswersHold`, `DoneIsCleanedUp`
   and `DownloadsLeftAreCut` from `TInv`. That done means delivered is not inductive:
   what is needed is `Served`, that at every destination before this one which has
   not had an error all files are right or answered for, and at this one those no
   longer in `left`; `ErrorsEnd`, that a verdict without an error is given only
   after the last destination; and `Trust`, that what was answered for is wanted,
   not there, and there is none of it without the fault `operation`. For the
   downloads, `Downloads` says that only the attempt under way holds one that was
   not abandoned, and `CleanedUp` that at a verdict without error its own is gone.
8. `TransferImplementsDelivery`: a step changes a destination only towards what is
   right (`RemoteSteps`), so it is a `Deliver`, an `Accept` or a stutter; once the
   job is done, what can still arrive was answered for; that a removal
   without error is a `Complete` is `DoneMeansDelivered` again.

`ContainerImageProofs`, with all faults, `json` included:

9. `OnlyTheWanted`, under `PlatformsAgree` and `ImagesListed`. Both are needed: an
   index json may claim a platform that the image does not have, and a list of
   one attestation that refers to nothing is pushed as if it were an image. The
   argument is one about `docker.go` alone (`PreparedWanted`); the protocol adds
   that the list in the archive is that of a version, or an empty one (`Archived`).
10. `OnlyWholeIndexes`, without hypotheses. For a regular version the two maps and
   the filter keep exactly what `Mirror` wants (`RegularFiltered`), and what is
   pushed of it is `Mirror` or nothing, because the process panics rather than
   push a part (`RegularPrepared`).
11. `ImagesTypeCorrect`, under `OneToOne` and `ImagesListed`: that an index has more
   than one manifest needs that no two of the kept entries become equal when
   they are appended (`AppendedApart`).

`ContainerSyncProofs`, under `"json" \notin Faults` (`WithoutIndex` shows that it
cannot be dropped):

12. `CurrentAtLast` and `SubImagesReached` from `FInv`. `Following` is the heart of
   it: once the version that has the tag has had its event delivered, and unless
   its own job is still waiting, the job at work asked the registry later, hence has this
   version in hand, whatever version the job was made for; the two requests then agree, so
   that no index is taken for an image. `Synced` says that when that version's job is
   done, or has only to tag, the destination has it: a push by a later job pushes the
   same again, and a job is given up without a push only if nothing
   was to be had (`NothingToPush`). `Tagging` says that what has been tagged
   since the push is in the index, though two entries may share a tag; `Tagged`
   that it stays so while only tagless versions are left.

`WebhookProofs` and `ServiceProofs`:

13. `AcceptedAreSaved` from `WInv`: as long as no save has failed, a handler under
   way has every job of its event still to save or saved. `HandlersTypeCorrect`
   from the same and `CapturesAssumption`.
14. `ServiceRunsPipeline` and `ServiceRunsWebhook`: each step of the composition is
   a step of the part or leaves it alone. The first needs that handlers save
   only jobs that events call for (`ServiceAssumption`), the second that the
   discover handler saves none of them (`KidsNotPosted`).
15. `ServiceKeepsPromises` under `Unshared`: the handlers' invariant says that what
   is promised was saved, and 4., brought over by 14., that what was saved and is
   not settled is on disk.

The hypotheses are met by the runs: `PipelineFair` and `SyncService` are
instances of `Unshared` without the fault `move`, and the versions of
`MCContainerSync` meet `PlatformsAgree`, `ImagesListed` and `OneToOne`, the odd ones
included.

Only model-checked: all liveness (fairness and `ENABLED` are out of the
prover's reach), that is `EveryFileDispatched`, `RecoversWhenTroubleEnds`,
`DeliversWhenTroubleEnds`, `PromisesKept` and `Converges`.

## Not modelled

- Reading and merging of the configuration, flags, logs, metrics, clients: they
  run once, or no handler reads them back. Of the settings, `accept_drafts` and
  `accept_prereleases` of a release are read by no code, so that nothing could be
  related to them.
- A nested index that the registry library would resolve to its default image.
- Several tags and several destinations of one container at a time
  (`ContainerSync` has one of each; `Transfer` has several destinations).
- A tag that goes back to an earlier version at GitHub: no event tells of it.
- `utils.MostFrequentMediaType`, which is called by nobody.
- Time: ticks and deadlines are nondeterministic; attempts are repeated without
  backoff in the code as in the model.
- Removal of empty download directories.

## Plan

1. Done: `JobPipeline` with `JobLedger` and the proofs; `Transfer` with
   `Delivery`; `Webhook`; their composition `SyncService`; `ContainerSync`.
2. Done: proofs of all invariants of the passing runs and of both refinements;
   downloads by name and answers that do not hold, in `Transfer` and its proofs.
3. Proofs: the promises of the parts for the composed service (what is settled
   is kept, what is accepted is saved, no file twice); an abstract specification
   of what `ContainerSync` shows, and its refinement.

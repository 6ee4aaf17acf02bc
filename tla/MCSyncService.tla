-------------------------- MODULE MCSyncService --------------------------
(***************************************************************************)
(* An instance of SyncService: the deliveries are named for their sample   *)
(* events, and the run has one artifact.                                   *)
(***************************************************************************)
EXTENDS SyncService, TLC

Samples == INSTANCE SampleEvents

TheConfig == Samples!TheConfig
Events == [d \in Deliveries |-> Samples!SampleEvents[d]]

Run == Samples!Run
RunJob == DiscoverJob(Run)

PackagesJob == PackageJob(Samples!Package, TheConfig["org/repo"].containers["app"])

TheJobs == {PackagesJob, RunJob} \cup Discovered(Run)
TheFiles == {j.file : j \in TheJobs}
OwnFile == [j \in TheJobs |-> j.file]
OneArtifact == [j \in TheJobs |-> IF j = RunJob THEN Discovered(Run) ELSE {}]

(* discover-... < sync-container-... < sync-workflow-artifact-...          *)
Places == [discover |-> 1, package |-> 2, artifact |-> 3]
Lexical == [f \in TheFiles |-> Places[f[1]]]
=============================================================================

------------------------------ MODULE Webhook ------------------------------
(***************************************************************************)
(* The webhook handlers: which jobs an event of GitHub calls for, how they *)
(* are saved one by one, and what GitHub is told in the end.  GitHub lists *)
(* deliveries not answered with 200, and they may be delivered again.      *)
(*                                                                         *)
(* Handlers of several deliveries run at the same time.  JobPipeline has   *)
(* what becomes of the jobs; its WebhookSave is this module's SaveJob.     *)
(***************************************************************************)
EXTENDS FiniteSets, JobIdentity

CONSTANTS
  Deliveries,  \* deliveries of events, two of them may be of one event
  EventOf,     \* delivery -> event
  Config,      \* repository -> its configuration
  SaveMayFail, \* can job.Save fail?
  Whole        \* what an expression without a group captures

(* An event has the fields that its handler looks at:                      *)
(*   a package  kind, ok, repo, action, ecosystem, name, tag, id           *)
(*   a release  kind, ok, repo, action, name, assets                       *)
(*   a workflow kind, ok, repo, status, conclusion, path, actor, id        *)
(* where ok is the result of its sanitise function, and path is that of    *)
(* the run.  A configuration has fields containers (name -> destinations), *)
(* releases (regexp and assets), and workflows (path -> actors and         *)
(* artifacts); an asset or artifact has a regexp and destinations.  A      *)
(* regular expression is what it does: a function from the names that it   *)
(* matches to what it captures.                                            *)
ASSUME WebhookAssumption ==
  /\ DOMAIN EventOf = Deliveries
  /\ \A d \in Deliveries : EventOf[d].kind \in {"package", "release", "workflow", "other"}
  /\ SaveMayFail \in BOOLEAN

(* Only expressions of assets and artifacts may be without a group: that   *)
(* of a release captures at least the name that it matches.                *)
ASSUME CapturesAssumption ==
  /\ \A repo \in DOMAIN Config : \A r \in Config[repo].releases :
       \A name \in DOMAIN r.regexp : r.regexp[name] # Whole
  /\ \A d \in Deliveries : EventOf[d].kind = "package" => EventOf[d].tag # Whole
  /\ Whole # "none"

VARIABLES
  pc,     \* delivery -> step of its handler
  todo,   \* delivery -> jobs it has still to save
  failed, \* delivery -> has a Save failed?
  reply,  \* delivery -> the last answer, "ok" for 200 and "error" for 500
  persisted \* jobs whose Save has succeeded

vars == <<pc, todo, failed, reply, persisted>>

(* webhookProcessRegistryPackageEvent                                      *)
PackageJobs(e) ==
  IF /\ e.action = "published"
     /\ e.ecosystem = "CONTAINER"
     /\ e.repo \in DOMAIN Config
     /\ e.name \in DOMAIN Config[e.repo].containers
  THEN {PackageJob(e, Config[e.repo].containers[e.name])}
  ELSE {}

AssetVersion(cfgRelease, cfgAsset, e, ghAsset) == \* mutant: no default
  cfgAsset.regexp[ghAsset.name]

(* webhookProcessReleaseEvent: the version is what the expression of the   *)
(* asset captures or else that of the release, which captures at least     *)
(* the name that it matches.                                               *)
Version(cfgRelease, cfgAsset, e, ghAsset) ==
  IF cfgAsset.regexp[ghAsset.name] # Whole
  THEN cfgAsset.regexp[ghAsset.name]
  ELSE cfgRelease.regexp[e.name]

Matches(e) ==
  {m \in UNION {{r} \X r.assets \X e.assets : r \in Config[e.repo].releases} :
     LET cfgRelease == m[1]  cfgAsset == m[2]  ghAsset == m[3] IN
     /\ e.name \in DOMAIN cfgRelease.regexp
     /\ ghAsset.name \in DOMAIN cfgAsset.regexp
     /\ ghAsset.state = "uploaded"
     /\ ghAsset.type = "application/zip"}

ReleaseJobs(e) ==
  IF e.action = "published" /\ e.repo \in DOMAIN Config
  THEN {AssetJob(m[3], Version(m[1], m[2], e, m[3]), m[2].destinations) : m \in Matches(e)}
  ELSE {}

(* webhookProcessWorkflowEvent                                             *)
WorkflowJobs(e) ==
  IF /\ e.status = "completed"
     /\ e.conclusion = "success"
     /\ e.repo \in DOMAIN Config
     /\ e.path \in DOMAIN Config[e.repo].workflows
     /\ LET actors == Config[e.repo].workflows[e.path].actors
        IN  actors = {} \/ e.actor \in actors
  THEN {DiscoverJob(e)}
  ELSE {}

JobsOf(e) ==
  CASE e.kind = "package"  -> PackageJobs(e)
    [] e.kind = "release"  -> ReleaseJobs(e)
    [] e.kind = "workflow" -> WorkflowJobs(e)
    [] OTHER -> {}

Init ==
  /\ pc = [d \in Deliveries |-> "sent"]
  /\ todo = [d \in Deliveries |-> {}]
  /\ failed = [d \in Deliveries |-> FALSE]
  /\ reply = [d \in Deliveries |-> "none"]
  /\ persisted = {}

-----------------------------------------------------------------------------
(* The handler of a delivery.                                              *)

(* An event without the fields it should have is answered with an error.   *)
Reject(d) ==
  /\ pc[d] = "sent"
  /\ ~EventOf[d].ok
  /\ pc' = [pc EXCEPT ![d] = "answered"]
  /\ reply' = [reply EXCEPT ![d] = "error"]
  /\ UNCHANGED <<todo, failed, persisted>>

Accept(d) ==
  /\ pc[d] = "sent"
  /\ EventOf[d].ok
  /\ pc' = [pc EXCEPT ![d] = "saving"]
  /\ todo' = [todo EXCEPT ![d] = JobsOf(EventOf[d])]
  /\ UNCHANGED <<failed, reply, persisted>>

(* The loops go through maps, so that any job may come next.               *)
SaveJob(d, j) ==
  /\ pc[d] = "saving"
  /\ j \in todo[d]
  /\ todo' = [todo EXCEPT ![d] = @ \ {j}]
  /\ persisted' = persisted \cup {j}
  /\ UNCHANGED <<pc, failed, reply>>

SaveForgotten(d, j) ==                   \* mutant: no handler returns the error
  /\ pc[d] = "saving"
  /\ SaveMayFail
  /\ j \in todo[d]
  /\ todo' = [todo EXCEPT ![d] = @ \ {j}]
  /\ UNCHANGED <<pc, failed, reply, persisted>>

(* A failed Save is reported for packages and releases; the workflow       *)
(* handler logs it and goes on.                                            *)
SaveFails(d, j) ==
  /\ pc[d] = "saving"
  /\ SaveMayFail
  /\ j \in todo[d]
  /\ todo' = [todo EXCEPT ![d] = @ \ {j}]
  /\ failed' = [failed EXCEPT ![d] = @ \/ EventOf[d].kind # "workflow"]
  /\ UNCHANGED <<pc, reply, persisted>>

Answer(d) ==
  /\ pc[d] = "saving"
  /\ todo[d] = {}
  /\ pc' = [pc EXCEPT ![d] = "answered"]
  /\ reply' = [reply EXCEPT ![d] = IF failed[d] THEN "error" ELSE "ok"]
  /\ failed' = [failed EXCEPT ![d] = FALSE]
  /\ UNCHANGED <<todo, persisted>>

(* The process goes down: no handler under way answers.                    *)
Crash ==
  /\ \E d \in Deliveries : pc[d] = "saving"
  /\ pc' = [d \in Deliveries |-> IF pc[d] = "saving" THEN "answered" ELSE pc[d]]
  /\ reply' = [d \in Deliveries |-> IF pc[d] = "saving" THEN "none" ELSE reply[d]]
  /\ todo' = [d \in Deliveries |-> {}]
  /\ failed' = [d \in Deliveries |-> FALSE]
  /\ UNCHANGED persisted

(* GitHub: what was not accepted may be delivered again.                   *)
Redeliver(d) ==
  /\ pc[d] = "answered"
  /\ reply[d] # "ok"
  /\ pc' = [pc EXCEPT ![d] = "sent"]
  /\ UNCHANGED <<todo, failed, reply, persisted>>

Next ==
  \/ \E d \in Deliveries :
       \/ Reject(d) \/ Accept(d) \/ Answer(d) \/ Redeliver(d)
       \/ \E j \in todo[d] : SaveJob(d, j) \/ SaveFails(d, j)
  \/ Crash

Spec == Init /\ [][Next]_vars

-----------------------------------------------------------------------------
(* Properties.                                                             *)

Called(d) == JobsOf(EventOf[d])

TypeOK ==
  /\ pc \in [Deliveries -> {"sent", "saving", "answered"}]
  /\ \A d \in Deliveries :
       /\ todo[d] \subseteq Called(d)
       /\ \A j \in todo[d] : j.version # Whole
  /\ failed \in [Deliveries -> BOOLEAN]
  /\ reply \in [Deliveries -> {"none", "ok", "error"}]
  /\ persisted \subseteq UNION {Called(d) : d \in Deliveries}

(* An event answered with 200 is not delivered again: every job it called  *)
(* for has then been saved, also when a Save had failed or the process had *)
(* died half-way through an earlier delivery.                              *)
Accepted(d) == reply[d] = "ok" => Called(d) \subseteq persisted

(* It is so for packages and releases ...                                  *)
AckedJobsSaved ==
  \A d \in Deliveries : EventOf[d].kind # "workflow" => Accepted(d)

(* ... and "Persisted a job" claims it for workflow runs as well.          *)
AckMeansSaved ==
  \A d \in Deliveries : Accepted(d)
=============================================================================

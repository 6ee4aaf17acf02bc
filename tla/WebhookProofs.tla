--------------------------- MODULE WebhookProofs ---------------------------
(***************************************************************************)
(* What GitHub is told of an event is true, for any deliveries,            *)
(* configuration, failing saves, crashes and redeliveries.                 *)
(***************************************************************************)
EXTENDS Webhook, TLAPS

HandlersTyped ==
  /\ pc \in [Deliveries -> {"sent", "saving", "answered"}]
  /\ \A d \in Deliveries : todo[d] \subseteq Called(d)
  /\ DOMAIN todo = Deliveries
  /\ failed \in [Deliveries -> BOOLEAN]
  /\ reply \in [Deliveries -> {"none", "ok", "error"}]
  /\ persisted \subseteq UNION {Called(d) : d \in Deliveries}

(* A handler loses none of its jobs: each is still to be saved or saved,   *)
(* or else it remembers that a Save has failed.                            *)
NoneForgotten(d) ==
  EventOf[d].kind # "workflow" /\ pc[d] = "saving" /\ ~failed[d] =>
    Called(d) \subseteq todo[d] \cup persisted

WInv ==
  HandlersTyped /\ AckedJobsSaved /\ \A d \in Deliveries : NoneForgotten(d)

LEMMA WebhookInitial == Init => WInv
BY DEF Init, WInv, HandlersTyped, AckedJobsSaved, Accepted, NoneForgotten

LEMMA WebhookNext == WInv /\ [Next]_vars => WInv'
<1> SUFFICES ASSUME WInv, [Next]_vars PROVE WInv'
  OBVIOUS
<1> USE DEF WInv, HandlersTyped, AckedJobsSaved, Accepted, NoneForgotten, Called
<1>1. ASSUME NEW d \in Deliveries, Reject(d) \/ Redeliver(d) PROVE WInv'
  BY <1>1 DEF Reject, Redeliver
<1>2. ASSUME NEW d \in Deliveries, Accept(d) PROVE WInv'
  BY <1>2 DEF Accept
<1>3. ASSUME NEW d \in Deliveries, Answer(d) PROVE WInv'
  BY <1>3 DEF Answer
<1>4. ASSUME NEW d \in Deliveries, NEW j \in todo[d], SaveJob(d, j) PROVE WInv'
  BY <1>4 DEF SaveJob
<1>5. ASSUME NEW d \in Deliveries, NEW j \in todo[d], SaveFails(d, j) PROVE WInv'
  <2>1. failed' \in [Deliveries -> BOOLEAN]
    BY <1>5 DEF SaveFails
  <2>2. EventOf[d].kind # "workflow" => failed'[d]
    BY <1>5 DEF SaveFails
  <2>3. \A e \in Deliveries \ {d} : todo'[e] = todo[e] /\ failed'[e] = failed[e]
    BY <1>5 DEF SaveFails
  <2>4. DOMAIN todo' = Deliveries /\ todo'[d] = todo[d] \ {j}
    BY <1>5 DEF SaveFails
  <2>5. UNCHANGED <<pc, reply, persisted>>
    BY <1>5 DEF SaveFails
  <2> QED
    BY <2>1, <2>2, <2>3, <2>4, <2>5
<1>6. CASE Crash
  BY <1>6 DEF Crash
<1>7. CASE UNCHANGED vars
  BY <1>7 DEF vars
<1> QED
  BY <1>1, <1>2, <1>3, <1>4, <1>5, <1>6, <1>7 DEF Next

(* An event of a package or a release that was answered with 200 has had   *)
(* all its jobs saved.                                                     *)
THEOREM AcceptedAreSaved == Spec => []AckedJobsSaved
<1>1. WInv => AckedJobsSaved
  BY DEF WInv
<1> QED
  BY <1>1, WebhookInitial, WebhookNext, PTL DEF Spec

(* Whatever expressions are configured, a job has a version: the one that  *)
(* is captured, or else one that takes its place.                          *)
LEMMA VersionsKnown ==
  ASSUME NEW d \in Deliveries, NEW j \in Called(d)
  PROVE  j.version # Whole
<1> DEFINE e == EventOf[d]
<1>1. CASE j \in PackageJobs(e) /\ e.kind = "package"
  <2>1. j = PackageJob(e, Config[e.repo].containers[e.name])
    BY <1>1 DEF PackageJobs
  <2> QED
    BY <1>1, <2>1, CapturesAssumption DEF PackageJob, Job
<1>2. CASE j \in ReleaseJobs(e)
  <2>1. e.repo \in DOMAIN Config
    BY <1>2 DEF ReleaseJobs
  <2>2. PICK m \in Matches(e) : 
          j = AssetJob(m[3], Version(m[1], m[2], e, m[3]), m[2].destinations)
    BY <1>2 DEF ReleaseJobs
  <2>3. m[1] \in Config[e.repo].releases /\ e.name \in DOMAIN m[1].regexp
    BY <2>2 DEF Matches
  <2>4. Version(m[1], m[2], e, m[3]) # Whole
    BY <2>1, <2>3, CapturesAssumption DEF Version
  <2> QED
    BY <2>2, <2>4 DEF AssetJob, Job
<1>3. CASE j \in WorkflowJobs(e)
  <2>1. j = DiscoverJob(e)
    BY <1>3 DEF WorkflowJobs
  <2> QED
    BY <2>1, CapturesAssumption DEF DiscoverJob, Job
<1> QED
  BY <1>1, <1>2, <1>3 DEF Called, JobsOf

(* Types: handlers save nothing but what their events call for, and every  *)
(* job they have to save has a version.                                    *)
THEOREM HandlersTypeCorrect == Spec => []TypeOK
<1>1. WInv => TypeOK
  BY VersionsKnown DEF WInv, HandlersTyped, TypeOK
<1> QED
  BY <1>1, WebhookInitial, WebhookNext, PTL DEF Spec
=============================================================================

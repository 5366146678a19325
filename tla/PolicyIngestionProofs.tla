------------------------- MODULE PolicyIngestionProofs -------------------------
(***************************************************************************)
(* Proofs about PolicyIngestion, for all control ids, obligations,         *)
(* proposals, jobs and faults: what the ingestion of a policy version      *)
(* leaves alone, and what it may declare complete.                         *)
(***************************************************************************)
EXTENDS PolicyIngestion, TLAPS

(***************************************************************************)
(* THE INDUCTIVE INVARIANT                                                 *)
(***************************************************************************)
StoreTypes ==
  /\ policy \in Policies \cup {NoPolicy}
  /\ analysis \subseteq RawObligations
  /\ ctl \in [Ids -> Controls \cup {NoControl}]
  /\ job \in [Jobs -> JobStatuses]

QueueTypes ==
  /\ msg \in [Jobs -> {"none", "ready", "locked", "done", "dead"}]
  /\ deliveries \in [Jobs -> 0..MaxDelivery]

GatewayTypes ==
  /\ gpc \in GatewayPlaces
  /\ gop \in Operations \cup {"none"}
  /\ gjob \in Jobs \cup {NoJob}
  /\ gpol \in Policies \cup {NoPolicy}

WorkerTypes ==
  /\ wpc \in WorkerPlaces
  /\ wjob \in Jobs \cup {NoJob}
  /\ held \in BOOLEAN
  /\ source \in {"none", "pending", "placeholder", "policy"}
  /\ todo \subseteq Candidates
  /\ saved \subseteq Ids
  /\ asked \in BOOLEAN
  /\ relied \subseteq Ids
  /\ wpol \in Policies \cup {NoPolicy}

(* A message on the queue may be delivered once more, and belongs to a job *)
(* that was recorded; the one about to be sent was not sent before.        *)
QueueInv ==
  /\ \A j \in Jobs : msg[j] = "none" => deliveries[j] = 0
  /\ \A j \in Jobs : msg[j] = "ready" => deliveries[j] < MaxDelivery
  /\ \A j \in Jobs : job[j] = "none" => msg[j] = "none"
  /\ gpc \in {"send", "unsent"} => gjob \in Jobs /\ job[gjob] # "none"
  /\ gpc = "send" => msg[gjob] = "none"

(* Whoever is going to write a record has one, and a busy worker a job     *)
(* whose message was sent.                                                 *)
PlaceInv ==
  /\ gpc \in {"pending", "retire"} => gpol \in Policies
  /\ wpc # "idle" => wjob \in Jobs /\ msg[wjob] # "none"

(* Only what was analysed is claimed to be complete, in the table and in   *)
(* every copy that somebody is going to write back.                        *)
Honest(p) == p \in Policies /\ p.claim = "complete" => p.analysed
ClaimInv == Honest(policy) /\ Honest(gpol) /\ Honest(wpol)

(* The worker never works for a job that completed and kept its controls.  *)
Working == {"fetch", "extract", "phase", "interpret", "look", "reconcile",
            "save", "finish", "complete"}
JobInv ==
  /\ wpc = "mark" => job[wjob] # "completed" \/ Owned = {}
  /\ wpc \in Working => job[wjob] # "completed"

(* What the controls of the matrix cover, those retired since included.    *)
CoveredByRelied ==
  \A o \in analysis : o.expected # {} /\
    \A s \in o.expected : \E c \in relied :
      o.id \in ctl[c].links /\ s \in ctl[c].surfaces /\ ~ctl[c].asked /\ ~ctl[c].placeholder

Concluded == wpc \in {"save", "finish", "complete"}
CoverInv == Concluded /\ wpol.claim = "complete" /\ relied \subseteq Owned => CoveredByRelied

IInv ==
  /\ StoreTypes /\ QueueTypes /\ GatewayTypes /\ WorkerTypes
  /\ QueueInv /\ PlaceInv /\ ClaimInv /\ JobInv /\ CoverInv
-------------------------------------------------------------------------------
(***************************************************************************)
(* The plan that an answer of the model leads to is well-formed.           *)
(***************************************************************************)
LEMMA PlanType ==
  ASSUME ConstantsAssumption, NEW raw \in Proposals, NEW first \in Firsts(raw)
  PROVE  ObligationsOf(raw) \subseteq RawObligations /\ Plan(raw, first) \subseteq Candidates
<1>1. raw.controls \subseteq RawControls /\ raw.obligations \subseteq RawObligations
  BY DEF ConstantsAssumption, RawProposals
<1>2. ObligationsOf(raw) \subseteq RawObligations
  BY <1>1 DEF ObligationsOf, RawObligations, RawControls, ConstantsAssumption
<1>3. ASSUME NEW c \in raw.controls
      PROVE  LinksOf(raw, c) \subseteq Obligations
  <2>1. IdsOf(ObligationsOf(raw)) \subseteq Obligations
    BY <1>2 DEF IdsOf, RawObligations
  <2>2. {o.id : o \in {p \in ObligationsOf(raw) : c.clause # NoClause /\ p.clause = c.clause}}
          \subseteq Obligations
    BY <1>2 DEF RawObligations
  <2> QED
    BY <2>1, <2>2 DEF LinksOf
<1>4. ASSUME NEW c \in raw.controls
      PROVE  Compiled(raw, first, c) \in Candidates
  <2>1. IsAsked(raw, first, c) \in BOOLEAN
    BY <1>1 DEF IsAsked, RawControls
  <2> QED
    BY <1>1, <1>3, <2>1 DEF Compiled, Candidates, Controls, RawControls
<1>5. ASSUME NEW o \in ObligationsOf(raw)
      PROVE  Placeholder(o) \in Candidates
  BY <1>2 DEF Placeholder, Candidates, Controls, RawObligations, ConstantsAssumption
<1> QED
  BY <1>2, <1>4, <1>5 DEF Plan, Unplanned
-------------------------------------------------------------------------------
(***************************************************************************)
(* Gateway steps leave the worker alone, create no control, extend no      *)
(* analysis and complete no job.                                           *)
(***************************************************************************)
Milder ==
  \A c \in Ids : ctl'[c] # NoControl =>
    /\ ctl[c] # NoControl /\ ctl'[c].owner = ctl[c].owner
    /\ ctl'[c].links = ctl[c].links /\ ctl'[c].surfaces = ctl[c].surfaces
    /\ ctl'[c].placeholder = ctl[c].placeholder
    /\ ctl'[c].asked => ctl[c].asked

LEMMA GatewayLeaves ==
  ASSUME IInv, UNCHANGED workerVars, Milder, analysis' \subseteq analysis,
         \A j \in Jobs : job'[j] = "completed" => job[j] = "completed"
  PROVE  WorkerTypes' /\ JobInv' /\ CoverInv'
<1>1. /\ UNCHANGED <<wpc, wjob, held, source, todo, saved>>
      /\ UNCHANGED <<asked, relied, wpol>>
  BY DEF workerVars, workVars
<1>2. WorkerTypes'
  BY <1>1 DEF IInv, WorkerTypes
<1>3. Owned' \subseteq Owned
  BY DEF Milder, Owned, Exists
<1>4. wpc # "idle" => wjob \in Jobs
  BY DEF IInv, PlaceInv
<1>5. JobInv'
  BY <1>1, <1>3, <1>4 DEF IInv, JobInv, Working
<1>6. CoverInv'
  <2> SUFFICES ASSUME Concluded, wpol.claim = "complete", relied \subseteq Owned'
               PROVE  CoveredByRelied'
    BY <1>1 DEF CoverInv, Concluded
  <2>1. CoveredByRelied
    BY <1>3 DEF IInv, CoverInv
  <2>2. \A c \in relied : /\ ctl'[c].links = ctl[c].links /\ ctl'[c].surfaces = ctl[c].surfaces
                          /\ ctl'[c].placeholder = ctl[c].placeholder
                          /\ ctl'[c].asked => ctl[c].asked
    BY DEF Milder, Owned, Exists
  <2> QED
    BY <1>1, <2>1, <2>2 DEF CoveredByRelied
<1> QED
  BY <1>2, <1>5, <1>6

(* What a gateway step has to show besides.                                *)
GatewayPart ==
  StoreTypes /\ QueueTypes /\ GatewayTypes /\ QueueInv
    /\ (gpc \in {"pending", "retire"} => gpol \in Policies) /\ Honest(policy) /\ Honest(gpol)

LEMMA GatewayKeeps ==
  ASSUME IInv, UNCHANGED workerVars, Milder, analysis' \subseteq analysis,
         \A j \in Jobs : job'[j] = "completed" => job[j] = "completed",
         GatewayPart', \A j \in Jobs : msg'[j] = "none" => msg[j] = "none"
  PROVE  IInv'
<1>1. WorkerTypes' /\ JobInv' /\ CoverInv'
  BY GatewayLeaves
<1>2. UNCHANGED <<wpc, wjob, wpol>>
  BY DEF workerVars, workVars
<1>3. PlaceInv'
  BY <1>2 DEF IInv, PlaceInv, GatewayPart
<1>4. ClaimInv'
  BY <1>2 DEF IInv, ClaimInv, GatewayPart, Honest
<1> QED
  BY <1>1, <1>3, <1>4 DEF IInv, GatewayPart

(* Steps that change no table but perhaps the policy record.               *)
LEMMA PolicyStep ==
  ASSUME IInv, UNCHANGED <<ctl, job, queueVars, workerVars>>, analysis' \subseteq analysis,
         policy' \in Policies \cup {NoPolicy}, Honest(policy'),
         GatewayTypes', gpc' \notin {"send", "unsent"},
         gpc' \in {"pending", "retire"} => gpol' \in Policies, Honest(gpol')
  PROVE  IInv'
<1>1. Milder
  BY DEF Milder
<1>2. UNCHANGED <<msg, deliveries>>
  BY DEF queueVars
<1>3. GatewayPart'
  BY <1>2 DEF GatewayPart, IInv, StoreTypes, QueueTypes, QueueInv
<1> QED
  BY <1>1, <1>2, <1>3, GatewayKeeps

LEMMA NewPolicyType ==
  /\ NewPolicy \in Policies /\ Honest(NewPolicy)
  /\ \A b \in BOOLEAN : [NewPolicy EXCEPT !.fetched = b] \in Policies
                          /\ Honest([NewPolicy EXCEPT !.fetched = b])
  /\ Honest(NoPolicy)
BY NonesAssumption DEF NewPolicy, Policies, Statuses, Honest

LEMMA UploadKeeps ==
  ASSUME IInv, NEW mode \in {"paste", "url"}, Upload(mode)
  PROVE  IInv'
<1>1. /\ UNCHANGED <<analysis, ctl, job, queueVars, workerVars>>
      /\ policy' \in Policies /\ Honest(policy') /\ gpol' \in Policies /\ Honest(gpol')
      /\ gpc' \in {"pending", "record"} /\ gop' \in Operations \cup {"none"} /\ gjob' = NoJob
  BY NewPolicyType DEF Upload, Serve
<1>2. GatewayTypes'
  BY <1>1 DEF GatewayTypes, GatewayPlaces
<1> QED
  BY <1>1, <1>2, PolicyStep

LEMMA MarkPendingKeeps ==
  ASSUME IInv, MarkPending
  PROVE  IInv'
<1>1. /\ UNCHANGED <<analysis, ctl, job, queueVars, workerVars, gop, gjob, gpol>> /\ gpc' = "record"
      /\ policy' = [gpol EXCEPT !.pending = TRUE] /\ gpol \in Policies /\ Honest(gpol)
  BY DEF MarkPending, Respond, IInv, PlaceInv, ClaimInv
<1>2. policy' \in Policies /\ Honest(policy')
  BY <1>1 DEF Policies, Honest
<1>3. GatewayTypes'
  BY <1>1 DEF IInv, GatewayTypes, GatewayPlaces
<1> QED
  BY <1>1, <1>2, <1>3, PolicyStep

(* Back to idle, or a place without a record to write.                     *)
LEMMA IdleType ==
  ASSUME GatewayIdle
  PROVE  /\ GatewayTypes' /\ gpc' = "idle" /\ gpol' = NoPolicy /\ Honest(gpol')
BY NonesAssumption DEF GatewayIdle, GatewayTypes, GatewayPlaces, Honest

LEMMA ReadingSteps ==
  ASSUME IInv,
         Retry \/ CheckRelated \/ GatewayReconcile \/ RetirePolicy \/ RemovePolicy \/ GatewayCrash
  PROVE  IInv'
<1>1. UNCHANGED <<policy, analysis, ctl, job, queueVars, workerVars>>
  BY DEF Retry, CheckRelated, GatewayReconcile, RetirePolicy, RemovePolicy, GatewayCrash, storeVars
<1>2. policy \in Policies \cup {NoPolicy} /\ Honest(policy) /\ Honest(NoPolicy) /\ Honest(gpol)
  BY NonesAssumption DEF IInv, StoreTypes, ClaimInv, Honest
<1>3. /\ GatewayTypes' /\ gpc' \notin {"send", "unsent"} /\ Honest(gpol')
      /\ gpc' \in {"pending", "retire"} => gpol' \in Policies
  <2>1. CASE Retry \/ RemovePolicy
    BY <1>2, <2>1 DEF Retry, RemovePolicy, Serve, GatewayTypes, GatewayPlaces
  <2>2. CASE GatewayIdle
    BY <2>2, IdleType
  <2>3. CASE RetirePolicy
    <3>1. [policy EXCEPT !.status = "retired"] \in Policies
           /\ Honest([policy EXCEPT !.status = "retired"])
      BY <1>2, <2>3 DEF RetirePolicy, Policies, Statuses, Honest
    <3> QED
      BY <2>3, <3>1 DEF RetirePolicy, Serve, GatewayTypes, GatewayPlaces
  <2>4. CASE CheckRelated /\ ~GatewayIdle
    BY <1>2, <2>4 DEF CheckRelated, Respond, IInv, GatewayTypes, GatewayPlaces
  <2>5. CASE GatewayReconcile /\ ~GatewayIdle
    <3>1. CASE policy # NoPolicy /\ Reconcilable(policy)
      <4>1. /\ gpc' = "save" /\ gpol' = [policy EXCEPT !.claim = Claim]
            /\ UNCHANGED <<gop, gjob>>
        BY <2>5, <3>1 DEF GatewayReconcile
      <4>2. gpol' \in Policies /\ Honest(gpol')
        BY <1>2, <3>1, <4>1 DEF Policies, Honest, Claim, Reconcilable
      <4> QED
        BY <4>1, <4>2 DEF IInv, GatewayTypes, GatewayPlaces
    <3>2. CASE ~(policy # NoPolicy /\ Reconcilable(policy))
      <4>1. gpc' = "state" /\ gpol' = policy /\ UNCHANGED <<gop, gjob>>
        BY <2>5, <3>2 DEF GatewayReconcile
      <4> QED
        BY <1>2, <4>1 DEF IInv, GatewayTypes, GatewayPlaces
    <3> QED
      BY <3>1, <3>2
  <2> QED
    BY <2>1, <2>2, <2>3, <2>4, <2>5 DEF GatewayCrash
<1> QED
  BY <1>1, <1>2, <1>3, PolicyStep

LEMMA WritingSteps ==
  ASSUME IInv, GatewaySaveCoverage \/ WriteRetired \/ SetClarified \/ DropPolicy
  PROVE  IInv'
<1>1. UNCHANGED <<ctl, job, queueVars, workerVars>> /\ analysis' \subseteq analysis
  BY DEF GatewaySaveCoverage, WriteRetired, SetClarified, DropPolicy
<1>2. /\ policy \in Policies \cup {NoPolicy} /\ gpol \in Policies \cup {NoPolicy}
      /\ Honest(policy) /\ Honest(NoPolicy) /\ Honest(gpol)
  BY NonesAssumption DEF IInv, StoreTypes, GatewayTypes, ClaimInv, Honest
<1>3. policy' \in Policies \cup {NoPolicy} /\ Honest(policy')
  <2>1. CASE policy' \in {gpol, NoPolicy}
    BY <1>2, <2>1
  <2>2. CASE SetClarified
    BY <1>2, <2>2 DEF SetClarified, SetState, Policies, Statuses, Honest
  <2> QED
    BY <2>1, <2>2 DEF GatewaySaveCoverage, WriteRetired, DropPolicy
<1>4. /\ GatewayTypes' /\ gpc' \notin {"send", "unsent", "pending", "retire"} /\ Honest(gpol')
  <2>1. CASE GatewayIdle
    BY <2>1, IdleType
  <2>2. CASE GatewaySaveCoverage /\ ~GatewayIdle
    BY <1>2, <2>2 DEF GatewaySaveCoverage, Respond, IInv, GatewayTypes, GatewayPlaces
  <2> QED
    BY <2>1, <2>2 DEF WriteRetired, SetClarified, DropPolicy
<1> QED
  BY <1>1, <1>3, <1>4, PolicyStep

(* Steps on one control.                                                   *)
LEMMA ControlSteps ==
  ASSUME IInv, NEW c \in Ids, Clarify(c) \/ Activate(c) \/ RetireControl(c) \/ RemoveControl(c)
  PROVE  IInv'
<1>1. /\ UNCHANGED <<policy, analysis, job, queueVars, workerVars>>
      /\ gpc' \in {"idle", "related", "reconcile"} /\ gop' \in Operations \cup {"none"}
      /\ gjob' = NoJob /\ gpol' = NoPolicy /\ ctl[c] # NoControl
  BY DEF Clarify, Activate, RetireControl, RemoveControl, Serve, Exists, Owned
<1>2. UNCHANGED <<msg, deliveries>>
  BY <1>1 DEF queueVars
<1>3. ctl \in [Ids -> Controls \cup {NoControl}] /\ ctl[c] \in Controls
  BY <1>1 DEF IInv, StoreTypes
<1>4. Milder /\ ctl' \in [Ids -> Controls \cup {NoControl}]
  <2>1. ASSUME NEW r \in Controls \cup {NoControl}, ctl' = [ctl EXCEPT ![c] = r],
               r # NoControl =>
                 /\ r.owner = ctl[c].owner /\ r.links = ctl[c].links
                 /\ r.surfaces = ctl[c].surfaces /\ r.placeholder = ctl[c].placeholder
                 /\ r.asked => ctl[c].asked
        PROVE  Milder /\ ctl' \in [Ids -> Controls \cup {NoControl}]
    BY <1>1, <1>3, <2>1 DEF Milder
  <2>2. ASSUME NEW s \in {"draft", "active", "retired"}, NEW b \in BOOLEAN,
               b => ctl[c].asked
        PROVE  LET r == [ctl[c] EXCEPT !.state = s, !.asked = b]
               IN  /\ r \in Controls /\ r.owner = ctl[c].owner /\ r.links = ctl[c].links
                   /\ r.surfaces = ctl[c].surfaces /\ r.placeholder = ctl[c].placeholder
                   /\ r.asked => ctl[c].asked
    BY <1>3, <2>2 DEF Controls
  <2>3. CASE Clarify(c)
    <3>1. ctl' = [ctl EXCEPT ![c] = [ctl[c] EXCEPT !.state = "draft", !.asked = FALSE]]
      BY <1>3, <2>3 DEF Clarify
    <3> QED
      BY <2>1, <2>2, <3>1
  <2>4. CASE Activate(c) \/ RetireControl(c)
    <3>1. PICK s \in {"active", "retired"} : ctl' = [ctl EXCEPT ![c] = [ctl[c] EXCEPT !.state = s]]
      BY <1>3, <2>4 DEF Activate, RetireControl
    <3>2. [ctl[c] EXCEPT !.state = s] = [ctl[c] EXCEPT !.state = s, !.asked = ctl[c].asked]
      BY <1>3 DEF Controls
    <3>3. ctl[c].asked \in BOOLEAN
      BY <1>3 DEF Controls
    <3> DEFINE r == [ctl[c] EXCEPT !.state = s, !.asked = ctl[c].asked]
    <3>4. /\ r \in Controls /\ r.owner = ctl[c].owner /\ r.links = ctl[c].links
          /\ r.surfaces = ctl[c].surfaces /\ r.placeholder = ctl[c].placeholder
          /\ r.asked => ctl[c].asked
      BY <2>2, <3>3
    <3>5. ctl' = [ctl EXCEPT ![c] = r]
      BY <3>1, <3>2
    <3> QED
      BY <2>1, <3>4, <3>5
  <2>5. CASE RemoveControl(c)
    BY <2>1, <2>5 DEF RemoveControl
  <2> QED
    BY <2>3, <2>4, <2>5
<1>5. GatewayPart'
  BY <1>1, <1>2, <1>4, NonesAssumption
     DEF GatewayPart, IInv, StoreTypes, QueueTypes, QueueInv, GatewayTypes, GatewayPlaces,
         ClaimInv, Honest
<1> QED
  BY <1>1, <1>2, <1>4, <1>5, GatewayKeeps

LEMMA JobSteps ==
  ASSUME IInv, RecordJob \/ MarkUnsent \/ DropJobs
  PROVE  IInv'
<1>1. /\ UNCHANGED <<policy, analysis, ctl, queueVars, workerVars>>
  BY DEF RecordJob, MarkUnsent, DropJobs
<1>2. UNCHANGED <<msg, deliveries>> /\ Milder
  BY <1>1 DEF queueVars, Milder
<1>3. /\ job' \in [Jobs -> JobStatuses]
      /\ \A j \in Jobs : job'[j] = "completed" => job[j] = "completed"
      /\ \A j \in Jobs : job'[j] = "none" => job[j] = "none"
  <2>1. job \in [Jobs -> JobStatuses]
    BY DEF IInv, StoreTypes
  <2>2. CASE RecordJob
    BY <2>1, <2>2 DEF RecordJob, JobStatuses
  <2>3. CASE MarkUnsent
    BY <2>1, <2>3 DEF MarkUnsent, SetJob, JobStatuses
  <2>4. CASE DropJobs
    BY <2>1, <2>4 DEF DropJobs, JobStatuses
  <2> QED
    BY <2>2, <2>3, <2>4
<1>4. /\ GatewayTypes' /\ Honest(gpol') /\ gpc' \in {"idle", "send", "drop_policy"}
      /\ gpc' = "send" => gjob' \in Jobs /\ job'[gjob'] # "none" /\ msg[gjob'] = "none"
  <2>1. CASE RecordJob
    <3>1. PICK j \in JobsLeft : gjob' = j /\ job' = [job EXCEPT ![j] = "queued"]
      BY <2>1 DEF RecordJob
    <3>2. j \in Jobs /\ job[j] = "none" /\ msg[j] = "none" /\ job'[j] = "queued"
      BY <3>1 DEF JobsLeft, IInv, StoreTypes, QueueInv
    <3> QED
      BY <2>1, <3>1, <3>2 DEF RecordJob, IInv, GatewayTypes, GatewayPlaces, ClaimInv
  <2>2. CASE MarkUnsent
    BY <2>2, IdleType DEF MarkUnsent
  <2>3. CASE DropJobs
    BY <2>3 DEF DropJobs, Respond, IInv, GatewayTypes, GatewayPlaces, ClaimInv
  <2> QED
    BY <2>1, <2>2, <2>3
<1>5. GatewayPart'
  BY <1>1, <1>2, <1>3, <1>4 DEF GatewayPart, IInv, StoreTypes, QueueTypes, QueueInv, ClaimInv
<1> QED
  BY <1>1, <1>2, <1>3, <1>5, GatewayKeeps

LEMMA SendSteps ==
  ASSUME IInv, ConstantsAssumption, Send \/ SendFails
  PROVE  IInv'
<1>1. /\ UNCHANGED <<policy, analysis, ctl, job, deliveries, workerVars>>
      /\ gjob \in Jobs /\ job[gjob] # "none" /\ msg[gjob] = "none"
  BY DEF Send, SendFails, storeVars, IInv, QueueInv
<1>2. msg' = [msg EXCEPT ![gjob] = "ready"] \/ msg' = msg
  BY DEF Send, SendFails
<1>3. deliveries[gjob] < MaxDelivery
  BY <1>1 DEF IInv, QueueInv, ConstantsAssumption
<1>4. QueueTypes'
  BY <1>1, <1>2 DEF IInv, QueueTypes
<1>5. /\ \A j \in Jobs : msg'[j] = "none" => deliveries'[j] = 0
      /\ \A j \in Jobs : msg'[j] = "ready" => deliveries'[j] < MaxDelivery
      /\ \A j \in Jobs : job'[j] = "none" => msg'[j] = "none"
  BY <1>1, <1>2, <1>3 DEF IInv, QueueTypes, QueueInv
<1>6. /\ GatewayTypes' /\ Honest(gpol') /\ gpc' \in {"idle", "unsent"}
      /\ gpc' = "unsent" => gjob' = gjob
  <2>1. CASE Send
    BY <2>1, IdleType DEF Send
  <2>2. CASE SendFails
    BY <2>2 DEF SendFails, Respond, IInv, GatewayTypes, GatewayPlaces, ClaimInv
  <2> QED
    BY <2>1, <2>2
<1>7. GatewayPart'
  BY <1>1, <1>4, <1>5, <1>6 DEF GatewayPart, IInv, StoreTypes, QueueInv, ClaimInv
<1>8. Milder /\ \A j \in Jobs : msg'[j] = "none" => msg[j] = "none"
  BY <1>1, <1>2 DEF Milder, IInv, QueueTypes
<1> QED
  BY <1>1, <1>7, <1>8, GatewayKeeps

LEMMA GatewayStepKeeps ==
  ASSUME IInv, ConstantsAssumption, Gateway
  PROVE  IInv'
BY UploadKeeps, MarkPendingKeeps, ReadingSteps, WritingSteps, ControlSteps, JobSteps, SendSteps
   DEF Gateway
-------------------------------------------------------------------------------
(***************************************************************************)
(* Worker steps leave the gateway alone.                                   *)
(***************************************************************************)
(* What a worker step has to show besides, when it moves no message.       *)
LEMMA WorkerKeeps ==
  ASSUME IInv, UNCHANGED <<queueVars, gatewayVars>>,
         StoreTypes', Honest(policy'),
         \A j \in Jobs : job'[j] = "none" => job[j] = "none",
         WorkerTypes', wpc' # "idle" => wpc # "idle" /\ wjob' = wjob,
         Honest(wpol'), JobInv', CoverInv'
  PROVE  IInv'
<1>1. UNCHANGED <<msg, deliveries, gpc, gop, gjob, gpol>>
  BY DEF queueVars, gatewayVars
<1>2. QueueTypes' /\ GatewayTypes'
  BY <1>1 DEF IInv, QueueTypes, GatewayTypes
<1>3. QueueInv'
  BY <1>1 DEF IInv, QueueInv
<1>4. PlaceInv' /\ ClaimInv'
  BY <1>1 DEF IInv, PlaceInv, ClaimInv, Honest
<1> QED
  BY <1>2, <1>3, <1>4 DEF IInv

(* The places where the worker owes nothing but its job.                   *)
Plain == {"begin", "ack", "fail_policy", "fail_job", "handle", "abandon"}

LEMMA Raised ==
  ASSUME IInv, wpc # "idle", NEW place \in Plain, Raise(place) \/ Goto(place)
  PROVE  /\ WorkerTypes' /\ wjob' = wjob /\ Honest(wpol') /\ JobInv' /\ CoverInv'
         /\ wpc' = place
<1>1. wjob \in Jobs /\ WorkerTypes /\ Honest(wpol) /\ Honest(NoPolicy)
  BY NonesAssumption DEF IInv, PlaceInv, ClaimInv, Honest
<1>2. wpc' = place /\ UNCHANGED <<wjob, held>>
  BY DEF Raise, Goto, GotoWith
<1>3. WorkerTypes' /\ Honest(wpol')
  BY <1>1, <1>2 DEF Raise, Goto, NoWork, workVars, WorkerTypes, Plain, WorkerPlaces, Honest
<1>4. JobInv' /\ CoverInv'
  BY <1>2 DEF JobInv, CoverInv, Concluded, Working, Plain
<1> QED
  BY <1>1, <1>2, <1>3, <1>4

(* A step that ends the job, or moves it where it owes nothing.            *)
LEMMA RaisedKeeps ==
  ASSUME IInv, wpc # "idle", UNCHANGED <<queueVars, gatewayVars>>,
         NEW place \in Plain, Raise(place) \/ Goto(place),
         StoreTypes', Honest(policy'),
         \A j \in Jobs : job'[j] = "none" => job[j] = "none"
  PROVE  IInv'
BY Raised, WorkerKeeps

LEMMA SetJobType ==
  ASSUME IInv, NEW j \in Jobs, NEW status \in {"running", "completed", "failed"},
         SetJob(j, status)
  PROVE  /\ job' \in [Jobs -> JobStatuses]
         /\ \A k \in Jobs : job'[k] = "none" => job[k] = "none"
         /\ Recorded(j) /\ status = "running" => job'[j] = "running"
<1>1. job \in [Jobs -> JobStatuses]
  BY DEF IInv, StoreTypes
<1> QED
  BY <1>1 DEF SetJob, Recorded, JobStatuses

LEMMA SetStateType ==
  ASSUME IInv, NEW status \in Statuses, SetState(status)
  PROVE  policy' \in Policies \cup {NoPolicy} /\ Honest(policy')
BY NonesAssumption DEF IInv, StoreTypes, ClaimInv, SetState, Policies, Honest

(* Conclusions drawn before stand while controls and analysis do.          *)
LEMMA StillCovered ==
  ASSUME IInv, Concluded, UNCHANGED <<analysis, ctl, relied, wpol>>
  PROVE  CoverInv'
<1>1. Owned' = Owned /\ (CoveredByRelied' <=> CoveredByRelied)
  BY DEF Owned, Exists, CoveredByRelied
<1> QED
  BY <1>1 DEF IInv, CoverInv

LEMMA BeginKeeps ==
  ASSUME IInv, Begin
  PROVE  IInv'
<1>1. /\ UNCHANGED <<policy, analysis, ctl, job, queueVars, gatewayVars>> /\ wpc = "begin"
      /\ wjob \in Jobs /\ StoreTypes /\ Honest(policy)
  BY DEF Begin, storeVars, IInv, PlaceInv, ClaimInv
<1>2. StoreTypes'
  BY <1>1 DEF StoreTypes
<1>3. CASE Goto("handle") \/ Goto("ack")
  BY <1>1, <1>2, <1>3, RaisedKeeps DEF Plain
<1>4. CASE ~Goto("handle") /\ ~Goto("ack")
  <2>1. /\ job[wjob] # "completed" \/ Owned = {}
        /\ wpc' = "mark" /\ UNCHANGED <<wjob, held, todo, saved, asked, relied, wpol>>
        /\ source' \in {"pending", "policy", "placeholder"}
    BY <1>4 DEF Begin, GotoWith
  <2>2. WorkerTypes' /\ Honest(wpol')
    BY <2>1 DEF IInv, WorkerTypes, WorkerPlaces, ClaimInv
  <2>3. JobInv' /\ CoverInv'
    BY <1>1, <2>1 DEF JobInv, Working, CoverInv, Concluded, Owned, Exists
  <2> QED
    BY <1>1, <1>2, <2>1, <2>2, <2>3, WorkerKeeps
<1> QED
  BY <1>3, <1>4

LEMMA MarkRunningKeeps ==
  ASSUME IInv, MarkRunning
  PROVE  IInv'
<1>1. /\ UNCHANGED <<policy, analysis, ctl, queueVars, gatewayVars>> /\ wpc \in {"mark", "phase"}
      /\ wjob \in Jobs /\ StoreTypes /\ Honest(policy) /\ SetJob(wjob, "running")
  BY DEF MarkRunning, IInv, PlaceInv, ClaimInv
<1>2. StoreTypes' /\ \A j \in Jobs : job'[j] = "none" => job[j] = "none"
  BY <1>1, SetJobType DEF StoreTypes
<1>3. CASE ~Recorded(wjob)
  <2>1. Raise("handle") \/ Raise("fail_policy")
    BY <1>3 DEF MarkRunning
  <2> QED
    BY <1>1, <1>2, <2>1, RaisedKeeps DEF Plain
<1>4. CASE Recorded(wjob)
  <2>1. \/ wpc = "mark" /\ Goto(IF source = "pending" THEN "fetch" ELSE "extract")
        \/ wpc # "mark" /\ Goto("interpret")
    BY <1>1, <1>4 DEF MarkRunning
  <2>2. wpc' \in {"fetch", "extract", "interpret"} /\ UNCHANGED <<wjob, held, workVars>>
    BY <2>1 DEF Goto
  <2>3. WorkerTypes' /\ Honest(wpol')
    BY <2>2 DEF IInv, WorkerTypes, WorkerPlaces, ClaimInv, workVars
  <2>4. JobInv' /\ CoverInv'
    BY <1>1, <1>4, <2>2, SetJobType DEF JobInv, CoverInv, Concluded
  <2> QED
    BY <1>1, <1>2, <2>2, <2>3, <2>4, WorkerKeeps
<1> QED
  BY <1>3, <1>4

(* From one place of the job to the next, short of a conclusion.           *)
LEMMA GoesOn ==
  ASSUME IInv, UNCHANGED <<job, queueVars, gatewayVars>>, wpc \in Working,
         StoreTypes', Honest(policy'), UNCHANGED <<wjob, held>>,
         wpc' \in Working \ {"save", "finish", "complete"},
         WorkerTypes', Honest(wpol')
  PROVE  IInv'
<1>1. wpc # "idle"
  BY DEF Working
<1>2. JobInv' /\ CoverInv'
  BY DEF IInv, JobInv, CoverInv, Concluded, Working
<1> QED
  BY <1>1, <1>2, WorkerKeeps

LEMMA SourceSteps ==
  ASSUME IInv, Fetch \/ SourceFails \/ Extract \/ ModelFails \/ SavedAll
  PROVE  IInv'
<1>1. /\ UNCHANGED <<analysis, ctl, job, queueVars, gatewayVars>>
      /\ wpc \in {"fetch", "extract", "interpret", "look"} /\ StoreTypes /\ Honest(policy)
  BY DEF Fetch, SourceFails, Extract, ModelFails, SavedAll, storeVars, IInv, ClaimInv
<1>2. \/ policy' = policy
      \/ policy # NoPolicy /\ policy' = [policy EXCEPT !.pending = FALSE, !.fetched = TRUE]
  BY DEF Fetch, SourceFails, Extract, ModelFails, SavedAll, storeVars
<1>3. policy' \in Policies \cup {NoPolicy} /\ Honest(policy')
  BY <1>1, <1>2, NonesAssumption DEF StoreTypes, Policies, Honest
<1>4. StoreTypes'
  BY <1>1, <1>3 DEF StoreTypes
<1>5. CASE Fail
  BY <1>1, <1>3, <1>4, <1>5, RaisedKeeps DEF Fail, Plain
<1>6. CASE ~Fail
  <2>1. /\ wpc' \in {"extract", "phase", "reconcile"}
        /\ UNCHANGED <<wjob, held, todo, saved, asked, relied, wpol>>
        /\ source' \in {source, "policy"}
    BY <1>6 DEF Fetch, SourceFails, Extract, ModelFails, SavedAll, Goto, GotoWith, workVars
  <2>2. WorkerTypes' /\ Honest(wpol')
    BY <2>1 DEF IInv, WorkerTypes, WorkerPlaces, ClaimInv
  <2> QED
    BY <1>1, <1>3, <1>4, <2>1, <2>2, GoesOn DEF Working
<1> QED
  BY <1>5, <1>6

LEMMA InterpretKeeps ==
  ASSUME IInv, ConstantsAssumption, Interpret
  PROVE  IInv'
<1>1. /\ UNCHANGED <<ctl, job, queueVars, gatewayVars>> /\ wpc = "interpret"
      /\ StoreTypes /\ Honest(policy)
  BY DEF Interpret, IInv, ClaimInv
<1>2. CASE policy = NoPolicy
  <2>1. Fail /\ UNCHANGED <<policy, analysis>>
    BY <1>2 DEF Interpret
  <2>2. StoreTypes'
    BY <1>1, <2>1 DEF StoreTypes
  <2> QED
    BY <1>1, <2>1, <2>2, RaisedKeeps DEF Fail, Plain
<1>3. CASE policy # NoPolicy
  <2>1. PICK raw \in Proposals : \E first \in Firsts(raw) :
            /\ analysis' = ObligationsOf(raw)
            /\ policy' = [policy EXCEPT !.analysed = TRUE,
                            !.claim = IF PlanComplete(raw, first) THEN "complete" ELSE "gaps"]
            /\ todo' = Plan(raw, first)
            /\ GotoWith("look") /\ UNCHANGED <<source, saved, asked, relied, wpol>>
    BY <1>3 DEF Interpret
  <2>2. PICK first \in Firsts(raw) :
            /\ analysis' = ObligationsOf(raw)
            /\ policy' = [policy EXCEPT !.analysed = TRUE,
                            !.claim = IF PlanComplete(raw, first) THEN "complete" ELSE "gaps"]
            /\ todo' = Plan(raw, first)
            /\ GotoWith("look") /\ UNCHANGED <<source, saved, asked, relied, wpol>>
    BY <2>1
  <2>3. analysis' \subseteq RawObligations /\ todo' \subseteq Candidates
    BY <2>2, PlanType
  <2>4. policy' \in Policies /\ Honest(policy')
    BY <1>1, <1>3, <2>2 DEF StoreTypes, Policies, Honest
  <2>5. StoreTypes'
    BY <1>1, <2>3, <2>4 DEF StoreTypes
  <2>6. wpc' = "look" /\ UNCHANGED <<wjob, held>>
    BY <2>2 DEF GotoWith
  <2>7. WorkerTypes' /\ Honest(wpol')
    BY <2>2, <2>3, <2>6 DEF IInv, WorkerTypes, WorkerPlaces, ClaimInv
  <2> QED
    BY <1>1, <2>4, <2>5, <2>6, <2>7, GoesOn DEF Working
<1> QED
  BY <1>2, <1>3

LEMMA SaveNextKeeps ==
  ASSUME IInv, SaveNext
  PROVE  IInv'
<1>1. /\ UNCHANGED <<policy, analysis, job, queueVars, gatewayVars>> /\ wpc = "look"
      /\ StoreTypes /\ Honest(policy) /\ WorkerTypes
  BY DEF SaveNext, IInv, ClaimInv
<1>2. CASE Fail /\ UNCHANGED ctl
  <2>1. StoreTypes'
    BY <1>1, <1>2 DEF StoreTypes
  <2> QED
    BY <1>1, <1>2, <2>1, RaisedKeeps DEF Fail, Plain
<1>3. CASE ~(Fail /\ UNCHANGED ctl)
  <2>1. PICK x \in todo :
          \/ UNCHANGED ctl /\ \E d \in Owned : Reuse(d, x)
          \/ Save(x)
    BY <1>3 DEF SaveNext, Legacy
  <2>2. x.id \in Ids /\ x.control \in Controls
    BY <1>1 DEF WorkerTypes, Candidates
  <2>3. /\ ctl' \in [Ids -> Controls \cup {NoControl}] /\ todo' \subseteq Candidates
        /\ saved' \subseteq Ids /\ asked' \in BOOLEAN
        /\ wpc' = "look" /\ UNCHANGED <<wjob, held, source, relied, wpol>>
    <3>1. CASE UNCHANGED ctl /\ \E d \in Owned : Reuse(d, x)
      <4>1. PICK d \in Owned : Reuse(d, x)
        BY <3>1
      <4>2. asked' \in BOOLEAN
        BY <1>1, <4>1 DEF WorkerTypes, Reuse, Awaiting
      <4> QED
        BY <1>1, <3>1, <4>1, <4>2 DEF Reuse, GotoWith, Owned, WorkerTypes, StoreTypes
    <3>2. CASE Save(x)
      <4>1. asked' \in BOOLEAN
        BY <1>1, <2>2, <3>2 DEF WorkerTypes, Save, Controls
      <4> QED
        BY <1>1, <2>2, <3>2, <4>1 DEF Save, GotoWith, WorkerTypes, StoreTypes
    <3> QED
      BY <2>1, <3>1, <3>2
  <2>4. StoreTypes' /\ WorkerTypes' /\ Honest(wpol')
    BY <1>1, <2>3 DEF IInv, StoreTypes, WorkerTypes, WorkerPlaces, ClaimInv
  <2> QED
    BY <1>1, <2>3, <2>4, GoesOn DEF Working
<1> QED
  BY <1>2, <1>3

(* The coverage is computed from the controls the matrix names.            *)
LEMMA ReconcileKeeps ==
  ASSUME IInv, Reconcile
  PROVE  IInv'
<1>1. /\ UNCHANGED <<policy, analysis, ctl, job, queueVars, gatewayVars>> /\ wpc = "reconcile"
      /\ StoreTypes /\ Honest(policy) /\ WorkerTypes /\ wjob \in Jobs
  BY DEF Reconcile, storeVars, IInv, ClaimInv, PlaceInv
<1>2. StoreTypes'
  BY <1>1 DEF StoreTypes
<1>3. CASE policy = NoPolicy
  <2>1. Fail
    BY <1>3 DEF Reconcile
  <2> QED
    BY <1>1, <1>2, <2>1, RaisedKeeps DEF Fail, Plain
<1>4. ASSUME policy # NoPolicy,
             wpc' \in {"save", "finish"}, UNCHANGED <<wjob, held, source, todo, saved, asked>>,
             wpol' \in Policies, Honest(wpol'), relied' \subseteq Ids, CoverInv'
      PROVE  IInv'
  <2>1. WorkerTypes'
    BY <1>1, <1>4 DEF WorkerTypes, WorkerPlaces
  <2>2. JobInv'
    BY <1>1, <1>4 DEF IInv, JobInv, Working
  <2> QED
    BY <1>1, <1>2, <1>4, <2>1, <2>2, WorkerKeeps
<1>5. CASE policy # NoPolicy /\ Reconcilable(policy)
  <2>1. /\ wpol' = [policy EXCEPT !.claim = Claim] /\ relied' = Implementing
        /\ wpc' = "save" /\ UNCHANGED <<wjob, held, source, todo, saved, asked>>
    BY <1>5 DEF Reconcile, GotoWith
  <2>2. wpol' \in Policies /\ Honest(wpol') /\ wpol'.claim = Claim
    BY <1>1, <1>5, <2>1 DEF StoreTypes, Policies, Honest, Claim, Reconcilable
  <2>3. relied' \subseteq Ids
    BY <2>1 DEF Implementing, Owned
  <2>4. CoverInv'
    <3> SUFFICES ASSUME wpol'.claim = "complete"
                 PROVE  CoveredByRelied'
      BY DEF CoverInv
    <3>1. Covered
      BY <2>2 DEF Claim
    <3>2. ASSUME NEW o \in analysis, NEW s \in o.expected
          PROVE  \E c \in Implementing : o.id \in ctl[c].links /\ s \in ctl[c].surfaces
                                           /\ ~ctl[c].asked /\ ~ctl[c].placeholder
      BY <3>1, <3>2 DEF Covered, Linked, Implementing
    <3>3. \A o \in analysis : o.expected # {}
      BY <3>1 DEF Covered
    <3> QED
      BY <1>1, <2>1, <3>2, <3>3 DEF CoveredByRelied
  <2> QED
    BY <1>4, <1>5, <2>1, <2>2, <2>3, <2>4
<1>6. CASE policy # NoPolicy /\ ~Reconcilable(policy)
  <2>1. /\ wpol' = policy /\ UNCHANGED relied
        /\ wpc' = "finish" /\ UNCHANGED <<wjob, held, source, todo, saved, asked>>
    BY <1>6 DEF Reconcile, GotoWith
  <2>2. wpol' \in Policies /\ Honest(wpol') /\ relied' \subseteq Ids
    BY <1>1, <1>6, <2>1 DEF StoreTypes, WorkerTypes
  <2>3. CoverInv'
    BY <1>1, <1>6, <2>1, <2>2 DEF CoverInv, CoveredByRelied, Honest, Reconcilable
  <2> QED
    BY <1>4, <1>6, <2>1, <2>2, <2>3
<1> QED
  BY <1>3, <1>5, <1>6

LEMMA ConcludingSteps ==
  ASSUME IInv, SaveCoverage \/ Finish
  PROVE  IInv'
<1>1. /\ UNCHANGED <<analysis, ctl, job, queueVars, gatewayVars>> /\ wpc \in {"save", "finish"}
      /\ StoreTypes /\ Honest(wpol) /\ WorkerTypes /\ wjob \in Jobs
  BY DEF SaveCoverage, Finish, IInv, ClaimInv, PlaceInv
<1>2. policy' \in Policies \cup {NoPolicy} /\ Honest(policy')
  <2>1. CASE SaveCoverage
    BY <1>1, <2>1 DEF SaveCoverage, WorkerTypes
  <2>2. CASE Finish
    <3>1. SetState("ready") \/ SetState("needs_clarification")
      BY <2>2 DEF Finish, SetState
    <3> QED
      BY <3>1, SetStateType DEF Statuses
  <2> QED
    BY <2>1, <2>2
<1>3. StoreTypes'
  BY <1>1, <1>2 DEF StoreTypes
<1>4. CASE Fail
  BY <1>1, <1>2, <1>3, <1>4, RaisedKeeps DEF Fail, Plain
<1>5. CASE ~Fail
  <2>1. wpc' \in {"finish", "complete"} /\ UNCHANGED <<wjob, held, workVars>>
    BY <1>5 DEF SaveCoverage, Finish, Goto
  <2>2. WorkerTypes' /\ Honest(wpol')
    BY <1>1, <2>1 DEF WorkerTypes, WorkerPlaces, workVars
  <2>3. JobInv'
    BY <1>1, <2>1 DEF IInv, JobInv, Working
  <2>4. CoverInv'
    BY <1>1, <2>1, StillCovered DEF Concluded, workVars
  <2> QED
    BY <1>1, <1>2, <1>3, <2>1, <2>2, <2>3, <2>4, WorkerKeeps
<1> QED
  BY <1>4, <1>5

LEMMA EndingSteps ==
  ASSUME IInv, CompleteJob \/ FailPolicy \/ FailJob
  PROVE  IInv'
<1>1. /\ UNCHANGED <<analysis, ctl, queueVars, gatewayVars>>
      /\ wpc # "idle" /\ wjob \in Jobs /\ StoreTypes /\ Honest(policy)
  BY DEF CompleteJob, FailPolicy, FailJob, IInv, PlaceInv, ClaimInv
<1>2. \E place \in Plain : Raise(place) \/ Goto(place)
  BY DEF CompleteJob, FailPolicy, FailJob, Plain
<1>3. /\ policy' \in Policies \cup {NoPolicy} /\ Honest(policy')
      /\ job' \in [Jobs -> JobStatuses] /\ \A j \in Jobs : job'[j] = "none" => job[j] = "none"
  <2>1. CASE CompleteJob \/ FailJob
    <3>1. SetJob(wjob, "completed") \/ SetJob(wjob, "failed")
      BY <2>1 DEF CompleteJob, FailJob
    <3>2. policy' = policy
      BY <2>1 DEF CompleteJob, FailJob
    <3> QED
      BY <1>1, <3>1, <3>2, SetJobType DEF StoreTypes
  <2>2. CASE FailPolicy
    BY <1>1, <2>2, SetStateType DEF FailPolicy, Statuses, StoreTypes
  <2> QED
    BY <2>1, <2>2
<1>4. StoreTypes'
  BY <1>1, <1>3 DEF StoreTypes
<1> QED
  BY <1>1, <1>2, <1>3, <1>4, RaisedKeeps
-------------------------------------------------------------------------------
(***************************************************************************)
(* Steps of the queue: a message only moves away from "none", and is ready *)
(* only while it may be delivered once more.                               *)
(***************************************************************************)
LEMMA QueueKeeps ==
  ASSUME IInv, UNCHANGED <<storeVars, gatewayVars>>, QueueTypes',
         \A j \in Jobs : msg'[j] = "none" => msg[j] = "none" /\ deliveries'[j] = 0,
         \A j \in Jobs : msg'[j] = "ready" => deliveries'[j] < MaxDelivery,
         \A j \in Jobs : msg[j] = "none" => msg'[j] = "none",
         WorkerTypes', wpc' # "idle" => wjob' \in Jobs /\ msg'[wjob'] # "none",
         Honest(wpol'), JobInv', CoverInv'
  PROVE  IInv'
<1>1. UNCHANGED <<policy, analysis, ctl, job, gpc, gop, gjob, gpol>>
  BY DEF storeVars, gatewayVars
<1>2. StoreTypes' /\ GatewayTypes'
  BY <1>1 DEF IInv, StoreTypes, GatewayTypes
<1>3. QueueInv'
  BY <1>1 DEF IInv, QueueInv
<1>4. PlaceInv' /\ ClaimInv'
  BY <1>1 DEF IInv, PlaceInv, ClaimInv
<1> QED
  BY <1>2, <1>3, <1>4 DEF IInv

LEMMA IdleWorker ==
  ASSUME WorkerIdle
  PROVE  /\ WorkerTypes' /\ wpc' = "idle" /\ Honest(wpol') /\ JobInv' /\ CoverInv'
<1>1. WorkerTypes' /\ wpc' = "idle" /\ Honest(wpol')
  BY NonesAssumption DEF WorkerIdle, NoWork, WorkerTypes, WorkerPlaces, Honest
<1> QED
  BY <1>1 DEF JobInv, CoverInv, Concluded, Working

LEMMA ReceiveKeeps ==
  ASSUME IInv, ConstantsAssumption, NEW j \in Jobs, Receive(j)
  PROVE  IInv'
<1>1. /\ UNCHANGED <<storeVars, gatewayVars, workVars>> /\ msg[j] = "ready"
      /\ msg' = [msg EXCEPT ![j] = "locked"] /\ deliveries' = [deliveries EXCEPT ![j] = @ + 1]
      /\ wpc' = "begin" /\ wjob' = j /\ held' = TRUE
  BY DEF Receive
<1>2. /\ msg \in [Jobs -> {"none", "ready", "locked", "done", "dead"}]
      /\ deliveries \in [Jobs -> 0..MaxDelivery] /\ deliveries[j] < MaxDelivery
      /\ MaxDelivery \in Nat
  BY <1>1 DEF IInv, QueueTypes, QueueInv, ConstantsAssumption
<1>3. QueueTypes'
  BY <1>1, <1>2 DEF QueueTypes
<1>4. /\ \A k \in Jobs : msg'[k] = "none" => msg[k] = "none" /\ deliveries'[k] = 0
      /\ \A k \in Jobs : msg'[k] = "ready" => deliveries'[k] < MaxDelivery
      /\ \A k \in Jobs : msg[k] = "none" => msg'[k] = "none"
  BY <1>1, <1>2 DEF IInv, QueueInv
<1>5. WorkerTypes' /\ Honest(wpol')
  BY <1>1 DEF IInv, WorkerTypes, WorkerPlaces, ClaimInv, workVars
<1>6. JobInv' /\ CoverInv'
  BY <1>1 DEF JobInv, CoverInv, Concluded, Working
<1> QED
  BY <1>1, <1>3, <1>4, <1>5, <1>6, QueueKeeps

(* The message of a job that was delivered goes one of these ways.         *)
LEMMA Settles ==
  ASSUME IInv, NEW j \in Jobs, UNCHANGED deliveries,
         \/ msg' = msg
         \/ msg[j] # "none" /\ msg' = [msg EXCEPT ![j] = "done"]
         \/ msg[j] # "none" /\ msg' = [msg EXCEPT ![j] = GivenBack(j)]
  PROVE  /\ QueueTypes'
         /\ \A k \in Jobs : msg'[k] = "none" => msg[k] = "none" /\ deliveries'[k] = 0
         /\ \A k \in Jobs : msg'[k] = "ready" => deliveries'[k] < MaxDelivery
         /\ \A k \in Jobs : msg[k] = "none" => msg'[k] = "none"
<1>1. /\ msg \in [Jobs -> {"none", "ready", "locked", "done", "dead"}]
      /\ deliveries \in [Jobs -> 0..MaxDelivery]
  BY DEF IInv, QueueTypes
<1> QED
  BY <1>1 DEF IInv, QueueTypes, QueueInv, GivenBack

LEMMA SettlingSteps ==
  ASSUME IInv, Acknowledge \/ Abandon
  PROVE  IInv'
<1>1. /\ UNCHANGED <<storeVars, deliveries, gatewayVars>> /\ wpc # "idle"
      /\ wjob \in Jobs /\ msg[wjob] # "none"
  BY DEF Acknowledge, Abandon, IInv, PlaceInv
<1>2. CASE WorkerIdle
  <2>1. \/ msg' = msg
        \/ msg' = [msg EXCEPT ![wjob] = "done"]
        \/ msg' = [msg EXCEPT ![wjob] = GivenBack(wjob)]
    BY <1>2 DEF Acknowledge, Abandon
  <2>2. /\ QueueTypes'
        /\ \A k \in Jobs : msg'[k] = "none" => msg[k] = "none" /\ deliveries'[k] = 0
        /\ \A k \in Jobs : msg'[k] = "ready" => deliveries'[k] < MaxDelivery
        /\ \A k \in Jobs : msg[k] = "none" => msg'[k] = "none"
    BY <1>1, <2>1, Settles
  <2> QED
    BY <1>1, <1>2, <2>2, IdleWorker, QueueKeeps
<1>3. CASE ~WorkerIdle
  <2>1. Goto("handle") /\ UNCHANGED <<msg, policy, analysis, ctl, job>>
    BY <1>3 DEF Acknowledge, Abandon, storeVars
  <2>2. StoreTypes' /\ Honest(policy')
    BY <2>1 DEF IInv, StoreTypes, ClaimInv
  <2> QED
    BY <1>1, <2>1, <2>2, RaisedKeeps DEF Plain, queueVars
<1> QED
  BY <1>2, <1>3

LEMMA KillKeeps ==
  ASSUME IInv, WorkerKill
  PROVE  IInv'
<1>1. WorkerIdle /\ UNCHANGED <<policy, analysis, ctl, job, queueVars, gatewayVars>>
  BY DEF WorkerKill, storeVars
<1>2. StoreTypes' /\ Honest(policy')
  BY <1>1 DEF IInv, StoreTypes, ClaimInv
<1> QED
  BY <1>1, <1>2, IdleWorker, WorkerKeeps

LEMMA LockExpiresKeeps ==
  ASSUME IInv, NEW j \in Jobs, LockExpires(j)
  PROVE  IInv'
<1>1. /\ UNCHANGED <<storeVars, deliveries, gatewayVars>>
      /\ UNCHANGED <<wpc, wjob, source, todo, saved, asked, relied, wpol>>
      /\ msg[j] # "none" /\ msg' = [msg EXCEPT ![j] = GivenBack(j)] /\ held' \in BOOLEAN
  BY DEF LockExpires, workVars, IInv, WorkerTypes
<1>2. /\ QueueTypes'
      /\ \A k \in Jobs : msg'[k] = "none" => msg[k] = "none" /\ deliveries'[k] = 0
      /\ \A k \in Jobs : msg'[k] = "ready" => deliveries'[k] < MaxDelivery
      /\ \A k \in Jobs : msg[k] = "none" => msg'[k] = "none"
  BY <1>1, Settles
<1>3. /\ WorkerTypes' /\ Honest(wpol')
      /\ wpc' # "idle" => wjob' \in Jobs /\ msg'[wjob'] # "none"
  BY <1>1, <1>2 DEF IInv, WorkerTypes, ClaimInv, PlaceInv
<1>4. JobInv' /\ CoverInv'
  BY <1>1 DEF IInv, JobInv, Working, CoverInv, CoveredByRelied, Concluded, Owned, Exists, storeVars
<1> QED
  BY <1>1, <1>2, <1>3, <1>4, QueueKeeps

LEMMA WorkStepKeeps ==
  ASSUME IInv, ConstantsAssumption, Work
  PROVE  IInv'
BY ReceiveKeeps, BeginKeeps, MarkRunningKeeps, SourceSteps, InterpretKeeps, SaveNextKeeps,
   ReconcileKeeps, ConcludingSteps, EndingSteps, SettlingSteps
   DEF Work
-------------------------------------------------------------------------------
LEMMA InitEstablishes ==
  ASSUME Init, ConstantsAssumption, NonesAssumption
  PROVE  IInv
<1>1. StoreTypes
  <2> DEFINE r == [owner |-> "earlier", state |-> "retired", links |-> {}, surfaces |-> {},
                   asked |-> FALSE, passed |-> TRUE, placeholder |-> FALSE]
  <2>1. r \in Controls
    BY DEF Controls
  <2>2. ctl = [c \in Ids |-> IF c \in Taken THEN r ELSE NoControl]
    BY DEF Init
  <2> HIDE DEF r
  <2>3. ctl \in [Ids -> Controls \cup {NoControl}]
    BY <2>1, <2>2
  <2>4. policy = NoPolicy /\ analysis = {} /\ job = [j \in Jobs |-> "none"]
    BY DEF Init
  <2> QED
    BY <2>3, <2>4 DEF StoreTypes, JobStatuses
<1>2. QueueTypes
  <2>1. msg = [j \in Jobs |-> "none"] /\ deliveries = [j \in Jobs |-> 0]
    BY DEF Init
  <2>2. 0 \in 0..MaxDelivery
    BY DEF ConstantsAssumption
  <2> QED
    BY <2>1, <2>2 DEF QueueTypes
<1>3. GatewayTypes /\ WorkerTypes
  BY DEF Init, GatewayTypes, WorkerTypes, GatewayPlaces, WorkerPlaces
<1>4. QueueInv /\ PlaceInv /\ ClaimInv
  BY DEF Init, QueueInv, PlaceInv, ClaimInv, Honest, NonesAssumption
<1>5. JobInv /\ CoverInv
  BY DEF Init, JobInv, CoverInv, Concluded, Working
<1> QED
  BY <1>1, <1>2, <1>3, <1>4, <1>5 DEF IInv

LEMMA NextKeeps ==
  ASSUME IInv, ConstantsAssumption, [Next]_vars
  PROVE  IInv'
<1>1. CASE Next
  BY <1>1, GatewayStepKeeps, WorkStepKeeps, KillKeeps, LockExpiresKeeps DEF Next, Broker
<1>2. CASE UNCHANGED vars
  BY <1>2 DEF vars, storeVars, queueVars, gatewayVars, workerVars, workVars, IInv,
              StoreTypes, QueueTypes, GatewayTypes, WorkerTypes, QueueInv, PlaceInv,
              ClaimInv, Honest, JobInv, Working, CoverInv, Concluded, CoveredByRelied,
              Owned, Exists
<1> QED
  BY <1>1, <1>2

(* The inductive invariant holds in every reachable state.                 *)
THEOREM Invariant == Spec => []IInv
<1>1. Init => IInv
  BY InitEstablishes, ConstantsAssumption, NonesAssumption
<1>2. IInv /\ [Next]_vars => IInv'
  BY NextKeeps, ConstantsAssumption
<1> QED
  BY <1>1, <1>2, PTL DEF Spec

(* Every variable has its type, whatever the proposals and the faults: no  *)
(* message is delivered more often than maxDeliveryCount, and no request   *)
(* writes back a record it never read.                                     *)
THEOREM TypeCorrect == Spec => []TypeOK
<1>1. IInv => TypeOK
  BY DEF IInv, TypeOK, StoreTypes, QueueTypes, GatewayTypes, WorkerTypes
<1> QED
  BY <1>1, Invariant, PTL
-------------------------------------------------------------------------------
(* A completed job is run again only when its controls are gone, and a     *)
(* late failure of process_policy_job() does not overwrite its record.     *)
THEOREM CompletedJobsStay == Spec => CompletedIsFinal
<1> DEFINE Kept == \A j \in Jobs : job[j] = "completed" /\ job'[j] # "completed" =>
                     job'[j] = "removed" \/ Owned = {}
<1>1. ASSUME IInv, [Next]_vars
      PROVE  Kept
  <2>1. job \in [Jobs -> JobStatuses]
    BY <1>1 DEF IInv, StoreTypes
  <2>2. CASE MarkRunning
    <3>1. wjob \in Jobs /\ SetJob(wjob, "running") /\ wpc \in {"mark", "phase"}
      BY <1>1, <2>2 DEF MarkRunning, IInv, PlaceInv
    <3>2. job[wjob] # "completed" \/ Owned = {}
      BY <1>1, <3>1 DEF IInv, JobInv, Working
    <3> QED
      BY <2>1, <3>1, <3>2 DEF SetJob
  <2>3. ASSUME NEW j \in Jobs \cup {NoJob}, SetJob(j, "completed") \/ SetJob(j, "failed")
        PROVE  Kept
    BY <2>1, <2>3 DEF SetJob, Recorded
  <2>4. CASE CompleteJob \/ FailJob \/ MarkUnsent
    BY <1>1, <2>3, <2>4 DEF CompleteJob, FailJob, MarkUnsent, IInv, WorkerTypes, GatewayTypes
  <2>5. CASE RecordJob
    BY <2>1, <2>5 DEF RecordJob, JobsLeft
  <2>6. CASE DropJobs
    BY <2>1, <2>6 DEF DropJobs
  <2>7. CASE UNCHANGED job
    BY <2>7
  <2>8. \/ MarkRunning \/ CompleteJob \/ FailJob \/ MarkUnsent \/ RecordJob \/ DropJobs
        \/ UNCHANGED job
    BY <1>1 DEF Next, Gateway, Work, Broker, vars, storeVars, Upload, MarkPending, Retry,
         Send, SendFails, Clarify, Activate, RetireControl, RemoveControl, CheckRelated,
         GatewayReconcile, GatewaySaveCoverage, SetClarified, RetirePolicy, WriteRetired,
         RemovePolicy, DropPolicy, GatewayCrash, Receive, Begin, Fetch, SourceFails, Extract,
         Interpret, ModelFails, SaveNext, SavedAll, Reconcile, SaveCoverage, Finish,
         Acknowledge, FailPolicy, Abandon, WorkerKill, LockExpires
  <2> QED
    BY <2>2, <2>4, <2>5, <2>6, <2>7, <2>8
<1>2. IInv /\ [Next]_vars => [Kept]_vars
  BY <1>1
<1> QED
  BY <1>2, Invariant, PTL DEF Spec, CompletedIsFinal

(* The worker writes no control that exists: a retried job finds the ones  *)
(* an earlier delivery saved, in whatever state administrators have left   *)
(* them, and those of another version of the document stay as they are.    *)
THEOREM IngestionKeepsControls == Spec => ControlsAreKept
<1> DEFINE Kept == Work => \A c \in Ids : Exists(c) => ctl'[c] = ctl[c]
<1>1. ASSUME IInv, [Next]_vars
      PROVE  Kept
  <2> SUFFICES ASSUME Work
               PROVE  \A c \in Ids : Exists(c) => ctl'[c] = ctl[c]
    OBVIOUS
  <2>1. CASE SaveNext
    <3>1. ctl \in [Ids -> Controls \cup {NoControl}] /\ todo \subseteq Candidates
      BY <1>1 DEF IInv, StoreTypes, WorkerTypes
    <3>2. \/ UNCHANGED ctl
          \/ \E x \in todo : ~Exists(x.id) /\ ctl' = [ctl EXCEPT ![x.id] = x.control]
      BY <2>1 DEF SaveNext, Save
    <3> QED
      BY <3>1, <3>2
  <2>2. CASE ~SaveNext
    <3>1. UNCHANGED ctl
      BY <2>2 DEF Work, storeVars, Receive, Begin, MarkRunning, Fetch, SourceFails, Extract,
           Interpret, ModelFails, SavedAll, Reconcile, SaveCoverage, Finish, CompleteJob,
           Acknowledge, FailPolicy, FailJob, Abandon
    <3> QED
      BY <3>1
  <2> QED
    BY <2>1, <2>2
<1>2. IInv /\ [Next]_vars => [Kept]_vars
  BY <1>1
<1> QED
  BY <1>2, Invariant, PTL DEF Spec, ControlsAreKept

(* When process_policy_job() is about to declare the policy complete, the  *)
(* controls its matrix names do cover every obligation of the analysis on  *)
(* record, while administrators retire, clarify and remove them.           *)
THEOREM ReadyPoliciesAreCovered == Spec => []ReadyIsCovered
<1>1. IInv => ReadyIsCovered
  BY DEF IInv, CoverInv, CoveredByRelied, Concluded, ReadyIsCovered, Owned
<1> QED
  BY <1>1, Invariant, PTL
--------------------------------------------------------------------------------
(* process_policy_job() stores a claim of completeness with the analysis,  *)
(* and reconcile_policy_coverage() computes it again from the records.     *)
(* When the controls of the plan are on record as planned, the two agree,  *)
(* but for the questions of a control that no obligation is linked to:     *)
(* these keep the first claim back, and the second does not see them.      *)
THEOREM ClaimsAgree ==
  ASSUME NEW raw \in Proposals, NEW first \in Firsts(raw),
         analysis = ObligationsOf(raw),
         Owned = {x.id : x \in Plan(raw, first)},
         \A x \in Plan(raw, first) : ctl[x.id] = x.control
  PROVE  PlanComplete(raw, first) <=>
           Covered /\ \A c \in raw.controls : LinksOf(raw, c) = {} => ~c.asked
<1> DEFINE Answered == \A c \in raw.controls : ~IsAsked(raw, first, c)
           Unlinked == \A c \in raw.controls : LinksOf(raw, c) = {} => ~c.asked
           Provided(o) == UNION {c.surfaces : c \in LinkedTo(raw, o)}
(* What is on record of a control and of a placeholder.                    *)
<1>1. ASSUME NEW c \in raw.controls
      PROVE  /\ c.id \in Owned
             /\ ctl[c.id].state # "retired" /\ ~ctl[c.id].placeholder
             /\ ctl[c.id].links = LinksOf(raw, c) /\ ctl[c.id].surfaces = c.surfaces
             /\ ctl[c.id].asked = IsAsked(raw, first, c)
  <2> DEFINE x == Compiled(raw, first, c)
  <2>1. x \in Plan(raw, first)
    BY DEF Plan
  <2>2. x.id = c.id /\ x.control.state # "retired" /\ ~x.control.placeholder
    BY DEF Compiled
  <2>3. x.control.links = LinksOf(raw, c) /\ x.control.surfaces = c.surfaces
    BY DEF Compiled
  <2>4. x.control.asked = IsAsked(raw, first, c)
    <3>1. IsAsked(raw, first, c) \in BOOLEAN
      BY ConstantsAssumption DEF ConstantsAssumption, RawProposals, RawControls, IsAsked
    <3> QED
      BY <3>1 DEF Compiled
  <2> HIDE DEF x
  <2>5. ctl[c.id] = x.control /\ c.id \in Owned
    BY <2>1, <2>2
  <2> QED
    BY <2>2, <2>3, <2>4, <2>5
<1>2. ASSUME NEW d \in Implementing
      PROVE  \E c \in raw.controls : c.id = d
  <2>1. PICK x \in Plan(raw, first) : x.id = d
    BY DEF Implementing
  <2>2. ~x.control.placeholder
    BY <2>1 DEF Implementing
  <2>3. x \notin {Placeholder(o) : o \in Unplanned(raw)}
    BY <2>2 DEF Placeholder
  <2> QED
    BY <2>1, <2>3 DEF Plan, Compiled
(* The records implement an obligation as the plan does.                   *)
<1>3. ASSUME NEW o \in ObligationsOf(raw)
      PROVE  /\ \A c \in LinkedTo(raw, o) : c.id \in Linked(o)
             /\ \A d \in Linked(o) : \E c \in LinkedTo(raw, o) : c.id = d
  BY <1>1, <1>2 DEF Linked, LinkedTo, Implementing
<1>4. ASSUME NEW o \in ObligationsOf(raw)
      PROVE  UNION {ctl[d].surfaces : d \in Linked(o)} = Provided(o)
  <2>1. \A c \in LinkedTo(raw, o) : c.id \in Linked(o) /\ ctl[c.id].surfaces = c.surfaces
    BY <1>1, <1>3 DEF LinkedTo
  <2>2. \A d \in Linked(o) : \E c \in LinkedTo(raw, o) : ctl[d].surfaces = c.surfaces
    BY <2>1, <1>3
  <2> QED
    BY <2>1, <2>2
<1>5. ASSUME NEW o \in ObligationsOf(raw)
      PROVE  (\A d \in Linked(o) : ~ctl[d].asked) <=>
               \A c \in LinkedTo(raw, o) : ~IsAsked(raw, first, c)
  <2>1. \A c \in LinkedTo(raw, o) :
          c.id \in Linked(o) /\ ctl[c.id].asked = IsAsked(raw, first, c)
    BY <1>1, <1>3 DEF LinkedTo
  <2> QED
    BY <2>1, <1>3
<1>6. Covered <=> \A o \in ObligationsOf(raw) :
                    /\ o.expected # {} /\ LinkedTo(raw, o) # {}
                    /\ o.expected \subseteq Provided(o)
                    /\ \A c \in LinkedTo(raw, o) : ~IsAsked(raw, first, c)
  <2>1. \A o \in ObligationsOf(raw) : Linked(o) # {} <=> LinkedTo(raw, o) # {}
    BY <1>3
  <2> QED
    BY <1>4, <1>5, <2>1 DEF Covered
(* A plan without questions has no placeholder.                            *)
<1>7. PlanComplete(raw, first) <=>
        /\ Answered
        /\ \A o \in ObligationsOf(raw) :
             /\ o.expected # {} /\ LinkedTo(raw, o) # {}
             /\ o.expected \subseteq Provided(o)
  <2>1. (\A x \in Plan(raw, first) : ~x.control.asked) <=> Answered /\ Unplanned(raw) = {}
    <3>1. \A c \in raw.controls : Compiled(raw, first, c).control.asked = IsAsked(raw, first, c)
      BY DEF Compiled
    <3>2. \A o \in Unplanned(raw) : Placeholder(o).control.asked
      BY DEF Placeholder
    <3> QED
      BY <3>1, <3>2 DEF Plan
  <2>2. Unplanned(raw) = {} => \A o \in ObligationsOf(raw) :
          ~Questioned(raw, o) <=> /\ o.expected # {} /\ LinkedTo(raw, o) # {}
                                  /\ o.expected \subseteq Provided(o)
    BY DEF Unplanned, Questioned, PlannedSurfaces
  <2>3. (\A o \in ObligationsOf(raw) : LinkedTo(raw, o) # {}) => Unplanned(raw) = {}
    BY DEF Unplanned, NeedsPlaceholder
  <2> HIDE DEF Answered, Provided
  <2> QED
    BY <2>1, <2>2, <2>3 DEF PlanComplete
(* The questions of an obligation are put to a control linked to it.       *)
<1>8. ASSUME NEW c \in raw.controls, LinksOf(raw, c) = {}
      PROVE  IsAsked(raw, first, c) <=> c.asked
  <2>1. \A o \in DOMAIN first : o \in ObligationsOf(raw) /\ first[o] \in LinkedTo(raw, o)
    BY DEF Firsts
  <2>2. \A o \in DOMAIN first : first[o] # c
    BY <1>8, <2>1 DEF LinkedTo
  <2> QED
    BY <2>2 DEF IsAsked
<1>9. ASSUME NEW c \in raw.controls, LinksOf(raw, c) # {}
      PROVE  \E o \in ObligationsOf(raw) : c \in LinkedTo(raw, o)
  <2>1. LinksOf(raw, c) \subseteq IdsOf(ObligationsOf(raw))
    BY DEF LinksOf, IdsOf
  <2> QED
    BY <1>9, <2>1 DEF IdsOf, LinkedTo
<1>10. Answered <=> /\ Unlinked
                    /\ \A o \in ObligationsOf(raw) : \A c \in LinkedTo(raw, o) :
                         ~IsAsked(raw, first, c)
  BY <1>8, <1>9 DEF LinkedTo
<1> HIDE DEF Answered, Unlinked, Provided
<1>11. PlanComplete(raw, first) <=> Covered /\ Unlinked
  BY <1>6, <1>7, <1>10
<1> QED
  BY <1>11 DEF Unlinked
===============================================================================

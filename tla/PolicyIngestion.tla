---------------------------- MODULE PolicyIngestion ----------------------------
(***************************************************************************)
(* One version of a policy document, from its upload to the controls that  *)
(* are proposed for it: the gateway (webhook-receiver/admin.py, app.py),   *)
(* the queue, and the worker in process_policy_job()                       *)
(* (orchestrator/policy_engine.py) over the tables of store.py.            *)
(*                                                                         *)
(* A step is one method of the control plane, two where the method lists   *)
(* the controls between the read and the write of the policy record: such  *)
(* a record is written back as it was read.  The gateway serves one        *)
(* request at a time, and there is one worker (maxExecutions is 1).        *)
(***************************************************************************)
EXTENDS Naturals, FiniteSets

CONSTANTS
  Ids,            \* control ids, in the name space of the document
  Obligations, Surfaces, Clauses,
  ManualEvidence, \* the surface of a coverage placeholder
  PlaceholderId,  \* id of the coverage placeholder of an obligation
  DerivedId,      \* obligation derived from a control, when none is named
  Title,          \* title and excerpt of a control
  Proposals,      \* what the model may answer
  Taken,          \* ids of controls of an earlier version of the document
  Jobs,
  MaxDelivery,    \* maxDeliveryCount
  Operations,     \* requests of administrators that are used
  Faults,
  NoClause, NoPolicy, NoControl, NoJob

AllOperations == {"paste", "url", "retry", "clarify", "activate",
                  "retire_control", "remove_control", "retire_policy", "remove_policy"}
AllFaults == {"gateway_crash", "worker_kill", "lock_expiry", "unsent", "source", "model"}

(* clause: the clause a citation quotes.  surfaces: those of the type of   *)
(* the control.  compiles: its citation is verified and save_control       *)
(* accepts its fields.                                                     *)
RawControls == [id : Ids, links : SUBSET Obligations, surfaces : SUBSET Surfaces,
                clause : Clauses \cup {NoClause}, asked : BOOLEAN, compiles : BOOLEAN,
                passed : BOOLEAN]
RawObligations == [id : Obligations, expected : SUBSET Surfaces, clause : Clauses \cup {NoClause}]
RawProposals == [controls : SUBSET RawControls, obligations : SUBSET RawObligations]

ASSUME ConstantsAssumption ==
  /\ ManualEvidence \in Surfaces
  /\ PlaceholderId \in [Obligations -> Ids]
  /\ DerivedId \in [Ids -> Obligations]
  /\ Proposals \subseteq RawProposals
  /\ Taken \subseteq Ids
  /\ MaxDelivery \in Nat \ {0}
  /\ Operations \subseteq AllOperations
  /\ Faults \subseteq AllFaults
  /\ NoClause \notin Clauses
  /\ NoJob \notin Jobs

Statuses == {"draft", "needs_clarification", "ready", "partial_coverage", "retired"}
Policies == [status : Statuses,
             pending : BOOLEAN, fetched : BOOLEAN, analysed : BOOLEAN,
             claim : {"none", "complete", "gaps"}]

(* owner: the policy version the control belongs to.                       *)
Controls == [owner : {"this", "earlier"},
             state : {"needs_clarification", "draft", "active", "retired"},
             links : SUBSET Obligations, surfaces : SUBSET Surfaces,
             asked : BOOLEAN, passed : BOOLEAN, placeholder : BOOLEAN]
Candidates == [id : Ids, control : Controls, compiles : BOOLEAN]

ASSUME NonesAssumption == NoPolicy \notin Policies /\ NoControl \notin Controls

VARIABLES
  policy,      \* record of the policy version
  analysis,    \* obligations in its analysis blob
  ctl,         \* record of each control
  job,         \* status of each ingestion job
  msg,         \* where its message is
  deliveries,  \* how often it was delivered
  gpc, gop, gjob, gpol,   \* the request: place, operation, job, policy as read
  wpc, wjob, held,        \* the worker: place, job, whether its lock lasts
  source,      \* the policy source as the worker knows it
  todo,        \* candidates it still has to save
  saved,       \* controls it saved or reused
  asked,       \* one of them awaits clarification
  relied,      \* the controls its coverage matrix names
  wpol         \* the policy record as it read it

storeVars   == <<policy, analysis, ctl, job>>
queueVars   == <<msg, deliveries>>
gatewayVars == <<gpc, gop, gjob, gpol>>
workVars    == <<source, todo, saved, asked, relied, wpol>>
workerVars  == <<wpc, wjob, held, workVars>>
vars == <<storeVars, queueVars, gatewayVars, workerVars>>

GatewayPlaces == {"idle", "pending", "record", "send", "unsent", "related",
                  "reconcile", "save", "state", "retire", "drop_jobs", "drop_policy"}
WorkerPlaces == {"idle", "begin", "mark", "fetch", "extract", "phase", "interpret",
                 "look", "reconcile", "save", "finish", "complete", "ack",
                 "fail_policy", "fail_job", "handle", "abandon"}
JobStatuses == {"none", "queued", "running", "completed", "failed", "removed"}

(***************************************************************************)
(* TYPE INVARIANT                                                          *)
(***************************************************************************)
TypeOK ==
  /\ policy \in Policies \cup {NoPolicy}
  /\ analysis \subseteq RawObligations
  /\ ctl \in [Ids -> Controls \cup {NoControl}]
  /\ job \in [Jobs -> JobStatuses]
  /\ msg \in [Jobs -> {"none", "ready", "locked", "done", "dead"}]
  /\ deliveries \in [Jobs -> 0..MaxDelivery]
  /\ gpc \in GatewayPlaces
  /\ gop \in Operations \cup {"none"}
  /\ gjob \in Jobs \cup {NoJob}
  /\ gpol \in Policies \cup {NoPolicy}
  /\ wpc \in WorkerPlaces
  /\ wjob \in Jobs \cup {NoJob}
  /\ held \in BOOLEAN
  /\ source \in {"none", "pending", "placeholder", "policy"}
  /\ todo \subseteq Candidates
  /\ saved \subseteq Ids
  /\ asked \in BOOLEAN
  /\ relied \subseteq Ids
  /\ wpol \in Policies \cup {NoPolicy}

Init ==
  /\ policy = NoPolicy
  /\ analysis = {}
  /\ ctl = [c \in Ids |-> IF c \in Taken
              THEN [owner |-> "earlier", state |-> "retired", links |-> {}, surfaces |-> {},
                    asked |-> FALSE, passed |-> TRUE, placeholder |-> FALSE]
              ELSE NoControl]
  /\ job = [j \in Jobs |-> "none"]
  /\ msg = [j \in Jobs |-> "none"]
  /\ deliveries = [j \in Jobs |-> 0]
  /\ gpc = "idle" /\ gop = "none" /\ gjob = NoJob /\ gpol = NoPolicy
  /\ wpc = "idle" /\ wjob = NoJob /\ held = FALSE
  /\ source = "none" /\ todo = {} /\ saved = {} /\ asked = FALSE /\ relied = {} /\ wpol = NoPolicy
-------------------------------------------------------------------------------
(***************************************************************************)
(* assess_policy_proposal(): the coverage plan of a proposal.  interpret() *)
(* has assessed what it returns, and it is assessed again; the second time *)
(* finds the same while every obligation cites a clause of its own.        *)
(***************************************************************************)
ObligationsOf(raw) ==
  IF raw.obligations # {} THEN raw.obligations
  ELSE {[id |-> DerivedId[c.id], expected |-> c.surfaces, clause |-> c.clause] : c \in raw.controls}

IdsOf(obligations) == {o.id : o \in obligations}

(* Links the control names, else the only obligation, else those that cite *)
(* the same clause.                                                        *)
LinksOf(raw, c) ==
  LET obligations == ObligationsOf(raw)
      named == c.links \cap IdsOf(obligations)
  IN  IF named # {} THEN named
      ELSE IF Cardinality(obligations) = 1 THEN IdsOf(obligations)
      ELSE {o.id : o \in {p \in obligations : c.clause # NoClause /\ p.clause = c.clause}}

LinkedTo(raw, o) == {c \in raw.controls : o.id \in LinksOf(raw, c)}

NeedsPlaceholder(raw, o) == LinkedTo(raw, o) = {} /\ o.clause # NoClause

PlannedSurfaces(raw, o) ==
  IF NeedsPlaceholder(raw, o) THEN {ManualEvidence}
  ELSE UNION {c.surfaces : c \in LinkedTo(raw, o)}

Questioned(raw, o) ==
  \/ o.expected = {}
  \/ LinkedTo(raw, o) = {} /\ ~NeedsPlaceholder(raw, o)
  \/ ~(o.expected \subseteq PlannedSurfaces(raw, o))

(* The questions of an obligation are put to the first of its controls.    *)
Firsts(raw) ==
  LET linked == {o \in ObligationsOf(raw) : LinkedTo(raw, o) # {}}
  IN  {f \in [linked -> raw.controls] : \A o \in linked : f[o] \in LinkedTo(raw, o)}

IsAsked(raw, first, c) ==
  c.asked \/ \E o \in DOMAIN first : first[o] = c /\ Questioned(raw, o)

(* compile_proposal(): a control waits for its questions, or is a draft.   *)
Compiled(raw, first, c) ==
  [id |-> c.id, compiles |-> c.compiles,
   control |-> [owner |-> "this",
                state |-> IF IsAsked(raw, first, c) THEN "needs_clarification" ELSE "draft",
                links |-> LinksOf(raw, c), surfaces |-> c.surfaces,
                asked |-> IsAsked(raw, first, c), passed |-> c.passed, placeholder |-> FALSE]]

Placeholder(o) ==
  [id |-> PlaceholderId[o.id], compiles |-> TRUE,
   control |-> [owner |-> "this", state |-> "needs_clarification", links |-> {o.id},
                surfaces |-> {ManualEvidence}, asked |-> TRUE, passed |-> TRUE,
                placeholder |-> TRUE]]

Unplanned(raw) == {o \in ObligationsOf(raw) : NeedsPlaceholder(raw, o)}

Plan(raw, first) ==
  {Compiled(raw, first, c) : c \in raw.controls} \cup {Placeholder(o) : o \in Unplanned(raw)}

PlanComplete(raw, first) ==
  /\ \A o \in ObligationsOf(raw) : ~Questioned(raw, o)
  /\ \A c \in Plan(raw, first) : ~c.control.asked
-------------------------------------------------------------------------------
Exists(c) == ctl[c] # NoControl
Owned == {c \in Ids : Exists(c) /\ ctl[c].owner = "this"}   \* policy_controls()

(***************************************************************************)
(* reconcile_policy_coverage() over a policy record p.                     *)
(***************************************************************************)
Implementing == {c \in Owned : ctl[c].state # "retired" /\ ~ctl[c].placeholder}
Linked(o) == {c \in Implementing : o.id \in ctl[c].links}

Covered ==
  \A o \in analysis :
    /\ o.expected # {} /\ Linked(o) # {}
    /\ o.expected \subseteq UNION {ctl[c].surfaces : c \in Linked(o)}
    /\ \A c \in Linked(o) : ~ctl[c].asked

Claim == IF Covered THEN "complete" ELSE "gaps"
Reconcilable(p) == p.analysed /\ analysis # {}
-------------------------------------------------------------------------------
(***************************************************************************)
(* Requests at the gateway.                                                *)
(***************************************************************************)
GatewayIdle == gpc' = "idle" /\ gop' = "none" /\ gjob' = NoJob /\ gpol' = NoPolicy
Serve(o, place, p) ==
  /\ o \in Operations /\ gpc = "idle"
  /\ gpc' = place /\ gop' = (IF place = "idle" THEN "none" ELSE o)
  /\ gjob' = NoJob /\ gpol' = p
Respond(place) == gpc' = place /\ UNCHANGED <<gop, gjob, gpol>>

JobsLeft == {j \in Jobs : job[j] = "none"}
NewPolicy == [status |-> "draft", pending |-> FALSE, fetched |-> FALSE,
              analysed |-> FALSE, claim |-> "none"]

(* save_policy_document(); a URL policy starts with a placeholder source.  *)
Upload(mode) ==
  /\ Serve(mode, IF mode = "url" THEN "pending" ELSE "record", NewPolicy)
  /\ policy = NoPolicy /\ JobsLeft # {}
  /\ policy' = [NewPolicy EXCEPT !.fetched = mode = "paste"]
  /\ UNCHANGED <<analysis, ctl, job, queueVars, workerVars>>

(* The second write of save_policy_reference().                            *)
MarkPending ==
  /\ gpc = "pending"
  /\ policy' = [gpol EXCEPT !.pending = TRUE]
  /\ Respond("record")
  /\ UNCHANGED <<analysis, ctl, job, queueVars, workerVars>>

(* POST /policy-job: a version with controls is not interpreted again.     *)
Retry ==
  /\ Serve("retry", "record", NoPolicy)
  /\ policy # NoPolicy /\ Owned = {} /\ JobsLeft # {}
  /\ UNCHANGED <<storeVars, queueVars, workerVars>>

RecordJob ==
  /\ gpc = "record"
  /\ \E j \in JobsLeft : gjob' = j /\ job' = [job EXCEPT ![j] = "queued"]
  /\ gpc' = "send" /\ UNCHANGED <<gop, gpol>>
  /\ UNCHANGED <<policy, analysis, ctl, queueVars, workerVars>>

Send ==
  /\ gpc = "send"
  /\ msg' = [msg EXCEPT ![gjob] = "ready"]
  /\ GatewayIdle
  /\ UNCHANGED <<storeVars, deliveries, workerVars>>

(* send_messages raises, and the broker may have the message all the same. *)
SendFails ==
  /\ "unsent" \in Faults
  /\ gpc = "send"
  /\ \/ msg' = [msg EXCEPT ![gjob] = "ready"]
     \/ UNCHANGED msg
  /\ Respond("unsent")
  /\ UNCHANGED <<storeVars, deliveries, workerVars>>

(* update_policy_job(): failed never replaces completed, and a job that    *)
(* was removed stays so.                                                   *)
Recorded(j) == job[j] \notin {"none", "removed"}
SetJob(j, status) ==
  job' = IF Recorded(j) /\ ~(job[j] = "completed" /\ status = "failed")
           THEN [job EXCEPT ![j] = status] ELSE job

MarkUnsent ==
  /\ gpc = "unsent"
  /\ SetJob(gjob, "failed")
  /\ GatewayIdle
  /\ UNCHANGED <<policy, analysis, ctl, queueVars, workerVars>>

(* answer_control_clarifications(): when it leaves no question of the      *)
(* policy open, the coverage is computed again and the status follows it.  *)
Clarify(c) ==
  /\ c \in Owned /\ ctl[c].state = "needs_clarification"
  /\ Serve("clarify", "related", NoPolicy)
  /\ ctl' = [ctl EXCEPT ![c].state = "draft", ![c].asked = FALSE]
  /\ UNCHANGED <<policy, analysis, job, queueVars, workerVars>>

CheckRelated ==
  /\ gpc = "related"
  /\ IF \E c \in Owned : ctl[c].asked THEN GatewayIdle ELSE Respond("reconcile")
  /\ UNCHANGED <<storeVars, queueVars, workerVars>>

GatewayReconcile ==
  /\ gpc = "reconcile"
  /\ CASE policy = NoPolicy -> GatewayIdle
       [] policy # NoPolicy /\ Reconcilable(policy) ->
            gpc' = "save" /\ gpol' = [policy EXCEPT !.claim = Claim] /\ UNCHANGED <<gop, gjob>>
       [] OTHER ->
            IF gop = "clarify"
              THEN gpc' = "state" /\ gpol' = policy /\ UNCHANGED <<gop, gjob>>
              ELSE GatewayIdle
  /\ UNCHANGED <<storeVars, queueVars, workerVars>>

GatewaySaveCoverage ==
  /\ gpc = "save"
  /\ policy' = gpol
  /\ IF gop = "clarify" THEN Respond("state") ELSE GatewayIdle
  /\ UNCHANGED <<analysis, ctl, job, queueVars, workerVars>>

(* update_policy_state(); a claim that was never made counts as complete.  *)
SetState(status) ==
  policy' = IF policy = NoPolicy THEN NoPolicy ELSE [policy EXCEPT !.status = status]

SetClarified ==
  /\ gpc = "state"
  /\ SetState(IF gpol.claim = "gaps" THEN "partial_coverage" ELSE "ready")
  /\ GatewayIdle
  /\ UNCHANGED <<analysis, ctl, job, queueVars, workerVars>>

(* approve_control(), then transition_control() to active: two requests,   *)
(* one step here.  ControlLifecycle has their reads and writes apart.      *)
Activate(c) ==
  /\ c \in Owned /\ ctl[c].state = "draft"
  /\ ctl[c].passed /\ ~ctl[c].placeholder /\ ~ctl[c].asked
  /\ Serve("activate", "idle", NoPolicy)
  /\ ctl' = [ctl EXCEPT ![c].state = "active"]
  /\ UNCHANGED <<policy, analysis, job, queueVars, workerVars>>

RetireControl(c) ==
  /\ c \in Owned /\ ctl[c].state # "retired"
  /\ Serve("retire_control", "reconcile", NoPolicy)
  /\ ctl' = [ctl EXCEPT ![c].state = "retired"]
  /\ UNCHANGED <<policy, analysis, job, queueVars, workerVars>>

RemoveControl(c) ==
  /\ Exists(c) /\ ctl[c].state = "retired"
  /\ Serve("remove_control", "idle", NoPolicy)
  /\ ctl' = [ctl EXCEPT ![c] = NoControl]
  /\ UNCHANGED <<policy, analysis, job, queueVars, workerVars>>

RetirePolicy ==
  /\ policy # NoPolicy /\ policy.status # "retired"
  /\ \A c \in Owned : ctl[c].state = "retired"
  /\ Serve("retire_policy", "retire", [policy EXCEPT !.status = "retired"])
  /\ UNCHANGED <<storeVars, queueVars, workerVars>>

WriteRetired ==
  /\ gpc = "retire"
  /\ policy' = gpol
  /\ GatewayIdle
  /\ UNCHANGED <<analysis, ctl, job, queueVars, workerVars>>

RemovePolicy ==
  /\ policy # NoPolicy /\ policy.status = "retired" /\ Owned = {}
  /\ Serve("remove_policy", "drop_jobs", NoPolicy)
  /\ UNCHANGED <<storeVars, queueVars, workerVars>>

DropJobs ==
  /\ gpc = "drop_jobs"
  /\ job' = [j \in Jobs |-> IF job[j] = "none" THEN "none" ELSE "removed"]
  /\ Respond("drop_policy")
  /\ UNCHANGED <<policy, analysis, ctl, queueVars, workerVars>>

DropPolicy ==
  /\ gpc = "drop_policy"
  /\ policy' = NoPolicy /\ analysis' = {}
  /\ GatewayIdle
  /\ UNCHANGED <<ctl, job, queueVars, workerVars>>

GatewayCrash ==
  /\ "gateway_crash" \in Faults
  /\ gpc # "idle"
  /\ GatewayIdle
  /\ UNCHANGED <<storeVars, queueVars, workerVars>>
-------------------------------------------------------------------------------
(***************************************************************************)
(* The worker: handle_message() around process_policy_job().               *)
(***************************************************************************)
NoWork == source' = "none" /\ todo' = {} /\ saved' = {} /\ asked' = FALSE /\ relied' = {} /\ wpol' = NoPolicy
WorkerIdle == wpc' = "idle" /\ wjob' = NoJob /\ held' = FALSE /\ NoWork
Goto(place) == wpc' = place /\ UNCHANGED <<wjob, held, workVars>>
GotoWith(place) == wpc' = place /\ UNCHANGED <<wjob, held>>
Raise(place) == GotoWith(place) /\ NoWork   \* process_policy_job() is over
Fail == Raise("fail_policy")

Receive(j) ==
  /\ wpc = "idle" /\ msg[j] = "ready"
  /\ msg' = [msg EXCEPT ![j] = "locked"]
  /\ deliveries' = [deliveries EXCEPT ![j] = @ + 1]
  /\ wpc' = "begin" /\ wjob' = j /\ held' = TRUE /\ UNCHANGED workVars
  /\ UNCHANGED <<storeVars, gatewayVars>>

(* Wrong variant: a redelivered job starts over, completed or not.         *)
BeginAfresh ==
  /\ wpc = "begin"
  /\ IF policy = NoPolicy THEN Goto("handle")
     ELSE /\ source' = CASE policy.pending -> "pending"
                         [] ~policy.pending /\ policy.fetched -> "policy"
                         [] OTHER -> "placeholder"
          /\ GotoWith("mark") /\ UNCHANGED <<todo, saved, asked, relied, wpol>>
  /\ UNCHANGED <<storeVars, queueVars, gatewayVars>>

(* The policy, the job and the controls are read; a completed job whose    *)
(* controls are there is done.                                             *)
Begin ==
  /\ wpc = "begin"
  /\ IF policy = NoPolicy THEN Goto("handle")
     ELSE IF job[wjob] = "completed" /\ Owned # {} THEN Goto("ack")
     ELSE /\ source' = CASE policy.pending -> "pending"
                         [] ~policy.pending /\ policy.fetched -> "policy"
                         [] OTHER -> "placeholder"
          /\ GotoWith("mark") /\ UNCHANGED <<todo, saved, asked, relied, wpol>>
  /\ UNCHANGED <<storeVars, queueVars, gatewayVars>>

(* update_policy_job(status="running"), before the try and in it.          *)
MarkRunning ==
  /\ wpc \in {"mark", "phase"}
  /\ SetJob(wjob, "running")
  /\ CASE ~Recorded(wjob) -> Raise(IF wpc = "mark" THEN "handle" ELSE "fail_policy")
       [] Recorded(wjob) /\ wpc = "mark" -> Goto(IF source = "pending" THEN "fetch" ELSE "extract")
       [] OTHER -> Goto("interpret")
  /\ UNCHANGED <<policy, analysis, ctl, queueVars, gatewayVars>>

(* fetch_public_policy() and replace_policy_source().                      *)
Fetch ==
  /\ wpc = "fetch"
  /\ IF policy = NoPolicy THEN Fail /\ UNCHANGED policy
     ELSE /\ policy' = [policy EXCEPT !.pending = FALSE, !.fetched = TRUE]
          /\ source' = "policy"
          /\ GotoWith("extract") /\ UNCHANGED <<todo, saved, asked, relied, wpol>>
  /\ UNCHANGED <<analysis, ctl, job, queueVars, gatewayVars>>

SourceFails ==
  /\ "source" \in Faults
  /\ wpc \in {"fetch", "extract"}
  /\ Fail
  /\ UNCHANGED <<storeVars, queueVars, gatewayVars>>

(* get_blob(), extract_document() and save_policy_extraction().            *)
Extract ==
  /\ wpc = "extract"
  /\ IF policy = NoPolicy THEN Fail ELSE Goto("phase")
  /\ UNCHANGED <<policy, analysis, ctl, job, queueVars, gatewayVars>>

(* The model answers, and save_policy_analysis() stores the plan.          *)
Interpret ==
  /\ wpc = "interpret"
  /\ IF policy = NoPolicy THEN Fail /\ UNCHANGED <<policy, analysis>>
     ELSE \E raw \in Proposals : \E first \in Firsts(raw) :
            /\ analysis' = ObligationsOf(raw)
            /\ policy' = [policy EXCEPT !.analysed = TRUE,
                            !.claim = IF PlanComplete(raw, first) THEN "complete" ELSE "gaps"]
            /\ todo' = Plan(raw, first)
            /\ GotoWith("look") /\ UNCHANGED <<source, saved, asked, relied, wpol>>
  /\ UNCHANGED <<ctl, job, queueVars, gatewayVars>>

ModelFails ==
  /\ "model" \in Faults
  /\ wpc = "interpret"
  /\ Fail
  /\ UNCHANGED <<storeVars, queueVars, gatewayVars>>

Awaiting(c) == ctl[c].state = "needs_clarification"
Legacy(c) == {d \in Owned : Title[d] = Title[c]}

Reuse(d, x) ==
  /\ todo' = todo \ {x} /\ saved' = saved \cup {d} /\ asked' = (asked \/ Awaiting(d))
  /\ GotoWith("look") /\ UNCHANGED <<source, relied, wpol>>

Save(x) ==
  /\ ctl' = [ctl EXCEPT ![x.id] = x.control]
  /\ todo' = todo \ {x} /\ saved' = saved \cup {x.id} /\ asked' = (asked \/ x.control.asked)
  /\ GotoWith("look") /\ UNCHANGED <<source, relied, wpol>>

(* Wrong variant: save_control() writes over a control that exists.        *)
SaveNextOver ==
  /\ wpc = "look"
  /\ \E x \in todo :
       IF ~x.compiles THEN Fail /\ UNCHANGED ctl
       ELSE IF x.id \in Owned THEN Reuse(x.id, x) /\ UNCHANGED ctl
       ELSE IF Legacy(x.id) # {} THEN (\E d \in Legacy(x.id) : Reuse(d, x)) /\ UNCHANGED ctl
       ELSE Save(x)
  /\ UNCHANGED <<policy, analysis, job, queueVars, gatewayVars>>

(* A control of this policy is reused, by its id or by its title; one of   *)
(* another version with this id makes save_control() raise.  Nobody else   *)
(* creates controls, so the look-up and the write are one step.            *)
SaveNext ==
  /\ wpc = "look"
  /\ \E x \in todo :
       IF ~x.compiles THEN Fail /\ UNCHANGED ctl
       ELSE IF x.id \in Owned THEN Reuse(x.id, x) /\ UNCHANGED ctl
       ELSE IF Legacy(x.id) # {} THEN (\E d \in Legacy(x.id) : Reuse(d, x)) /\ UNCHANGED ctl
       ELSE IF Exists(x.id) THEN Fail /\ UNCHANGED ctl
       ELSE Save(x)
  /\ UNCHANGED <<policy, analysis, job, queueVars, gatewayVars>>

SavedAll ==
  /\ wpc = "look" /\ todo = {}
  /\ IF saved = {} THEN Fail ELSE Goto("reconcile")
  /\ UNCHANGED <<storeVars, queueVars, gatewayVars>>

(* Wrong variant: the claim of the assessment stands.                      *)
ReconcileAssessed ==
  /\ wpc = "reconcile"
  /\ IF policy = NoPolicy THEN Fail
     ELSE wpol' = policy /\ GotoWith("finish") /\ UNCHANGED <<source, todo, saved, asked, relied>>
  /\ UNCHANGED <<storeVars, queueVars, gatewayVars>>

Reconcile ==
  /\ wpc = "reconcile"
  /\ CASE policy = NoPolicy -> Fail
       [] policy # NoPolicy /\ Reconcilable(policy) ->
            /\ wpol' = [policy EXCEPT !.claim = Claim] /\ relied' = Implementing
            /\ GotoWith("save") /\ UNCHANGED <<source, todo, saved, asked>>
       [] OTHER ->
            wpol' = policy /\ GotoWith("finish") /\ UNCHANGED <<source, todo, saved, asked, relied>>
  /\ UNCHANGED <<storeVars, queueVars, gatewayVars>>

SaveCoverage ==
  /\ wpc = "save"
  /\ policy' = wpol
  /\ Goto("finish")
  /\ UNCHANGED <<analysis, ctl, job, queueVars, gatewayVars>>

Finish ==
  /\ wpc = "finish"
  /\ SetState(IF wpol.claim = "complete" /\ ~asked THEN "ready" ELSE "needs_clarification")
  /\ IF policy = NoPolicy THEN Fail ELSE Goto("complete")
  /\ UNCHANGED <<analysis, ctl, job, queueVars, gatewayVars>>

CompleteJob ==
  /\ wpc = "complete"
  /\ SetJob(wjob, "completed")
  /\ Raise(IF Recorded(wjob) THEN "ack" ELSE "fail_policy")
  /\ UNCHANGED <<policy, analysis, ctl, queueVars, gatewayVars>>

(* complete_message() raises when the lock was lost.                       *)
Acknowledge ==
  /\ wpc = "ack"
  /\ IF held THEN msg' = [msg EXCEPT ![wjob] = "done"] /\ WorkerIdle
     ELSE Goto("handle") /\ UNCHANGED msg
  /\ UNCHANGED <<storeVars, deliveries, gatewayVars>>

(* The except clause of process_policy_job(), then that of handle_message. *)
FailPolicy ==
  /\ wpc = "fail_policy"
  /\ SetState("needs_clarification")
  /\ Goto("fail_job")
  /\ UNCHANGED <<analysis, ctl, job, queueVars, gatewayVars>>

FailJob ==
  /\ wpc \in {"fail_job", "handle"}
  /\ SetJob(wjob, "failed")
  /\ Goto(IF wpc = "fail_job" THEN "handle" ELSE "abandon")
  /\ UNCHANGED <<policy, analysis, ctl, queueVars, gatewayVars>>

(* Wrong variant: the limit of deliveries is not looked at.                *)
GivenBackAlways(j) == "ready"

GivenBack(j) == IF deliveries[j] < MaxDelivery THEN "ready" ELSE "dead"

Abandon ==
  /\ wpc = "abandon"
  /\ msg' = IF held THEN [msg EXCEPT ![wjob] = GivenBack(wjob)] ELSE msg
  /\ WorkerIdle
  /\ UNCHANGED <<storeVars, deliveries, gatewayVars>>

WorkerKill ==
  /\ "worker_kill" \in Faults
  /\ wpc # "idle"
  /\ WorkerIdle
  /\ UNCHANGED <<storeVars, queueVars, gatewayVars>>

(* Wrong variant: the deliveries of an expired lock are not limited.       *)
LockExpiresUnlimited(j) ==
  /\ msg[j] = "locked"
  /\ held /\ wjob = j => "lock_expiry" \in Faults
  /\ msg' = [msg EXCEPT ![j] = "ready"]
  /\ deliveries' = [deliveries EXCEPT ![j] = 0]
  /\ held' = (held /\ wjob # j)
  /\ UNCHANGED <<storeVars, gatewayVars, wpc, wjob, workVars>>

(* The broker gives back the message of a killed worker, or of one that    *)
(* outlives its lock.                                                      *)
LockExpires(j) ==
  /\ msg[j] = "locked"
  /\ held /\ wjob = j => "lock_expiry" \in Faults
  /\ msg' = [msg EXCEPT ![j] = GivenBack(j)]
  /\ held' = (held /\ wjob # j)
  /\ UNCHANGED <<storeVars, deliveries, gatewayVars, wpc, wjob, workVars>>
-------------------------------------------------------------------------------
Gateway ==
  \/ Upload("paste") \/ Upload("url") \/ MarkPending \/ Retry
  \/ RecordJob \/ Send \/ SendFails \/ MarkUnsent
  \/ \E c \in Ids : \/ Clarify(c) \/ Activate(c)
                    \/ RetireControl(c) \/ RemoveControl(c)
  \/ CheckRelated \/ GatewayReconcile \/ GatewaySaveCoverage \/ SetClarified
  \/ RetirePolicy \/ WriteRetired \/ RemovePolicy \/ DropJobs \/ DropPolicy
  \/ GatewayCrash

Work ==
  \/ \E j \in Jobs : Receive(j)
  \/ Begin \/ MarkRunning \/ Fetch \/ SourceFails \/ Extract
  \/ Interpret \/ ModelFails \/ SaveNext \/ SavedAll
  \/ Reconcile \/ SaveCoverage \/ Finish \/ CompleteJob \/ Acknowledge
  \/ FailPolicy \/ FailJob \/ Abandon

Broker == \E j \in Jobs : LockExpires(j)

Next == Gateway \/ Work \/ WorkerKill \/ Broker

Spec == Init /\ [][Next]_vars

(* The job runs when there is a message, its steps go on until it is       *)
(* killed, and the broker gives an unsettled lock back after lockDuration. *)
FairSpec == Spec /\ WF_vars(Work) /\ WF_vars(Broker)
-------------------------------------------------------------------------------
(***************************************************************************)
(* PROPERTIES                                                              *)
(***************************************************************************)
(* A job that completed never runs again over the controls it produced:    *)
(* redeliveries, late failures and other jobs leave its record alone until *)
(* an administrator removes those controls or the policy.                  *)
CompletedIsFinal ==
  [][\A j \in Jobs : job[j] = "completed" /\ job'[j] # "completed" =>
       job'[j] = "removed" \/ Owned = {}]_vars

(* Ingestion adds controls and never changes one: not one an administrator *)
(* has moved since an earlier delivery, nor one of another policy version. *)
ControlsAreKept ==
  [][Work => \A c \in Ids : Exists(c) => ctl'[c] = ctl[c]]_vars

(* What the worker declares complete is covered by the controls on record, *)
(* whichever attempt wrote them, unless one of those it relied on has been *)
(* retired or removed meanwhile.                                           *)
ReadyIsCovered ==
  /\ wpc \in {"finish", "complete"} /\ wpol.claim = "complete"
  /\ \A c \in relied : c \in Owned /\ ctl[c].state # "retired"
  => \A o \in analysis : o.expected # {} /\
       \A s \in o.expected : \E c \in Owned :
         o.id \in ctl[c].links /\ s \in ctl[c].surfaces /\ ~ctl[c].asked /\ ~ctl[c].placeholder

(* Every job whose message reached the queue comes to an end there.        *)
JobsEnd == \A j \in Jobs : msg[j] = "ready" ~> msg[j] \in {"done", "dead"}

(* A policy with an active control claims to be covered only if it is, at  *)
(* any time when nobody is at work on it.                                  *)
ActiveIsDeclared ==
  /\ gpc = "idle" /\ wpc = "idle" /\ \A j \in Jobs : msg[j] \notin {"ready", "locked"}
  /\ policy # NoPolicy /\ \E c \in Owned : ctl[c].state = "active"
  /\ policy.claim = "complete"
  => Covered
===============================================================================

--------------------------- MODULE ControlLifecycle ---------------------------
(***************************************************************************)
(* The versions of one control and the coverage claim of the policy they   *)
(* come from (prsa_control/store.py), under requests of administrators     *)
(* (webhook-receiver/admin.py) and proposals of the ingestion worker       *)
(* (orchestrator/policy_engine.py).                                        *)
(*                                                                         *)
(* Records are read whole and written whole, without an ETag, so a step    *)
(* here is one read or one write of a table, together with the tests the   *)
(* code makes on what it read.  A request whose tests fail changes         *)
(* nothing, and has no action.                                             *)
(***************************************************************************)
EXTENDS FiniteSets

CONSTANTS
  Versions,      \* version names of the control
  FirstVersion,  \* "1.0", the version of a proposal
  AdminVersions, \* versions that administrators make: a bound
  Obligations,   \* obligations of the policy, one per detection surface
  Admins,        \* requests the gateway may be serving
  Workers,       \* ingestion jobs that may be running
  NoControl, NoApproval,
  Operations,    \* operations that are used
  Overlap,       \* which requests may be in service at once
  Crashes        \* TRUE: a process may die in the middle of a request

AllOperations == {"propose", "author", "clarify", "revise", "approve",
                  "activate", "suspend", "retire", "remove"}

ASSUME ConstantsAssumption ==
  /\ FirstVersion \in Versions
  /\ AdminVersions \subseteq Versions
  /\ Obligations # {}
  /\ Admins \cap Workers = {}
  /\ Operations \subseteq AllOperations
  /\ Overlap \in {"none", "worker", "all"}
  /\ Crashes \in BOOLEAN

Requests == Admins \cup Workers

ControlStates == {"draft", "needs_clarification", "approved", "active",
                  "suspended", "retired"}

(* asked: it has clarification questions that nobody has answered.         *)
Controls == [state: ControlStates, asked: BOOLEAN, passed: BOOLEAN,
             placeholder: BOOLEAN, covers: SUBSET Obligations]

ASSUME NoControlAssumption == NoControl \notin Controls
Approvals == [obligation_ids: SUBSET Obligations]

ASSUME NoApprovalAssumption == NoApproval \notin Approvals

ControlTransitions ==
  [draft |-> {"needs_clarification", "approved", "retired"},
   needs_clarification |-> {"draft", "retired"},
   approved |-> {"active", "retired"},
   active |-> {"suspended", "retired"},
   suspended |-> {"active", "retired"},
   retired |-> {}]

VARIABLES
  control,     \* record of each version
  approval,    \* its approval record, with the obligations that it quotes
  complete,    \* coverage_complete of the policy
  activation,  \* the setting control_activation_enabled
  pc,          \* where each request is
  op,          \* its operation
  ver,         \* the version it is about
  record,      \* the record it is going to write
  others,      \* the active versions it listed, with what it read of them
  covered      \* the coverage it computed

storeVars   == <<control, approval, complete, activation>>
requestVars == <<pc, op, ver, record, others, covered>>
vars == <<storeVars, requestVars>>

Places == {"idle", "create", "put", "approve", "move", "check", "list", "write",
           "related", "reconcile", "save", "drop_approval", "drop_control"}

(***************************************************************************)
(* TYPE INVARIANT                                                          *)
(***************************************************************************)
TypeOK ==
  /\ control \in [Versions -> Controls \cup {NoControl}]
  /\ approval \in [Versions -> Approvals \cup {NoApproval}]
  /\ complete \in BOOLEAN
  /\ activation \in BOOLEAN
  /\ pc \in [Requests -> Places]
  /\ op \in [Requests -> AllOperations \cup {"none"}]
  /\ ver \in [Requests -> Versions]
  /\ record \in [Requests -> Controls \cup {NoControl}]
  /\ others \in [Requests -> SUBSET (Versions \X {c \in Controls : c.state = "active"})]
  /\ covered \in [Requests -> BOOLEAN]

Init ==
  /\ control = [v \in Versions |-> NoControl]
  /\ approval = [v \in Versions |-> NoApproval]
  /\ complete = FALSE
  /\ activation = TRUE
  /\ pc = [q \in Requests |-> "idle"]
  /\ op = [q \in Requests |-> "none"]
  /\ ver = [q \in Requests |-> FirstVersion]
  /\ record = [q \in Requests |-> NoControl]
  /\ others = [q \in Requests |-> {}]
  /\ covered = [q \in Requests |-> FALSE]
-------------------------------------------------------------------------------
Exists(v) == control[v] # NoControl
InState(v, s) == Exists(v) /\ control[v].state = s

(* The container gateway serves one request at a time; the worker runs     *)
(* beside it.  The Function App serves requests concurrently.              *)
Waits(q) ==
  CASE Overlap = "none"   -> Requests
    [] Overlap = "worker" -> IF q \in Admins THEN Admins ELSE Workers
    [] Overlap = "all"    -> {q}

Start(q, o, v, place, rec) ==
  /\ o \in Operations
  /\ \A p \in Waits(q) \cup {q} : pc[p] = "idle"
  /\ pc' = [pc EXCEPT ![q] = place]
  /\ op' = [op EXCEPT ![q] = o]
  /\ ver' = [ver EXCEPT ![q] = v]
  /\ record' = [record EXCEPT ![q] = rec]
  /\ UNCHANGED <<storeVars, others, covered>>

Goto(q, place) == pc' = [pc EXCEPT ![q] = place] /\ UNCHANGED <<op, ver, record, others, covered>>

Done(q) ==
  /\ pc' = [pc EXCEPT ![q] = "idle"]
  /\ op' = [op EXCEPT ![q] = "none"]
  /\ ver' = [ver EXCEPT ![q] = FirstVersion]
  /\ record' = [record EXCEPT ![q] = NoControl]
  /\ others' = [others EXCEPT ![q] = {}]
  /\ covered' = [covered EXCEPT ![q] = FALSE]
-------------------------------------------------------------------------------
(***************************************************************************)
(* New versions: save_control() behind a proposal, an authored control or  *)
(* a revision.                                                             *)
(***************************************************************************)
Proposals ==
  {c \in Controls : c.state = IF c.asked THEN "needs_clarification" ELSE "draft"}

Authored == {c \in Proposals : ~c.asked /\ c.passed /\ ~c.placeholder /\ c.covers # {}}

(* A retried job reuses a control it saved before.                         *)
Propose(q) ==
  /\ q \in Workers
  /\ IF Exists(FirstVersion)
       THEN Start(q, "propose", FirstVersion, "reconcile", NoControl)
       ELSE \E c \in Proposals : Start(q, "propose", FirstVersion, "create", c)

Author(q, v) ==
  /\ q \in Admins /\ v \in AdminVersions
  /\ \E c \in Authored : Start(q, "author", v, "create", c)

(* The questions of the revised version are dropped.                       *)
Revise(q, u, v) ==
  /\ q \in Admins
  /\ Exists(u)
  /\ v \in AdminVersions \ {u}
  /\ Start(q, "revise", v, "create", [control[u] EXCEPT !.state = "draft", !.asked = FALSE])

(* An existing version is never overwritten by a new one.                  *)
CheckNew(q) ==
  /\ pc[q] = "create"
  /\ IF Exists(ver[q]) THEN Done(q) ELSE Goto(q, "put")
  /\ UNCHANGED storeVars

PutNew(q) ==
  /\ pc[q] = "put"
  /\ control' = [control EXCEPT ![ver[q]] = record[q]]
  /\ IF op[q] = "revise" THEN Done(q) ELSE Goto(q, "reconcile")
  /\ UNCHANGED <<approval, complete, activation>>
-------------------------------------------------------------------------------
(***************************************************************************)
(* Changes of state: transition_control() and answer_control_clarifications*)
(***************************************************************************)
Clarify(q, v) ==
  /\ q \in Admins
  /\ InState(v, "needs_clarification")
  /\ Start(q, "clarify", v, "write",
           [control[v] EXCEPT !.state = "draft", !.asked = FALSE])

(* Wrong variant: whether the validation passed is not looked at.          *)
ApprovableUntested(c) == ~c.placeholder /\ ~c.asked

Approvable(c) == c.passed /\ ~c.placeholder /\ ~c.asked

Allowed(v, target) ==
  /\ Exists(v)
  /\ target \in ControlTransitions[control[v].state]
  /\ target = "approved" => Approvable(control[v])

Approve(q, v) ==
  /\ q \in Admins
  /\ InState(v, "draft")
  /\ Approvable(control[v])
  /\ Start(q, "approve", v, "approve", control[v])

(* The approval is on record before the control changes.                   *)
RecordApproval(q) ==
  /\ pc[q] = "approve"
  /\ approval' = [approval EXCEPT ![ver[q]] = [obligation_ids |-> record[q].covers]]
  /\ Goto(q, "move")
  /\ UNCHANGED <<control, complete, activation>>

(* transition_control reads the control again.                             *)
MoveToApproved(q) ==
  /\ pc[q] = "move"
  /\ IF Allowed(ver[q], "approved")
       THEN /\ record' = [record EXCEPT ![q] = [control[ver[q]] EXCEPT !.state = "approved"]]
            /\ pc' = [pc EXCEPT ![q] = "write"]
            /\ UNCHANGED <<op, ver, others, covered>>
       ELSE Done(q)
  /\ UNCHANGED storeVars

Transition(q, o, v, target, place) ==
  /\ q \in Admins
  /\ Allowed(v, target)
  /\ Start(q, o, v, place, [control[v] EXCEPT !.state = target])

Suspend(q, v)  == Transition(q, "suspend", v, "suspended", "write")
Retire(q, v)   == Transition(q, "retire", v, "retired", "write")
Activate(q, v) == Transition(q, "activate", v, "active", "check")

CheckActivation(q) ==
  /\ pc[q] = "check"
  /\ IF activation /\ approval[ver[q]] # NoApproval THEN Goto(q, "list") ELSE Done(q)
  /\ UNCHANGED storeVars

ActiveVersions == {v \in Versions : InState(v, "active")}

(* Wrong variant: the state of the listed versions is not looked at.       *)
ListOthersUnfiltered(q) ==
  /\ pc[q] = "list"
  /\ others' = [others EXCEPT ![q] = {<<v, control[v]>> : v \in {u \in Versions : Exists(u)}}]
  /\ pc' = [pc EXCEPT ![q] = "write"]
  /\ UNCHANGED <<storeVars, op, ver, record, covered>>

(* Wrong variant: the versions that are active already are left alone.     *)
ListOthersNever(q) ==
  /\ pc[q] = "list"
  /\ pc' = [pc EXCEPT ![q] = "write"]
  /\ UNCHANGED <<storeVars, op, ver, record, others, covered>>

ListOthers(q) ==
  /\ pc[q] = "list"
  /\ others' = [others EXCEPT ![q] = {<<v, control[v]>> : v \in ActiveVersions}]
  /\ pc' = [pc EXCEPT ![q] = "write"]
  /\ UNCHANGED <<storeVars, op, ver, record, covered>>

RetireOther(q) ==
  /\ pc[q] = "write"
  /\ \E o \in others[q] :
       /\ control' = [control EXCEPT ![o[1]] = [o[2] EXCEPT !.state = "retired"]]
       /\ others' = [others EXCEPT ![q] = @ \ {o}]
  /\ UNCHANGED <<approval, complete, activation, pc, op, ver, record, covered>>

WriteControl(q) ==
  /\ pc[q] = "write"
  /\ others[q] = {}
  /\ control' = [control EXCEPT ![ver[q]] = record[q]]
  /\ CASE op[q] = "retire"  -> Goto(q, "reconcile")
       [] op[q] = "clarify" -> Goto(q, "related")
       [] OTHER             -> Done(q)
  /\ UNCHANGED <<approval, complete, activation>>

(* Coverage is recomputed after the last question of the policy, those of  *)
(* retired controls included.                                              *)
CheckRelated(q) ==
  /\ pc[q] = "related"
  /\ IF \E v \in Versions : Exists(v) /\ control[v].asked
       THEN Done(q) ELSE Goto(q, "reconcile")
  /\ UNCHANGED storeVars
-------------------------------------------------------------------------------
(***************************************************************************)
(* reconcile_policy_coverage()                                             *)
(***************************************************************************)
Implementing ==
  {v \in Versions : Exists(v) /\ control[v].state # "retired" /\ ~control[v].placeholder}

Linked(o) == {v \in Implementing : o \in control[v].covers}

Covered == \A o \in Obligations : Linked(o) # {} /\ \A v \in Linked(o) : ~control[v].asked

Reconcile(q) ==
  /\ pc[q] = "reconcile"
  /\ covered' = [covered EXCEPT ![q] = Covered]
  /\ pc' = [pc EXCEPT ![q] = "save"]
  /\ UNCHANGED <<storeVars, op, ver, record, others>>

SaveCoverage(q) ==
  /\ pc[q] = "save"
  /\ complete' = covered[q]
  /\ Done(q)
  /\ UNCHANGED <<control, approval, activation>>
-------------------------------------------------------------------------------
(***************************************************************************)
(* remove_control(); exceptions that would block it have been revoked.     *)
(***************************************************************************)
(* Wrong variant: the approval of a removed version stays.                 *)
RemoveKeepingApproval(q, v) ==
  /\ q \in Admins
  /\ InState(v, "retired")
  /\ Start(q, "remove", v, "drop_control", NoControl)

Remove(q, v) ==
  /\ q \in Admins
  /\ InState(v, "retired")
  /\ Start(q, "remove", v, "drop_approval", NoControl)

DropApproval(q) ==
  /\ pc[q] = "drop_approval"
  /\ approval' = [approval EXCEPT ![ver[q]] = NoApproval]
  /\ Goto(q, "drop_control")
  /\ UNCHANGED <<control, complete, activation>>

DropControl(q) ==
  /\ pc[q] = "drop_control"
  /\ control' = [control EXCEPT ![ver[q]] = NoControl]
  /\ Done(q)
  /\ UNCHANGED <<approval, complete, activation>>

Crash(q) ==
  /\ Crashes
  /\ pc[q] # "idle"
  /\ Done(q)
  /\ UNCHANGED storeVars

SetActivation ==
  /\ activation' = ~activation
  /\ UNCHANGED <<control, approval, complete, requestVars>>

Begin(q) ==
  \/ Propose(q)
  \/ \E v \in Versions :
       \/ Author(q, v)
       \/ \E u \in Versions : Revise(q, u, v)
       \/ Clarify(q, v)
       \/ Approve(q, v)
       \/ Activate(q, v)
       \/ Suspend(q, v)
       \/ Retire(q, v)
       \/ Remove(q, v)

Continue(q) ==
  \/ CheckNew(q)
  \/ PutNew(q)
  \/ RecordApproval(q)
  \/ MoveToApproved(q)
  \/ CheckActivation(q)
  \/ ListOthers(q)
  \/ RetireOther(q)
  \/ WriteControl(q)
  \/ CheckRelated(q)
  \/ Reconcile(q)
  \/ SaveCoverage(q)
  \/ DropApproval(q)
  \/ DropControl(q)

Next ==
  \/ \E q \in Requests : Begin(q) \/ Continue(q) \/ Crash(q)
  \/ SetActivation

Spec == Init /\ [][Next]_vars
-------------------------------------------------------------------------------
(***************************************************************************)
(* PROPERTIES                                                              *)
(***************************************************************************)
(* Reviews run at most one version of the control.                         *)
AtMostOneActive == \A u, v \in ActiveVersions : u = v

(* A version that was approved has an approval on record for the content   *)
(* it has, and that content passed its tests and leaves no question open.  *)
LiveIsApproved ==
  \A v \in Versions :
    Exists(v) /\ control[v].state \in {"approved", "active", "suspended"} =>
      /\ approval[v] = [obligation_ids |-> control[v].covers]
      /\ control[v].passed /\ ~control[v].placeholder /\ ~control[v].asked

(* When nobody is at work, a policy that claims to be covered is.          *)
CoverageIsTrue == (\A q \in Requests : pc[q] = "idle") /\ complete => Covered

(* The versions follow VersionLifecycle, whatever reads the code makes     *)
(* between the test of a transition and its write.                         *)
StateOf == [v \in Versions |-> IF Exists(v) THEN control[v].state ELSE "absent"]
ApprovedVersions == {v \in Versions : approval[v] # NoApproval}

Lifecycle == INSTANCE VersionLifecycle WITH state <- StateOf, approved <- ApprovedVersions

FollowsLifecycle == Lifecycle!Spec
===============================================================================

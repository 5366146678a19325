------------------------ MODULE ControlLifecycleProofs ------------------------
(***************************************************************************)
(* Proofs about ControlLifecycle, for any number of versions, obligations, *)
(* requests and jobs, and for processes killed at any step.                *)
(***************************************************************************)
EXTENDS ControlLifecycle, TLAPS

(***************************************************************************)
(* Types.  A request that is going to write a record has one.              *)
(***************************************************************************)
Writing == {"create", "put", "approve", "check", "list", "write"}

Held == \A q \in Requests : pc[q] \in Writing => record[q] \in Controls

Basic == TypeOK /\ Held

LEMMA InitBasic == Init => Basic
<1> USE ConstantsAssumption
<1> SUFFICES ASSUME Init PROVE TypeOK /\ Held
  BY DEF Basic
<1>1. TypeOK
  BY DEF Init, TypeOK, Places
<1>2. Held
  BY DEF Init, Held, Writing
<1> QED
  BY <1>1, <1>2

(* A request begins, goes on or ends: its local variables keep their types.*)
LEMMA StartBasic ==
  ASSUME Basic, NEW q \in Requests, NEW o \in AllOperations, NEW v \in Versions,
         NEW place \in Places, NEW rec \in Controls \cup {NoControl},
         place \in Writing => rec \in Controls,
         Start(q, o, v, place, rec)
  PROVE  Basic'
BY DEF Basic, TypeOK, Held, Start, storeVars

LEMMA GotoBasic ==
  ASSUME Basic, NEW q \in Requests, NEW place \in Places,
         place \in Writing => pc[q] \in Writing,
         Goto(q, place), UNCHANGED storeVars
  PROVE  Basic'
BY DEF Basic, TypeOK, Held, Goto, storeVars

LEMMA DoneBasic ==
  ASSUME Basic, NEW q \in Requests, Done(q), UNCHANGED storeVars
  PROVE  Basic'
<1> USE ConstantsAssumption
<1> QED
  BY DEF Basic, TypeOK, Held, Done, storeVars, Places, Writing

(* The same when the step also writes one table.                           *)
LEMMA FlowBasic ==
  ASSUME Basic, NEW q \in Requests, NEW place \in Places \ Writing,
         Goto(q, place) \/ Done(q),
         control' \in [Versions -> Controls \cup {NoControl}],
         approval' \in [Versions -> Approvals \cup {NoApproval}],
         complete' \in BOOLEAN, activation' \in BOOLEAN
  PROVE  Basic'
<1> USE ConstantsAssumption
<1>1. CASE Goto(q, place)
  BY <1>1 DEF Basic, TypeOK, Held, Goto, Places, Writing
<1>2. CASE Done(q)
  BY <1>2 DEF Basic, TypeOK, Held, Done, Places, Writing
<1> QED
  BY <1>1, <1>2

(* Changing the state of a control gives a control.                        *)
LEMMA MovedControl ==
  ASSUME NEW c \in Controls, NEW s \in ControlStates
  PROVE  /\ [c EXCEPT !.state = s] \in Controls
         /\ [c EXCEPT !.state = s].state = s
         /\ [c EXCEPT !.state = s].covers = c.covers
         /\ [c EXCEPT !.state = s].passed = c.passed
         /\ [c EXCEPT !.state = s].asked = c.asked
         /\ [c EXCEPT !.state = s].placeholder = c.placeholder
BY DEF Controls

LEMMA BeginBasic == ASSUME Basic, NEW q \in Requests, Begin(q) PROVE Basic'
<1> USE ConstantsAssumption DEF Places, Writing
<1>a. ASSUME NEW v \in Versions, Exists(v) PROVE control[v] \in Controls
  BY <1>a DEF Basic, TypeOK, Exists
<1>1. CASE Propose(q)
  <2>1. CASE Exists(FirstVersion)
    <3>1. Start(q, "propose", FirstVersion, "reconcile", NoControl)
      BY <1>1, <2>1 DEF Propose
    <3> QED
      BY <3>1, StartBasic DEF AllOperations
  <2>2. CASE ~Exists(FirstVersion)
    <3>1. PICK c \in Proposals : Start(q, "propose", FirstVersion, "create", c)
      BY <1>1, <2>2 DEF Propose
    <3>2. c \in Controls
      BY DEF Proposals
    <3> QED
      BY <3>1, <3>2, StartBasic DEF AllOperations
  <2> QED
    BY <2>1, <2>2
<1>2. ASSUME NEW v \in Versions, Author(q, v) PROVE Basic'
  <2>1. PICK c \in Authored : Start(q, "author", v, "create", c)
    BY <1>2 DEF Author
  <2>2. c \in Controls
    BY DEF Authored, Proposals
  <2> QED
    BY <2>1, <2>2, StartBasic DEF AllOperations
<1>3. ASSUME NEW v \in Versions, NEW u \in Versions, Revise(q, u, v) PROVE Basic'
  <2>1. [control[u] EXCEPT !.state = "draft", !.asked = FALSE] \in Controls
    BY <1>3, <1>a DEF Revise, Controls, ControlStates
  <2> QED
    BY <1>3, <2>1, StartBasic DEF Revise, AllOperations
<1>4. ASSUME NEW v \in Versions, Clarify(q, v) PROVE Basic'
  <2>1. [control[v] EXCEPT !.state = "draft", !.asked = FALSE] \in Controls
    BY <1>4, <1>a DEF Clarify, InState, Controls, ControlStates
  <2> QED
    BY <1>4, <2>1, StartBasic DEF Clarify, AllOperations
<1>5. ASSUME NEW v \in Versions, Approve(q, v) PROVE Basic'
  <2>1. control[v] \in Controls
    BY <1>5, <1>a DEF Approve, InState
  <2> QED
    BY <1>5, <2>1, StartBasic DEF Approve, AllOperations
<1>6. ASSUME NEW o \in AllOperations, NEW v \in Versions, NEW s \in ControlStates,
             NEW place \in Places, Transition(q, o, v, s, place)
      PROVE Basic'
  <2>1. [control[v] EXCEPT !.state = s] \in Controls
    BY <1>6, <1>a, MovedControl DEF Transition, Allowed
  <2> QED
    BY <1>6, <2>1, StartBasic DEF Transition
<1>7. ASSUME NEW v \in Versions, Activate(q, v) \/ Suspend(q, v) \/ Retire(q, v) PROVE Basic'
  BY <1>6, <1>7 DEF Activate, Suspend, Retire, AllOperations, ControlStates
<1>8. ASSUME NEW v \in Versions, Remove(q, v) PROVE Basic'
  BY <1>8, StartBasic DEF Remove, AllOperations
<1> QED
  BY <1>1, <1>2, <1>3, <1>4, <1>5, <1>7, <1>8 DEF Begin

LEMMA ContinueBasic == ASSUME Basic, NEW q \in Requests, Continue(q) PROVE Basic'
<1> USE ConstantsAssumption DEF Places, Writing
<1>a. /\ control \in [Versions -> Controls \cup {NoControl}]
      /\ approval \in [Versions -> Approvals \cup {NoApproval}]
      /\ complete \in BOOLEAN /\ activation \in BOOLEAN
      /\ ver[q] \in Versions
      /\ pc[q] \in Writing => record[q] \in Controls
  BY DEF Basic, TypeOK, Held
<1>1. CASE CheckNew(q)
  BY <1>1, GotoBasic, DoneBasic DEF CheckNew
<1>2. CASE PutNew(q)
  <2>1. control' \in [Versions -> Controls \cup {NoControl}]
    BY <1>2, <1>a DEF PutNew
  <2>2. Goto(q, "reconcile") \/ Done(q)
    BY <1>2 DEF PutNew
  <2> QED
    BY <1>2, <1>a, <2>1, <2>2, FlowBasic DEF PutNew
<1>3. CASE RecordApproval(q)
  <2>1. record[q].covers \in SUBSET Obligations
    BY <1>3, <1>a DEF RecordApproval, Controls
  <2>2. approval' \in [Versions -> Approvals \cup {NoApproval}]
    BY <1>3, <1>a, <2>1 DEF RecordApproval, Approvals
  <2>3. Goto(q, "move")
    BY <1>3 DEF RecordApproval
  <2> QED
    BY <1>3, <1>a, <2>2, <2>3, FlowBasic DEF RecordApproval
<1>4. CASE MoveToApproved(q)
  <2>1. CASE Allowed(ver[q], "approved")
    <3>0. control[ver[q]] \in Controls
      BY <1>a, <2>1 DEF Allowed, Exists
    <3>1. [control[ver[q]] EXCEPT !.state = "approved"] \in Controls
      BY <3>0, MovedControl DEF ControlStates
    <3>2. /\ record' = [record EXCEPT ![q] = [control[ver[q]] EXCEPT !.state = "approved"]]
          /\ pc' = [pc EXCEPT ![q] = "write"]
          /\ UNCHANGED <<op, ver, others, covered>>
          /\ UNCHANGED storeVars
      BY <1>4, <2>1 DEF MoveToApproved
    <3> QED
      BY <3>1, <3>2 DEF Basic, TypeOK, Held, storeVars
  <2>2. CASE ~Allowed(ver[q], "approved")
    BY <1>4, <2>2, DoneBasic DEF MoveToApproved
  <2> QED
    BY <2>1, <2>2
<1>5. CASE CheckActivation(q)
  BY <1>5, GotoBasic, DoneBasic DEF CheckActivation
<1>6. CASE ListOthers(q)
  <2>1. {<<v, control[v]>> : v \in ActiveVersions}
          \in SUBSET (Versions \X {c \in Controls : c.state = "active"})
    BY <1>a DEF ActiveVersions, InState, Exists
  <2> QED
    BY <1>6, <2>1 DEF ListOthers, Basic, TypeOK, Held, storeVars
<1>7. CASE RetireOther(q)
  <2>1. PICK o \in others[q] :
          /\ control' = [control EXCEPT ![o[1]] = [o[2] EXCEPT !.state = "retired"]]
          /\ others' = [others EXCEPT ![q] = @ \ {o}]
    BY <1>7 DEF RetireOther
  <2>2. o[1] \in Versions /\ o[2] \in Controls
    BY DEF Basic, TypeOK
  <2>3. [o[2] EXCEPT !.state = "retired"] \in Controls
    BY <2>2, MovedControl DEF ControlStates
  <2> QED
    BY <1>7, <2>1, <2>2, <2>3 DEF RetireOther, Basic, TypeOK, Held
<1>8. CASE WriteControl(q)
  <2>1. control' \in [Versions -> Controls \cup {NoControl}]
    BY <1>8, <1>a DEF WriteControl
  <2>2. Goto(q, "reconcile") \/ Goto(q, "related") \/ Done(q)
    BY <1>8 DEF WriteControl
  <2>3. /\ approval' \in [Versions -> Approvals \cup {NoApproval}]
        /\ complete' \in BOOLEAN /\ activation' \in BOOLEAN
    BY <1>8, <1>a DEF WriteControl
  <2>4. ASSUME NEW place \in {"reconcile", "related"}, Goto(q, place) \/ Done(q) PROVE Basic'
    BY <2>1, <2>3, <2>4, FlowBasic
  <2> QED
    BY <2>2, <2>4
<1>9. CASE CheckRelated(q)
  BY <1>9, GotoBasic, DoneBasic DEF CheckRelated
<1>10. CASE Reconcile(q)
  <2>1. Covered \in BOOLEAN
    BY DEF Covered
  <2> QED
    BY <1>10, <2>1 DEF Reconcile, Basic, TypeOK, Held, storeVars
<1>11. CASE SaveCoverage(q)
  <2>1. covered[q] \in BOOLEAN
    BY DEF Basic, TypeOK
  <2> QED
    BY <1>11, <1>a, <2>1, FlowBasic DEF SaveCoverage
<1>12. CASE DropApproval(q)
  <2>1. approval' \in [Versions -> Approvals \cup {NoApproval}]
    BY <1>12, <1>a DEF DropApproval
  <2>2. Goto(q, "drop_control")
    BY <1>12 DEF DropApproval
  <2> QED
    BY <1>12, <1>a, <2>1, <2>2, FlowBasic DEF DropApproval
<1>13. CASE DropControl(q)
  <2>1. control' \in [Versions -> Controls \cup {NoControl}]
    BY <1>13, <1>a DEF DropControl
  <2> QED
    BY <1>13, <1>a, <2>1, FlowBasic DEF DropControl
<1> QED
  BY <1>1, <1>2, <1>3, <1>4, <1>5, <1>6, <1>7, <1>8, <1>9, <1>10, <1>11, <1>12, <1>13
     DEF Continue

LEMMA BasicStep == Basic /\ [Next]_vars => Basic'
<1> SUFFICES ASSUME Basic, [Next]_vars PROVE Basic'
  OBVIOUS
<1>1. ASSUME NEW q \in Requests, Crash(q) PROVE Basic'
  BY <1>1, DoneBasic DEF Crash
<1>2. CASE SetActivation
  BY <1>2 DEF SetActivation, requestVars, Basic, TypeOK, Held
<1>3. CASE UNCHANGED vars
  BY <1>3 DEF vars, storeVars, requestVars, Basic, TypeOK, Held
<1> QED
  BY <1>1, <1>2, <1>3, BeginBasic, ContinueBasic DEF Next

LEMMA BasicInvariant == Spec => []Basic
BY InitBasic, BasicStep, PTL DEF Spec

(* Every record is well-formed, whichever requests overlap and whenever a  *)
(* process is killed, and an activation retires active versions only.      *)
THEOREM TypeCorrect == Spec => []TypeOK
<1>1. Basic => TypeOK
  BY DEF Basic
<1> QED
  BY BasicInvariant, <1>1, PTL
-------------------------------------------------------------------------------
(***************************************************************************)
(* Who is in service beside whom: one request at a time, or one request of *)
(* an administrator and one ingestion job, when administrators make no     *)
(* version under the name that the job uses.                               *)
(***************************************************************************)
Separated ==
  \/ Overlap = "none"
  \/ Overlap = "worker" /\ FirstVersion \notin AdminVersions

Alone ==
  \A p, q \in Requests :
    p # q /\ pc[p] # "idle" /\ pc[q] # "idle" =>
      /\ FirstVersion \notin AdminVersions
      /\ p \in Workers <=> q \notin Workers

(* An ingestion job creates the first version and touches no other.        *)
Roles ==
  \A q \in Requests :
    /\ q \in Workers /\ pc[q] # "idle" =>
         ver[q] = FirstVersion /\ pc[q] \in {"create", "put", "reconcile", "save"}
    /\ q \notin Workers /\ pc[q] \in {"create", "put"} => ver[q] \in AdminVersions

Staged == Basic /\ Alone /\ Roles

LEMMA InitStaged == Init => Staged
BY InitBasic DEF Staged, Init, Alone, Roles

LEMMA BeginStarts ==
  ASSUME NEW q \in Requests, Begin(q)
  PROVE  \E o, v, place, rec : Start(q, o, v, place, rec)
BY DEF Begin, Propose, Author, Revise, Clarify, Approve, Activate, Suspend, Retire,
       Transition, Remove

(* A step of a request leaves the local variables of the others alone.     *)
StepOf(q) == Begin(q) \/ Continue(q) \/ Crash(q)

LEMMA OthersUntouched ==
  ASSUME Basic, NEW q \in Requests, StepOf(q), NEW p \in Requests, p # q
  PROVE  /\ pc'[p] = pc[p] /\ op'[p] = op[p] /\ ver'[p] = ver[p]
         /\ record'[p] = record[p] /\ others'[p] = others[p]
<1>a. /\ pc = [x \in Requests |-> pc[x]] /\ op = [x \in Requests |-> op[x]]
      /\ ver = [x \in Requests |-> ver[x]] /\ record = [x \in Requests |-> record[x]]
      /\ others = [x \in Requests |-> others[x]]
  BY DEF Basic, TypeOK
<1>1. CASE Begin(q)
  <2>1. PICK o, v, place, rec : Start(q, o, v, place, rec)
    BY <1>1, BeginStarts
  <2> QED
    BY <2>1, <1>a DEF Start
<1>2. CASE Continue(q)
  BY <1>2, <1>a DEF Continue, CheckNew, PutNew, RecordApproval, MoveToApproved,
                    CheckActivation, ListOthers, RetireOther, WriteControl, CheckRelated,
                    Reconcile, SaveCoverage, DropApproval, DropControl, Goto, Done
<1>3. CASE Crash(q)
  BY <1>3, <1>a DEF Crash, Done
<1> QED
  BY <1>1, <1>2, <1>3 DEF StepOf

(* A request begins when nobody is at work that it would have to wait for. *)
LEMMA BeginsAlone ==
  ASSUME NEW q \in Requests, Begin(q)
  PROVE  pc[q] = "idle" /\ \A p \in Waits(q) : pc[p] = "idle"
BY BeginStarts DEF Start

LEMMA AloneStep ==
  ASSUME Separated, Basic, Alone, NEW q \in Requests, StepOf(q)
  PROVE  Alone'
<1>1. SUFFICES ASSUME NEW p \in Requests, p # q, pc'[p] # "idle", pc'[q] # "idle"
               PROVE  /\ FirstVersion \notin AdminVersions
                      /\ p \in Workers <=> q \notin Workers
  BY OthersUntouched DEF Alone
<1>2. pc[p] # "idle"
  BY <1>1, OthersUntouched
<1>3. CASE pc[q] # "idle"
  BY <1>1, <1>2, <1>3 DEF Alone
<1>4. CASE pc[q] = "idle"
  <2>1. Begin(q)
    BY <1>4 DEF StepOf, Crash, Continue, CheckNew, PutNew, RecordApproval, MoveToApproved,
                CheckActivation, ListOthers, RetireOther, WriteControl, CheckRelated,
                Reconcile, SaveCoverage, DropApproval, DropControl
  <2>2. p \notin Waits(q)
    BY <1>2, <2>1, BeginsAlone
  <2> QED
    BY <2>2, ConstantsAssumption DEF Waits, Separated, Requests
<1> QED
  BY <1>3, <1>4

LEMMA RolesStep ==
  ASSUME Basic, Roles, NEW q \in Requests, StepOf(q)
  PROVE  Roles'
<1> DEFINE Role(x) ==
      /\ x \in Workers /\ pc[x] # "idle" =>
           ver[x] = FirstVersion /\ pc[x] \in {"create", "put", "reconcile", "save"}
      /\ x \notin Workers /\ pc[x] \in {"create", "put"} => ver[x] \in AdminVersions
<1>1. SUFFICES Role(q)'
  BY OthersUntouched DEF Roles
<1>a. Role(q) /\ q \in Requests /\ (q \in Admins => q \notin Workers)
  BY ConstantsAssumption DEF Roles
<1>b. pc \in [Requests -> Places] /\ ver \in [Requests -> Versions]
  BY DEF Basic, TypeOK
<1>2. CASE Begin(q)
  BY <1>2, <1>a, <1>b DEF Begin, Propose, Author, Revise, Clarify, Approve, Activate, Suspend,
                    Retire, Transition, Remove, Start
<1>3. CASE Continue(q)
  BY <1>3, <1>a, <1>b DEF Continue, CheckNew, PutNew, RecordApproval, MoveToApproved,
                    CheckActivation, ListOthers, RetireOther, WriteControl, CheckRelated,
                    Reconcile, SaveCoverage, DropApproval, DropControl, Goto, Done
<1>4. CASE Crash(q)
  BY <1>4, <1>a, <1>b DEF Crash, Done
<1> QED
  BY <1>2, <1>3, <1>4 DEF StepOf

LEMMA StagedStep ==
  ASSUME Separated, Staged, [Next]_vars
  PROVE  Staged'
<1>1. Basic'
  BY BasicStep DEF Staged
<1>2. ASSUME NEW q \in Requests, StepOf(q) PROVE Alone' /\ Roles'
  BY <1>2, AloneStep, RolesStep DEF Staged
<1>3. CASE SetActivation \/ UNCHANGED vars
  <2>1. UNCHANGED <<pc, ver>>
    BY <1>3 DEF SetActivation, vars, requestVars
  <2> QED
    BY <1>1, <2>1 DEF Staged, Alone, Roles
<1> QED
  BY <1>1, <1>2, <1>3 DEF Next, StepOf, Staged
-------------------------------------------------------------------------------
(***************************************************************************)
(* What a request read is still there when it writes, and the tests it     *)
(* made still hold.                                                        *)
(***************************************************************************)
Quoted(v) == approval[v] = [obligation_ids |-> control[v].covers]

(* An approval belongs to a version that exists.                           *)
NoneLeft == \A v \in Versions : ~Exists(v) => approval[v] = NoApproval

Listed == {<<u, control[u]>> : u \in ActiveVersions}

(* The record a transition is going to write comes from the one that is    *)
(* stored, along the table of transitions.                                 *)
MovesTo(v, o, rec) ==
  \/ /\ o = "approve"
     /\ control[v].state = "draft"
     /\ Approvable(control[v])
     /\ Quoted(v)
     /\ rec = [control[v] EXCEPT !.state = "approved"]
  \/ /\ o = "activate"
     /\ control[v].state \in {"approved", "suspended"}
     /\ rec = [control[v] EXCEPT !.state = "active"]
  \/ /\ o = "suspend"
     /\ control[v].state = "active"
     /\ rec = [control[v] EXCEPT !.state = "suspended"]
  \/ /\ o = "retire"
     /\ control[v].state # "retired"
     /\ rec = [control[v] EXCEPT !.state = "retired"]
  \/ /\ o = "clarify"
     /\ control[v].state = "needs_clarification"
     /\ rec = [control[v] EXCEPT !.state = "draft", !.asked = FALSE]

Fits(place, o, v, rec, oth) ==
  /\ place # "write" => oth = {}
  /\ place \in {"create", "put"} => rec.state \in {"draft", "needs_clarification"}
  /\ place = "put" => ~Exists(v)
  /\ place \in {"approve", "move"} => o = "approve"
  /\ place = "approve" => /\ InState(v, "draft") /\ Approvable(control[v])
                          /\ rec = control[v]
  /\ place = "move" => InState(v, "draft") /\ Approvable(control[v]) /\ Quoted(v)
  /\ place \in {"check", "list"} => o = "activate" /\ Exists(v) /\ MovesTo(v, o, rec)
  /\ place = "write" => /\ Exists(v) /\ MovesTo(v, o, rec)
                        /\ oth = IF o = "activate" THEN Listed ELSE {}
  /\ place = "drop_approval" => InState(v, "retired")
  /\ place = "drop_control" => InState(v, "retired") /\ approval[v] = NoApproval

AllFit == \A q \in Requests : Fits(pc[q], op[q], ver[q], record[q], others[q])

FitsNow(q) == Fits(pc[q], op[q], ver[q], record[q], others[q])

StoreInv == NoneLeft /\ AtMostOneActive /\ LiveIsApproved

IInv == Staged /\ AllFit /\ StoreInv

LEMMA InitIInv == Init => IInv
<1> SUFFICES ASSUME Init PROVE IInv
  OBVIOUS
<1>1. NoneLeft
  BY DEF Init, NoneLeft
<1>2. AllFit
  BY DEF Init, AllFit, Fits
<1>3. AtMostOneActive /\ LiveIsApproved
  BY DEF Init, AtMostOneActive, LiveIsApproved, ActiveVersions, InState, Exists
<1> QED
  BY <1>1, <1>2, <1>3, InitStaged DEF IInv, StoreInv

(* What a request does to its own local variables.                         *)
LEMMA Moved ==
  ASSUME Basic, NEW q \in Requests
  PROVE  /\ \A o, v, place, rec : Start(q, o, v, place, rec) =>
              /\ pc'[q] = place /\ op'[q] = o /\ ver'[q] = v /\ record'[q] = rec
              /\ others' = others
              /\ \A p \in Requests : p # q => pc'[p] = pc[p]
         /\ \A place : Goto(q, place) =>
              /\ pc'[q] = place
              /\ UNCHANGED <<op, ver, record, others>>
              /\ \A p \in Requests : p # q => pc'[p] = pc[p]
         /\ Done(q) =>
              /\ pc'[q] = "idle" /\ others'[q] = {}
              /\ \A p \in Requests : p # q => pc'[p] = pc[p] /\ others'[p] = others[p]
BY DEF Basic, TypeOK, Start, Goto, Done

LEMMA StoreKept ==
  ASSUME UNCHANGED <<control, approval>>
  PROVE  StoreInv => StoreInv'
BY DEF StoreInv, NoneLeft, AtMostOneActive, LiveIsApproved, ActiveVersions, InState, Exists

(* While the store stays as it is, whatever fitted still fits.             *)
LEMMA FitKept ==
  ASSUME NEW place, NEW o, NEW v, NEW rec, NEW oth, Fits(place, o, v, rec, oth),
         UNCHANGED <<control, approval>>,
         NEW q \in Requests, pc'[q] = place, op'[q] = o, ver'[q] = v, record'[q] = rec,
         others'[q] = oth
  PROVE  FitsNow(q)'
BY DEF FitsNow, Fits, MovesTo, Quoted, Listed, ActiveVersions, InState, Exists, Approvable

(* What a step of request q has to keep, beside what the others know.      *)
Kept(q) == FitsNow(q) /\ StoreInv

LEMMA StartKeeps ==
  ASSUME IInv, NEW q \in Requests, NEW o, NEW v, NEW place, NEW rec,
         Start(q, o, v, place, rec), Fits(place, o, v, rec, {})
  PROVE  Kept(q)'
<1>1. Basic /\ StoreInv /\ FitsNow(q) /\ pc[q] = "idle" /\ UNCHANGED <<control, approval>>
  BY DEF IInv, Staged, AllFit, FitsNow, Start, storeVars
<1>2. others[q] = {}
  BY <1>1 DEF FitsNow, Fits
<1>3. pc'[q] = place /\ op'[q] = o /\ ver'[q] = v /\ record'[q] = rec /\ others'[q] = {}
  BY <1>1, <1>2, Moved
<1>4. FitsNow(q)'
  BY <1>1, <1>3, FitKept
<1> QED
  BY <1>1, <1>4, StoreKept DEF Kept

LEMMA BeginKeeps ==
  ASSUME IInv, NEW q \in Requests, Begin(q)
  PROVE  Kept(q)' /\ UNCHANGED storeVars
<1> USE DEF Fits
<1>1. ASSUME Propose(q) PROVE Kept(q)'
  <2>1. ASSUME NEW c \in Proposals PROVE c.state \in {"draft", "needs_clarification"}
    BY DEF Proposals
  <2> QED
    BY <1>1, <2>1, StartKeeps DEF Propose
<1>2. ASSUME NEW v \in Versions, Author(q, v) PROVE Kept(q)'
  <2>1. ASSUME NEW c \in Authored PROVE c.state \in {"draft", "needs_clarification"}
    BY DEF Authored, Proposals
  <2> QED
    BY <1>2, <2>1, StartKeeps DEF Author
<1>3. ASSUME NEW v \in Versions, NEW u \in Versions, Revise(q, u, v) PROVE Kept(q)'
  <2>1. control[u] \in Controls
    BY <1>3 DEF Revise, Exists, IInv, Staged, Basic, TypeOK
  <2> DEFINE rec == [control[u] EXCEPT !.state = "draft", !.asked = FALSE]
  <2>2. rec.state = "draft"
    BY <2>1 DEF Controls
  <2>3. Start(q, "revise", v, "create", rec)
    BY <1>3 DEF Revise
  <2> HIDE DEF rec
  <2> QED
    BY <2>2, <2>3, StartKeeps
<1>4. ASSUME NEW v \in Versions, Clarify(q, v) PROVE Kept(q)'
  <2> DEFINE rec == [control[v] EXCEPT !.state = "draft", !.asked = FALSE]
  <2>1. Start(q, "clarify", v, "write", rec) /\ Exists(v)
    BY <1>4 DEF Clarify, InState
  <2>2. MovesTo(v, "clarify", rec)
    BY <1>4 DEF Clarify, MovesTo, InState
  <2> HIDE DEF rec
  <2> QED
    BY <2>1, <2>2, StartKeeps
<1>5. ASSUME NEW v \in Versions, Approve(q, v) PROVE Kept(q)'
  BY <1>5, StartKeeps DEF Approve
<1>6. ASSUME NEW v \in Versions, Activate(q, v) PROVE Kept(q)'
  <2>1. control[v] \in Controls /\ Exists(v) /\ "active" \in ControlTransitions[control[v].state]
    BY <1>6 DEF Activate, Transition, Allowed, Exists, IInv, Staged, Basic, TypeOK
  <2>2. control[v].state \in {"approved", "suspended"}
    BY <2>1 DEF Controls, ControlStates, ControlTransitions
  <2>3. Start(q, "activate", v, "check", [control[v] EXCEPT !.state = "active"])
    BY <1>6 DEF Activate, Transition
  <2>4. MovesTo(v, "activate", [control[v] EXCEPT !.state = "active"])
    BY <2>2 DEF MovesTo
  <2> QED
    BY <2>1, <2>3, <2>4, StartKeeps
<1>7. ASSUME NEW v \in Versions, Suspend(q, v) PROVE Kept(q)'
  <2>1. control[v] \in Controls /\ Exists(v) /\ "suspended" \in ControlTransitions[control[v].state]
    BY <1>7 DEF Suspend, Transition, Allowed, Exists, IInv, Staged, Basic, TypeOK
  <2>2. control[v].state = "active"
    BY <2>1 DEF Controls, ControlStates, ControlTransitions
  <2>3. Start(q, "suspend", v, "write", [control[v] EXCEPT !.state = "suspended"])
    BY <1>7 DEF Suspend, Transition
  <2>4. MovesTo(v, "suspend", [control[v] EXCEPT !.state = "suspended"])
    BY <2>2 DEF MovesTo
  <2> QED
    BY <2>1, <2>3, <2>4, StartKeeps
<1>8. ASSUME NEW v \in Versions, Retire(q, v) PROVE Kept(q)'
  <2>1. control[v] \in Controls /\ Exists(v) /\ "retired" \in ControlTransitions[control[v].state]
    BY <1>8 DEF Retire, Transition, Allowed, Exists, IInv, Staged, Basic, TypeOK
  <2>2. control[v].state # "retired"
    BY <2>1 DEF Controls, ControlStates, ControlTransitions
  <2>3. Start(q, "retire", v, "write", [control[v] EXCEPT !.state = "retired"])
    BY <1>8 DEF Retire, Transition
  <2>4. MovesTo(v, "retire", [control[v] EXCEPT !.state = "retired"])
    BY <2>2 DEF MovesTo
  <2> QED
    BY <2>1, <2>3, <2>4, StartKeeps
<1>9. ASSUME NEW v \in Versions, Remove(q, v) PROVE Kept(q)'
  BY <1>9, StartKeeps DEF Remove
<1>10. UNCHANGED storeVars
  BY DEF Begin, Propose, Author, Revise, Clarify, Approve, Activate, Suspend, Retire,
         Transition, Remove, Start
<1> QED
  BY <1>1, <1>2, <1>3, <1>4, <1>5, <1>6, <1>7, <1>8, <1>9, <1>10 DEF Begin

(* Steps that read: the request goes on to a place that fits, or ends.     *)
LEMMA GotoKeeps ==
  ASSUME IInv, NEW q \in Requests, NEW place,
         Goto(q, place), UNCHANGED storeVars,
         Fits(place, op[q], ver[q], record[q], others[q])
  PROVE  Kept(q)'
<1>1. pc'[q] = place /\ UNCHANGED <<op, ver, record, others>>
  BY Moved DEF IInv, Staged
<1>2. UNCHANGED <<control, approval>>
  BY DEF storeVars
<1>3. FitsNow(q)'
  BY <1>1, <1>2, FitKept
<1> QED
  BY <1>2, <1>3, StoreKept DEF IInv, Kept

(* A request that ends, whatever it wrote last.                            *)
LEMMA DoneKeeps ==
  ASSUME IInv, NEW q \in Requests, Done(q), StoreInv'
  PROVE  Kept(q)'
<1>1. FitsNow(q)'
  BY Moved DEF FitsNow, Fits, IInv, Staged
<1> QED
  BY <1>1 DEF Kept

(* A request that writes and goes on to a place that fits.                 *)
LEMMA GoesOnKeeps ==
  ASSUME IInv, NEW q \in Requests, NEW place, Goto(q, place),
         Fits(place, op[q], ver[q], record[q], others[q])', StoreInv'
  PROVE  Kept(q)'
<1>1. pc'[q] = place
  BY Moved DEF IInv, Staged
<1> QED
  BY <1>1 DEF Kept, FitsNow

(* A record is written: the invariants of the store need only be looked at *)
(* for the version it is written for.                                      *)
LEMMA WriteKeeps ==
  ASSUME IInv, NEW v \in Versions, NEW c \in Controls,
         control' = [control EXCEPT ![v] = c], approval' = approval,
         c.state = "active" => ActiveVersions = {},
         c.state \in {"approved", "active", "suspended"} =>
           /\ approval[v] = [obligation_ids |-> c.covers]
           /\ c.passed /\ ~c.placeholder /\ ~c.asked
  PROVE  /\ StoreInv'
         /\ control'[v] = c /\ Exists(v)'
         /\ \A u \in Versions : u # v => control'[u] = control[u]
<1>0. c # NoControl
  BY NoControlAssumption
<1>1. /\ control'[v] = c
      /\ \A u \in Versions : u # v => control'[u] = control[u]
  BY DEF IInv, Staged, Basic, TypeOK
<1>2. NoneLeft'
  BY <1>0, <1>1 DEF NoneLeft, Exists, IInv, StoreInv
<1>3. AtMostOneActive'
  <2>1. ActiveVersions' \subseteq IF c.state = "active" THEN {v} ELSE ActiveVersions
    BY <1>1 DEF ActiveVersions, InState, Exists
  <2> QED
    BY <2>1 DEF AtMostOneActive, IInv, StoreInv
<1>4. LiveIsApproved'
  BY <1>0, <1>1 DEF LiveIsApproved, Exists, IInv, StoreInv
<1> QED
  BY <1>0, <1>1, <1>2, <1>3, <1>4 DEF Exists, StoreInv

(* What a transition writes is a control in another state, and may be      *)
(* written as far as the approval goes.                                    *)
LEMMA MovesToKeeps ==
  ASSUME IInv, NEW v \in Versions, Exists(v), NEW o, NEW rec, MovesTo(v, o, rec)
  PROVE  /\ rec.state = "active" <=> o = "activate"
         /\ rec.state \in {"approved", "active", "suspended"} =>
              /\ approval[v] = [obligation_ids |-> rec.covers]
              /\ rec.passed /\ ~rec.placeholder /\ ~rec.asked
         /\ control[v] \in Controls
         /\ control[v].state # "retired"
         /\ rec.state \in ControlTransitions[control[v].state]
<1>1. control[v] \in Controls
  BY DEF IInv, Staged, Basic, TypeOK, Exists
<1>2. /\ control[v].state \in {"approved", "active", "suspended"} =>
           /\ approval[v] = [obligation_ids |-> control[v].covers]
           /\ control[v].passed /\ ~control[v].placeholder /\ ~control[v].asked
  BY DEF IInv, StoreInv, LiveIsApproved
<1>3. ASSUME NEW s \in ControlStates, rec = [control[v] EXCEPT !.state = s]
      PROVE  /\ rec.state = s /\ rec.covers = control[v].covers
             /\ rec.passed = control[v].passed
             /\ rec.placeholder = control[v].placeholder
             /\ rec.asked = control[v].asked
  BY <1>1, <1>3, MovedControl
<1>4. CASE o = "approve"
  <2>1. /\ rec = [control[v] EXCEPT !.state = "approved"] /\ control[v].state = "draft"
        /\ Approvable(control[v]) /\ Quoted(v)
    BY <1>4 DEF MovesTo
  <2>2. /\ rec.state = "approved" /\ rec.covers = control[v].covers
        /\ rec.passed = control[v].passed
        /\ rec.placeholder = control[v].placeholder
        /\ rec.asked = control[v].asked
    BY <1>3, <2>1 DEF ControlStates
  <2>3. approval[v] = [obligation_ids |-> rec.covers]
    BY <2>1, <2>2 DEF Quoted
  <2>4. rec.passed /\ ~rec.placeholder /\ ~rec.asked
    BY <2>1, <2>2 DEF Approvable
  <2> QED
    BY <1>1, <1>4, <2>1, <2>2, <2>3, <2>4 DEF ControlTransitions
<1>5. CASE o = "activate"
  <2>1. /\ rec = [control[v] EXCEPT !.state = "active"]
        /\ control[v].state \in {"approved", "suspended"}
    BY <1>5 DEF MovesTo
  <2>2. /\ rec.state = "active" /\ rec.covers = control[v].covers
        /\ rec.passed = control[v].passed
        /\ rec.placeholder = control[v].placeholder
        /\ rec.asked = control[v].asked
    BY <1>3, <2>1 DEF ControlStates
  <2>3. /\ approval[v] = [obligation_ids |-> control[v].covers]
        /\ control[v].passed /\ ~control[v].placeholder /\ ~control[v].asked
    BY <1>2, <2>1
  <2>4. rec.passed /\ ~rec.placeholder /\ ~rec.asked
    BY <2>2, <2>3
  <2> QED
    BY <1>1, <1>5, <2>1, <2>2, <2>3, <2>4 DEF ControlTransitions
<1>6. CASE o = "suspend"
  <2>1. /\ rec = [control[v] EXCEPT !.state = "suspended"]
        /\ control[v].state = "active"
    BY <1>6 DEF MovesTo
  <2>2. /\ rec.state = "suspended" /\ rec.covers = control[v].covers
        /\ rec.passed = control[v].passed
        /\ rec.placeholder = control[v].placeholder
        /\ rec.asked = control[v].asked
    BY <1>3, <2>1 DEF ControlStates
  <2>3. /\ approval[v] = [obligation_ids |-> control[v].covers]
        /\ control[v].passed /\ ~control[v].placeholder /\ ~control[v].asked
    BY <1>2, <2>1
  <2>4. rec.passed /\ ~rec.placeholder /\ ~rec.asked
    BY <2>2, <2>3
  <2> QED
    BY <1>1, <1>6, <2>1, <2>2, <2>3, <2>4 DEF ControlTransitions
<1>7. CASE o = "retire"
  <2>1. rec = [control[v] EXCEPT !.state = "retired"] /\ control[v].state # "retired"
    BY <1>7 DEF MovesTo
  <2>2. rec.state = "retired"
    BY <1>3, <2>1 DEF ControlStates
  <2>3. "retired" \in ControlTransitions[control[v].state]
    BY <1>1, <2>1 DEF Controls, ControlStates, ControlTransitions
  <2> QED
    BY <1>1, <1>7, <2>1, <2>2, <2>3
<1>8. CASE o = "clarify"
  <2>1. /\ rec = [control[v] EXCEPT !.state = "draft", !.asked = FALSE]
        /\ control[v].state = "needs_clarification"
    BY <1>8 DEF MovesTo
  <2>2. rec.state = "draft"
    BY <1>1, <2>1 DEF Controls
  <2> QED
    BY <1>1, <1>8, <2>1, <2>2 DEF ControlTransitions
<1> QED
  BY <1>4, <1>5, <1>6, <1>7, <1>8 DEF MovesTo

LEMMA ContinueKeeps ==
  ASSUME IInv, NEW q \in Requests, Continue(q)
  PROVE  Kept(q)'
<1> DEFINE v == ver[q]
<1>a. /\ v \in Versions
      /\ pc[q] \in Writing => record[q] \in Controls
      /\ Fits(pc[q], op[q], v, record[q], others[q])
      /\ control \in [Versions -> Controls \cup {NoControl}]
      /\ approval \in [Versions -> Approvals \cup {NoApproval}]
  BY DEF IInv, Staged, Basic, TypeOK, Held, AllFit
<1>b. NoneLeft /\ AtMostOneActive /\ LiveIsApproved /\ StoreInv /\ Basic
  BY DEF IInv, Staged, StoreInv
<1>1. CASE CheckNew(q)
  <2>1. pc[q] = "create" /\ UNCHANGED storeVars
    BY <1>1 DEF CheckNew
  <2>2. CASE Exists(v)
    BY <1>1, <1>b, <2>1, <2>2, DoneKeeps, StoreKept DEF CheckNew, storeVars
  <2>3. CASE ~Exists(v)
    <3>1. Fits("put", op[q], ver[q], record[q], others[q])
      BY <1>a, <2>1, <2>3 DEF Fits
    <3> QED
      BY <1>1, <2>1, <2>3, <3>1, GotoKeeps DEF CheckNew
  <2> QED
    BY <2>2, <2>3
<1>2. CASE PutNew(q)
  <2>1. /\ pc[q] = "put" /\ record[q] \in Controls /\ others[q] = {}
        /\ record[q].state \in {"draft", "needs_clarification"}
        /\ control' = [control EXCEPT ![v] = record[q]] /\ approval' = approval
    BY <1>2, <1>a DEF PutNew, Fits, Writing
  <2>2. StoreInv'
    BY <1>a, <2>1, WriteKeeps
  <2>3. CASE Done(q)
    BY <2>1, <2>2, <2>3, DoneKeeps
  <2>4. CASE Goto(q, "reconcile")
    <3>1. Fits("reconcile", op[q], ver[q], record[q], others[q])'
      BY <2>1, <2>4 DEF Goto, Fits
    <3> QED
      BY <2>1, <2>2, <2>4, <3>1, GoesOnKeeps
  <2> QED
    BY <1>2, <2>3, <2>4 DEF PutNew
<1>3. CASE RecordApproval(q)
  <2>1. /\ pc[q] = "approve" /\ op[q] = "approve" /\ others[q] = {}
        /\ Exists(v) /\ control[v].state = "draft"
        /\ Approvable(control[v]) /\ record[q] = control[v]
        /\ approval' = [approval EXCEPT ![v] = [obligation_ids |-> record[q].covers]]
        /\ Goto(q, "move") /\ control' = control
    BY <1>3, <1>a DEF RecordApproval, Fits, InState
  <2>2. NoneLeft'
    BY <1>a, <1>b, <2>1 DEF NoneLeft, Exists
  <2>3. AtMostOneActive'
    BY <1>b, <2>1 DEF AtMostOneActive, ActiveVersions, InState, Exists
  <2>4. LiveIsApproved'
    BY <1>a, <1>b, <2>1 DEF LiveIsApproved, Exists
  <2>5. Fits("move", op[q], ver[q], record[q], others[q])'
    BY <1>a, <2>1 DEF Goto, Fits, InState, Exists, Quoted, Approvable
  <2> QED
    BY <2>1, <2>2, <2>3, <2>4, <2>5, GoesOnKeeps DEF StoreInv
<1>4. CASE MoveToApproved(q)
  <2>1. /\ pc[q] = "move" /\ op[q] = "approve" /\ others[q] = {}
        /\ Exists(v) /\ control[v].state = "draft"
        /\ Approvable(control[v]) /\ Quoted(v) /\ UNCHANGED storeVars
    BY <1>4, <1>a DEF MoveToApproved, Fits, InState
  <2>2. CASE Done(q)
    BY <1>b, <2>1, <2>2, DoneKeeps, StoreKept DEF storeVars
  <2> DEFINE rec == [control[v] EXCEPT !.state = "approved"]
  <2>3. CASE /\ record' = [record EXCEPT ![q] = rec]
             /\ pc' = [pc EXCEPT ![q] = "write"]
             /\ UNCHANGED <<op, ver, others, covered>>
    <3>1. /\ pc'[q] = "write" /\ record'[q] = rec /\ op'[q] = "approve"
          /\ ver'[q] = v /\ others'[q] = {}
          /\ \A p \in Requests : p # q => pc'[p] = pc[p] /\ others'[p] = others[p]
      BY <2>1, <2>3 DEF IInv, Staged, Basic, TypeOK
    <3>2. MovesTo(v, "approve", rec)
      BY <2>1 DEF MovesTo
    <3>3. FitsNow(q)'
      <4> HIDE DEF rec
      <4>1. Fits("write", "approve", v, rec, {})
        BY <2>1, <3>2 DEF Fits
      <4>2. control' = control /\ approval' = approval
        BY <2>1 DEF storeVars
      <4> QED
        BY <3>1, <4>1, <4>2 DEF FitsNow, Fits, MovesTo, Quoted, Listed, ActiveVersions,
                                InState, Exists, Approvable
    <3> QED
      BY <1>b, <2>1, <3>3, StoreKept DEF Kept, storeVars
  <2> QED
    BY <1>4, <2>2, <2>3 DEF MoveToApproved
<1>5. CASE CheckActivation(q)
  <2>1. pc[q] = "check" /\ UNCHANGED storeVars
    BY <1>5 DEF CheckActivation
  <2>2. CASE Done(q)
    BY <1>b, <2>1, <2>2, DoneKeeps, StoreKept DEF storeVars
  <2>3. CASE Goto(q, "list")
    <3>1. Fits("list", op[q], ver[q], record[q], others[q])
      BY <1>a, <2>1 DEF Fits
    <3> QED
      BY <2>1, <2>3, <3>1, GotoKeeps
  <2> QED
    BY <1>5, <2>2, <2>3 DEF CheckActivation
<1>6. CASE ListOthers(q)
  <2>1. /\ pc[q] = "list" /\ op[q] = "activate" /\ Exists(v) /\ MovesTo(v, op[q], record[q])
        /\ others' = [others EXCEPT ![q] = Listed] /\ pc' = [pc EXCEPT ![q] = "write"]
        /\ UNCHANGED <<storeVars, op, ver, record>>
    BY <1>6, <1>a DEF ListOthers, Fits, Listed
  <2>2. /\ pc'[q] = "write" /\ others'[q] = Listed
        /\ \A p \in Requests : p # q => pc'[p] = pc[p] /\ others'[p] = others[p]
    BY <2>1 DEF IInv, Staged, Basic, TypeOK
  <2>3. Fits("write", op[q], ver[q], record[q], Listed)
    BY <2>1 DEF Fits
  <2>4. FitsNow(q)'
    <3>1. control' = control /\ approval' = approval
      BY <2>1 DEF storeVars
    <3> QED
      BY <2>1, <2>2, <2>3, <3>1 DEF FitsNow, Fits, MovesTo, Quoted, Listed, ActiveVersions,
                                    InState, Exists, Approvable
  <2> QED
    BY <1>b, <2>1, <2>4, StoreKept DEF Kept, storeVars
<1>7. CASE RetireOther(q)
  <2>1. PICK o \in others[q] :
          /\ control' = [control EXCEPT ![o[1]] = [o[2] EXCEPT !.state = "retired"]]
          /\ others' = [others EXCEPT ![q] = @ \ {o}]
    BY <1>7 DEF RetireOther
  <2>2. /\ pc[q] = "write" /\ Exists(v) /\ MovesTo(v, op[q], record[q])
        /\ op[q] = "activate" /\ others[q] = Listed
        /\ UNCHANGED <<approval, pc, op, ver, record>>
    BY <1>7, <1>a, <2>1 DEF RetireOther, Fits
  <2>3. PICK u \in ActiveVersions : o = <<u, control[u]>>
    BY <2>1, <2>2 DEF Listed
  <2>4. u \in Versions /\ control[u] \in Controls /\ control[u].state = "active"
    BY <1>a, <2>3 DEF ActiveVersions, InState, Exists
  <2> DEFINE rec == [control[u] EXCEPT !.state = "retired"]
  <2>5. rec \in Controls /\ rec.state = "retired" /\ control' = [control EXCEPT ![u] = rec]
    BY <2>1, <2>3, <2>4, MovedControl DEF ControlStates
  <2> HIDE DEF rec
  <2>6. /\ StoreInv'
        /\ control'[u] = rec
        /\ \A x \in Versions : x # u => control'[x] = control[x]
    BY <2>2, <2>4, <2>5, WriteKeeps
  <2>7. v # u
    BY <2>2, <2>4 DEF MovesTo
  <2>8. control'[v] = control[v]
    BY <1>a, <2>6, <2>7
  <2>9. Listed' = Listed \ {o}
    <3>1. ActiveVersions' = ActiveVersions \ {u}
      BY <2>4, <2>5, <2>6 DEF ActiveVersions, InState, Exists
    <3>2. \A x \in ActiveVersions' : control'[x] = control[x]
      BY <2>6, <3>1 DEF ActiveVersions
    <3>3. Listed' = {<<x, control[x]>> : x \in ActiveVersions \ {u}}
      BY <3>1, <3>2 DEF Listed
    <3> QED
      BY <2>3, <3>3 DEF Listed
  <2>10. /\ others'[q] = Listed'
         /\ \A p \in Requests : p # q => others'[p] = others[p]
    BY <2>1, <2>2, <2>9 DEF IInv, Staged, Basic, TypeOK
  <2>11. Exists(v)' /\ MovesTo(v, op[q], record[q])'
    BY <2>2, <2>8 DEF Exists, MovesTo, Quoted, Approvable
  <2>12. FitsNow(q)'
    BY <2>2, <2>10, <2>11 DEF FitsNow, Fits
  <2> QED
    BY <2>6, <2>12 DEF Kept
<1>8. CASE WriteControl(q)
  <2>1. /\ pc[q] = "write" /\ others[q] = {} /\ Exists(v) /\ record[q] \in Controls
        /\ MovesTo(v, op[q], record[q])
        /\ control' = [control EXCEPT ![v] = record[q]] /\ approval' = approval
        /\ op[q] = "activate" => Listed = {}
    BY <1>8, <1>a DEF WriteControl, Fits, Writing
  <2>2. op[q] = "activate" => ActiveVersions = {}
    BY <2>1 DEF Listed
  <2>3. StoreInv'
    <3> DEFINE o == op[q]
               rec == record[q]
    <3>0. MovesTo(v, o, rec) /\ rec \in Controls /\ control' = [control EXCEPT ![v] = rec]
      BY <2>1
    <3> HIDE DEF o, rec, v
    <3>1. /\ rec.state = "active" <=> o = "activate"
          /\ rec.state \in {"approved", "active", "suspended"} =>
               /\ approval[v] = [obligation_ids |-> rec.covers]
               /\ rec.passed /\ ~rec.placeholder /\ ~rec.asked
      BY <1>a, <2>1, <3>0, MovesToKeeps
    <3>2. rec.state = "active" => ActiveVersions = {}
      BY <2>2, <3>1 DEF o
    <3> QED
      BY <1>a, <2>1, <3>0, <3>1, <3>2, WriteKeeps
  <2>4. CASE Done(q)
    BY <2>1, <2>3, <2>4, DoneKeeps
  <2>5. ASSUME NEW place \in {"reconcile", "related"}, Goto(q, place) PROVE Kept(q)'
    <3>1. Fits(place, op[q], ver[q], record[q], others[q])'
      BY <2>1, <2>5 DEF Goto, Fits
    <3> QED
      BY <2>1, <2>3, <2>5, <3>1, GoesOnKeeps
  <2> QED
    BY <1>8, <2>4, <2>5 DEF WriteControl
<1>9. CASE CheckRelated(q)
  <2>1. pc[q] = "related" /\ UNCHANGED storeVars
    BY <1>9 DEF CheckRelated
  <2>2. Fits("reconcile", op[q], ver[q], record[q], others[q])
    BY <1>a, <2>1 DEF Fits
  <2> QED
    BY <1>9, <1>b, <2>1, <2>2, DoneKeeps, GotoKeeps, StoreKept
       DEF CheckRelated, storeVars
<1>10. CASE Reconcile(q)
  <2>1. /\ pc[q] = "reconcile" /\ others[q] = {} /\ pc' = [pc EXCEPT ![q] = "save"]
        /\ UNCHANGED <<storeVars, op, ver, record, others>>
    BY <1>10, <1>a DEF Reconcile, Fits
  <2>2. /\ pc'[q] = "save"
        /\ \A p \in Requests : p # q => pc'[p] = pc[p]
    BY <2>1 DEF IInv, Staged, Basic, TypeOK
  <2>3. FitsNow(q)'
    BY <2>1, <2>2 DEF FitsNow, Fits
  <2> QED
    BY <1>b, <2>1, <2>3, StoreKept DEF Kept, storeVars
<1>11. CASE SaveCoverage(q)
  <2>1. pc[q] = "save" /\ Done(q) /\ UNCHANGED <<control, approval>>
    BY <1>11 DEF SaveCoverage
  <2>2. StoreInv'
    BY <1>b, <2>1, StoreKept
  <2> QED
    BY <2>1, <2>2, DoneKeeps
<1>12. CASE DropApproval(q)
  <2>1. /\ pc[q] = "drop_approval" /\ others[q] = {} /\ Exists(v) /\ control[v].state = "retired"
        /\ approval' = [approval EXCEPT ![v] = NoApproval]
        /\ Goto(q, "drop_control") /\ control' = control
    BY <1>12, <1>a DEF DropApproval, Fits, InState
  <2>2. NoneLeft'
    BY <1>a, <1>b, <2>1 DEF NoneLeft, Exists
  <2>3. AtMostOneActive'
    BY <1>b, <2>1 DEF AtMostOneActive, ActiveVersions, InState, Exists
  <2>4. LiveIsApproved'
    BY <1>a, <1>b, <2>1 DEF LiveIsApproved, Exists
  <2>5. Fits("drop_control", op[q], ver[q], record[q], others[q])'
    BY <1>a, <2>1 DEF Goto, Fits, InState, Exists
  <2> QED
    BY <2>1, <2>2, <2>3, <2>4, <2>5, GoesOnKeeps DEF StoreInv
<1>13. CASE DropControl(q)
  <2>1. /\ pc[q] = "drop_control" /\ approval[v] = NoApproval
        /\ control' = [control EXCEPT ![v] = NoControl]
        /\ Done(q) /\ approval' = approval
    BY <1>13, <1>a DEF DropControl, Fits
  <2>2. NoneLeft'
    BY <1>a, <1>b, <2>1 DEF NoneLeft, Exists
  <2>3. AtMostOneActive'
    <3>1. ActiveVersions' \subseteq ActiveVersions
      BY <1>a, <2>1 DEF ActiveVersions, InState, Exists
    <3> QED
      BY <1>b, <3>1 DEF AtMostOneActive
  <2>4. LiveIsApproved'
    BY <1>a, <1>b, <2>1 DEF LiveIsApproved, Exists
  <2> QED
    BY <2>1, <2>2, <2>3, <2>4, DoneKeeps DEF StoreInv
<1> QED
  BY <1>1, <1>2, <1>3, <1>4, <1>5, <1>6, <1>7, <1>8, <1>9, <1>10, <1>11, <1>12, <1>13
     DEF Continue

(* What a request may do to a version that it does not create: keep its    *)
(* record, or change the record of one that exists.                        *)
LEMMA OnlyCreates ==
  ASSUME IInv, NEW q \in Requests, Continue(q), NEW v \in Versions, ~Exists(v),
         pc[q] = "put" => ver[q] # v
  PROVE  ~Exists(v)'
<1>a. /\ FitsNow(q) /\ ver[q] \in Versions
      /\ control \in [Versions -> Controls \cup {NoControl}]
  BY DEF IInv, Staged, Basic, TypeOK, AllFit, FitsNow
<1>1. CASE PutNew(q)
  BY <1>1, <1>a DEF PutNew, Exists
<1>2. CASE RetireOther(q)
  <2>1. PICK o \in others[q] :
          control' = [control EXCEPT ![o[1]] = [o[2] EXCEPT !.state = "retired"]]
    BY <1>2 DEF RetireOther
  <2>2. others[q] = Listed
    BY <1>2, <1>a, <2>1 DEF RetireOther, FitsNow, Fits
  <2>3. o[1] # v
    BY <2>2 DEF Listed, ActiveVersions, InState
  <2> QED
    BY <2>1, <2>3, <1>a DEF Exists
<1>3. CASE WriteControl(q)
  BY <1>3, <1>a DEF WriteControl, Exists, FitsNow, Fits
<1>4. CASE DropControl(q)
  BY <1>4, <1>a DEF DropControl, Exists
<1>5. CASE \/ CheckNew(q) \/ RecordApproval(q) \/ MoveToApproved(q) \/ CheckActivation(q)
           \/ ListOthers(q) \/ CheckRelated(q) \/ Reconcile(q) \/ SaveCoverage(q)
           \/ DropApproval(q)
  BY <1>5 DEF CheckNew, RecordApproval, MoveToApproved, CheckActivation, ListOthers,
              CheckRelated, Reconcile, SaveCoverage, DropApproval, storeVars, Exists
<1> QED
  BY <1>1, <1>2, <1>3, <1>4, <1>5 DEF Continue

(* The one thing that an ingestion job does to the versions is to create   *)
(* the first one, when it is not there, in a state that is not live.       *)
LEMMA JobWrites ==
  ASSUME IInv, NEW w \in Workers, Continue(w), w \in Requests
  PROVE  /\ approval' = approval
         /\ \/ control' = control
            \/ /\ ~Exists(FirstVersion)
               /\ \E c \in Controls :
                    /\ c.state # "active"
                    /\ control' = [control EXCEPT ![FirstVersion] = c]
<1>a. /\ pc[w] # "idle" => /\ ver[w] = FirstVersion
                           /\ pc[w] \in {"create", "put", "reconcile", "save"}
      /\ FitsNow(w)
      /\ pc[w] \in Writing => record[w] \in Controls
  BY DEF IInv, Staged, Roles, AllFit, FitsNow, Basic, Held
<1>1. CASE PutNew(w)
  BY <1>1, <1>a DEF PutNew, FitsNow, Fits, Writing
<1>2. CASE CheckNew(w) \/ Reconcile(w) \/ SaveCoverage(w)
  BY <1>2 DEF CheckNew, Reconcile, SaveCoverage, storeVars
<1> QED
  BY <1>1, <1>2, <1>a DEF Continue, RecordApproval, MoveToApproved, CheckActivation, ListOthers,
     RetireOther, WriteControl, CheckRelated, DropApproval, DropControl

(* An administrator's request beside the job: what it knows of a version   *)
(* that exists, and of the active ones, stays true.                        *)
LEMMA AdminFitKept ==
  ASSUME IInv, NEW w \in Workers, Continue(w), w \in Requests,
         NEW p \in Requests \ Workers, pc[p] # "idle", pc[w] # "idle",
         pc'[p] = pc[p], op'[p] = op[p], ver'[p] = ver[p], record'[p] = record[p],
         others'[p] = others[p]
  PROVE  FitsNow(p)'
<1>a. /\ Fits(pc[p], op[p], ver[p], record[p], others[p]) /\ ver[p] \in Versions
      /\ FirstVersion \notin AdminVersions
      /\ pc[p] \in {"create", "put"} => ver[p] \in AdminVersions
      /\ control \in [Versions -> Controls \cup {NoControl}]
  BY DEF IInv, Staged, Basic, TypeOK, AllFit, Alone, Roles
<1>1. CASE UNCHANGED <<control, approval>>
  BY <1>1, <1>a, FitKept
<1>2. CASE ~UNCHANGED <<control, approval>>
  <2>1. PICK c \in Controls : c.state # "active"
                              /\ control' = [control EXCEPT ![FirstVersion] = c]
    BY <1>2, JobWrites
  <2>2. ~Exists(FirstVersion) /\ approval' = approval
    BY <1>2, JobWrites
  <2>3. \A v \in Versions : v # FirstVersion => control'[v] = control[v]
    BY <1>a, <2>1
  <2>4. control'[FirstVersion] = c /\ c # NoControl
    BY <1>a, <2>1, ConstantsAssumption, NoControlAssumption
  <2>5. Listed' = Listed
    <3>1. ActiveVersions' = ActiveVersions
      BY <2>1, <2>2, <2>3, <2>4 DEF ActiveVersions, InState, Exists
    <3>2. \A v \in ActiveVersions : control'[v] = control[v]
      BY <2>2, <2>3 DEF ActiveVersions, InState
    <3> QED
      BY <3>1, <3>2 DEF Listed
  <2>6. pc[p] = "put" => ~Exists(ver[p])'
    BY <1>a, <2>3 DEF Fits, Exists
  <2>7. Exists(ver[p]) => control'[ver[p]] = control[ver[p]] /\ Exists(ver[p])'
    BY <1>a, <2>2, <2>3 DEF Exists
  <2>8. Exists(ver[p]) =>
          \A o, rec : MovesTo(ver[p], o, rec) => MovesTo(ver[p], o, rec)'
    BY <2>2, <2>7 DEF MovesTo, Quoted, Approvable
  <2>9. Exists(ver[p]) =>
          /\ \A s : InState(ver[p], s) => InState(ver[p], s)'
          /\ Approvable(control[ver[p]])' = Approvable(control[ver[p]])
          /\ Quoted(ver[p])' = Quoted(ver[p])
    BY <2>2, <2>7 DEF InState, Approvable, Quoted
  <2> QED
    BY <1>a, <2>2, <2>5, <2>6, <2>7, <2>8, <2>9 DEF FitsNow, Fits, InState
<1> QED
  BY <1>1, <1>2

(* Whatever the others know still holds after a step of request q.         *)
LEMMA OthersFit ==
  ASSUME IInv, NEW q \in Requests, StepOf(q), NEW p \in Requests, p # q
  PROVE  FitsNow(p)'
<1>1. /\ pc'[p] = pc[p] /\ op'[p] = op[p] /\ ver'[p] = ver[p]
      /\ record'[p] = record[p] /\ others'[p] = others[p]
  BY OthersUntouched DEF IInv, Staged
<1>2. Fits(pc[p], op[p], ver[p], record[p], others[p]) /\ ver[p] \in Versions
  BY DEF IInv, Staged, Basic, TypeOK, AllFit
<1>3. CASE pc[p] = "idle"
  BY <1>1, <1>2, <1>3 DEF FitsNow, Fits
<1>4. CASE Begin(q) \/ Crash(q)
  <2>1. UNCHANGED <<control, approval>>
    BY <1>4, BeginKeeps DEF Crash, storeVars
  <2> QED
    BY <1>1, <1>2, <2>1, FitKept
<1>5. CASE pc[p] # "idle" /\ Continue(q)
  <2>1. pc[q] # "idle"
    BY <1>5 DEF Continue, CheckNew, PutNew, RecordApproval, MoveToApproved, CheckActivation,
                ListOthers, RetireOther, WriteControl, CheckRelated, Reconcile, SaveCoverage,
                DropApproval, DropControl
  <2>2. FirstVersion \notin AdminVersions /\ (p \in Workers <=> q \notin Workers)
    BY <1>5, <2>1 DEF IInv, Staged, Alone
  <2>3. CASE q \in Workers
    BY <1>1, <1>5, <2>1, <2>2, <2>3, AdminFitKept
  <2>4. CASE p \in Workers
    <3>1. ver[p] = FirstVersion /\ pc[p] \in {"create", "put", "reconcile", "save"}
      BY <1>5, <2>4 DEF IInv, Staged, Roles
    <3>2. pc[q] = "put" => ver[q] # FirstVersion
      BY <2>2, <2>4 DEF IInv, Staged, Roles
    <3>3. pc[p] = "put" => ~Exists(ver[p])
      BY <1>2 DEF Fits
    <3>4. ~Exists(FirstVersion) => ~Exists(FirstVersion)'
      BY <1>5, <3>2, OnlyCreates, ConstantsAssumption
    <3>5. pc[p] = "put" => ~Exists(ver[p])'
      BY <1>1, <3>1, <3>3, <3>4 DEF Exists
    <3> QED
      BY <1>1, <1>2, <3>1, <3>5 DEF FitsNow, Fits
  <2> QED
    BY <2>2, <2>3, <2>4
<1> QED
  BY <1>3, <1>4, <1>5 DEF StepOf

LEMMA IInvStep ==
  ASSUME Separated
  PROVE  IInv /\ [Next]_vars => IInv'
<1> SUFFICES ASSUME IInv, [Next]_vars PROVE IInv'
  OBVIOUS
<1>1. Staged'
  BY StagedStep DEF IInv
<1>2. ASSUME NEW q \in Requests, StepOf(q) PROVE IInv'
  <2>1. ASSUME Crash(q) PROVE Kept(q)'
    BY <2>1, DoneKeeps, StoreKept DEF Crash, IInv, storeVars
  <2>2. Kept(q)'
    BY <1>2, <2>1, BeginKeeps, ContinueKeeps DEF StepOf
  <2>3. AllFit'
    BY <1>2, <2>2, OthersFit DEF AllFit, FitsNow, Kept
  <2> QED
    BY <1>1, <2>2, <2>3 DEF IInv, Kept
<1>3. CASE SetActivation \/ UNCHANGED vars
  <2>1. UNCHANGED <<control, approval>> /\ UNCHANGED <<pc, op, ver, record, others>>
    BY <1>3 DEF SetActivation, vars, storeVars, requestVars
  <2>2. ASSUME NEW q \in Requests PROVE FitsNow(q)'
    BY <2>1, FitKept DEF IInv, AllFit
  <2> QED
    BY <1>1, <2>1, <2>2, StoreKept DEF IInv, AllFit, FitsNow
<1> QED
  BY <1>2, <1>3 DEF Next, StepOf

(* With one request of an administrator at a time, an ingestion job beside *)
(* it or not, at most one version of a control is active, although an      *)
(* activation retires the others and writes its own version in separate    *)
(* steps and may be killed between them.                                   *)
THEOREM OneActive ==
  ASSUME Separated
  PROVE  Spec => []AtMostOneActive
<1>1. IInv => AtMostOneActive
  BY DEF IInv, StoreInv
<1> QED
  BY InitIInv, IInvStep, <1>1, PTL DEF Spec

(* Then whatever is approved, active or suspended has an approval on       *)
(* record for its content, its tests passed, and it has no open questions. *)
THEOREM LiveVersionsAreApproved ==
  ASSUME Separated
  PROVE  Spec => []LiveIsApproved
<1>1. IInv => LiveIsApproved
  BY DEF IInv, StoreInv
<1> QED
  BY InitIInv, IInvStep, <1>1, PTL DEF Spec
-------------------------------------------------------------------------------
(***************************************************************************)
(* Refinement: the reads and writes of a request, with an ingestion job    *)
(* beside it or alone, are steps of VersionLifecycle or change nothing.    *)
(***************************************************************************)
LifecycleStep == [Lifecycle!Next]_(Lifecycle!vars)

LEMMA Unseen == ASSUME UNCHANGED <<control, approval>> PROVE LifecycleStep
<1>1. StateOf' = StateOf /\ ApprovedVersions' = ApprovedVersions
  BY DEF StateOf, ApprovedVersions, Exists
<1> QED
  BY <1>1 DEF LifecycleStep, Lifecycle!vars

(* A record in the table shows as its state.                               *)
LEMMA WriteSeen ==
  ASSUME Basic, NEW v \in Versions, NEW c \in Controls,
         control' = [control EXCEPT ![v] = c], approval' = approval
  PROVE  /\ StateOf' = [StateOf EXCEPT ![v] = c.state]
         /\ ApprovedVersions' = ApprovedVersions
<1>1. /\ control'[v] = c
      /\ \A u \in Versions : u # v => control'[u] = control[u]
  BY DEF Basic, TypeOK
<1>2. c # NoControl
  BY NoControlAssumption
<1>3. \A u \in Versions : StateOf'[u] = IF u = v THEN c.state ELSE StateOf[u]
  BY <1>1, <1>2 DEF StateOf, Exists
<1>4. StateOf' = [u \in Versions |-> StateOf'[u]] /\ StateOf = [u \in Versions |-> StateOf[u]]
  BY DEF StateOf
<1>5. ApprovedVersions' = ApprovedVersions
  BY DEF ApprovedVersions
<1> QED
  BY <1>3, <1>4, <1>5

(* A version shows as approved when its approval quotes its obligations.   *)
LEMMA QuotesAreApprovals ==
  ASSUME NEW c \in Controls
  PROVE  [obligation_ids |-> c.covers] # NoApproval
BY NoApprovalAssumption DEF Controls, Approvals

(* Writing a record in another state that the table of transitions allows. *)
LEMMA MoveSeen ==
  ASSUME IInv, NEW v \in Versions, NEW c \in Controls, Exists(v),
         control' = [control EXCEPT ![v] = c], approval' = approval,
         control[v] \in Controls,
         c.state \in ControlTransitions[control[v].state],
         c.state = "active" => ActiveVersions = {},
         c.state \in {"approved", "active"} => approval[v] = [obligation_ids |-> c.covers]
  PROVE  LifecycleStep
<1>1. /\ StateOf' = [StateOf EXCEPT ![v] = c.state]
      /\ ApprovedVersions' = ApprovedVersions
  BY WriteSeen DEF IInv, Staged
<1>2. StateOf[v] = control[v].state
  BY DEF StateOf
<1>3. control[v].state \in ControlStates
  BY DEF Controls
<1>4. c.state \in Lifecycle!Transitions[StateOf[v]]
  BY <1>2, <1>3 DEF ControlTransitions, Lifecycle!Transitions, ControlStates
<1>5. c.state \in {"approved", "active"} => v \in ApprovedVersions
  BY QuotesAreApprovals DEF ApprovedVersions
<1>6. c.state = "active" => \A u \in Versions : StateOf[u] # "active"
  BY DEF StateOf, ActiveVersions, InState
<1>7. Lifecycle!Move(v, c.state)
  BY <1>1, <1>4, <1>5, <1>6 DEF Lifecycle!Move
<1> QED
  BY <1>4, <1>7 DEF LifecycleStep, Lifecycle!Next

LEMMA ContinueSeen ==
  ASSUME IInv, NEW q \in Requests, Continue(q)
  PROVE  LifecycleStep
<1> DEFINE v == ver[q]
<1>a. /\ v \in Versions
      /\ pc[q] \in Writing => record[q] \in Controls
      /\ Fits(pc[q], op[q], v, record[q], others[q])
      /\ control \in [Versions -> Controls \cup {NoControl}]
      /\ approval \in [Versions -> Approvals \cup {NoApproval}]
      /\ Basic /\ NoneLeft
  BY DEF IInv, Staged, StoreInv, Basic, TypeOK, Held, AllFit
<1>1. CASE PutNew(q)
  <2>1. /\ ~Exists(v) /\ record[q] \in Controls
        /\ record[q].state \in {"draft", "needs_clarification"}
        /\ control' = [control EXCEPT ![v] = record[q]] /\ approval' = approval
    BY <1>1, <1>a DEF PutNew, Fits, Writing
  <2>2. /\ StateOf' = [StateOf EXCEPT ![v] = record[q].state]
        /\ ApprovedVersions' = ApprovedVersions
    BY <1>a, <2>1, WriteSeen
  <2>3. StateOf[v] = "absent" /\ v \notin ApprovedVersions
    BY <1>a, <2>1 DEF StateOf, ApprovedVersions, NoneLeft
  <2>4. Lifecycle!Create(v)
    BY <2>1, <2>2, <2>3 DEF Lifecycle!Create
  <2> QED
    BY <1>a, <2>4 DEF LifecycleStep, Lifecycle!Next
<1>2. CASE RecordApproval(q)
  <2>1. /\ Exists(v) /\ control[v].state = "draft" /\ record[q] = control[v]
        /\ approval' = [approval EXCEPT ![v] = [obligation_ids |-> record[q].covers]]
        /\ control' = control /\ record[q] \in Controls
    BY <1>2, <1>a DEF RecordApproval, Fits, InState, Writing
  <2>2. StateOf' = StateOf /\ StateOf[v] = "draft"
    BY <1>a, <2>1 DEF StateOf, Exists
  <2>3. approval'[v] # NoApproval /\ \A u \in Versions : u # v => approval'[u] = approval[u]
    BY <1>a, <2>1, QuotesAreApprovals
  <2>4. ApprovedVersions' = ApprovedVersions \cup {v}
    BY <1>a, <2>3 DEF ApprovedVersions
  <2>5. Lifecycle!Approve(v)
    BY <2>2, <2>4 DEF Lifecycle!Approve
  <2> QED
    BY <1>a, <2>5 DEF LifecycleStep, Lifecycle!Next
<1>3. CASE RetireOther(q)
  <2>1. PICK o \in others[q] :
          control' = [control EXCEPT ![o[1]] = [o[2] EXCEPT !.state = "retired"]]
    BY <1>3 DEF RetireOther
  <2>2. others[q] = Listed /\ approval' = approval
    BY <1>3, <1>a, <2>1 DEF RetireOther, Fits
  <2>3. PICK u \in ActiveVersions : o = <<u, control[u]>>
    BY <2>1, <2>2 DEF Listed
  <2>4. u \in Versions /\ Exists(u) /\ control[u] \in Controls /\ control[u].state = "active"
    BY <1>a, <2>3 DEF ActiveVersions, InState, Exists
  <2> DEFINE rec == [control[u] EXCEPT !.state = "retired"]
  <2>5. rec \in Controls /\ rec.state = "retired" /\ control' = [control EXCEPT ![u] = rec]
    BY <2>1, <2>3, <2>4, MovedControl DEF ControlStates
  <2>6. "retired" \in ControlTransitions[control[u].state]
    BY <2>4 DEF ControlTransitions
  <2> HIDE DEF rec
  <2> QED
    BY <2>2, <2>4, <2>5, <2>6, MoveSeen
<1>4. CASE WriteControl(q)
  <2>1. /\ others[q] = {} /\ Exists(v) /\ record[q] \in Controls
        /\ MovesTo(v, op[q], record[q])
        /\ control' = [control EXCEPT ![v] = record[q]] /\ approval' = approval
        /\ op[q] = "activate" => Listed = {}
    BY <1>4, <1>a DEF WriteControl, Fits, Writing
  <2>2. op[q] = "activate" => ActiveVersions = {}
    BY <2>1 DEF Listed
  <2> DEFINE o == op[q]
             rec == record[q]
  <2>3. MovesTo(v, o, rec) /\ rec \in Controls /\ control' = [control EXCEPT ![v] = rec]
    BY <2>1
  <2> HIDE DEF o, rec, v
  <2>4. /\ rec.state = "active" <=> o = "activate"
        /\ rec.state \in {"approved", "active", "suspended"} =>
             approval[v] = [obligation_ids |-> rec.covers]
        /\ control[v] \in Controls
        /\ rec.state \in ControlTransitions[control[v].state]
    BY <1>a, <2>1, <2>3, MovesToKeeps
  <2>5. rec.state = "active" => ActiveVersions = {}
    BY <2>2, <2>4 DEF o
  <2> QED
    BY <1>a, <2>1, <2>3, <2>4, <2>5, MoveSeen
<1>5. CASE DropApproval(q)
  <2>1. /\ Exists(v) /\ control[v].state = "retired"
        /\ approval' = [approval EXCEPT ![v] = NoApproval] /\ control' = control
    BY <1>5, <1>a DEF DropApproval, Fits, InState
  <2>2. StateOf' = StateOf /\ StateOf[v] = "retired"
    BY <1>a, <2>1 DEF StateOf, Exists
  <2>3. ApprovedVersions' = ApprovedVersions \ {v}
    BY <1>a, <2>1 DEF ApprovedVersions
  <2>4. Lifecycle!Withdraw(v)
    BY <2>2, <2>3 DEF Lifecycle!Withdraw
  <2> QED
    BY <1>a, <2>4 DEF LifecycleStep, Lifecycle!Next
<1>6. CASE DropControl(q)
  <2>1. /\ Exists(v) /\ control[v].state = "retired" /\ approval[v] = NoApproval
        /\ control' = [control EXCEPT ![v] = NoControl] /\ approval' = approval
    BY <1>6, <1>a DEF DropControl, Fits, InState
  <2>2. \A u \in Versions : StateOf'[u] = IF u = v THEN "absent" ELSE StateOf[u]
    BY <1>a, <2>1 DEF StateOf, Exists
  <2>3. StateOf' = [u \in Versions |-> StateOf'[u]] /\ StateOf = [u \in Versions |-> StateOf[u]]
    BY DEF StateOf
  <2>4. StateOf' = [StateOf EXCEPT ![v] = "absent"]
    BY <2>2, <2>3
  <2>5. /\ StateOf[v] = "retired" /\ v \notin ApprovedVersions
        /\ ApprovedVersions' = ApprovedVersions
    BY <1>a, <2>1 DEF StateOf, ApprovedVersions
  <2>6. Lifecycle!Remove(v)
    BY <2>4, <2>5 DEF Lifecycle!Remove
  <2> QED
    BY <1>a, <2>6 DEF LifecycleStep, Lifecycle!Next
<1>7. CASE CheckNew(q) \/ MoveToApproved(q) \/ CheckActivation(q) \/ ListOthers(q)
           \/ CheckRelated(q) \/ Reconcile(q) \/ SaveCoverage(q)
  BY <1>7, Unseen DEF CheckNew, MoveToApproved, CheckActivation, ListOthers, CheckRelated,
                      Reconcile, SaveCoverage, storeVars
<1> QED
  BY <1>1, <1>2, <1>3, <1>4, <1>5, <1>6, <1>7 DEF Continue

LEMMA StepSeen == IInv /\ [Next]_vars => LifecycleStep
<1> SUFFICES ASSUME IInv, [Next]_vars PROVE LifecycleStep
  OBVIOUS
<1>1. ASSUME NEW q \in Requests, Begin(q) PROVE LifecycleStep
  BY <1>1, Unseen DEF Begin, Propose, Author, Revise, Clarify, Approve, Activate, Suspend,
                      Retire, Transition, Remove, Start, storeVars
<1>2. ASSUME NEW q \in Requests, Crash(q) PROVE LifecycleStep
  BY <1>2, Unseen DEF Crash, storeVars
<1>3. CASE SetActivation \/ UNCHANGED vars
  BY <1>3, Unseen DEF SetActivation, vars, storeVars
<1> QED
  BY <1>1, <1>2, <1>3, ContinueSeen DEF Next

LEMMA InitSeen == Init => Lifecycle!Init
BY DEF Init, Lifecycle!Init, StateOf, ApprovedVersions, Exists

(* With one request of an administrator at a time, an ingestion job beside *)
(* it or not, the versions keep the promises of VersionLifecycle: although *)
(* a transition is tested on one read and written after others, no version *)
(* leaves the table of transitions, becomes live without an approval or    *)
(* active beside another, or comes back from retirement.                   *)
THEOREM ImplementsLifecycle ==
  ASSUME Separated
  PROVE  Spec => FollowsLifecycle
<1>1. IInv /\ [Next]_vars => [Lifecycle!Next]_(Lifecycle!vars)
  BY StepSeen DEF LifecycleStep
<1> QED
  BY InitIInv, IInvStep, InitSeen, <1>1, PTL
     DEF Spec, FollowsLifecycle, Lifecycle!Spec
===============================================================================

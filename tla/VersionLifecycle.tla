--------------------------- MODULE VersionLifecycle ---------------------------
(***************************************************************************)
(* What the control plane promises about the versions of one control: each *)
(* moves along CONTROL_TRANSITIONS (prsa_control/store.py), becomes live   *)
(* only with an approval on record, at most one is active, and a version   *)
(* that was retired stays so until it is removed with its approval.        *)
(***************************************************************************)
CONSTANT Versions

VARIABLES
  state,     \* state of each version, "absent" before its creation
  approved   \* versions with an approval record

vars == <<state, approved>>

Transitions == [absent |-> {},
                draft |-> {"needs_clarification", "approved", "retired"},
                needs_clarification |-> {"draft", "retired"},
                approved |-> {"active", "retired"},
                active |-> {"suspended", "retired"},
                suspended |-> {"active", "retired"},
                retired |-> {}]

Init == state = [v \in Versions |-> "absent"] /\ approved = {}

Create(v) ==
  /\ state[v] = "absent"
  /\ v \notin approved
  /\ \E s \in {"draft", "needs_clarification"} : state' = [state EXCEPT ![v] = s]
  /\ UNCHANGED approved

Approve(v) ==
  /\ state[v] = "draft"
  /\ approved' = approved \cup {v}
  /\ UNCHANGED state

Move(v, t) ==
  /\ t \in Transitions[state[v]]
  /\ t \in {"approved", "active"} => v \in approved
  /\ t = "active" => \A u \in Versions : state[u] # "active"
  /\ state' = [state EXCEPT ![v] = t]
  /\ UNCHANGED approved

Withdraw(v) ==
  /\ state[v] = "retired"
  /\ approved' = approved \ {v}
  /\ UNCHANGED state

Remove(v) ==
  /\ state[v] = "retired"
  /\ v \notin approved
  /\ state' = [state EXCEPT ![v] = "absent"]
  /\ UNCHANGED approved

Next ==
  \E v \in Versions :
    \/ Create(v)
    \/ Approve(v)
    \/ \E t \in Transitions[state[v]] : Move(v, t)
    \/ Withdraw(v)
    \/ Remove(v)

Spec == Init /\ [][Next]_vars
===============================================================================

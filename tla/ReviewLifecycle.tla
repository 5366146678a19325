---------------------------- MODULE ReviewLifecycle ----------------------------
(***************************************************************************)
(* What the system promises about a review run: its record comes before    *)
(* its job, the job is sent once, a comment is made once, after the record *)
(* that names it and after the summary, the commit status follows the      *)
(* comments, the job is acknowledged when all of that is done, and then    *)
(* the run is closed.  Requests, deliveries, locks and workers are left    *)
(* out.                                                                    *)
(***************************************************************************)
EXTENDS Naturals

CONSTANTS Runs, PRs, PrOf, Iterations, Findings, Summary, NoResult

VARIABLES
  status,        \* status of each run's record, "none" before it exists
  evidence,      \* iteration and findings in that record
  waiting,       \* runs whose job is on the queue
  acknowledged,  \* runs whose job was completed
  dead,          \* runs whose job is in the dead-letter queue
  posts,         \* threads per pull request, iteration and comment
  reported       \* runs whose commit status was posted

record == <<status, evidence>>
queue  == <<waiting, acknowledged, dead>>
ado    == <<posts, reported>>
vars   == <<record, queue, ado>>

(* A worker that lost its lock may go on after its job was given up.       *)
Open == waiting \cup dead

Threads(r)  == posts[PrOf[r]][evidence[r].iter]
Comments(r) == {Summary} \cup evidence[r].found
Shown(r)    == \A x \in Comments(r) : Threads(r)[x] > 0

Init ==
  /\ status = [r \in Runs |-> "none"]
  /\ evidence = [r \in Runs |-> NoResult]
  /\ waiting = {} /\ acknowledged = {} /\ dead = {}
  /\ posts = [p \in PRs |-> [i \in Iterations |-> [x \in Findings \cup {Summary} |-> 0]]]
  /\ reported = {}

Queue(r) ==
  /\ status[r] = "none"
  /\ status' = [status EXCEPT ![r] = "queued"]
  /\ UNCHANGED <<evidence, queue, ado>>

Unsent(r) == status[r] = "queued" /\ r \notin Open \cup acknowledged

Send(r) ==
  /\ Unsent(r)
  /\ waiting' = waiting \cup {r}
  /\ UNCHANGED <<record, acknowledged, dead, ado>>

Refuse(r) ==
  /\ Unsent(r)
  /\ status' = [status EXCEPT ![r] = "enqueue_failed"]
  /\ UNCHANGED <<evidence, queue, ado>>

Attempt(r) ==
  /\ r \in Open
  /\ status' = [status EXCEPT ![r] = "running"]
  /\ UNCHANGED <<evidence, queue, ado>>

Skip(r) ==
  /\ r \in Open
  /\ status[r] = "running"
  /\ status' = [status EXCEPT ![r] = "skipped_disabled"]
  /\ evidence' = [evidence EXCEPT ![r] = NoResult]
  /\ UNCHANGED <<queue, ado>>

Complete(r) ==
  /\ r \in Open
  /\ status[r] = "running"
  /\ status' = [status EXCEPT ![r] = "completed"]
  /\ \E e \in [iter: Iterations, found: SUBSET Findings] :
       evidence' = [evidence EXCEPT ![r] = e]
  /\ UNCHANGED <<queue, ado>>

Fail(r) ==
  /\ r \in Open
  /\ status' = [status EXCEPT ![r] = "failed"]
  /\ UNCHANGED <<evidence, queue, ado>>

Comment(r, x) ==
  /\ r \in Open
  /\ status[r] = "completed"
  /\ x \in Comments(r)
  /\ Threads(r)[x] = 0
  /\ x # Summary => Threads(r)[Summary] > 0
  /\ posts' = [posts EXCEPT ![PrOf[r]][evidence[r].iter][x] = 1]
  /\ UNCHANGED <<record, queue, reported>>

Report(r) ==
  /\ r \in Open
  /\ status[r] = "completed"
  /\ Shown(r)
  /\ reported' = reported \cup {r}
  /\ UNCHANGED <<record, queue, posts>>

Acknowledge(r) ==
  /\ r \in waiting
  /\ \/ status[r] = "skipped_disabled"
     \/ status[r] = "completed" /\ Shown(r) /\ r \in reported
  /\ waiting' = waiting \ {r}
  /\ acknowledged' = acknowledged \cup {r}
  /\ UNCHANGED <<record, dead, ado>>

DeadLetter(r) ==
  /\ r \in waiting
  /\ waiting' = waiting \ {r}
  /\ dead' = dead \cup {r}
  /\ UNCHANGED <<record, acknowledged, ado>>

Next ==
  \E r \in Runs :
    \/ Queue(r) \/ Send(r) \/ Refuse(r)
    \/ Attempt(r) \/ Skip(r) \/ Complete(r) \/ Fail(r)
    \/ \E x \in Comments(r) : Comment(r, x)
    \/ Report(r) \/ Acknowledge(r) \/ DeadLetter(r)

Spec == Init /\ [][Next]_vars
===============================================================================

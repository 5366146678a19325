------------------------- MODULE ReviewLifecycleProofs -------------------------
(***************************************************************************)
(* The deployed pipeline implements ReviewLifecycle: one worker behind the *)
(* serial gateway, sends that raise only when nothing was sent, and posts  *)
(* whose answer arrives.                                                   *)
(***************************************************************************)
EXTENDS ReviewRecordsProofs

Deployed ==
  /\ SerialGateway
  /\ \A v, w \in Workers : v = w
  /\ {"ambiguous_send", "lost_ack"} \cap Faults = {}

(***************************************************************************)
(* What the record of a run says while somebody is at work on it.          *)
(***************************************************************************)
Awaited(q) ==
  /\ rpc[q] = "record" => status[rrun[q]] = "none"
  /\ rpc[q] \in {"enqueue", "failing"} => status[rrun[q]] = "queued"

StatusAt(w) ==
  CASE wpc[w] \in {"started", "record"}  -> {"running"}
    [] wpc[w] \in {"publish", "posting"} -> {"completed"}
    [] wpc[w] = "complete"               ->
         {IF wresult[w] = NoResult THEN "skipped_disabled" ELSE "completed"}
    [] OTHER                             -> RunStatuses

Due ==
  \A w \in Workers : wpc[w] = "posting" => wtodo[w] \subseteq {Summary} \cup wresult[w].found

Locked == \A q \in Requests : holder[q] # NoWorker => msg[q] = "locked"

Tracked ==
  /\ \A q \in Requests : Awaited(q)
  /\ \A w \in Workers : wpc[w] # "idle" => status[RunOf(w)] \in StatusAt(w)

(* The gateway and the worker never have the same run at hand.             *)
LEMMA ApartRuns ==
  ASSUME Basic, Alone, Settled, NEW q \in Requests, rpc[q] \in {"record", "enqueue", "failing"}
  PROVE  /\ ~Sent(q)
         /\ \A p \in Requests : Sent(p) => rrun[p] # rrun[q]
         /\ \A w \in Workers : wpc[w] # "idle" => RunOf(w) # rrun[q]
<1>1. ~Sent(q)
  BY DEF Settled
<1>2. \A p \in Requests : Sent(p) => rrun[p] # rrun[q]
  BY <1>1 DEF Alone
<1> QED
  BY <1>1, <1>2 DEF Basic, Placed, RunOf, Sent

LEMMA BusyWorker ==
  ASSUME Basic, NEW w \in Workers, wpc[w] # "idle"
  PROVE  /\ wmsg[w] \in Requests /\ Sent(wmsg[w]) /\ rpc[wmsg[w]] # "idle"
         /\ RunOf(w) \in Runs /\ RunOf(w) = rrun[wmsg[w]]
BY DEF Basic, Placed, RunOf, Sent

LEMMA LockedStep == Basic /\ Locked /\ [Next]_vars => Locked'
<1> USE ConstantsAssumption
<1> SUFFICES ASSUME Basic, Locked, [Next]_vars PROVE Locked'
  OBVIOUS
<1>t. /\ msg \in [Requests -> {"none", "ready", "locked", "done", "dead"}]
      /\ holder \in [Requests -> Workers \cup {NoWorker}]
      /\ wmsg \in [Workers -> Requests \cup {NoMsg}]
      /\ \A q \in Requests : rpc[q] = "enqueue" => msg[q] = "none"
  BY DEF Basic, TypeOK, Placed
<1> USE DEF gatewayVars, recordVars, queueVars, workerVars, adoVars
<1>1. CASE UNCHANGED <<msg, holder>>
  BY <1>1 DEF Locked
(* A message that is not locked stays without a holder.                    *)
<1>2. ASSUME NEW q \in Requests, msg[q] # "locked", UNCHANGED holder,
             \E s : msg' = [msg EXCEPT ![q] = s]
      PROVE  Locked'
  BY <1>2, <1>t DEF Locked
<1>3. ASSUME NEW q \in Requests,
             \/ holder' = [holder EXCEPT ![q] = NoWorker] /\ \E s : msg' = [msg EXCEPT ![q] = s]
             \/ \E w \in Workers : holder' = [holder EXCEPT ![q] = w]
                                     /\ msg' = [msg EXCEPT ![q] = "locked"]
      PROVE  Locked'
  BY <1>3, <1>t DEF Locked
<1>4. ASSUME NEW q \in Requests, EnqueueJob(q) \/ EnqueueFails(q) \/ MessageExpires(q)
      PROVE  Locked'
  BY <1>1, <1>2, <1>4, <1>t DEF EnqueueJob, EnqueueFails, MessageExpires
<1>5. ASSUME NEW q \in Requests, LockExpires(q) \/ \E w \in Workers : Receive(w, q)
      PROVE  Locked'
  BY <1>3, <1>5 DEF LockExpires, Receive
<1>6. ASSUME NEW w \in Workers, CompleteMessage(w) \/ AbandonMessage(w)
      PROVE  Locked'
  <2>1. wmsg[w] \in Requests
    BY <1>6, BusyWorker DEF CompleteMessage, AbandonMessage
  <2> QED
    BY <1>1, <1>3, <1>6, <2>1 DEF CompleteMessage, AbandonMessage
<1>7. \/ UNCHANGED <<msg, holder>>
      \/ \E q \in Requests : EnqueueJob(q) \/ EnqueueFails(q) \/ LockExpires(q)
           \/ MessageExpires(q) \/ \E w \in Workers : Receive(w, q)
      \/ \E w \in Workers : AbandonMessage(w) \/ CompleteMessage(w)
  BY DEF Next, GatewayStep, WorkerStep, Webhook, Rerun, CheckExisting, RecordQueued,
         MarkEnqueueFailed, GatewayCrash, MarkRunning, SkipDisabled, Scan, RecordResult,
         ReadThreads, Post, PostAckLost, PostStatus, Fail, MarkFailed, WorkerCrash,
         SetEnabled, Push, vars
<1> QED
  BY <1>1, <1>4, <1>5, <1>6, <1>7

(* A step at the gateway or the queue moves a request along with its run's *)
(* record, of which no worker has the job.                                 *)
LEMMA GatewayTracked ==
  ASSUME Basic, Alone, Settled, Tracked, [Next]_vars, NEW q \in Requests,
         \/ \E e \in Events : Webhook(q, e)
         \/ Rerun(q) \/ GatewayStep(q) \/ GatewayCrash(q) \/ LockExpires(q) \/ MessageExpires(q)
  PROVE  Tracked'
<1> USE ConstantsAssumption
<1>t. /\ rpc \in [Requests -> {"idle"} \cup InFlight \cup Answered]
      /\ rrun \in [Requests -> Runs \cup {NoRun}]
      /\ status \in [Runs -> RunStatuses]
      /\ \A p \in Requests : rpc[p] # "idle" => rrun[p] \in Runs
      /\ \A p \in Requests : Awaited(p)
  BY DEF Basic, TypeOK, Placed, Tracked
<1>i. \A p, r \in Requests : rpc[p] \in InFlight /\ rpc[r] \in InFlight => p = r
  BY DEF Alone
<1> USE DEF gatewayVars, recordVars, queueVars, workerVars, adoVars
<1>1. UNCHANGED <<wpc, wmsg, wresult>>
  BY DEF Webhook, Rerun, GatewayStep, CheckExisting, RecordQueued, EnqueueJob, EnqueueFails,
         MarkEnqueueFailed, GatewayCrash, LockExpires, MessageExpires
<1>2. \/ UNCHANGED status
      \/ /\ rpc[q] \in {"record", "failing"}
         /\ \E s : status' = [status EXCEPT ![rrun[q]] = s]
  BY DEF Webhook, Rerun, GatewayStep, CheckExisting, RecordQueued, EnqueueJob, EnqueueFails,
         MarkEnqueueFailed, GatewayCrash, LockExpires, MessageExpires
<1>3. ASSUME NEW w \in Workers, wpc'[w] # "idle"
      PROVE  status'[RunOf(w)'] \in StatusAt(w)'
  <2>1. RunOf(w)' = RunOf(w) /\ RunOf(w) \in Runs
    BY <1>1, <1>3, RunKept
  <2>2. StatusAt(w)' = StatusAt(w)
    BY <1>1 DEF StatusAt
  <2>3. status'[RunOf(w)] = status[RunOf(w)]
    BY <1>1, <1>2, <1>3, <1>t, <2>1, ApartRuns
  <2> QED
    BY <1>1, <1>3, <2>1, <2>2, <2>3 DEF Tracked
<1> DEFINE G == \A p \in Requests : Awaited(p)'
<1>4. ASSUME UNCHANGED <<rpc, rrun, status>> PROVE G
  BY <1>4, <1>t DEF Awaited
<1>5. ASSUME UNCHANGED status, rpc[q] = "idle",
             \E s \in {"check", "ignored"} : rpc' = [rpc EXCEPT ![q] = s],
             \E r : rrun' = [rrun EXCEPT ![q] = r]
      PROVE  G
  BY <1>5, <1>t DEF Awaited
<1>6. ASSUME CheckExisting(q) PROVE G
  BY <1>6, <1>t DEF CheckExisting, Awaited
<1>7. ASSUME rpc[q] \in InFlight, UNCHANGED rrun, \E s \in Answered : rpc' = [rpc EXCEPT ![q] = s]
      PROVE  G
  <2>1. \A p \in Requests : rpc'[p] \notin InFlight
    BY <1>7, <1>t, <1>i DEF InFlight, Answered
  <2> QED
    BY <2>1 DEF Awaited, InFlight
<1>8. ASSUME RecordQueued(q) PROVE G
  <2>1. \A p \in Requests \ {q} : rpc'[p] \notin InFlight
    BY <1>8, <1>t, <1>i DEF RecordQueued, InFlight
  <2>2. status[rrun[q]] = "none" /\ rrun[q] \in Runs
    BY <1>8, <1>t DEF RecordQueued, Awaited
  <2>3. rpc'[q] = "enqueue" /\ rrun' = rrun /\ status'[rrun[q]] = "queued"
    BY <1>8, <1>t, <2>2 DEF RecordQueued
  <2> QED
    BY <2>1, <2>3 DEF Awaited, InFlight
<1>9. ASSUME EnqueueFails(q) PROVE G
  BY <1>9, <1>t DEF EnqueueFails, Awaited
<1>10. ASSUME EnqueueJob(q) \/ MarkEnqueueFailed(q) \/ GatewayCrash(q) PROVE G
  BY <1>7, <1>10 DEF EnqueueJob, MarkEnqueueFailed, GatewayCrash, InFlight, Answered
<1>11. ASSUME (\E e \in Events : Webhook(q, e)) \/ Rerun(q) PROVE G
  BY <1>5, <1>11 DEF Webhook, Rerun, MayServe
<1>12. ASSUME LockExpires(q) \/ MessageExpires(q) PROVE G
  BY <1>4, <1>12 DEF LockExpires, MessageExpires
<1>13. G
  BY <1>6, <1>8, <1>9, <1>10, <1>11, <1>12 DEF GatewayStep
<1> QED
  BY <1>3, <1>13 DEF Tracked

(* What the one worker writes is what the next step of its own relies on.  *)
LEMMA WorkerTracked ==
  ASSUME \A v, w \in Workers : v = w,
         Basic, Alone, Settled, Tracked, [Next]_vars, NEW w \in Workers,
         WorkerStep(w) \/ WorkerCrash(w) \/ \E q \in Requests : Receive(w, q)
  PROVE  Tracked'
<1> USE ConstantsAssumption
<1>t. /\ rrun \in [Requests -> Runs \cup {NoRun}]
      /\ status \in [Runs -> RunStatuses]
      /\ wpc \in [Workers -> WorkerStates] /\ wresult \in [Workers -> Results]
      /\ wmsg \in [Workers -> Requests \cup {NoMsg}]
      /\ \A q \in Requests : rpc[q] # "idle" => rrun[q] \in Runs
  BY DEF Basic, TypeOK, Placed
<1>s. status' \in [Runs -> RunStatuses]
  BY TypeStep DEF TypeOK
<1>b. wpc[w] # "idle" => RunOf(w) \in Runs
  BY BusyWorker
<1> USE DEF gatewayVars, recordVars, queueVars, workerVars, adoVars
<1>1. UNCHANGED <<rpc, rrun>>
  BY DEF WorkerStep, WorkerCrash, Receive, MarkRunning, SkipDisabled, Scan, RecordResult,
         ReadThreads, Post, PostAckLost, PostStatus, CompleteMessage, Fail, MarkFailed,
         AbandonMessage
<1>2. \/ UNCHANGED status
      \/ wpc[w] # "idle" /\ \E s : status' = [status EXCEPT ![RunOf(w)] = s]
  BY DEF WorkerStep, WorkerCrash, Receive, MarkRunning, SkipDisabled, Scan, RecordResult,
         ReadThreads, Post, PostAckLost, PostStatus, CompleteMessage, Fail, MarkFailed,
         AbandonMessage
<1>3. ASSUME NEW q \in Requests
      PROVE  Awaited(q)'
  <2>1. rpc[q] \in {"record", "enqueue", "failing"} => status'[rrun[q]] = status[rrun[q]]
    BY <1>2, <1>t, <1>b, ApartRuns
  <2> QED
    BY <1>1, <2>1 DEF Awaited, Tracked
<1> DEFINE W == wpc'[w] # "idle" => status'[RunOf(w)'] \in StatusAt(w)'
<1>r. wmsg'[w] = wmsg[w] => RunOf(w)' = RunOf(w)
  BY <1>1 DEF RunOf
<1>4. ASSUME wpc'[w] \in {"received", "failing", "abandon"} PROVE W
  <2>1. wmsg'[w] \in Requests => RunOf(w)' \in Runs
    BY <1>4, TypeStep, PlacedStep DEF Placed, RunOf
  <2>2. wmsg'[w] \in Requests
    BY <1>4, PlacedStep DEF Placed
  <2> QED
    BY <1>4, <1>s, <2>1, <2>2 DEF StatusAt
<1>5. ASSUME wpc'[w] = "idle" PROVE W
  BY <1>5
<1>6. ASSUME MarkRunning(w) PROVE W
  BY <1>6, <1>t, <1>r, <1>b DEF MarkRunning, StatusAt
<1>7. ASSUME SkipDisabled(w) PROVE W
  BY <1>7, <1>t, <1>r, <1>b DEF SkipDisabled, StatusAt
<1>8. ASSUME Scan(w) PROVE W
  BY <1>8, <1>t, <1>r DEF Scan, StatusAt, Tracked
<1>9. ASSUME RecordResult(w) PROVE W
  BY <1>9, <1>t, <1>r, <1>b DEF RecordResult, StatusAt
<1>10. ASSUME ReadThreads(w) PROVE W
  BY <1>10, <1>t, <1>r DEF ReadThreads, StatusAt, Tracked
<1>11. ASSUME NEW x \in Items, Post(w, x) \/ PostAckLost(w, x)
       PROVE  W
  <2>1. /\ UNCHANGED <<status, wmsg, wresult>> /\ wpc[w] = "posting"
        /\ wpc' = wpc \/ wpc' = [wpc EXCEPT ![w] = "failing"]
    BY <1>11 DEF Post, PostAckLost, NextComment
  <2> QED
    BY <1>4, <1>t, <1>r, <2>1 DEF StatusAt, Tracked
<1>12. ASSUME PostStatus(w) PROVE W
  <2>1. wresult[w] # NoResult
    BY <1>12 DEF PostStatus, Basic, Placed, NoResult, Iterations
  <2> QED
    BY <1>12, <1>t, <1>r, <2>1 DEF PostStatus, StatusAt, Tracked
<1>13. ASSUME CompleteMessage(w) \/ AbandonMessage(w) \/ WorkerCrash(w) PROVE W
  BY <1>5, <1>13, <1>t DEF CompleteMessage, AbandonMessage, WorkerCrash, GoIdle
<1>14. ASSUME Fail(w) \/ MarkFailed(w) \/ \E q \in Requests : Receive(w, q) PROVE W
  BY <1>4, <1>14, <1>t DEF Fail, MarkFailed, Receive
<1>15. W
  BY <1>6, <1>7, <1>8, <1>9, <1>10, <1>11, <1>12, <1>13, <1>14 DEF WorkerStep
<1> QED
  BY <1>3, <1>15 DEF Tracked

LEMMA TrackedStep ==
  ASSUME \A v, w \in Workers : v = w
  PROVE  Basic /\ Alone /\ Settled /\ Tracked /\ [Next]_vars => Tracked'
<1> SUFFICES ASSUME Basic, Alone, Settled, Tracked, [Next]_vars PROVE Tracked'
  OBVIOUS
<1>1. CASE SetEnabled \/ (\E p \in PRs : Push(p)) \/ UNCHANGED vars
  <2>1. UNCHANGED <<rpc, rrun, status, wpc, wmsg, wresult>>
    BY <1>1 DEF SetEnabled, Push, vars, gatewayVars, recordVars, workerVars
  <2> QED
    BY <2>1 DEF Tracked, Awaited, StatusAt, RunOf
<1> QED
  BY <1>1, GatewayTracked, WorkerTracked DEF Next

-------------------------------------------------------------------------------
(***************************************************************************)
(* REFINEMENT.  Where the jobs are, when the message of one request moves. *)
(***************************************************************************)
JobsKept == \A S : "none" \notin S => RunsIn(S)' = RunsIn(S)

(* The message of a request moves, and no other message is of its run.     *)
Moving(q, s) ==
  /\ msg' = [msg EXCEPT ![q] = s] /\ UNCHANGED rrun
  /\ \A p \in Requests : p # q /\ Sent(p) => rrun[p] # rrun[q]

LEMMA JobsMove ==
  ASSUME Basic, NEW q \in Requests, NEW s, Moving(q, s), NEW S, "none" \notin S
  PROVE  RunsIn(S)' = IF s \in S THEN RunsIn(S) \cup {rrun[q]} ELSE RunsIn(S) \ {rrun[q]}
<1>t. msg \in [Requests -> {"none", "ready", "locked", "done", "dead"}]
  BY DEF Basic, TypeOK
<1>1. \A p \in Requests : msg'[p] = IF p = q THEN s ELSE msg[p]
  BY <1>t DEF Moving
<1>2. \A p \in Requests : p # q /\ msg[p] \in S => rrun[p] # rrun[q]
  BY DEF Moving, Sent
<1>3. ASSUME NEW r
      PROVE  r \in RunsIn(S)' <=> \/ s \in S /\ r = rrun[q]
                                  \/ \E p \in Requests : p # q /\ msg[p] \in S /\ r = rrun[p]
  BY <1>1 DEF RunsIn, Moving
<1>4. ASSUME NEW r, r # rrun[q]
      PROVE  r \in RunsIn(S) <=> \E p \in Requests : p # q /\ msg[p] \in S /\ r = rrun[p]
  BY <1>4 DEF RunsIn
<1> QED
  BY <1>2, <1>3, <1>4

LEMMA JobsStay ==
  ASSUME Basic, UNCHANGED msg, [Next]_vars
  PROVE  JobsKept
<1> SUFFICES ASSUME NEW S, "none" \notin S PROVE RunsIn(S)' = RunsIn(S)
  BY DEF JobsKept
<1>1. \A p \in Requests : msg[p] \in S => rpc[p] # "idle"
  BY DEF Basic, Placed
<1>2. \A p \in Requests : msg[p] \in S => rrun'[p] = rrun[p]
  BY <1>1, RunsMove DEF Basic, TypeOK
<1> QED
  BY <1>2 DEF RunsIn

(* The job of a sent message is where the message is.                      *)
LEMMA JobOf ==
  ASSUME Alone, NEW q \in Requests, Sent(q), NEW S, "none" \notin S
  PROVE  rrun[q] \in RunsIn(S) <=> msg[q] \in S
BY DEF Alone, OneMessagePerRun, RunsIn, Sent

(* A step that the promise does not see.                                   *)
LEMMA Unseen ==
  ASSUME JobsKept, UNCHANGED <<status, evidence, posts, reported>>
  PROVE  UNCHANGED Review!vars
BY DEF JobsKept, Review!vars, Review!record, Review!queue, Review!ado

(* A message given back by its worker or by the broker: its job waits on,  *)
(* or is dead-lettered.                                                    *)
LEMMA GivenBack ==
  ASSUME Basic, Alone, NEW q \in Requests, msg[q] \in {"ready", "locked"},
         NEW s \in {"ready", "locked", "dead"},
         msg' = [msg EXCEPT ![q] = s],
         UNCHANGED <<rrun, status, evidence, posts, reported>>
  PROVE  [Review!Next]_(Review!vars)
<1>1. Sent(q) /\ rrun[q] \in Runs
  BY DEF Sent, Basic, Placed
<1>2. Moving(q, s)
  BY <1>1 DEF Moving, Alone, OneMessagePerRun
<1>3. /\ rrun[q] \in RunsIn({"ready", "locked"})
      /\ rrun[q] \notin RunsIn({"done"}) /\ rrun[q] \notin RunsIn({"dead"})
  BY <1>1, JobOf
<1>4. RunsIn({"done"})' = RunsIn({"done"})
  <2>1. RunsIn({"done"})' = RunsIn({"done"}) \ {rrun[q]}
    BY <1>2, JobsMove
  <2> QED
    BY <1>3, <2>1
<1>5. CASE s = "dead"
  <2>1. RunsIn({"ready", "locked"})' = RunsIn({"ready", "locked"}) \ {rrun[q]}
    BY <1>2, <1>5, JobsMove
  <2>2. RunsIn({"dead"})' = RunsIn({"dead"}) \cup {rrun[q]}
    BY <1>2, <1>5, JobsMove
  <2>3. Review!DeadLetter(rrun[q])
    BY <1>3, <1>4, <2>1, <2>2 DEF Review!DeadLetter, Review!record, Review!ado
  <2> QED
    BY <1>1, <2>3 DEF Review!Next
<1>6. CASE s # "dead"
  <2>1. RunsIn({"ready", "locked"})' = RunsIn({"ready", "locked"}) \cup {rrun[q]}
    BY <1>2, <1>6, JobsMove
  <2>2. RunsIn({"dead"})' = RunsIn({"dead"}) \ {rrun[q]}
    BY <1>2, <1>6, JobsMove
  <2> QED
    BY <1>3, <1>4, <2>1, <2>2 DEF Review!vars, Review!record, Review!queue, Review!ado
<1> QED
  BY <1>5, <1>6

(* What a worker that is busy knows of its run.                            *)
LEMMA AtWork ==
  ASSUME Basic, Alone, Settled, NEW w \in Workers, wpc[w] # "idle"
  PROVE  RunOf(w) \in Runs /\ RunOf(w) \in Review!Open
<1>1. /\ wmsg[w] \in Requests /\ Sent(wmsg[w])
      /\ RunOf(w) \in Runs /\ RunOf(w) = rrun[wmsg[w]]
  BY BusyWorker
<1>2. msg[wmsg[w]] \in {"ready", "locked", "dead"}
  BY <1>1 DEF Basic, TypeOK, Settled, Sent
<1> QED
  BY <1>1, <1>2, JobOf DEF Review!Open

IInv == Basic /\ Alone /\ Settled /\ Locked /\ Tracked /\ Due /\ AllRecorded /\ Fresh
        /\ Reporting

LEMMA GatewayFollows ==
  ASSUME Deployed, IInv, [Next]_vars, NEW q \in Requests, GatewayStep(q)
  PROVE  [Review!Next]_(Review!vars)
<1> USE DEF gatewayVars, recordVars, queueVars, workerVars, adoVars
<1>i. Basic /\ Alone /\ Settled /\ Tracked
  BY DEF IInv
<1>t. /\ status \in [Runs -> RunStatuses]
      /\ rpc[q] # "idle" => rrun[q] \in Runs
  BY <1>i DEF Basic, TypeOK, Placed
<1> DEFINE r == rrun[q]
<1>u. ASSUME rpc[q] \in {"enqueue", "failing"}
      PROVE  Review!Unsent(r) /\ \A p \in Requests : Sent(p) => rrun[p] # r
  <2>1. status[r] = "queued"
    BY <1>i, <1>u DEF Tracked, Awaited
  <2>2. \A p \in Requests : Sent(p) => rrun[p] # r
    BY <1>i, <1>u, ApartRuns
  <2>3. \A S : "none" \notin S => r \notin RunsIn(S)
    BY <2>2 DEF RunsIn, Sent
  <2> QED
    BY <2>1, <2>2, <2>3 DEF Review!Unsent, Review!Open
<1>1. ASSUME CheckExisting(q) \/ EnqueueFails(q) PROVE UNCHANGED Review!vars
  <2>1. UNCHANGED <<msg, status, evidence, posts, reported>>
    BY <1>1 DEF CheckExisting, EnqueueFails, Deployed
  <2> QED
    BY <1>i, <2>1, JobsStay, Unseen
<1>2. ASSUME RecordQueued(q) PROVE Review!Queue(r)
  <2>1. status[r] = "none" /\ r \in Runs
    BY <1>i, <1>t, <1>2 DEF RecordQueued, Tracked, Awaited
  <2>2. status' = [status EXCEPT ![r] = "queued"] /\ UNCHANGED <<msg, evidence, posts, reported>>
    BY <1>2, <2>1 DEF RecordQueued
  <2>3. JobsKept
    BY <1>i, <2>2, JobsStay
  <2> HIDE DEF r
  <2> QED
    BY <2>1, <2>2, <2>3 DEF JobsKept, Review!Queue, Review!queue, Review!ado
<1>3. ASSUME EnqueueJob(q) PROVE Review!Send(r)
  <2>1. /\ rpc[q] = "enqueue" /\ msg' = [msg EXCEPT ![q] = "ready"]
        /\ UNCHANGED <<rrun, status, evidence, posts, reported>>
    BY <1>3 DEF EnqueueJob
  <2>2. Review!Unsent(r) /\ Moving(q, "ready")
    BY <1>u, <2>1 DEF Moving
  <2>3. /\ RunsIn({"ready", "locked"})' = RunsIn({"ready", "locked"}) \cup {r}
        /\ RunsIn({"done"})' = RunsIn({"done"}) \ {r}
        /\ RunsIn({"dead"})' = RunsIn({"dead"}) \ {r}
    BY <1>i, <2>2, JobsMove
  <2> HIDE DEF r
  <2> QED
    BY <2>1, <2>2, <2>3 DEF Review!Send, Review!Unsent, Review!Open, Review!record, Review!ado
<1>4. ASSUME MarkEnqueueFailed(q) PROVE Review!Refuse(r)
  <2>1. /\ rpc[q] = "failing" /\ status' = [status EXCEPT ![r] = "enqueue_failed"]
        /\ UNCHANGED <<msg, evidence, posts, reported>>
    BY <1>4 DEF MarkEnqueueFailed
  <2>2. Review!Unsent(r) /\ JobsKept
    BY <1>i, <1>u, <2>1, JobsStay
  <2> HIDE DEF r
  <2> QED
    BY <2>1, <2>2 DEF JobsKept, Review!Refuse, Review!queue, Review!ado
<1>5. r \in Runs
  BY <1>t DEF GatewayStep, CheckExisting, RecordQueued, EnqueueJob, EnqueueFails, MarkEnqueueFailed
<1> HIDE DEF r
<1> QED
  BY <1>1, <1>2, <1>3, <1>4, <1>5 DEF GatewayStep, Review!Next

(* A worker posts comments of the result it recorded.                      *)
LEMMA DueStep == Basic /\ Due /\ [Next]_vars => Due'
<1> SUFFICES ASSUME Basic, Due, [Next]_vars, NEW w \in Workers, wpc'[w] = "posting"
             PROVE  wtodo'[w] \subseteq {Summary} \cup wresult'[w].found
  BY DEF Due
<1>t. /\ wpc \in [Workers -> WorkerStates] /\ wtodo \in [Workers -> SUBSET Items]
  BY DEF Basic, TypeOK
<1>1. CASE Still(w)
  BY <1>1 DEF Still, Due
<1>2. CASE ReadThreads(w)
  BY <1>2, <1>t DEF ReadThreads
<1>3. CASE SkipDisabled(w) \/ PostStatus(w)
  BY <1>3, <1>t DEF SkipDisabled, PostStatus
<1>4. ASSUME NEW x \in Items, Post(w, x)
      PROVE  wtodo'[w] \subseteq {Summary} \cup wresult'[w].found
  BY <1>4, <1>t DEF Post, NextComment, Due
<1> QED
  BY <1>1, <1>2, <1>3, <1>4, PublishingMoves

(* The comment due next: the summary, or a finding once the summary is     *)
(* there.                                                                  *)
LEMMA CommentFollows ==
  ASSUME Deployed, IInv, [Next]_vars, NEW w \in Workers, NEW x \in Items, Post(w, x)
  PROVE  /\ x \in Review!Comments(RunOf(w))
         /\ Review!Comment(RunOf(w), x)
<1> USE ConstantsAssumption
<1> DEFINE r == RunOf(w)
           p == PrOf[r]
           i == wresult[w].iter
<1>i. Basic /\ Alone /\ Settled /\ Tracked /\ Due /\ AllRecorded /\ Fresh
      /\ Reporting
  BY DEF IInv
<1>1. /\ wpc[w] = "posting" /\ x \in wtodo[w] /\ (Summary \in wtodo[w] => x = Summary)
      /\ AddThread(w, x)
      /\ UNCHANGED <<msg, status, evidence, reported>>
  BY DEF Post, NextComment, recordVars, queueVars
<1>2. r \in Runs /\ r \in Review!Open
  BY <1>i, <1>1, AtWork
<1>3. status[r] = "completed"
  BY <1>i, <1>1 DEF Tracked, StatusAt
<1>4. evidence[r] = wresult[w]
  BY <1>i, <1>1, <1>3 DEF AllRecorded, Recorded
<1>5. x \in Review!Comments(r)
  BY <1>i, <1>1, <1>4 DEF Due, Review!Comments
<1>6. Review!Threads(r)[x] = 0
  BY <1>i, <1>1, <1>4 DEF Fresh, Unposted, Threads, Review!Threads
<1>7. ASSUME x # Summary PROVE Review!Threads(r)[Summary] > 0
  BY <1>i, <1>1, <1>4, <1>7 DEF Reporting, Posted, Threads, Review!Threads
<1>8. posts' = [posts EXCEPT ![PrOf[r]][evidence[r].iter][x] = 1]
  <2>1. posts' = [posts EXCEPT ![p][i][x] = @ + 1]
    BY <1>1 DEF AddThread
  <2>2. posts[p][i][x] = 0
    BY <1>4, <1>6 DEF Review!Threads
  <2> QED
    BY <1>4, <2>1, <2>2
<1>9. JobsKept
  BY <1>i, <1>1, JobsStay
<1> HIDE DEF r, p, i
<1>10. Review!Comment(r, x)
  BY <1>1, <1>2, <1>3, <1>5, <1>6, <1>7, <1>8, <1>9
     DEF JobsKept, Review!Comment, Review!record, Review!queue
<1> QED
  BY <1>5, <1>10 DEF r

LEMMA WorkerFollows ==
  ASSUME Deployed, IInv, [Next]_vars, NEW w \in Workers, WorkerStep(w)
  PROVE  [Review!Next]_(Review!vars)
<1> USE ConstantsAssumption DEF gatewayVars, recordVars, queueVars, workerVars, adoVars
<1> DEFINE r == RunOf(w)
<1>i. Basic /\ Alone /\ Settled /\ Locked /\ Tracked /\ Due /\ AllRecorded /\ Fresh /\ Reporting
  BY DEF IInv
<1>b. wpc[w] # "idle"
  BY DEF WorkerStep, MarkRunning, SkipDisabled, Scan, RecordResult, ReadThreads, Post, PostAckLost,
         NextComment, PostStatus, CompleteMessage, Fail, MarkFailed, AbandonMessage
<1>r. r \in Runs /\ r \in Review!Open
  BY <1>b, <1>i, AtWork
<1>t. status \in [Runs -> RunStatuses] /\ wresult \in [Workers -> Results]
  BY <1>i DEF Basic, TypeOK
<1>k. UNCHANGED msg => JobsKept
  BY <1>i, JobsStay
<1>1. ASSUME MarkRunning(w) PROVE Review!Attempt(r)
  <2>1. /\ status' = [status EXCEPT ![r] = "running"]
        /\ UNCHANGED <<msg, evidence, posts, reported>>
    BY <1>1 DEF MarkRunning
  <2> HIDE DEF r
  <2> QED
    BY <1>r, <1>k, <2>1 DEF JobsKept, Review!Attempt, Review!queue, Review!ado
<1>2. ASSUME SkipDisabled(w) PROVE Review!Skip(r)
  <2>1. /\ status' = [status EXCEPT ![r] = "skipped_disabled"]
        /\ evidence' = [evidence EXCEPT ![r] = NoResult]
        /\ UNCHANGED <<msg, posts, reported>>
    BY <1>2 DEF SkipDisabled
  <2>2. status[r] = "running"
    BY <1>2, <1>i DEF SkipDisabled, Tracked, StatusAt
  <2> HIDE DEF r
  <2> QED
    BY <1>r, <1>k, <2>1, <2>2 DEF JobsKept, Review!Skip, Review!queue, Review!ado
<1>3. ASSUME RecordResult(w) PROVE Review!Complete(r)
  <2>1. /\ status' = [status EXCEPT ![r] = "completed"]
        /\ evidence' = [evidence EXCEPT ![r] = wresult[w]]
        /\ UNCHANGED <<msg, posts, reported>>
    BY <1>3 DEF RecordResult
  <2>2. status[r] = "running"
    BY <1>3, <1>i DEF RecordResult, Tracked, StatusAt
  <2>3. wresult[w] \in [iter: Iterations, found: SUBSET Findings]
    BY <1>3, <1>i, <1>t DEF RecordResult, Basic, Placed, Results
  <2> HIDE DEF r
  <2> QED
    BY <1>r, <1>k, <2>1, <2>2, <2>3 DEF JobsKept, Review!Complete, Review!queue, Review!ado
<1>4. ASSUME NEW x \in Items, Post(w, x) \/ PostAckLost(w, x)
      PROVE  x \in Review!Comments(r) /\ Review!Comment(r, x)
  BY <1>4, CommentFollows DEF PostAckLost, Deployed
<1>5. ASSUME PostStatus(w) PROVE Review!Report(r)
  <2>1. /\ wpc[w] = "posting" /\ wtodo[w] = {} /\ reported' = reported \cup {r}
        /\ UNCHANGED <<msg, status, evidence, posts>>
    BY <1>5 DEF PostStatus
  <2>2. status[r] = "completed"
    BY <1>i, <2>1 DEF Tracked, StatusAt
  <2>3. evidence[r] = wresult[w]
    BY <1>i, <2>1, <2>2 DEF AllRecorded, Recorded
  <2>4. Review!Shown(r)
    BY <1>i, <2>1, <2>3
       DEF Reporting, Posted, Threads, Review!Shown, Review!Comments, Review!Threads
  <2> HIDE DEF r
  <2> QED
    BY <1>r, <1>k, <2>1, <2>2, <2>4 DEF JobsKept, Review!Report, Review!record, Review!queue
<1>6. ASSUME CompleteMessage(w) PROVE Review!Acknowledge(r)
  <2> DEFINE q == wmsg[w]
  <2>1. /\ wpc[w] = "complete" /\ holder[q] = w /\ msg' = [msg EXCEPT ![q] = "done"]
        /\ UNCHANGED <<rrun, status, evidence, posts, reported>>
    BY <1>6 DEF CompleteMessage
  <2>2. q \in Requests /\ Sent(q) /\ r = rrun[q]
    BY <1>b, <1>i, BusyWorker
  <2>3. msg[q] = "locked"
    BY <1>i, <2>1, <2>2 DEF Locked
  <2>4. Moving(q, "done")
    BY <1>i, <2>1, <2>2 DEF Moving, Alone, OneMessagePerRun
  <2>5. r \in RunsIn({"ready", "locked"}) /\ r \notin RunsIn({"dead"})
    BY <1>i, <2>2, <2>3, JobOf
  <2>6. /\ RunsIn({"ready", "locked"})' = RunsIn({"ready", "locked"}) \ {r}
        /\ RunsIn({"done"})' = RunsIn({"done"}) \cup {r}
        /\ RunsIn({"dead"})' = RunsIn({"dead"})
    BY <1>i, <2>2, <2>4, <2>5, JobsMove
  <2>7. CASE wresult[w] = NoResult
    <3>1. status[r] = "skipped_disabled"
      BY <1>i, <2>1, <2>7 DEF Tracked, StatusAt
    <3> HIDE DEF r
    <3> QED
      BY <2>1, <2>5, <2>6, <3>1 DEF Review!Acknowledge, Review!record, Review!ado
  <2>8. CASE wresult[w] # NoResult
    <3>1. status[r] = "completed"
      BY <1>i, <2>1, <2>8 DEF Tracked, StatusAt
    <3>2. evidence[r] = wresult[w]
      BY <1>i, <2>1, <3>1 DEF AllRecorded, Recorded
    <3>3. Review!Shown(r) /\ r \in reported
      BY <1>i, <2>1, <2>8, <3>2
         DEF Reporting, ReportedBeforeComplete, Threads, Review!Shown, Review!Comments,
             Review!Threads
    <3> HIDE DEF r
    <3> QED
      BY <2>1, <2>5, <2>6, <3>1, <3>3 DEF Review!Acknowledge, Review!record, Review!ado
  <2> QED
    BY <2>7, <2>8
<1>7. ASSUME MarkFailed(w) PROVE Review!Fail(r)
  <2>1. /\ status' = [status EXCEPT ![r] = "failed"]
        /\ UNCHANGED <<msg, evidence, posts, reported>>
    BY <1>7 DEF MarkFailed
  <2> HIDE DEF r
  <2> QED
    BY <1>r, <1>k, <2>1 DEF JobsKept, Review!Fail, Review!queue, Review!ado
<1>8. ASSUME Scan(w) \/ ReadThreads(w) \/ Fail(w) PROVE UNCHANGED Review!vars
  <2>1. UNCHANGED <<msg, status, evidence, posts, reported>>
    BY <1>8 DEF Scan, ReadThreads, Fail
  <2> QED
    BY <1>k, <2>1, Unseen
<1>9. ASSUME AbandonMessage(w) PROVE [Review!Next]_(Review!vars)
  <2>1. UNCHANGED <<rrun, status, evidence, posts, reported>>
    BY <1>9 DEF AbandonMessage
  <2>2. CASE UNCHANGED msg
    BY <1>k, <2>1, <2>2, Unseen
  <2>3. CASE holder[wmsg[w]] = w
    <3>1. wmsg[w] \in Requests
      BY <1>b, <1>i, BusyWorker
    <3>2. msg[wmsg[w]] = "locked"
      BY <1>i, <2>3, <3>1 DEF Locked
    <3>3. /\ Released(wmsg[w]) \in {"ready", "locked", "dead"}
          /\ msg' = [msg EXCEPT ![wmsg[w]] = Released(wmsg[w])]
      BY <1>9, <2>3 DEF AbandonMessage, Released
    <3> QED
      BY <1>i, <2>1, <3>1, <3>2, <3>3, GivenBack
  <2> QED
    BY <1>9, <2>2, <2>3 DEF AbandonMessage
<1> HIDE DEF r
<1> QED
  BY <1>r, <1>1, <1>2, <1>3, <1>4, <1>5, <1>6, <1>7, <1>8, <1>9 DEF WorkerStep, Review!Next

LEMMA FollowsStep ==
  ASSUME Deployed
  PROVE  IInv /\ [Next]_vars => [Review!Next]_(Review!vars)
<1> SUFFICES ASSUME IInv, [Next]_vars PROVE [Review!Next]_(Review!vars)
  OBVIOUS
<1> USE DEF gatewayVars, recordVars, queueVars, workerVars, adoVars
<1>i. Basic /\ Alone /\ Settled /\ Tracked
  BY DEF IInv
<1>1. ASSUME UNCHANGED <<msg, status, evidence, posts, reported>>
      PROVE  UNCHANGED Review!vars
  BY <1>i, <1>1, JobsStay, Unseen
<1>2. ASSUME NEW q \in Requests,
             (\E e \in Events : Webhook(q, e)) \/ Rerun(q) \/ GatewayCrash(q)
      PROVE  UNCHANGED Review!vars
  BY <1>1, <1>2 DEF Webhook, Rerun, GatewayCrash
<1>3. ASSUME NEW q \in Requests,
             LockExpires(q) \/ MessageExpires(q) \/ \E w \in Workers : Receive(w, q)
      PROVE  [Review!Next]_(Review!vars)
  <2>1. /\ msg[q] \in {"ready", "locked"}
        /\ \E s \in {"ready", "locked", "dead"} : msg' = [msg EXCEPT ![q] = s]
        /\ UNCHANGED <<rrun, status, evidence, posts, reported>>
    BY <1>3 DEF LockExpires, MessageExpires, Receive, Released
  <2> QED
    BY <1>i, <2>1, GivenBack
<1>4. ASSUME NEW w \in Workers, WorkerCrash(w) PROVE UNCHANGED Review!vars
  BY <1>1, <1>4 DEF WorkerCrash
<1>5. CASE SetEnabled \/ (\E p \in PRs : Push(p)) \/ UNCHANGED vars
  BY <1>1, <1>5 DEF SetEnabled, Push, vars
<1> QED
  BY <1>2, <1>3, <1>4, <1>5, GatewayFollows, WorkerFollows DEF Next

LEMMA IInvStep ==
  ASSUME Deployed
  PROVE  IInv /\ Visible /\ [Next]_vars => IInv'
<1>1. Basic /\ [Next]_vars => Basic'
  BY TypeStep, DeliveriesStep, PlacedStep DEF Basic
<1> QED
  BY <1>1, AloneStep, SettledStep, LockedStep, TrackedStep, DueStep, RecordedStep, FreshStep,
     ReportingStep DEF IInv, Deployed

(* In the deployed configuration every step of gateway, queue and worker   *)
(* is a step that ReviewLifecycle allows to the run it serves, or changes  *)
(* nothing it speaks of.                                                   *)
THEOREM ImplementsReview ==
  ASSUME Deployed
  PROVE  Spec => FollowsReview
<1>1. Init => IInv /\ Visible
  <2> SUFFICES ASSUME Init PROVE IInv /\ Visible
    OBVIOUS
  <2>1. \A w \in Workers : wpc[w] = "idle"
    BY DEF Init
  <2>2. \A p \in PRs, i \in Iterations, x \in Items : posts[p][i][x] = 0
    BY DEF Init
  <2>3. Tracked /\ Due /\ Settled /\ Locked /\ Visible
    BY <2>1 DEF Init, Tracked, Awaited, Due, Settled, Locked, Visible, Sent
  <2>4. AllRecorded /\ Reporting
    BY <2>1 DEF AllRecorded, Recorded, Reporting, Posted, ReportedBeforeComplete
  <2>5. Fresh
    BY <2>1, <2>2 DEF Fresh, NoDuplicateThreads, Unposted
  <2> QED
    BY <2>3, <2>4, <2>5, InitBasic, InitAlone DEF IInv
<1>2. Init => Review!Init
  <2> SUFFICES ASSUME Init PROVE Review!Init
    OBVIOUS
  <2>1. \A S : "none" \notin S => RunsIn(S) = {}
    BY DEF Init, RunsIn
  <2> QED
    BY <2>1 DEF Init, Items, Review!Init
<1>3. IInv /\ Visible /\ [Next]_vars => IInv' /\ Visible'
  BY IInvStep, VisibleStep DEF IInv
<1>4. IInv /\ [Next]_vars => [Review!Next]_(Review!vars)
  BY FollowsStep
<1>5. Spec => Review!Spec
  BY <1>1, <1>2, <1>3, <1>4, PTL DEF Spec, Review!Spec
<1> QED
  BY <1>5 DEF FollowsReview
===============================================================================

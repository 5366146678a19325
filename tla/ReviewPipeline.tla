---------------------------- MODULE ReviewPipeline ----------------------------
(***************************************************************************)
(* One pull request event on its way through the system: the webhook       *)
(* gateway (webhook-receiver/app.py, the rerun handler of admin.py), the    *)
(* review records of the control plane (prsa_control/store.py), the        *)
(* Service Bus queue, the worker (orchestrator/orchestrator.py) and the     *)
(* comment threads it leaves on the pull request (reporter.py).            *)
(*                                                                         *)
(* A step is one call that another process can observe: one method of the  *)
(* control plane, one queue operation, one request to Azure DevOps.        *)
(***************************************************************************)
EXTENDS Naturals, FiniteSets

CONSTANTS
  Requests,        \* HTTP requests to the gateway; each is served once
  Events,          \* Azure DevOps events, by event id: the id fixes the run id
  UpdatedEvents,   \* those of type git.pullrequest.updated
  PRs,             \* pull requests
  PrOf,            \* the pull request of a run
  Findings,        \* fingerprints of the findings with an inline position
  Summary,         \* the summary comment, which carries the bare marker
  Workers,         \* executions of the Container Apps job
  NoRun, NoMsg, NoWorker,
  SerialGateway,   \* TRUE: the container gateway; FALSE: the Function App
  ReviewOnUpdated, \* the setting review_on_updated
  MaxDelivery,     \* maxDeliveryCount of the queue
  MaxIteration,    \* bound: pushes to a pull request
  MaxRetries,      \* max_retries of the reporter
  Faults           \* the faults of the environment that a run may meet

AllFaults == {"gateway_crash", "worker_crash", "lock_expiry", "ttl",
              "lost_ack", "ambiguous_send"}

(***************************************************************************)
(* A run id is the hash of the event's fields; a manual rerun makes a      *)
(* fresh event id, so that its run is named by the request itself.         *)
(***************************************************************************)
Runs  == Events \cup Requests
Items == Findings \cup {Summary}

ASSUME ConstantsAssumption ==
  /\ UpdatedEvents \subseteq Events
  /\ Events \cap Requests = {}
  /\ NoRun \notin Runs
  /\ NoMsg \notin Requests
  /\ NoWorker \notin Workers
  /\ Summary \notin Findings
  /\ PrOf \in [Runs -> PRs]
  /\ SerialGateway \in BOOLEAN
  /\ ReviewOnUpdated \in BOOLEAN
  /\ MaxDelivery \in Nat \ {0}
  /\ MaxIteration \in Nat \ {0}
  /\ MaxRetries \in Nat
  /\ Faults \subseteq AllFaults

VARIABLES
  enabled,    \* review_enabled_for: the administrator's switch
  iteration,  \* latest iteration of each pull request
  rpc,        \* control state of each request
  rrun,       \* run id of each request
  status,     \* status of each run's record, "none" before it exists
  attempts,   \* attempts of each run's record
  evidence,   \* iteration and findings stored in the record
  msg,        \* queue state of the message of each request
  deliveries, \* delivery count of that message
  holder,     \* worker that holds its lock
  wpc,        \* control state of each worker
  wmsg,       \* message a worker received
  wresult,    \* iteration and findings of the review a worker computed
  wtodo,      \* comments a worker still has to post
  wtries,     \* retries used for the current comment
  posts,      \* threads per pull request, iteration and comment
  reported    \* runs whose commit status was posted

gatewayVars == <<rpc, rrun>>
recordVars  == <<status, attempts, evidence>>
queueVars   == <<msg, deliveries, holder>>
workerVars  == <<wpc, wmsg, wresult, wtodo, wtries>>
adoVars     == <<iteration, posts, reported>>
vars == <<enabled, gatewayVars, recordVars, queueVars, workerVars, adoVars>>

Iterations == 1..MaxIteration
Results    == [iter: Iterations \cup {0}, found: SUBSET Findings]
NoResult   == [iter |-> 0, found |-> {}]

InFlight == {"check", "record", "enqueue", "failing"}
Answered == {"accepted", "duplicate", "unavailable", "ignored", "lost"}
RunStatuses == {"none", "queued", "enqueue_failed", "running", "failed",
                "completed", "skipped_disabled"}
WorkerStates == {"idle", "received", "started", "record", "publish",
                 "posting", "complete", "failing", "abandon"}

(***************************************************************************)
(* TYPE INVARIANT.  The delivery count of a message never exceeds the      *)
(* queue's maxDeliveryCount.                                               *)
(***************************************************************************)
TypeOK ==
  /\ enabled \in BOOLEAN
  /\ iteration \in [PRs -> Iterations]
  /\ rpc \in [Requests -> {"idle"} \cup InFlight \cup Answered]
  /\ rrun \in [Requests -> Runs \cup {NoRun}]
  /\ status \in [Runs -> RunStatuses]
  /\ attempts \in [Runs -> Nat]
  /\ evidence \in [Runs -> Results]
  /\ msg \in [Requests -> {"none", "ready", "locked", "done", "dead"}]
  /\ deliveries \in [Requests -> 0..MaxDelivery]
  /\ holder \in [Requests -> Workers \cup {NoWorker}]
  /\ wpc \in [Workers -> WorkerStates]
  /\ wmsg \in [Workers -> Requests \cup {NoMsg}]
  /\ wresult \in [Workers -> Results]
  /\ wtodo \in [Workers -> SUBSET Items]
  /\ wtries \in [Workers -> 0..MaxRetries]
  /\ posts \in [PRs -> [Iterations -> [Items -> Nat]]]
  /\ reported \subseteq Runs

Init ==
  /\ enabled = TRUE
  /\ iteration = [p \in PRs |-> 1]
  /\ rpc = [q \in Requests |-> "idle"]
  /\ rrun = [q \in Requests |-> NoRun]
  /\ status = [r \in Runs |-> "none"]
  /\ attempts = [r \in Runs |-> 0]
  /\ evidence = [r \in Runs |-> NoResult]
  /\ msg = [q \in Requests |-> "none"]
  /\ deliveries = [q \in Requests |-> 0]
  /\ holder = [q \in Requests |-> NoWorker]
  /\ wpc = [w \in Workers |-> "idle"]
  /\ wmsg = [w \in Workers |-> NoMsg]
  /\ wresult = [w \in Workers |-> NoResult]
  /\ wtodo = [w \in Workers |-> {}]
  /\ wtries = [w \in Workers |-> 0]
  /\ posts = [p \in PRs |-> [i \in Iterations |-> [x \in Items |-> 0]]]
  /\ reported = {}
-------------------------------------------------------------------------------
(***************************************************************************)
(* The gateway.  handler() and rerun() share queue_review_job().           *)
(***************************************************************************)

(* The container gateway runs one handler at a time on its event loop.     *)
MayServe(q) ==
  /\ rpc[q] = "idle"
  /\ SerialGateway => \A p \in Requests : rpc[p] \notin InFlight

Accepts(e) == e \in UpdatedEvents => ReviewOnUpdated

Webhook(q, e) ==
  /\ MayServe(q)
  /\ rrun' = [rrun EXCEPT ![q] = e]
  /\ rpc' = [rpc EXCEPT ![q] = IF Accepts(e) /\ enabled THEN "check" ELSE "ignored"]
  /\ UNCHANGED <<enabled, recordVars, queueVars, workerVars, adoVars>>

(* A rerun replays the job of an existing record under a fresh event id;   *)
(* it does not ask whether the repository is enabled.                      *)
Rerun(q) ==
  /\ MayServe(q)
  /\ \E r \in Runs : status[r] # "none" /\ PrOf[r] = PrOf[q]
  /\ rrun' = [rrun EXCEPT ![q] = q]
  /\ rpc' = [rpc EXCEPT ![q] = "check"]
  /\ UNCHANGED <<enabled, recordVars, queueVars, workerVars, adoVars>>

(* Wrong variant: goes to the queue before the record is written.          *)
CheckExistingAfterwards(q) ==
  /\ rpc[q] = "check"
  /\ rpc' = [rpc EXCEPT ![q] =
               IF status[rrun[q]] = "none" THEN "enqueue" ELSE "duplicate"]
  /\ UNCHANGED <<enabled, rrun, recordVars, queueVars, workerVars, adoVars>>

(* Wrong variant: only unfinished runs count as duplicates.                *)
CheckExistingUnfinished(q) ==
  /\ rpc[q] = "check"
  /\ rpc' = [rpc EXCEPT ![q] =
               IF status[rrun[q]] \in {"queued", "running"} THEN "duplicate" ELSE "record"]
  /\ UNCHANGED <<enabled, rrun, recordVars, queueVars, workerVars, adoVars>>

(* Any record of the run, whatever its status, makes the request a         *)
(* duplicate.                                                              *)
CheckExisting(q) ==
  /\ rpc[q] = "check"
  /\ rpc' = [rpc EXCEPT ![q] =
               IF status[rrun[q]] = "none" THEN "record" ELSE "duplicate"]
  /\ UNCHANGED <<enabled, rrun, recordVars, queueVars, workerVars, adoVars>>

(* record_review_queued leaves an existing record alone.                   *)
RecordQueued(q) ==
  /\ rpc[q] = "record"
  /\ status' = [status EXCEPT ![rrun[q]] = IF @ = "none" THEN "queued" ELSE @]
  /\ rpc' = [rpc EXCEPT ![q] = "enqueue"]
  /\ UNCHANGED <<enabled, rrun, attempts, evidence, queueVars, workerVars, adoVars>>

EnqueueJob(q) ==
  /\ rpc[q] = "enqueue"
  /\ msg' = [msg EXCEPT ![q] = "ready"]
  /\ rpc' = [rpc EXCEPT ![q] = "accepted"]
  /\ UNCHANGED <<enabled, rrun, recordVars, deliveries, holder, workerVars, adoVars>>

(* send_messages raised: the broker has not got the message or, when the   *)
(* acknowledgement was lost, it has.                                       *)
EnqueueFails(q) ==
  /\ rpc[q] = "enqueue"
  /\ \/ UNCHANGED msg
     \/ "ambiguous_send" \in Faults /\ msg' = [msg EXCEPT ![q] = "ready"]
  /\ rpc' = [rpc EXCEPT ![q] = "failing"]
  /\ UNCHANGED <<enabled, rrun, recordVars, deliveries, holder, workerVars, adoVars>>

(* mark_review_failed(enqueue_failed=True) writes over whatever is there.  *)
MarkEnqueueFailed(q) ==
  /\ rpc[q] = "failing"
  /\ status' = [status EXCEPT ![rrun[q]] = "enqueue_failed"]
  /\ rpc' = [rpc EXCEPT ![q] = "unavailable"]
  /\ UNCHANGED <<enabled, rrun, attempts, evidence, queueVars, workerVars, adoVars>>

GatewayCrash(q) ==
  /\ "gateway_crash" \in Faults
  /\ rpc[q] \in InFlight
  /\ rpc' = [rpc EXCEPT ![q] = "lost"]
  /\ UNCHANGED <<enabled, rrun, recordVars, queueVars, workerVars, adoVars>>
-------------------------------------------------------------------------------
(***************************************************************************)
(* The queue: peek-lock delivery with a delivery limit.                    *)
(***************************************************************************)
(* Wrong variant: no delivery limit.                                       *)
ReleasedForever(q) == "ready"

(* A message given back is redelivered until its delivery count is used up.*)
Released(q) == IF deliveries[q] >= MaxDelivery THEN "dead" ELSE "ready"

(* Without the fault "lock_expiry" reviews end within lockDuration: only   *)
(* the lock of an execution that is gone expires.                          *)
LockExpires(q) ==
  /\ msg[q] = "locked"
  /\ "lock_expiry" \in Faults \/ wmsg[holder[q]] # q
  /\ msg' = [msg EXCEPT ![q] = Released(q)]
  /\ holder' = [holder EXCEPT ![q] = NoWorker]
  /\ UNCHANGED <<enabled, gatewayVars, recordVars, deliveries, workerVars, adoVars>>

(* deadLetteringOnMessageExpiration                                        *)
MessageExpires(q) ==
  /\ "ttl" \in Faults
  /\ msg[q] = "ready"
  /\ msg' = [msg EXCEPT ![q] = "dead"]
  /\ UNCHANGED <<enabled, gatewayVars, recordVars, deliveries, holder, workerVars, adoVars>>
-------------------------------------------------------------------------------
(***************************************************************************)
(* The worker: run_once, handle_message, process_job, process_review and   *)
(* the reporter's publish.                                                 *)
(***************************************************************************)
RunOf(w) == rrun[wmsg[w]]
Threads(w) == posts[PrOf[RunOf(w)]][wresult[w].iter]

(* Wrong variant: the delivery is not counted.                             *)
ReceiveUncounted(w, q) ==
  /\ wpc[w] = "idle"
  /\ msg[q] = "ready"
  /\ msg' = [msg EXCEPT ![q] = "locked"]
  /\ holder' = [holder EXCEPT ![q] = w]
  /\ wpc' = [wpc EXCEPT ![w] = "received"]
  /\ wmsg' = [wmsg EXCEPT ![w] = q]
  /\ UNCHANGED <<enabled, gatewayVars, recordVars, deliveries, wresult, wtodo, wtries, adoVars>>

Receive(w, q) ==
  /\ wpc[w] = "idle"
  /\ msg[q] = "ready"
  /\ msg' = [msg EXCEPT ![q] = "locked"]
  /\ deliveries' = [deliveries EXCEPT ![q] = @ + 1]
  /\ holder' = [holder EXCEPT ![q] = w]
  /\ wpc' = [wpc EXCEPT ![w] = "received"]
  /\ wmsg' = [wmsg EXCEPT ![w] = q]
  /\ UNCHANGED <<enabled, gatewayVars, recordVars, wresult, wtodo, wtries, adoVars>>

MarkRunning(w) ==
  /\ wpc[w] = "received"
  /\ status' = [status EXCEPT ![RunOf(w)] = "running"]
  /\ attempts' = [attempts EXCEPT ![RunOf(w)] = @ + 1]
  /\ wpc' = [wpc EXCEPT ![w] = "started"]
  /\ UNCHANGED <<enabled, gatewayVars, evidence, queueVars,
                 wmsg, wresult, wtodo, wtries, adoVars>>

SkipDisabled(w) ==
  /\ wpc[w] = "started"
  /\ ~enabled
  /\ status' = [status EXCEPT ![RunOf(w)] = "skipped_disabled"]
  /\ evidence' = [evidence EXCEPT ![RunOf(w)] = NoResult]
  /\ wpc' = [wpc EXCEPT ![w] = "complete"]
  /\ wresult' = [wresult EXCEPT ![w] = NoResult]
  /\ UNCHANGED <<enabled, gatewayVars, attempts, queueVars, wmsg, wtodo, wtries, adoVars>>

(* fetch_diff, the scan and the triage.  What is found depends on the code *)
(* and on controls that administrators change: any set of findings.        *)
Scan(w) ==
  /\ wpc[w] = "started"
  /\ enabled
  /\ \E found \in SUBSET Findings :
       wresult' = [wresult EXCEPT ![w] =
                     [iter |-> iteration[PrOf[RunOf(w)]], found |-> found]]
  /\ wpc' = [wpc EXCEPT ![w] = "record"]
  /\ UNCHANGED <<enabled, gatewayVars, recordVars, queueVars, wmsg, wtodo, wtries, adoVars>>

(* Wrong variant: acknowledges without calling the reporter.               *)
RecordResultUnpublished(w) ==
  /\ wpc[w] = "record"
  /\ status' = [status EXCEPT ![RunOf(w)] = "completed"]
  /\ evidence' = [evidence EXCEPT ![RunOf(w)] = wresult[w]]
  /\ wpc' = [wpc EXCEPT ![w] = "complete"]
  /\ UNCHANGED <<enabled, gatewayVars, attempts, queueVars, wmsg, wresult, wtodo, wtries, adoVars>>

(* The record says completed before the reporter is called.                *)
RecordResult(w) ==
  /\ wpc[w] = "record"
  /\ status' = [status EXCEPT ![RunOf(w)] = "completed"]
  /\ evidence' = [evidence EXCEPT ![RunOf(w)] = wresult[w]]
  /\ wpc' = [wpc EXCEPT ![w] = "publish"]
  /\ UNCHANGED <<enabled, gatewayVars, attempts, queueVars, wmsg, wresult, wtodo, wtries, adoVars>>

(* Wrong variant: posts without looking for the markers.                   *)
ReadThreadsBlindly(w) ==
  /\ wpc[w] = "publish"
  /\ wtodo' = [wtodo EXCEPT ![w] = {Summary} \cup wresult[w].found]
  /\ wpc' = [wpc EXCEPT ![w] = "posting"]
  /\ UNCHANGED <<enabled, gatewayVars, recordVars, queueVars, wmsg, wresult, wtries, adoVars>>

(* The threads are read once; a comment is due when no thread of this      *)
(* iteration carries its marker.                                           *)
ReadThreads(w) ==
  /\ wpc[w] = "publish"
  /\ wtodo' = [wtodo EXCEPT ![w] =
                 {x \in {Summary} \cup wresult[w].found : Threads(w)[x] = 0}]
  /\ wpc' = [wpc EXCEPT ![w] = "posting"]
  /\ UNCHANGED <<enabled, gatewayVars, recordVars, queueVars, wmsg, wresult, wtries, adoVars>>

(* The summary goes first, then the inline comments.                       *)
NextComment(w, x) ==
  /\ wpc[w] = "posting"
  /\ x \in wtodo[w]
  /\ Summary \in wtodo[w] => x = Summary

AddThread(w, x) ==
  posts' = [posts EXCEPT ![PrOf[RunOf(w)]][wresult[w].iter][x] = @ + 1]

Post(w, x) ==
  /\ NextComment(w, x)
  /\ AddThread(w, x)
  /\ wtodo' = [wtodo EXCEPT ![w] = @ \ {x}]
  /\ wtries' = [wtries EXCEPT ![w] = 0]
  /\ UNCHANGED <<enabled, iteration, reported, gatewayVars, recordVars, queueVars,
                 wpc, wmsg, wresult>>

(* Azure DevOps made the thread but the answer was lost: _request sends    *)
(* the POST again, or gives up when the retries are used.                  *)
PostAckLost(w, x) ==
  /\ "lost_ack" \in Faults
  /\ NextComment(w, x)
  /\ AddThread(w, x)
  /\ IF wtries[w] < MaxRetries
       THEN wtries' = [wtries EXCEPT ![w] = @ + 1] /\ UNCHANGED wpc
       ELSE wpc' = [wpc EXCEPT ![w] = "failing"] /\ UNCHANGED wtries
  /\ UNCHANGED <<enabled, iteration, reported, gatewayVars, recordVars, queueVars,
                 wmsg, wresult, wtodo>>

(* Wrong variant: the commit status does not wait for the comments.        *)
PostStatusEarly(w) ==
  /\ wpc[w] = "posting"
  /\ reported' = reported \cup {RunOf(w)}
  /\ wpc' = [wpc EXCEPT ![w] = "complete"]
  /\ UNCHANGED <<enabled, iteration, posts, gatewayVars, recordVars, queueVars,
                 wmsg, wresult, wtodo, wtries>>

PostStatus(w) ==
  /\ wpc[w] = "posting"
  /\ wtodo[w] = {}
  /\ reported' = reported \cup {RunOf(w)}
  /\ wpc' = [wpc EXCEPT ![w] = "complete"]
  /\ UNCHANGED <<enabled, iteration, posts, gatewayVars, recordVars, queueVars,
                 wmsg, wresult, wtodo, wtries>>

GoIdle(w) ==
  /\ wpc' = [wpc EXCEPT ![w] = "idle"]
  /\ wmsg' = [wmsg EXCEPT ![w] = NoMsg]
  /\ wresult' = [wresult EXCEPT ![w] = NoResult]
  /\ wtodo' = [wtodo EXCEPT ![w] = {}]
  /\ wtries' = [wtries EXCEPT ![w] = 0]

CompleteMessage(w) ==
  /\ wpc[w] = "complete"
  /\ holder[wmsg[w]] = w
  /\ msg' = [msg EXCEPT ![wmsg[w]] = "done"]
  /\ holder' = [holder EXCEPT ![wmsg[w]] = NoWorker]
  /\ GoIdle(w)
  /\ UNCHANGED <<enabled, gatewayVars, recordVars, deliveries, adoVars>>

(* Any exception, complete_message on a lost lock among them.              *)
Fail(w) ==
  /\ wpc[w] \in {"received", "started", "record", "publish", "posting", "complete"}
  /\ wpc' = [wpc EXCEPT ![w] = "failing"]
  /\ UNCHANGED <<enabled, gatewayVars, recordVars, queueVars,
                 wmsg, wresult, wtodo, wtries, adoVars>>

(* Wrong variant: abandons the message without marking the run.            *)
MarkFailedNever(w) ==
  /\ wpc[w] = "failing"
  /\ wpc' = [wpc EXCEPT ![w] = "abandon"]
  /\ UNCHANGED <<enabled, gatewayVars, recordVars, queueVars,
                 wmsg, wresult, wtodo, wtries, adoVars>>

(* mark_review_failed, over a completed record too.                        *)
MarkFailed(w) ==
  /\ wpc[w] = "failing"
  /\ status' = [status EXCEPT ![RunOf(w)] = "failed"]
  /\ wpc' = [wpc EXCEPT ![w] = "abandon"]
  /\ UNCHANGED <<enabled, gatewayVars, attempts, evidence, queueVars,
                 wmsg, wresult, wtodo, wtries, adoVars>>

(* abandon_message, which raises when the lock was lost; the process exits *)
(* either way.                                                             *)
AbandonMessage(w) ==
  /\ wpc[w] = "abandon"
  /\ IF holder[wmsg[w]] = w
       THEN /\ msg' = [msg EXCEPT ![wmsg[w]] = Released(wmsg[w])]
            /\ holder' = [holder EXCEPT ![wmsg[w]] = NoWorker]
       ELSE UNCHANGED <<msg, holder>>
  /\ GoIdle(w)
  /\ UNCHANGED <<enabled, gatewayVars, recordVars, deliveries, adoVars>>

(* replicaTimeout, eviction, out of memory: the execution is killed.       *)
WorkerCrash(w) ==
  /\ "worker_crash" \in Faults
  /\ wpc[w] # "idle"
  /\ GoIdle(w)
  /\ UNCHANGED <<enabled, gatewayVars, recordVars, queueVars, adoVars>>
-------------------------------------------------------------------------------
(***************************************************************************)
(* The people: an administrator switches the repository on and off, an     *)
(* author pushes a new iteration.                                          *)
(***************************************************************************)
SetEnabled ==
  /\ enabled' = ~enabled
  /\ UNCHANGED <<gatewayVars, recordVars, queueVars, workerVars, adoVars>>

Push(p) ==
  /\ iteration[p] < MaxIteration
  /\ iteration' = [iteration EXCEPT ![p] = @ + 1]
  /\ UNCHANGED <<enabled, posts, reported, gatewayVars, recordVars, queueVars, workerVars>>

GatewayStep(q) ==
  \/ CheckExisting(q)
  \/ RecordQueued(q)
  \/ EnqueueJob(q)
  \/ EnqueueFails(q)
  \/ MarkEnqueueFailed(q)

WorkerStep(w) ==
  \/ MarkRunning(w)
  \/ SkipDisabled(w)
  \/ Scan(w)
  \/ RecordResult(w)
  \/ ReadThreads(w)
  \/ \E x \in Items : Post(w, x) \/ PostAckLost(w, x)
  \/ PostStatus(w)
  \/ CompleteMessage(w)
  \/ Fail(w)
  \/ MarkFailed(w)
  \/ AbandonMessage(w)

Next ==
  \/ \E q \in Requests :
       \/ \E e \in Events : Webhook(q, e)
       \/ Rerun(q)
       \/ GatewayStep(q)
       \/ GatewayCrash(q)
       \/ LockExpires(q)
       \/ MessageExpires(q)
  \/ \E w \in Workers :
       \/ \E q \in Requests : Receive(w, q)
       \/ WorkerStep(w)
       \/ WorkerCrash(w)
  \/ SetEnabled
  \/ \E p \in PRs : Push(p)

Spec == Init /\ [][Next]_vars

(***************************************************************************)
(* Fairness.  A request in service gets on, an execution that is not       *)
(* killed gets on, KEDA starts an execution while the queue is not empty,  *)
(* and the broker gives an unsettled lock back after lockDuration.         *)
(***************************************************************************)
Fairness ==
  /\ \A q \in Requests : WF_vars(GatewayStep(q)) /\ WF_vars(LockExpires(q))
  /\ \A w \in Workers :
       WF_vars(\E q \in Requests : Receive(w, q)) /\ WF_vars(WorkerStep(w))

FairSpec == Spec /\ Fairness
-------------------------------------------------------------------------------
(***************************************************************************)
(* PROPERTIES                                                              *)
(***************************************************************************)
Sent(q) == msg[q] # "none"

(* A message is on the queue only for a run that the monitoring page       *)
(* shows: record_review_queued comes before send_messages.                 *)
RunsAreVisible == \A q \in Requests : Sent(q) => status[rrun[q]] # "none"

(* Webhook deliveries of one event put at most one message on the queue,   *)
(* whatever became of the first one.                                       *)
OneMessagePerRun ==
  \A p, q \in Requests : p # q /\ Sent(p) /\ Sent(q) => rrun[p] # rrun[q]

(* No comment is on the pull request twice for the same iteration, with    *)
(* redeliveries, reruns and crashes in the middle of a publication.        *)
NoDuplicateThreads ==
  \A p \in PRs, i \in Iterations, x \in Items : posts[p][i][x] <= 1

(* A worker about to acknowledge its message has every comment of the      *)
(* result it recorded on the pull request and the run's commit status, or  *)
(* it skipped a disabled repository.                                       *)
ReportedBeforeComplete ==
  \A w \in Workers :
    wpc[w] = "complete" =>
      \/ wresult[w] = NoResult
      \/ /\ RunOf(w) \in reported
         /\ \A x \in {Summary} \cup wresult[w].found : Threads(w)[x] > 0

(* When a message is gone for good as done, what the run's record says it  *)
(* found is what the pull request shows.                                   *)
EvidenceIsPublished ==
  \A q \in Requests :
    msg[q] = "done" /\ status[rrun[q]] = "completed" =>
      \A x \in {Summary} \cup evidence[rrun[q]].found :
        posts[PrOf[rrun[q]]][evidence[rrun[q]].iter][x] > 0

(* The attempts shown for a run never exceed the deliveries of its message.*)
AttemptsAreDeliveries ==
  \A q \in Requests : Sent(q) => attempts[rrun[q]] <= deliveries[q]

(* Once its message is acknowledged the record of a run is final: a        *)
(* webhook redelivery, a rerun or a late failure never reopens it.         *)
AcknowledgedIsFinal ==
  [][\A q \in Requests : msg[q] = "done" =>
       status'[rrun[q]] = status[rrun[q]] /\ evidence'[rrun[q]] = evidence[rrun[q]]]_vars

(* Every message put on the queue is in the end acknowledged or            *)
(* dead-lettered: no crash, lock loss or failure loops for ever.           *)
MessagesSettle ==
  \A q \in Requests : Sent(q) ~> msg[q] \in {"done", "dead"}

(* While no execution is killed and no message expires, a message that     *)
(* goes to the dead-letter queue leaves a run that the dashboard counts as *)
(* failed, whichever side was the last to write its record.                *)
DeadLettersAreFailures ==
  \A q \in Requests :
    msg[q] = "dead" ~> \E r \in Runs : rrun[q] = r /\ status[r] \in {"failed", "enqueue_failed"}

(* A redelivery answered as a duplicate has a message of its run on the    *)
(* queue, now or before.                                                   *)
DuplicatesWereQueued ==
  \A q \in Requests : rpc[q] = "duplicate" =>
    \E p \in Requests : Sent(p) /\ rrun[p] = rrun[q]

(* Where the jobs are, by run: at most one message of a run is anywhere.   *)
RunsIn(places) == {rrun[q] : q \in {p \in Requests : msg[p] \in places}}

Review == INSTANCE ReviewLifecycle WITH
            waiting <- RunsIn({"ready", "locked"}),
            acknowledged <- RunsIn({"done"}),
            dead <- RunsIn({"dead"})

(* Every step keeps the promise of ReviewLifecycle about the run it serves,*)
(* through redelivered events, lost locks, kills and failures: nothing is  *)
(* shown that the record does not say, nothing twice, and nothing is       *)
(* acknowledged too early or touched afterwards.                           *)
FollowsReview == Review!Spec
===============================================================================

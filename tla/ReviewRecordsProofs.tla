-------------------------- MODULE ReviewRecordsProofs --------------------------
(***************************************************************************)
(* Proofs about what the review record of ReviewPipeline says: how often a *)
(* run was attempted, and what it found.                                   *)
(***************************************************************************)
EXTENDS ReviewPipelineProofs, FiniteSetTheorems

(***************************************************************************)
(* ATTEMPTS.  Workers that received the message of a request and have not  *)
(* marked its run as running: there may be several once a lock expired.    *)
(***************************************************************************)
Marking(q) == {w \in Workers : wpc[w] = "received" /\ wmsg[w] = q}

(* A run without a message was never attempted, and every attempt, made or *)
(* about to be recorded, has a delivery of its own.                        *)
Unsent(r) == \A q \in Requests : Sent(q) => rrun[q] # r

Counted ==
  /\ \A r \in Runs : Unsent(r) => attempts[r] = 0
  /\ \A q \in Requests : Sent(q) => attempts[rrun[q]] + Cardinality(Marking(q)) <= deliveries[q]

(* A step that neither attempts, delivers nor sends.                       *)
Quiet ==
  /\ UNCHANGED <<attempts, deliveries>>
  /\ \A q \in Requests : Sent(q)' <=> Sent(q)
  /\ \A q \in Requests : Sent(q) => rrun'[q] = rrun[q]
  /\ \A w \in Workers : wpc'[w] = "received" => wpc[w] = "received" /\ wmsg'[w] = wmsg[w]

Sending(q) ==
  /\ rpc[q] = "enqueue" /\ msg' = [msg EXCEPT ![q] = "ready"]
  /\ UNCHANGED <<attempts, deliveries, rrun, wpc, wmsg>>

LEMMA AttemptMoves ==
  ASSUME Basic, [Next]_vars
  PROVE  \/ Quiet
         \/ \E q \in Requests : Sending(q)
         \/ \E w \in Workers, q \in Requests : Receive(w, q)
         \/ \E w \in Workers : MarkRunning(w)
<1>t. /\ rrun \in [Requests -> Runs \cup {NoRun}]
      /\ msg \in [Requests -> {"none", "ready", "locked", "done", "dead"}]
      /\ wpc \in [Workers -> WorkerStates] /\ wmsg \in [Workers -> Requests \cup {NoMsg}]
      /\ \A q \in Requests : rpc[q] = "idle" => ~Sent(q)
      /\ \A w \in Workers : wpc[w] # "idle" => wmsg[w] \in Requests /\ Sent(wmsg[w])
  BY DEF Basic, TypeOK, Placed, Sent
<1> USE DEF gatewayVars, recordVars, queueVars, workerVars, adoVars
(* Only the request, and its run, changes at the gateway.                  *)
<1>1. ASSUME NEW q \in Requests,
             \/ \E e \in Events : Webhook(q, e)
             \/ Rerun(q) \/ CheckExisting(q) \/ RecordQueued(q) \/ MarkEnqueueFailed(q)
             \/ GatewayCrash(q)
      PROVE  Quiet
  <2>1. /\ UNCHANGED <<attempts, deliveries, msg, wpc, wmsg>>
        /\ \/ UNCHANGED rrun
           \/ rpc[q] = "idle" /\ \E r : rrun' = [rrun EXCEPT ![q] = r]
    BY <1>1 DEF Webhook, Rerun, MayServe, CheckExisting, RecordQueued, MarkEnqueueFailed,
                GatewayCrash
  <2> QED
    BY <1>t, <2>1 DEF Quiet, Sent
<1>2. ASSUME NEW q \in Requests, EnqueueJob(q) \/ EnqueueFails(q)
      PROVE  Quiet \/ Sending(q)
  BY <1>2 DEF EnqueueJob, EnqueueFails, Quiet, Sending, Sent
<1>3. ASSUME NEW q \in Requests, LockExpires(q) \/ MessageExpires(q)
      PROVE  Quiet
  <2>1. /\ UNCHANGED <<attempts, deliveries, rrun, wpc, wmsg>> /\ Sent(q)
        /\ \E s \in {"ready", "dead"} : msg' = [msg EXCEPT ![q] = s]
    BY <1>3 DEF LockExpires, MessageExpires, Released, Sent
  <2> QED
    BY <1>t, <2>1 DEF Quiet, Sent
(* A worker that goes on, or stops, leaves its delivery behind.            *)
<1>4. ASSUME NEW w \in Workers, UNCHANGED <<attempts, deliveries, msg, rrun>>,
             \E s \in WorkerStates \ {"received"} : wpc' = [wpc EXCEPT ![w] = s],
             UNCHANGED wmsg \/ wmsg' = [wmsg EXCEPT ![w] = NoMsg]
      PROVE  Quiet
  BY <1>4, <1>t DEF Quiet, Sent
<1>5. ASSUME NEW w \in Workers,
             SkipDisabled(w) \/ Scan(w) \/ RecordResult(w) \/ ReadThreads(w) \/ PostStatus(w)
      PROVE  Quiet
  BY <1>4, <1>5 DEF SkipDisabled, Scan, RecordResult, ReadThreads, PostStatus, WorkerStates
<1>6. ASSUME NEW w \in Workers, Fail(w) \/ MarkFailed(w) \/ WorkerCrash(w)
      PROVE  Quiet
  BY <1>4, <1>6 DEF Fail, MarkFailed, WorkerCrash, GoIdle, WorkerStates
<1>7. ASSUME NEW w \in Workers, NEW x \in Items, Post(w, x) \/ PostAckLost(w, x)
      PROVE  Quiet
  <2>1. /\ UNCHANGED <<attempts, deliveries, msg, rrun, wmsg>>
        /\ wpc' = wpc \/ wpc' = [wpc EXCEPT ![w] = "failing"]
    BY <1>7 DEF Post, PostAckLost
  <2> QED
    BY <1>t, <2>1 DEF Quiet, Sent
<1>8. ASSUME NEW w \in Workers, CompleteMessage(w) \/ AbandonMessage(w)
      PROVE  Quiet
  <2>1. /\ UNCHANGED <<attempts, deliveries, rrun>> /\ wmsg[w] \in Requests /\ Sent(wmsg[w])
        /\ wpc' = [wpc EXCEPT ![w] = "idle"] /\ wmsg' = [wmsg EXCEPT ![w] = NoMsg]
        /\ \/ msg' = msg
           \/ \E s \in {"ready", "dead", "done"} : msg' = [msg EXCEPT ![wmsg[w]] = s]
    BY <1>8, <1>t DEF CompleteMessage, AbandonMessage, GoIdle, Released
  <2>2. \A q \in Requests : Sent(q)' <=> Sent(q)
    BY <1>t, <2>1 DEF Sent
  <2> QED
    BY <1>t, <2>1, <2>2 DEF Quiet
<1>9. CASE SetEnabled \/ (\E p \in PRs : Push(p)) \/ UNCHANGED vars
  BY <1>9 DEF SetEnabled, Push, vars, Quiet, Sent
<1> QED
  BY <1>1, <1>2, <1>3, <1>5, <1>6, <1>7, <1>8, <1>9 DEF Next, GatewayStep, WorkerStep

LEMMA MarkingFinite ==
  ASSUME IsFiniteSet(Workers)
  PROVE  \A q : IsFiniteSet(Marking(q)) /\ Cardinality(Marking(q)) \in Nat
<1> TAKE q
<1>1. Marking(q) \subseteq Workers
  BY DEF Marking
<1> QED
  BY <1>1, FS_Subset, FS_CardinalityType

LEMMA CountedStep ==
  ASSUME IsFiniteSet(Workers)
  PROVE  Basic /\ Alone /\ Counted /\ [Next]_vars => Counted'
<1> USE ConstantsAssumption
<1> SUFFICES ASSUME Basic, Alone, Counted, [Next]_vars PROVE Counted'
  OBVIOUS
<1>t. /\ rrun \in [Requests -> Runs \cup {NoRun}] /\ attempts \in [Runs -> Nat]
      /\ msg \in [Requests -> {"none", "ready", "locked", "done", "dead"}]
      /\ deliveries \in [Requests -> 0..MaxDelivery]
      /\ wpc \in [Workers -> WorkerStates] /\ wmsg \in [Workers -> Requests \cup {NoMsg}]
      /\ \A q \in Requests : Sent(q) => rrun[q] \in Runs
      /\ \A w \in Workers : wpc[w] # "idle" => wmsg[w] \in Requests /\ Sent(wmsg[w])
  BY DEF Basic, TypeOK, Placed, Sent
<1>m. \A q : IsFiniteSet(Marking(q)) /\ Cardinality(Marking(q)) \in Nat
  BY MarkingFinite
<1>1. CASE Quiet
  <2>1. ASSUME NEW q \in Requests
        PROVE  /\ Cardinality(Marking(q)') \in Nat
               /\ Cardinality(Marking(q)') <= Cardinality(Marking(q))
    <3>1. Marking(q)' \subseteq Marking(q)
      BY <1>1 DEF Quiet, Marking
    <3> QED
      BY <3>1, <1>m, FS_Subset, FS_CardinalityType
  <2>2. ASSUME NEW q \in Requests, Sent(q)
        PROVE  attempts[rrun[q]] + Cardinality(Marking(q)') <= deliveries[q]
    <3>1. attempts[rrun[q]] \in Nat /\ deliveries[q] \in Nat
      BY <1>t, <2>2
    <3>2. attempts[rrun[q]] + Cardinality(Marking(q)) <= deliveries[q]
      BY <2>2 DEF Counted
    <3> QED
      BY <1>m, <2>1, <3>1, <3>2
  <2> QED
    BY <1>1, <2>2 DEF Quiet, Counted, Unsent
<1>2. ASSUME NEW q \in Requests, Sending(q)
      PROVE  Counted'
  <2>1. msg[q] = "none" /\ rrun[q] \in Runs /\ deliveries[q] = 0 /\ ~Sent(q)
    BY <1>2 DEF Sending, Basic, Placed, DeliveriesLeft, Sent
  <2>2. attempts[rrun[q]] = 0
    BY <1>2, <2>1 DEF Alone, Sending, Counted, Unsent
  <2>3. Marking(q) = {}
    BY <1>t, <2>1 DEF Marking
  <2>4. \A p \in Requests : Marking(p)' = Marking(p)
    BY <1>2 DEF Sending, Marking
  <2>5. \A p \in Requests : Sent(p)' <=> Sent(p) \/ p = q
    BY <1>t, <1>2 DEF Sending, Sent
  <2>6. attempts[rrun[q]] + Cardinality(Marking(q)') <= deliveries[q]
    <3>1. Cardinality({}) = 0
      BY FS_EmptySet
    <3>2. Marking(q)' = {}
      BY <2>3, <2>4
    <3> QED
      BY <2>1, <2>2, <3>1, <3>2
  <2> QED
    BY <1>2, <2>4, <2>5, <2>6 DEF Sending, Counted, Unsent
<1>3. ASSUME NEW w \in Workers, NEW q \in Requests, Receive(w, q)
      PROVE  Counted'
  <2>1. /\ Sent(q) /\ UNCHANGED <<attempts, rrun>>
        /\ msg' = [msg EXCEPT ![q] = "locked"] /\ deliveries' = [deliveries EXCEPT ![q] = @ + 1]
        /\ wpc[w] = "idle" /\ wpc' = [wpc EXCEPT ![w] = "received"]
        /\ wmsg' = [wmsg EXCEPT ![w] = q]
    BY <1>3 DEF Receive, Sent, gatewayVars, recordVars
  <2>2. \A p \in Requests : Sent(p)' <=> Sent(p)
    BY <1>t, <2>1 DEF Sent
  <2>3. Marking(q)' = Marking(q) \cup {w} /\ w \notin Marking(q)
    BY <1>t, <2>1 DEF Marking
  <2>4. Cardinality(Marking(q)') = Cardinality(Marking(q)) + 1
    BY <1>m, <2>3, FS_AddElement
  <2>5. \A p \in Requests \ {q} : Marking(p)' = Marking(p)
    BY <1>t, <2>1 DEF Marking
  <2>6. /\ deliveries'[q] = deliveries[q] + 1
        /\ \A p \in Requests \ {q} : deliveries'[p] = deliveries[p]
    BY <1>t, <2>1
  <2>7. attempts[rrun[q]] + Cardinality(Marking(q)') <= deliveries'[q]
    <3>1. attempts[rrun[q]] \in Nat /\ deliveries[q] \in Nat
      BY <1>t, <2>1
    <3>2. attempts[rrun[q]] + Cardinality(Marking(q)) <= deliveries[q]
      BY <2>1 DEF Counted
    <3> QED
      BY <1>m, <2>4, <2>6, <3>1, <3>2
  <2> QED
    BY <2>1, <2>2, <2>5, <2>6, <2>7 DEF Counted, Unsent
<1>4. ASSUME NEW w \in Workers, MarkRunning(w)
      PROVE  Counted'
  <2>0. PICK q \in Requests : q = wmsg[w]
    BY <1>4, <1>t DEF MarkRunning
  <2>1. /\ Sent(q) /\ UNCHANGED <<msg, deliveries, rrun, wmsg>>
        /\ wpc[w] = "received" /\ wpc' = [wpc EXCEPT ![w] = "started"]
        /\ attempts' = [attempts EXCEPT ![rrun[q]] = @ + 1]
    BY <1>4, <1>t, <2>0 DEF MarkRunning, RunOf, gatewayVars, queueVars
  <2>2. \A p \in Requests : Sent(p)' <=> Sent(p)
    BY <2>1 DEF Sent
  <2>3. Marking(q)' = Marking(q) \ {w} /\ w \in Marking(q)
    BY <1>t, <2>0, <2>1 DEF Marking
  <2>4. Cardinality(Marking(q)') = Cardinality(Marking(q)) - 1
    <3>1. Cardinality(Marking(q) \ {w}) = Cardinality(Marking(q)) - 1
      BY <1>m, <2>3, FS_RemoveElement
    <3> QED
      BY <2>3, <3>1
  <2>5. \A p \in Requests \ {q} : Marking(p)' = Marking(p)
    BY <1>t, <2>0, <2>1 DEF Marking
  <2>6. /\ attempts'[rrun[q]] = attempts[rrun[q]] + 1
        /\ \A r \in Runs \ {rrun[q]} : attempts'[r] = attempts[r]
    BY <1>t, <2>1
  <2>7. \A p \in Requests \ {q} : Sent(p) => rrun[p] # rrun[q] /\ rrun[p] \in Runs
    BY <1>t, <2>1 DEF Alone, OneMessagePerRun
  <2>8. attempts'[rrun[q]] + Cardinality(Marking(q)') <= deliveries[q]
    <3>1. attempts[rrun[q]] \in Nat /\ deliveries[q] \in Nat
      BY <1>t, <2>1
    <3>2. attempts[rrun[q]] + Cardinality(Marking(q)) <= deliveries[q]
      BY <2>1 DEF Counted
    <3> QED
      BY <1>m, <2>4, <2>6, <3>1, <3>2
  <2>9. ASSUME NEW r \in Runs, \A p \in Requests : Sent(p) => rrun[p] # r
        PROVE  attempts'[r] = 0
    BY <2>1, <2>6, <2>9 DEF Counted, Unsent
  <2>10. ASSUME NEW p \in Requests \ {q}, Sent(p)
         PROVE  attempts'[rrun[p]] + Cardinality(Marking(p)') <= deliveries[p]
    BY <2>5, <2>6, <2>7, <2>10 DEF Counted
  <2> QED
    BY <2>1, <2>2, <2>8, <2>9, <2>10 DEF Counted, Unsent
<1> QED
  BY <1>1, <1>2, <1>3, <1>4, AttemptMoves

(* With the container gateway, for any number of executions, the attempts  *)
(* on the record of a run never exceed the deliveries of its message: a    *)
(* redelivery after a lost lock is counted once, and no other message of   *)
(* the same run adds to them.                                              *)
THEOREM AttemptsStayDeliveries ==
  ASSUME SerialGateway, IsFiniteSet(Workers)
  PROVE  Spec => []AttemptsAreDeliveries
<1>1. Init => Visible
  BY DEF Init, Visible, Sent
<1>2. Init => Counted
  BY DEF Init, Counted, Sent, Unsent
<1>3. Basic /\ Counted => AttemptsAreDeliveries
  <2> SUFFICES ASSUME Basic, Counted, NEW q \in Requests, Sent(q)
               PROVE  attempts[rrun[q]] <= deliveries[q]
    BY DEF AttemptsAreDeliveries
  <2>1. attempts[rrun[q]] \in Nat /\ deliveries[q] \in Nat
    BY ConstantsAssumption DEF Basic, TypeOK, Placed, Sent
  <2>2. Cardinality(Marking(q)) \in Nat
    BY MarkingFinite
  <2>3. attempts[rrun[q]] + Cardinality(Marking(q)) <= deliveries[q]
    BY DEF Counted
  <2> QED
    BY <2>1, <2>2, <2>3
<1>4. Basic /\ Visible /\ Alone /\ [Next]_vars => Alone'
  BY AloneStep
<1>5. Basic /\ Alone /\ Counted /\ [Next]_vars => Counted'
  BY CountedStep
<1> QED
  BY <1>1, <1>2, <1>3, <1>4, <1>5, InitAlone, BasicInvariant, VisibleStep, PTL DEF Spec
-------------------------------------------------------------------------------
(***************************************************************************)
(* EVIDENCE.  Between mark_review_completed() and the acknowledgement the  *)
(* record of a run, while it says completed, holds what the worker is      *)
(* publishing.                                                             *)
(***************************************************************************)
Recorded(w) ==
  wpc[w] \in {"publish", "posting", "complete"} /\ status[RunOf(w)] = "completed" =>
    evidence[RunOf(w)] = wresult[w] /\ wresult[w] # NoResult

AllRecorded == \A w \in Workers : Recorded(w)

(* A step that completes no record and starts no publication.              *)
RecordsLeft ==
  /\ \A r \in Runs : status'[r] = "completed" =>
       status[r] = "completed" /\ evidence'[r] = evidence[r]
  /\ \A w \in Workers : wpc'[w] \in {"publish", "posting", "complete"} =>
       /\ wpc[w] \in {"publish", "posting", "complete"}
       /\ wresult'[w] = wresult[w] /\ wmsg'[w] = wmsg[w]

LEMMA RecordMoves ==
  ASSUME Basic, [Next]_vars
  PROVE  RecordsLeft \/ \E w \in Workers : SkipDisabled(w) \/ RecordResult(w)
<1>t. /\ status \in [Runs -> RunStatuses] /\ evidence \in [Runs -> Results]
      /\ wpc \in [Workers -> WorkerStates]
  BY DEF Basic, TypeOK
<1> USE DEF gatewayVars, recordVars, queueVars, workerVars, adoVars
<1>1. ASSUME UNCHANGED <<wpc, wmsg, wresult>>,
             \/ UNCHANGED <<status, evidence>>
             \/ /\ UNCHANGED evidence
                /\ \E r : \E s \in {"queued", "enqueue_failed", status[r]} :
                     status' = [status EXCEPT ![r] = s]
      PROVE  RecordsLeft
  BY <1>1, <1>t DEF RecordsLeft
<1>2. ASSUME NEW q \in Requests,
             \/ \E e \in Events : Webhook(q, e)
             \/ Rerun(q) \/ GatewayStep(q) \/ GatewayCrash(q) \/ LockExpires(q) \/ MessageExpires(q)
      PROVE  RecordsLeft
  <2>1. CASE RecordQueued(q) \/ MarkEnqueueFailed(q)
    BY <1>1, <2>1 DEF RecordQueued, MarkEnqueueFailed
  <2>2. CASE ~(RecordQueued(q) \/ MarkEnqueueFailed(q))
    BY <1>1, <1>2, <2>2 DEF Webhook, Rerun, GatewayStep, CheckExisting, EnqueueJob, EnqueueFails,
                            GatewayCrash, LockExpires, MessageExpires
  <2> QED
    BY <2>1, <2>2
<1>3. ASSUME NEW w \in Workers, NEW q \in Requests, Receive(w, q)
      PROVE  RecordsLeft
  BY <1>3, <1>t DEF Receive, RecordsLeft
<1>4. ASSUME NEW w \in Workers, MarkRunning(w) \/ MarkFailed(w)
      PROVE  RecordsLeft
  <2>1. /\ UNCHANGED <<evidence, wmsg, wresult>>
        /\ \E s \in {"running", "failed"} : status' = [status EXCEPT ![RunOf(w)] = s]
        /\ \E s \in {"started", "abandon"} : wpc' = [wpc EXCEPT ![w] = s]
    BY <1>4 DEF MarkRunning, MarkFailed
  <2> QED
    BY <1>t, <2>1 DEF RecordsLeft
<1>5. ASSUME NEW w \in Workers, UNCHANGED <<status, evidence>>,
             \/ \E s \in {"idle", "record", "failing"} :
                  /\ wpc' = [wpc EXCEPT ![w] = s]
                  /\ \A v \in Workers \ {w} : wresult'[v] = wresult[v] /\ wmsg'[v] = wmsg[v]
             \/ /\ UNCHANGED <<wresult, wmsg>> /\ wpc[w] \in {"publish", "posting"}
                /\ \E s \in WorkerStates : wpc' = [wpc EXCEPT ![w] = s]
      PROVE  RecordsLeft
  BY <1>5, <1>t DEF RecordsLeft
<1>6. ASSUME NEW w \in Workers, Scan(w) \/ Fail(w)
      PROVE  RecordsLeft
  <2>1. wresult \in [Workers -> Results]
    BY DEF Basic, TypeOK
  <2> QED
    BY <1>5, <1>6, <2>1 DEF Scan, Fail
<1>7. ASSUME NEW w \in Workers, CompleteMessage(w) \/ AbandonMessage(w) \/ WorkerCrash(w)
      PROVE  RecordsLeft
  <2>1. /\ wresult \in [Workers -> Results] /\ wmsg \in [Workers -> Requests \cup {NoMsg}]
    BY DEF Basic, TypeOK
  <2>2. GoIdle(w) /\ UNCHANGED <<status, evidence>>
    BY <1>7 DEF CompleteMessage, AbandonMessage, WorkerCrash
  <2> QED
    BY <1>5, <2>1, <2>2 DEF GoIdle
<1>8. ASSUME NEW w \in Workers, ReadThreads(w) \/ PostStatus(w)
      PROVE  RecordsLeft
  BY <1>5, <1>8 DEF ReadThreads, PostStatus, WorkerStates
<1>9. ASSUME NEW w \in Workers, NEW x \in Items, Post(w, x) \/ PostAckLost(w, x)
      PROVE  RecordsLeft
  <2>1. /\ UNCHANGED <<status, evidence, wresult, wmsg>>
        /\ wpc' = wpc \/ wpc' = [wpc EXCEPT ![w] = "failing"]
    BY <1>9 DEF Post, PostAckLost
  <2> QED
    BY <1>1, <1>5, <2>1
<1>10. CASE SetEnabled \/ (\E p \in PRs : Push(p)) \/ UNCHANGED vars
  BY <1>1, <1>10 DEF SetEnabled, Push, vars
<1> QED
  BY <1>2, <1>3, <1>4, <1>6, <1>7, <1>8, <1>9, <1>10 DEF Next, WorkerStep

LEMMA RecordedStep ==
  ASSUME \A v, w \in Workers : v = w
  PROVE  Basic /\ AllRecorded /\ [Next]_vars => AllRecorded'
<1> USE ConstantsAssumption
<1> SUFFICES ASSUME Basic, AllRecorded, [Next]_vars, NEW w \in Workers
             PROVE  Recorded(w)'
  BY DEF AllRecorded
<1>t. /\ status \in [Runs -> RunStatuses] /\ evidence \in [Runs -> Results]
      /\ wpc \in [Workers -> WorkerStates] /\ wresult \in [Workers -> Results]
  BY DEF Basic, TypeOK
<1>1. CASE RecordsLeft
  <2> SUFFICES ASSUME wpc'[w] \in {"publish", "posting", "complete"},
                      status'[RunOf(w)'] = "completed"
               PROVE  evidence'[RunOf(w)'] = wresult'[w] /\ wresult'[w] # NoResult
    BY DEF Recorded
  <2>1. /\ wpc[w] \in {"publish", "posting", "complete"}
        /\ wresult'[w] = wresult[w] /\ wmsg'[w] = wmsg[w]
    BY <1>1 DEF RecordsLeft
  <2>2. RunOf(w)' = RunOf(w) /\ RunOf(w) \in Runs
    BY <2>1, RunKept
  <2> QED
    BY <1>1, <2>1, <2>2 DEF RecordsLeft, AllRecorded, Recorded
<1>2. ASSUME NEW v \in Workers, SkipDisabled(v) \/ RecordResult(v)
      PROVE  Recorded(w)'
  <2>1. v = w
    OBVIOUS
  <2>2. wpc[w] # "idle" /\ wmsg'[w] = wmsg[w]
    BY <1>2, <2>1 DEF SkipDisabled, RecordResult
  <2>3. RunOf(w)' = RunOf(w) /\ RunOf(w) \in Runs
    BY <2>2, RunKept
  <2>4. CASE SkipDisabled(w)
    BY <1>t, <2>3, <2>4 DEF SkipDisabled, Recorded
  <2>5. CASE RecordResult(w)
    <3>1. wresult[w] # NoResult
      BY <2>5 DEF RecordResult, Basic, Placed, NoResult, Iterations
    <3> QED
      BY <1>t, <2>3, <2>5, <3>1 DEF RecordResult, Recorded
  <2> QED
    BY <1>2, <2>1, <2>4, <2>5
<1> QED
  BY <1>1, <1>2, RecordMoves

(* Only the worker that holds a message acknowledges it.                   *)
LEMMA DoneMoves ==
  ASSUME Basic, [Next]_vars, NEW q \in Requests, msg'[q] = "done", msg[q] # "done"
  PROVE  \E w \in Workers : CompleteMessage(w) /\ wmsg[w] = q
<1>t. /\ msg \in [Requests -> {"none", "ready", "locked", "done", "dead"}]
      /\ wmsg \in [Workers -> Requests \cup {NoMsg}]
  BY DEF Basic, TypeOK
<1> USE DEF gatewayVars, recordVars, queueVars, workerVars, adoVars
<1>1. CASE UNCHANGED msg
  BY <1>1
<1>2. CASE \E p, s : msg' = [msg EXCEPT ![p] = s] /\ s # "done"
  BY <1>2, <1>t
<1>3. CASE \E w \in Workers : CompleteMessage(w)
  BY <1>3, <1>t DEF CompleteMessage
<1>4. ASSUME NEW p \in Requests,
             EnqueueJob(p) \/ EnqueueFails(p) \/ LockExpires(p) \/ MessageExpires(p)
               \/ \E w \in Workers : Receive(w, p)
      PROVE  UNCHANGED msg \/ \E s : msg' = [msg EXCEPT ![p] = s] /\ s # "done"
  BY <1>4 DEF EnqueueJob, EnqueueFails, LockExpires, MessageExpires, Receive, Released
<1>5. ASSUME NEW w \in Workers, AbandonMessage(w)
      PROVE  UNCHANGED msg \/ \E s : msg' = [msg EXCEPT ![wmsg[w]] = s] /\ s # "done"
  BY <1>5 DEF AbandonMessage, Released
<1>6. \/ UNCHANGED msg
      \/ \E p \in Requests : EnqueueJob(p) \/ EnqueueFails(p) \/ LockExpires(p)
           \/ MessageExpires(p) \/ \E w \in Workers : Receive(w, p)
      \/ \E w \in Workers : AbandonMessage(w) \/ CompleteMessage(w)
  BY DEF Next, GatewayStep, WorkerStep, Webhook, Rerun, CheckExisting, RecordQueued,
         MarkEnqueueFailed, GatewayCrash, MarkRunning, SkipDisabled, Scan, RecordResult,
         ReadThreads, Post, PostAckLost, PostStatus, Fail, MarkFailed, WorkerCrash,
         SetEnabled, Push, vars
<1> QED
  BY <1>1, <1>2, <1>3, <1>4, <1>5, <1>6

Published ==
  \A q \in Requests : msg[q] = "done" /\ status[rrun[q]] = "completed" =>
    /\ evidence[rrun[q]].iter \in Iterations
    /\ \A x \in {Summary} \cup evidence[rrun[q]].found :
         posts[PrOf[rrun[q]]][evidence[rrun[q]].iter][x] > 0

LEMMA PublishedStep ==
  Basic /\ Alone /\ Settled /\ ReportedBeforeComplete /\ AllRecorded /\ Published /\ [Next]_vars
    => Published'
<1> USE ConstantsAssumption
<1> SUFFICES ASSUME Basic, Alone, Settled, ReportedBeforeComplete, AllRecorded, Published,
                    [Next]_vars, NEW q \in Requests,
                    msg'[q] = "done", status'[rrun'[q]] = "completed"
             PROVE  /\ evidence'[rrun'[q]].iter \in Iterations
                    /\ \A x \in {Summary} \cup evidence'[rrun'[q]].found :
                         posts'[PrOf[rrun'[q]]][evidence'[rrun'[q]].iter][x] > 0
  BY DEF Published
<1>1. CASE msg[q] = "done"
  <2>1. rpc[q] # "idle" /\ rrun[q] \in Runs
    BY <1>1 DEF Basic, Placed
  <2>2. rrun'[q] = rrun[q]
    BY <2>1, RunsMove DEF Basic, TypeOK
  <2> DEFINE r == rrun[q]
             e == evidence[r]
  <2>3. status'[r] = status[r] /\ evidence'[r] = e
    BY <1>1, FinalStep
  <2>4. /\ e.iter \in Iterations
        /\ \A x \in {Summary} \cup e.found : posts[PrOf[r]][e.iter][x] > 0
    BY <1>1, <2>2, <2>3 DEF Published
  <2>5. e \in Results /\ PrOf[r] \in PRs
    BY <2>1 DEF Basic, TypeOK
  <2>6. ASSUME NEW x \in {Summary} \cup e.found
        PROVE  posts'[PrOf[r]][e.iter][x] > 0
    <3>1. x \in Items
      BY <2>5 DEF Results, Items
    <3>2. posts'[PrOf[r]][e.iter][x] >= posts[PrOf[r]][e.iter][x]
      BY <2>4, <2>5, <3>1, ThreadsGrow
    <3>3. posts[PrOf[r]][e.iter][x] \in Nat /\ posts'[PrOf[r]][e.iter][x] \in Nat
      <4>1. /\ posts[PrOf[r]] \in [Iterations -> [Items -> Nat]]
            /\ posts'[PrOf[r]] \in [Iterations -> [Items -> Nat]]
        BY <2>5, TypeStep DEF Basic, TypeOK
      <4>2. /\ posts[PrOf[r]][e.iter] \in [Items -> Nat]
            /\ posts'[PrOf[r]][e.iter] \in [Items -> Nat]
        BY <2>4, <4>1
      <4> QED
        BY <3>1, <4>2
    <3>4. posts[PrOf[r]][e.iter][x] > 0
      BY <2>4
    <3> HIDE DEF e, r
    <3> QED
      BY <3>2, <3>3, <3>4
  <2> QED
    BY <2>2, <2>3, <2>4, <2>6
<1>2. CASE msg[q] # "done"
  <2>1. PICK w \in Workers : CompleteMessage(w) /\ wmsg[w] = q
    BY <1>2, DoneMoves
  <2>2. /\ wpc[w] = "complete" /\ UNCHANGED <<rrun, status, evidence, posts>>
        /\ RunOf(w) = rrun[q]
    BY <2>1 DEF CompleteMessage, RunOf, gatewayVars, recordVars, adoVars
  <2>3. evidence[rrun[q]] = wresult[w] /\ wresult[w] # NoResult
    BY <2>2 DEF AllRecorded, Recorded
  <2>4. wresult[w].iter \in Iterations
    BY <2>2, <2>3 DEF Basic, Placed
  <2>5. \A x \in {Summary} \cup wresult[w].found : Threads(w)[x] > 0
    BY <2>2, <2>3 DEF ReportedBeforeComplete
  <2> QED
    BY <2>2, <2>3, <2>4, <2>5 DEF Threads
<1> QED
  BY <1>1, <1>2

(* In the deployed configuration, what the record of an acknowledged and   *)
(* completed run says it found is on the pull request, through lost locks, *)
(* kills between record and publication, reruns and repeated events.       *)
THEOREM EvidenceStaysPublished ==
  ASSUME SerialGateway, \A v, w \in Workers : v = w, "ambiguous_send" \notin Faults
  PROVE  Spec => []EvidenceIsPublished
<1>1. Init => Visible /\ Settled /\ AllRecorded /\ Published
  BY DEF Init, Visible, Settled, Sent, AllRecorded, Recorded, Published
<1>2. Basic /\ Visible /\ Alone /\ [Next]_vars => Alone'
  BY AloneStep
<1>3. Basic /\ Settled /\ [Next]_vars => Settled'
  BY SettledStep
<1>4. Basic /\ AllRecorded /\ [Next]_vars => AllRecorded'
  BY RecordedStep
<1>5. Published => EvidenceIsPublished
  BY DEF Published, EvidenceIsPublished
<1> QED
  BY <1>1, <1>2, <1>3, <1>4, <1>5, PublishedStep, InitAlone, AcknowledgedAfterReporting,
     BasicInvariant, VisibleStep, PTL DEF Spec
===============================================================================

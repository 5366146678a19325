------------------------- MODULE ReviewPipelineProofs -------------------------
(***************************************************************************)
(* Proofs about ReviewPipeline, for every set of requests, events, pull    *)
(* requests, findings and workers, every delivery limit and every choice   *)
(* of faults.  Where a theorem needs the serial gateway, the single worker *)
(* or the absence of a fault, its statement says so.                       *)
(***************************************************************************)
EXTENDS ReviewPipeline, TLAPS

(***************************************************************************)
(* TypeOK is not inductive: a delivery is counted when it starts, so the   *)
(* count of a message that can still be received must be below the limit.  *)
(***************************************************************************)
DeliveriesLeft ==
  \A q \in Requests :
    /\ msg[q] = "none" => deliveries[q] = 0
    /\ msg[q] = "ready" => deliveries[q] < MaxDelivery

(* Who is where: a request knows its run once it is served, it has sent    *)
(* nothing before it is through, and a busy worker has a sent message and, *)
(* once it publishes, an iteration.                                        *)
Placed ==
  /\ \A q \in Requests :
       /\ rpc[q] # "idle" => rrun[q] \in Runs
       /\ rpc[q] \in {"idle", "check", "record", "enqueue"} => msg[q] = "none"
  /\ \A w \in Workers :
       /\ wpc[w] # "idle" => wmsg[w] \in Requests /\ msg[wmsg[w]] # "none"
       /\ wpc[w] \in {"record", "publish", "posting"} => wresult[w].iter \in Iterations
       /\ wpc[w] = "complete" => wresult[w] = NoResult \/ wresult[w].iter \in Iterations

Basic == TypeOK /\ DeliveriesLeft /\ Placed

LEMMA InitBasic == Init => Basic
<1> USE ConstantsAssumption
<1> SUFFICES ASSUME Init PROVE Basic
  OBVIOUS
<1>1. TypeOK
  <2>1. 1 \in Iterations /\ NoResult \in Results
    BY DEF Iterations, NoResult, Results
  <2>2. posts \in [PRs -> [Iterations -> [Items -> Nat]]]
    BY DEF Init
  <2> QED
    BY <2>1, <2>2 DEF Init, TypeOK, InFlight, Answered, RunStatuses, WorkerStates
<1>2. DeliveriesLeft /\ Placed
  BY DEF Init, DeliveriesLeft, Placed
<1> QED
  BY <1>1, <1>2 DEF Basic

(* One more thread is still a table of counts.                             *)
LEMMA AddThreadType ==
  ASSUME posts \in [PRs -> [Iterations -> [Items -> Nat]]],
         NEW w, NEW x \in Items, AddThread(w, x)
  PROVE  posts' \in [PRs -> [Iterations -> [Items -> Nat]]]
<1> DEFINE p == PrOf[RunOf(w)]
           i == wresult[w].iter
<1>1. posts' = [posts EXCEPT ![p] = [posts[p] EXCEPT ![i] = [posts[p][i] EXCEPT ![x] = @ + 1]]]
  BY DEF AddThread
<1>2. ASSUME p \in PRs, i \in Iterations
      PROVE  [posts[p][i] EXCEPT ![x] = @ + 1] \in [Items -> Nat]
  <2>1. posts[p][i] \in [Items -> Nat]
    BY <1>2
  <2> QED
    BY <2>1
<1>3. ASSUME p \in PRs
      PROVE  [posts[p] EXCEPT ![i] = [posts[p][i] EXCEPT ![x] = @ + 1]]
               \in [Iterations -> [Items -> Nat]]
  BY <1>2, <1>3
<1> HIDE DEF p, i
<1> QED
  BY <1>1, <1>3

LEMMA TypeStep == Basic /\ [Next]_vars => TypeOK'
<1> USE ConstantsAssumption
<1> SUFFICES ASSUME Basic, [Next]_vars PROVE TypeOK'
  OBVIOUS
<1> USE DEF Basic, TypeOK, gatewayVars, recordVars, queueVars, workerVars, adoVars,
            InFlight, Answered, RunStatuses, WorkerStates
<1>0. NoResult \in Results
  BY DEF NoResult, Results
<1>1. ASSUME NEW q \in Requests, NEW e \in Events, Webhook(q, e) PROVE TypeOK'
  BY <1>1 DEF Webhook, Runs
<1>2. ASSUME NEW q \in Requests, Rerun(q) PROVE TypeOK'
  BY <1>2 DEF Rerun, Runs
<1>3. ASSUME NEW q \in Requests, CheckExisting(q) PROVE TypeOK'
  BY <1>3 DEF CheckExisting
<1>4. ASSUME NEW q \in Requests, RecordQueued(q) PROVE TypeOK'
  BY <1>4 DEF RecordQueued
<1>5. ASSUME NEW q \in Requests, EnqueueJob(q) PROVE TypeOK'
  BY <1>5 DEF EnqueueJob
<1>6. ASSUME NEW q \in Requests, EnqueueFails(q) PROVE TypeOK'
  BY <1>6 DEF EnqueueFails
<1>7. ASSUME NEW q \in Requests, MarkEnqueueFailed(q) PROVE TypeOK'
  BY <1>7 DEF MarkEnqueueFailed
<1>8. ASSUME NEW q \in Requests, GatewayCrash(q) PROVE TypeOK'
  BY <1>8 DEF GatewayCrash
<1>9. ASSUME NEW q \in Requests, LockExpires(q) PROVE TypeOK'
  <2>1. msg' \in [Requests -> {"none", "ready", "locked", "done", "dead"}]
    BY <1>9 DEF LockExpires, Released
  <2>2. holder' \in [Requests -> Workers \cup {NoWorker}]
    BY <1>9 DEF LockExpires
  <2> QED
    BY <1>9, <2>1, <2>2 DEF LockExpires
<1>10. ASSUME NEW q \in Requests, MessageExpires(q) PROVE TypeOK'
  BY <1>10 DEF MessageExpires
<1>11. ASSUME NEW w \in Workers, NEW q \in Requests, Receive(w, q) PROVE TypeOK'
  BY <1>11 DEF Receive, DeliveriesLeft
<1>12. ASSUME NEW w \in Workers, MarkRunning(w) PROVE TypeOK'
  <2>0. RunOf(w) \in Runs
    <3>1. wmsg[w] \in Requests /\ msg[wmsg[w]] # "none"
      BY <1>12 DEF MarkRunning, Placed
    <3> QED
      BY <3>1 DEF Placed, RunOf
  <2>1. attempts' \in [Runs -> Nat]
    BY <1>12, <2>0 DEF MarkRunning
  <2>2. status' \in [Runs -> RunStatuses]
    BY <1>12 DEF MarkRunning
  <2> QED
    BY <1>12, <2>1, <2>2 DEF MarkRunning
<1>13. ASSUME NEW w \in Workers, SkipDisabled(w) PROVE TypeOK'
  BY <1>0, <1>13 DEF SkipDisabled
<1>14. ASSUME NEW w \in Workers, Scan(w) PROVE TypeOK'
  <2>1. PICK found \in SUBSET Findings :
          wresult' = [wresult EXCEPT ![w] = [iter |-> iteration[PrOf[RunOf(w)]], found |-> found]]
    BY <1>14 DEF Scan
  <2>2. wmsg[w] \in Requests /\ msg[wmsg[w]] # "none"
    BY <1>14 DEF Scan, Placed
  <2>3. RunOf(w) \in Runs
    BY <2>2 DEF Placed, RunOf
  <2>4. [iter |-> iteration[PrOf[RunOf(w)]], found |-> found] \in Results
    BY <2>3 DEF Results
  <2> QED
    BY <1>14, <2>1, <2>4 DEF Scan
<1>15. ASSUME NEW w \in Workers, RecordResult(w) PROVE TypeOK'
  BY <1>15 DEF RecordResult
<1>16. ASSUME NEW w \in Workers, ReadThreads(w) PROVE TypeOK'
  <2>1. {Summary} \cup wresult[w].found \subseteq Items
    BY DEF Results, Items
  <2> QED
    BY <1>16, <2>1 DEF ReadThreads
<1>17. ASSUME NEW w \in Workers, NEW x \in Items, Post(w, x) PROVE TypeOK'
  <2>1. posts' \in [PRs -> [Iterations -> [Items -> Nat]]]
    BY <1>17, AddThreadType DEF Post
  <2> QED
    BY <1>17, <2>1 DEF Post
<1>18. ASSUME NEW w \in Workers, NEW x \in Items, PostAckLost(w, x) PROVE TypeOK'
  <2>1. posts' \in [PRs -> [Iterations -> [Items -> Nat]]]
    BY <1>18, AddThreadType DEF PostAckLost
  <2>2. wtries' \in [Workers -> 0..MaxRetries] /\ wpc' \in [Workers -> WorkerStates]
    <3>1. CASE wtries[w] < MaxRetries
      <4>1. wtries[w] + 1 \in 0..MaxRetries
        <5>1. wtries[w] \in 0..MaxRetries /\ MaxRetries \in Nat
          OBVIOUS
        <5> HIDE DEF Basic, TypeOK
        <5> QED
          BY <3>1, <5>1
      <4>2. wtries' = [wtries EXCEPT ![w] = wtries[w] + 1] /\ wpc' = wpc
        BY <1>18, <3>1 DEF PostAckLost
      <4> QED
        BY <4>1, <4>2
    <3>2. CASE ~(wtries[w] < MaxRetries)
      BY <1>18, <3>2 DEF PostAckLost
    <3> QED
      BY <3>1, <3>2
  <2> QED
    BY <1>18, <2>1, <2>2 DEF PostAckLost
<1>19. ASSUME NEW w \in Workers, PostStatus(w) PROVE TypeOK'
  <2>1. wmsg[w] \in Requests /\ msg[wmsg[w]] # "none"
    BY <1>19 DEF PostStatus, Placed
  <2>2. RunOf(w) \in Runs
    BY <2>1 DEF Placed, RunOf
  <2> QED
    BY <1>19, <2>2 DEF PostStatus
<1>20. ASSUME NEW w \in Workers, CompleteMessage(w) PROVE TypeOK'
  <2>1. wmsg[w] \in Requests
    BY <1>20 DEF CompleteMessage, Placed
  <2>2. msg' \in [Requests -> {"none", "ready", "locked", "done", "dead"}]
    BY <1>20, <2>1 DEF CompleteMessage
  <2>3. holder' \in [Requests -> Workers \cup {NoWorker}]
    BY <1>20, <2>1 DEF CompleteMessage
  <2> QED
    BY <1>0, <1>20, <2>2, <2>3 DEF CompleteMessage, GoIdle
<1>21. ASSUME NEW w \in Workers, Fail(w) PROVE TypeOK'
  BY <1>21 DEF Fail
<1>22. ASSUME NEW w \in Workers, MarkFailed(w) PROVE TypeOK'
  BY <1>22 DEF MarkFailed
<1>23. ASSUME NEW w \in Workers, AbandonMessage(w) PROVE TypeOK'
  <2>1. wmsg[w] \in Requests
    BY <1>23 DEF AbandonMessage, Placed
  <2>2. msg' \in [Requests -> {"none", "ready", "locked", "done", "dead"}]
    BY <1>23, <2>1 DEF AbandonMessage, Released
  <2>3. holder' \in [Requests -> Workers \cup {NoWorker}]
    BY <1>23, <2>1 DEF AbandonMessage
  <2> QED
    BY <1>0, <1>23, <2>2, <2>3 DEF AbandonMessage, GoIdle
<1>24. ASSUME NEW w \in Workers, WorkerCrash(w) PROVE TypeOK'
  BY <1>0, <1>24 DEF WorkerCrash, GoIdle
<1>25. CASE SetEnabled
  BY <1>25 DEF SetEnabled
<1>26. ASSUME NEW p \in PRs, Push(p) PROVE TypeOK'
  BY <1>26 DEF Push, Iterations
<1>27. CASE UNCHANGED vars
  BY <1>27 DEF vars
<1> QED
  BY <1>1, <1>2, <1>3, <1>4, <1>5, <1>6, <1>7, <1>8, <1>9, <1>10, <1>11, <1>12, <1>13,
     <1>14, <1>15, <1>16, <1>17, <1>18, <1>19, <1>20, <1>21, <1>22, <1>23, <1>24, <1>25,
     <1>26, <1>27 DEF Next, GatewayStep, WorkerStep

(* Only a delivery uses up the count, and a message given back with its    *)
(* count used up is dead.                                                  *)
LEMMA DeliveriesStep == Basic /\ [Next]_vars => DeliveriesLeft'
<1> USE ConstantsAssumption
<1> SUFFICES ASSUME Basic, [Next]_vars PROVE DeliveriesLeft'
  OBVIOUS
<1> USE DEF DeliveriesLeft, gatewayVars, recordVars, queueVars, workerVars, adoVars
<1>t. /\ msg \in [Requests -> {"none", "ready", "locked", "done", "dead"}]
      /\ deliveries \in [Requests -> 0..MaxDelivery]
      /\ wmsg \in [Workers -> Requests \cup {NoMsg}]
      /\ DeliveriesLeft
      /\ Placed
  BY DEF Basic, TypeOK
<1>1. ASSUME NEW q \in Requests, NEW e \in Events, Webhook(q, e) PROVE DeliveriesLeft'
  BY <1>1, <1>t DEF Webhook
<1>2. ASSUME NEW q \in Requests, Rerun(q) PROVE DeliveriesLeft'
  BY <1>2, <1>t DEF Rerun
<1>3. ASSUME NEW q \in Requests, CheckExisting(q) PROVE DeliveriesLeft'
  BY <1>3, <1>t DEF CheckExisting
<1>4. ASSUME NEW q \in Requests, RecordQueued(q) PROVE DeliveriesLeft'
  BY <1>4, <1>t DEF RecordQueued
<1>5. ASSUME NEW q \in Requests, EnqueueJob(q) PROVE DeliveriesLeft'
  BY <1>5, <1>t DEF EnqueueJob, Placed
<1>6. ASSUME NEW q \in Requests, EnqueueFails(q) PROVE DeliveriesLeft'
  BY <1>6, <1>t DEF EnqueueFails, Placed
<1>7. ASSUME NEW q \in Requests, MarkEnqueueFailed(q) PROVE DeliveriesLeft'
  BY <1>7, <1>t DEF MarkEnqueueFailed
<1>8. ASSUME NEW q \in Requests, GatewayCrash(q) PROVE DeliveriesLeft'
  BY <1>8, <1>t DEF GatewayCrash
<1>9. ASSUME NEW q \in Requests, LockExpires(q) PROVE DeliveriesLeft'
  BY <1>9, <1>t DEF LockExpires, Released
<1>10. ASSUME NEW q \in Requests, MessageExpires(q) PROVE DeliveriesLeft'
  BY <1>10, <1>t DEF MessageExpires
<1>11. ASSUME NEW w \in Workers, NEW q \in Requests, Receive(w, q) PROVE DeliveriesLeft'
  BY <1>11, <1>t DEF Receive
<1>12. ASSUME NEW w \in Workers, MarkRunning(w) PROVE DeliveriesLeft'
  BY <1>12, <1>t DEF MarkRunning
<1>13. ASSUME NEW w \in Workers, SkipDisabled(w) PROVE DeliveriesLeft'
  BY <1>13, <1>t DEF SkipDisabled
<1>14. ASSUME NEW w \in Workers, Scan(w) PROVE DeliveriesLeft'
  BY <1>14, <1>t DEF Scan
<1>15. ASSUME NEW w \in Workers, RecordResult(w) PROVE DeliveriesLeft'
  BY <1>15, <1>t DEF RecordResult
<1>16. ASSUME NEW w \in Workers, ReadThreads(w) PROVE DeliveriesLeft'
  BY <1>16, <1>t DEF ReadThreads
<1>17. ASSUME NEW w \in Workers, NEW x \in Items, Post(w, x) PROVE DeliveriesLeft'
  BY <1>17, <1>t DEF Post
<1>18. ASSUME NEW w \in Workers, NEW x \in Items, PostAckLost(w, x) PROVE DeliveriesLeft'
  BY <1>18, <1>t DEF PostAckLost
<1>19. ASSUME NEW w \in Workers, PostStatus(w) PROVE DeliveriesLeft'
  BY <1>19, <1>t DEF PostStatus
<1>20. ASSUME NEW w \in Workers, CompleteMessage(w) PROVE DeliveriesLeft'
  BY <1>20, <1>t DEF CompleteMessage, GoIdle
<1>21. ASSUME NEW w \in Workers, Fail(w) PROVE DeliveriesLeft'
  BY <1>21, <1>t DEF Fail
<1>22. ASSUME NEW w \in Workers, MarkFailed(w) PROVE DeliveriesLeft'
  BY <1>22, <1>t DEF MarkFailed
<1>23. ASSUME NEW w \in Workers, AbandonMessage(w) PROVE DeliveriesLeft'
  BY <1>23, <1>t DEF AbandonMessage, Released, Placed
<1>24. ASSUME NEW w \in Workers, WorkerCrash(w) PROVE DeliveriesLeft'
  BY <1>24, <1>t DEF WorkerCrash, GoIdle
<1>25. CASE SetEnabled
  BY <1>25, <1>t DEF SetEnabled
<1>26. ASSUME NEW p \in PRs, Push(p) PROVE DeliveriesLeft'
  BY <1>26, <1>t DEF Push
<1>27. CASE UNCHANGED vars
  BY <1>27, <1>t DEF vars
<1> QED
  BY <1>1, <1>2, <1>3, <1>4, <1>5, <1>6, <1>7, <1>8, <1>9, <1>10, <1>11, <1>12,
     <1>13, <1>14, <1>15, <1>16, <1>17, <1>18, <1>19, <1>20, <1>21, <1>22, <1>23,
     <1>24, <1>25, <1>26, <1>27
     DEF Next, GatewayStep, WorkerStep

(* A request keeps its run once served; a worker lets go of its message    *)
(* only when it goes idle; a message once sent is never unsent.            *)
LEMMA PlacedStep == Basic /\ [Next]_vars => Placed'
<1> USE ConstantsAssumption
<1> SUFFICES ASSUME Basic, [Next]_vars PROVE Placed'
  OBVIOUS
<1> USE DEF Placed, gatewayVars, recordVars, queueVars, workerVars, adoVars
<1>t. /\ iteration \in [PRs -> Iterations]
      /\ rpc \in [Requests -> {"idle"} \cup InFlight \cup Answered]
      /\ rrun \in [Requests -> Runs \cup {NoRun}]
      /\ msg \in [Requests -> {"none", "ready", "locked", "done", "dead"}]
      /\ wpc \in [Workers -> WorkerStates]
      /\ wmsg \in [Workers -> Requests \cup {NoMsg}]
      /\ wresult \in [Workers -> Results]
      /\ Placed
  BY DEF Basic, TypeOK
<1>1. ASSUME NEW q \in Requests, NEW e \in Events, Webhook(q, e) PROVE Placed'
  BY <1>1, <1>t DEF Webhook, MayServe, Runs
<1>2. ASSUME NEW q \in Requests, Rerun(q) PROVE Placed'
  BY <1>2, <1>t DEF Rerun, MayServe, Runs
<1>3. ASSUME NEW q \in Requests, CheckExisting(q) PROVE Placed'
  BY <1>3, <1>t DEF CheckExisting
<1>4. ASSUME NEW q \in Requests, RecordQueued(q) PROVE Placed'
  BY <1>4, <1>t DEF RecordQueued
<1>5. ASSUME NEW q \in Requests, EnqueueJob(q) PROVE Placed'
  BY <1>5, <1>t DEF EnqueueJob
<1>6. ASSUME NEW q \in Requests, EnqueueFails(q) PROVE Placed'
  BY <1>6, <1>t DEF EnqueueFails
<1>7. ASSUME NEW q \in Requests, MarkEnqueueFailed(q) PROVE Placed'
  BY <1>7, <1>t DEF MarkEnqueueFailed
<1>8. ASSUME NEW q \in Requests, GatewayCrash(q) PROVE Placed'
  BY <1>8, <1>t DEF GatewayCrash, InFlight
<1>9. ASSUME NEW q \in Requests, LockExpires(q) PROVE Placed'
  BY <1>9, <1>t DEF LockExpires, Released
<1>10. ASSUME NEW q \in Requests, MessageExpires(q) PROVE Placed'
  BY <1>10, <1>t DEF MessageExpires
<1>11. ASSUME NEW w \in Workers, NEW q \in Requests, Receive(w, q) PROVE Placed'
  BY <1>11, <1>t DEF Receive
<1>12. ASSUME NEW w \in Workers, MarkRunning(w) PROVE Placed'
  BY <1>12, <1>t DEF MarkRunning
<1>13. ASSUME NEW w \in Workers, SkipDisabled(w) PROVE Placed'
  BY <1>13, <1>t DEF SkipDisabled
<1>14. ASSUME NEW w \in Workers, Scan(w) PROVE Placed'
  <2>1. PICK found \in SUBSET Findings :
          wresult' = [wresult EXCEPT ![w] = [iter |-> iteration[PrOf[RunOf(w)]], found |-> found]]
    BY <1>14 DEF Scan
  <2>2. iteration[PrOf[RunOf(w)]] \in Iterations
    BY <1>14, <1>t DEF Scan, RunOf
  <2> QED
    BY <1>14, <1>t, <2>1, <2>2 DEF Scan
<1>15. ASSUME NEW w \in Workers, RecordResult(w) PROVE Placed'
  BY <1>15, <1>t DEF RecordResult
<1>16. ASSUME NEW w \in Workers, ReadThreads(w) PROVE Placed'
  BY <1>16, <1>t DEF ReadThreads
<1>17. ASSUME NEW w \in Workers, NEW x \in Items, Post(w, x) PROVE Placed'
  BY <1>17, <1>t DEF Post
<1>18. ASSUME NEW w \in Workers, NEW x \in Items, PostAckLost(w, x) PROVE Placed'
  <2>1. wpc[w] = "posting"
    BY <1>18 DEF PostAckLost, NextComment
  <2>2. wpc' = wpc \/ wpc' = [wpc EXCEPT ![w] = "failing"]
    BY <1>18 DEF PostAckLost
  <2>3. UNCHANGED <<rpc, rrun, msg, wmsg, wresult>>
    BY <1>18 DEF PostAckLost
  <2> QED
    BY <1>t, <2>1, <2>2, <2>3
<1>19. ASSUME NEW w \in Workers, PostStatus(w) PROVE Placed'
  BY <1>19, <1>t DEF PostStatus
<1>20. ASSUME NEW w \in Workers, CompleteMessage(w) PROVE Placed'
  BY <1>20, <1>t DEF CompleteMessage, GoIdle
<1>21. ASSUME NEW w \in Workers, Fail(w) PROVE Placed'
  BY <1>21, <1>t DEF Fail
<1>22. ASSUME NEW w \in Workers, MarkFailed(w) PROVE Placed'
  BY <1>22, <1>t DEF MarkFailed
<1>23. ASSUME NEW w \in Workers, AbandonMessage(w) PROVE Placed'
  BY <1>23, <1>t DEF AbandonMessage, Released, GoIdle
<1>24. ASSUME NEW w \in Workers, WorkerCrash(w) PROVE Placed'
  BY <1>24, <1>t DEF WorkerCrash, GoIdle
<1>25. CASE SetEnabled
  BY <1>25, <1>t DEF SetEnabled
<1>26. ASSUME NEW p \in PRs, Push(p) PROVE Placed'
  BY <1>26, <1>t DEF Push
<1>27. CASE UNCHANGED vars
  BY <1>27, <1>t DEF vars
<1> QED
  BY <1>1, <1>2, <1>3, <1>4, <1>5, <1>6, <1>7, <1>8, <1>9, <1>10, <1>11, <1>12,
     <1>13, <1>14, <1>15, <1>16, <1>17, <1>18, <1>19, <1>20, <1>21, <1>22, <1>23,
     <1>24, <1>25, <1>26, <1>27
     DEF Next, GatewayStep, WorkerStep

(***************************************************************************)
(* A request whose run is recorded, and a worker that reports, are always  *)
(* in the states the code can be in; a message is delivered at most        *)
(* MaxDelivery times.                                                      *)
(***************************************************************************)
THEOREM TypeCorrect == Spec => []TypeOK
<1>1. Init => Basic
  BY InitBasic
<1>2. Basic /\ [Next]_vars => Basic'
  BY TypeStep, DeliveriesStep, PlacedStep DEF Basic
<1>3. Basic => TypeOK
  BY DEF Basic
<1> QED
  BY <1>1, <1>2, <1>3, PTL DEF Spec

LEMMA BasicInvariant == Spec => []Basic
<1>1. Init => Basic
  BY InitBasic
<1>2. Basic /\ [Next]_vars => Basic'
  BY TypeStep, DeliveriesStep, PlacedStep DEF Basic
<1> QED
  BY <1>1, <1>2, PTL DEF Spec

-------------------------------------------------------------------------------
(* The record is written before the message is sent, and no step takes it  *)
(* away.                                                                   *)
Visible ==
  \A q \in Requests :
    Sent(q) \/ rpc[q] \in {"enqueue", "failing"} => status[rrun[q]] # "none"

LEMMA VisibleStep == Basic /\ Visible /\ [Next]_vars => Visible'
<1> USE ConstantsAssumption
<1> SUFFICES ASSUME Basic, Visible, [Next]_vars PROVE Visible'
  OBVIOUS
<1> USE DEF Visible, Sent, gatewayVars, recordVars, queueVars, workerVars, adoVars
<1>t. /\ rpc \in [Requests -> {"idle"} \cup InFlight \cup Answered]
      /\ rrun \in [Requests -> Runs \cup {NoRun}]
      /\ status \in [Runs -> RunStatuses]
      /\ msg \in [Requests -> {"none", "ready", "locked", "done", "dead"}]
      /\ wmsg \in [Workers -> Requests \cup {NoMsg}]
      /\ Placed
      /\ Visible
  BY DEF Basic, TypeOK
<1>1. ASSUME NEW q \in Requests, NEW e \in Events, Webhook(q, e) PROVE Visible'
  BY <1>1, <1>t DEF Webhook, MayServe, Placed
<1>2. ASSUME NEW q \in Requests, Rerun(q) PROVE Visible'
  BY <1>2, <1>t DEF Rerun, MayServe, Placed
<1>3. ASSUME NEW q \in Requests, CheckExisting(q) PROVE Visible'
  BY <1>3, <1>t DEF CheckExisting
<1>4. ASSUME NEW q \in Requests, RecordQueued(q) PROVE Visible'
  <2>1. rrun[q] \in Runs
    BY <1>4, <1>t DEF RecordQueued, Placed
  <2>2. status'[rrun[q]] # "none"
    BY <1>4, <1>t, <2>1 DEF RecordQueued
  <2>3. \A r \in Runs : status'[r] = "none" => status[r] = "none"
    BY <1>4, <1>t DEF RecordQueued
  <2>4. \A p \in Requests : Sent(p) \/ rpc[p] \in {"enqueue", "failing"} => rrun[p] \in Runs
    BY <1>t DEF Placed
  <2>5. UNCHANGED <<msg, rrun>> /\ rpc' = [rpc EXCEPT ![q] = "enqueue"]
    BY <1>4 DEF RecordQueued
  <2> QED
    BY <1>t, <2>2, <2>3, <2>4, <2>5
<1>5. ASSUME NEW q \in Requests, EnqueueJob(q) PROVE Visible'
  BY <1>5, <1>t DEF EnqueueJob
<1>6. ASSUME NEW q \in Requests, EnqueueFails(q) PROVE Visible'
  BY <1>6, <1>t DEF EnqueueFails
<1>7. ASSUME NEW q \in Requests, MarkEnqueueFailed(q) PROVE Visible'
  <2>1. \A r \in Runs : status'[r] = "none" => status[r] = "none"
    BY <1>7, <1>t DEF MarkEnqueueFailed
  <2>2. UNCHANGED <<msg, rrun>> /\ rpc' = [rpc EXCEPT ![q] = "unavailable"]
    BY <1>7 DEF MarkEnqueueFailed
  <2>3. \A p \in Requests : Sent(p) \/ rpc[p] \in {"enqueue", "failing"} => rrun[p] \in Runs
    BY <1>t DEF Placed
  <2> QED
    BY <1>t, <2>1, <2>2, <2>3
<1>8. ASSUME NEW q \in Requests, GatewayCrash(q) PROVE Visible'
  BY <1>8, <1>t DEF GatewayCrash
<1>9. ASSUME NEW q \in Requests, LockExpires(q) PROVE Visible'
  BY <1>9, <1>t DEF LockExpires, Released
<1>10. ASSUME NEW q \in Requests, MessageExpires(q) PROVE Visible'
  BY <1>10, <1>t DEF MessageExpires
<1>11. ASSUME NEW w \in Workers, NEW q \in Requests, Receive(w, q) PROVE Visible'
  BY <1>11, <1>t DEF Receive
<1>12. ASSUME NEW w \in Workers, MarkRunning(w) PROVE Visible'
  <2>1. \A r \in Runs : status'[r] = "none" => status[r] = "none"
    BY <1>12, <1>t DEF MarkRunning
  <2>2. UNCHANGED <<rpc, rrun, msg>>
    BY <1>12 DEF MarkRunning
  <2>3. \A q \in Requests : Sent(q) \/ rpc[q] \in {"enqueue", "failing"} => rrun[q] \in Runs
    BY <1>t DEF Placed
  <2> QED
    BY <1>t, <2>1, <2>2, <2>3
<1>13. ASSUME NEW w \in Workers, SkipDisabled(w) PROVE Visible'
  <2>1. \A r \in Runs : status'[r] = "none" => status[r] = "none"
    BY <1>13, <1>t DEF SkipDisabled
  <2>2. UNCHANGED <<rpc, rrun, msg>>
    BY <1>13 DEF SkipDisabled
  <2>3. \A q \in Requests : Sent(q) \/ rpc[q] \in {"enqueue", "failing"} => rrun[q] \in Runs
    BY <1>t DEF Placed
  <2> QED
    BY <1>t, <2>1, <2>2, <2>3
<1>14. ASSUME NEW w \in Workers, Scan(w) PROVE Visible'
  BY <1>14, <1>t DEF Scan
<1>15. ASSUME NEW w \in Workers, RecordResult(w) PROVE Visible'
  <2>1. \A r \in Runs : status'[r] = "none" => status[r] = "none"
    BY <1>15, <1>t DEF RecordResult
  <2>2. UNCHANGED <<rpc, rrun, msg>>
    BY <1>15 DEF RecordResult
  <2>3. \A q \in Requests : Sent(q) \/ rpc[q] \in {"enqueue", "failing"} => rrun[q] \in Runs
    BY <1>t DEF Placed
  <2> QED
    BY <1>t, <2>1, <2>2, <2>3
<1>16. ASSUME NEW w \in Workers, ReadThreads(w) PROVE Visible'
  BY <1>16, <1>t DEF ReadThreads
<1>17. ASSUME NEW w \in Workers, NEW x \in Items, Post(w, x) PROVE Visible'
  BY <1>17, <1>t DEF Post
<1>18. ASSUME NEW w \in Workers, NEW x \in Items, PostAckLost(w, x) PROVE Visible'
  BY <1>18, <1>t DEF PostAckLost
<1>19. ASSUME NEW w \in Workers, PostStatus(w) PROVE Visible'
  BY <1>19, <1>t DEF PostStatus
<1>20. ASSUME NEW w \in Workers, CompleteMessage(w) PROVE Visible'
  <2>1. wmsg[w] \in Requests /\ msg[wmsg[w]] # "none"
    BY <1>20, <1>t DEF CompleteMessage, Placed
  <2> QED
    BY <1>20, <1>t, <2>1 DEF CompleteMessage
<1>21. ASSUME NEW w \in Workers, Fail(w) PROVE Visible'
  BY <1>21, <1>t DEF Fail
<1>22. ASSUME NEW w \in Workers, MarkFailed(w) PROVE Visible'
  <2>1. \A r \in Runs : status'[r] = "none" => status[r] = "none"
    BY <1>22, <1>t DEF MarkFailed
  <2>2. UNCHANGED <<rpc, rrun, msg>>
    BY <1>22 DEF MarkFailed
  <2>3. \A q \in Requests : Sent(q) \/ rpc[q] \in {"enqueue", "failing"} => rrun[q] \in Runs
    BY <1>t DEF Placed
  <2> QED
    BY <1>t, <2>1, <2>2, <2>3
<1>23. ASSUME NEW w \in Workers, AbandonMessage(w) PROVE Visible'
  <2>1. wmsg[w] \in Requests /\ msg[wmsg[w]] # "none"
    BY <1>23, <1>t DEF AbandonMessage, Placed
  <2> QED
    BY <1>23, <1>t, <2>1 DEF AbandonMessage, Released
<1>24. ASSUME NEW w \in Workers, WorkerCrash(w) PROVE Visible'
  BY <1>24, <1>t DEF WorkerCrash, GoIdle
<1>25. CASE SetEnabled
  BY <1>25, <1>t DEF SetEnabled
<1>26. ASSUME NEW p \in PRs, Push(p) PROVE Visible'
  BY <1>26, <1>t DEF Push
<1>27. CASE UNCHANGED vars
  BY <1>27, <1>t DEF vars
<1> QED
  BY <1>1, <1>2, <1>3, <1>4, <1>5, <1>6, <1>7, <1>8, <1>9, <1>10, <1>11, <1>12,
     <1>13, <1>14, <1>15, <1>16, <1>17, <1>18, <1>19, <1>20, <1>21, <1>22, <1>23,
     <1>24, <1>25, <1>26, <1>27
     DEF Next, GatewayStep, WorkerStep

(* THEOREM: every message on the queue, and every one that ever was, has a *)
(* record that the monitoring page lists, whatever crashes.                *)
THEOREM RunsStayVisible == Spec => []RunsAreVisible
<1>1. Init => Visible
  BY DEF Init, Visible, Sent
<1>2. Visible => RunsAreVisible
  BY DEF Visible, RunsAreVisible
<1> QED
  BY <1>1, <1>2, BasicInvariant, VisibleStep, PTL DEF Spec
-------------------------------------------------------------------------------
(* With one handler at a time, a request that got past the look-up of      *)
(* get_review is alone with its run.                                       *)
Alone ==
  /\ \A p, q \in Requests : rpc[p] \in InFlight /\ rpc[q] \in InFlight => p = q
  /\ \A q \in Requests : rpc[q] \in {"record", "enqueue", "failing"} =>
       \A p \in Requests : p # q /\ Sent(p) => rrun[p] # rrun[q]
  /\ OneMessagePerRun

LEMMA AloneStep ==
  SerialGateway /\ Basic /\ Visible /\ Alone /\ [Next]_vars => Alone'
<1> USE ConstantsAssumption
<1> SUFFICES ASSUME SerialGateway, Basic, Visible, Alone, [Next]_vars PROVE Alone'
  OBVIOUS
<1> USE DEF Alone, OneMessagePerRun, Sent, InFlight, gatewayVars, recordVars, queueVars, workerVars, adoVars
<1>t. /\ rpc \in [Requests -> {"idle"} \cup InFlight \cup Answered]
      /\ rrun \in [Requests -> Runs \cup {NoRun}]
      /\ msg \in [Requests -> {"none", "ready", "locked", "done", "dead"}]
      /\ wmsg \in [Workers -> Requests \cup {NoMsg}]
      /\ Placed
      /\ Alone
  BY DEF Basic, TypeOK
<1>1. ASSUME NEW q \in Requests, NEW e \in Events, Webhook(q, e) PROVE Alone'
  BY <1>1, <1>t DEF Webhook, MayServe, Placed
<1>2. ASSUME NEW q \in Requests, Rerun(q) PROVE Alone'
  BY <1>2, <1>t DEF Rerun, MayServe, Placed
<1>3. ASSUME NEW q \in Requests, CheckExisting(q) PROVE Alone'
  BY <1>3, <1>t DEF CheckExisting, Visible
<1>4. ASSUME NEW q \in Requests, RecordQueued(q) PROVE Alone'
  BY <1>4, <1>t DEF RecordQueued
<1>5. ASSUME NEW q \in Requests, EnqueueJob(q) PROVE Alone'
  BY <1>5, <1>t DEF EnqueueJob
<1>6. ASSUME NEW q \in Requests, EnqueueFails(q) PROVE Alone'
  BY <1>6, <1>t DEF EnqueueFails
<1>7. ASSUME NEW q \in Requests, MarkEnqueueFailed(q) PROVE Alone'
  BY <1>7, <1>t DEF MarkEnqueueFailed
<1>8. ASSUME NEW q \in Requests, GatewayCrash(q) PROVE Alone'
  BY <1>8, <1>t DEF GatewayCrash
<1>9. ASSUME NEW q \in Requests, LockExpires(q) PROVE Alone'
  BY <1>9, <1>t DEF LockExpires, Released
<1>10. ASSUME NEW q \in Requests, MessageExpires(q) PROVE Alone'
  BY <1>10, <1>t DEF MessageExpires
<1>11. ASSUME NEW w \in Workers, NEW q \in Requests, Receive(w, q) PROVE Alone'
  BY <1>11, <1>t DEF Receive
<1>12. ASSUME NEW w \in Workers, MarkRunning(w) PROVE Alone'
  BY <1>12, <1>t DEF MarkRunning
<1>13. ASSUME NEW w \in Workers, SkipDisabled(w) PROVE Alone'
  BY <1>13, <1>t DEF SkipDisabled
<1>14. ASSUME NEW w \in Workers, Scan(w) PROVE Alone'
  BY <1>14, <1>t DEF Scan
<1>15. ASSUME NEW w \in Workers, RecordResult(w) PROVE Alone'
  BY <1>15, <1>t DEF RecordResult
<1>16. ASSUME NEW w \in Workers, ReadThreads(w) PROVE Alone'
  BY <1>16, <1>t DEF ReadThreads
<1>17. ASSUME NEW w \in Workers, NEW x \in Items, Post(w, x) PROVE Alone'
  BY <1>17, <1>t DEF Post
<1>18. ASSUME NEW w \in Workers, NEW x \in Items, PostAckLost(w, x) PROVE Alone'
  BY <1>18, <1>t DEF PostAckLost
<1>19. ASSUME NEW w \in Workers, PostStatus(w) PROVE Alone'
  BY <1>19, <1>t DEF PostStatus
<1>20. ASSUME NEW w \in Workers, CompleteMessage(w) PROVE Alone'
  <2>1. wmsg[w] \in Requests /\ msg[wmsg[w]] # "none"
    BY <1>20, <1>t DEF CompleteMessage, Placed
  <2> QED
    BY <1>20, <1>t, <2>1 DEF CompleteMessage
<1>21. ASSUME NEW w \in Workers, Fail(w) PROVE Alone'
  BY <1>21, <1>t DEF Fail
<1>22. ASSUME NEW w \in Workers, MarkFailed(w) PROVE Alone'
  BY <1>22, <1>t DEF MarkFailed
<1>23. ASSUME NEW w \in Workers, AbandonMessage(w) PROVE Alone'
  <2>1. wmsg[w] \in Requests /\ msg[wmsg[w]] # "none"
    BY <1>23, <1>t DEF AbandonMessage, Placed
  <2> QED
    BY <1>23, <1>t, <2>1 DEF AbandonMessage, Released
<1>24. ASSUME NEW w \in Workers, WorkerCrash(w) PROVE Alone'
  BY <1>24, <1>t DEF WorkerCrash, GoIdle
<1>25. CASE SetEnabled
  BY <1>25, <1>t DEF SetEnabled
<1>26. ASSUME NEW p \in PRs, Push(p) PROVE Alone'
  BY <1>26, <1>t DEF Push
<1>27. CASE UNCHANGED vars
  BY <1>27, <1>t DEF vars
<1> QED
  BY <1>1, <1>2, <1>3, <1>4, <1>5, <1>6, <1>7, <1>8, <1>9, <1>10, <1>11, <1>12,
     <1>13, <1>14, <1>15, <1>16, <1>17, <1>18, <1>19, <1>20, <1>21, <1>22, <1>23,
     <1>24, <1>25, <1>26, <1>27
     DEF Next, GatewayStep, WorkerStep

LEMMA InitAlone == Init => Alone
BY DEF Init, Alone, OneMessagePerRun, Sent, InFlight

(* THEOREM: with the container gateway, however often Azure DevOps repeats *)
(* an event and whatever happened to it before, at most one message is     *)
(* ever sent for its run.                                                  *)
THEOREM SerialGatewaySendsOnce ==
  ASSUME SerialGateway
  PROVE  Spec => []OneMessagePerRun
<1>1. Init => Visible
  BY DEF Init, Visible, Sent
<1>2. Alone => OneMessagePerRun
  BY DEF Alone
<1>3. Basic /\ Visible /\ Alone /\ [Next]_vars => Alone'
  BY AloneStep
<1> QED
  BY <1>1, <1>2, <1>3, InitAlone, BasicInvariant, VisibleStep, PTL DEF Spec
-------------------------------------------------------------------------------
(* What one POST does to the threads.                                      *)
LEMMA AddThreadEffect ==
  ASSUME Basic, NEW w \in Workers, NEW x \in Items, wpc[w] = "posting", AddThread(w, x)
  PROVE  /\ RunOf(w) \in Runs
         /\ PrOf[RunOf(w)] \in PRs
         /\ wresult[w].iter \in Iterations
         /\ \A p \in PRs, i \in Iterations, y \in Items :
              posts'[p][i][y] =
                IF p = PrOf[RunOf(w)] /\ i = wresult[w].iter /\ y = x
                  THEN posts[p][i][y] + 1 ELSE posts[p][i][y]
<1> USE ConstantsAssumption
<1> DEFINE pr == PrOf[RunOf(w)]
           it == wresult[w].iter
<1>1. wmsg[w] \in Requests /\ msg[wmsg[w]] # "none" /\ it \in Iterations
  BY DEF Basic, Placed
<1>2. RunOf(w) \in Runs
  BY <1>1 DEF Basic, Placed, TypeOK, RunOf
<1>3. pr \in PRs
  BY <1>2
<1>4. posts \in [PRs -> [Iterations -> [Items -> Nat]]]
  BY DEF Basic, TypeOK
<1>5. posts' = [posts EXCEPT ![pr] = [posts[pr] EXCEPT ![it] = [posts[pr][it] EXCEPT ![x] = @ + 1]]]
  BY DEF AddThread
<1> HIDE DEF pr, it
<1>6. ASSUME NEW p \in PRs, NEW i \in Iterations, NEW y \in Items
      PROVE  posts'[p][i][y] = IF p = pr /\ i = it /\ y = x
                                 THEN posts[p][i][y] + 1 ELSE posts[p][i][y]
  <2>1. posts[p] \in [Iterations -> [Items -> Nat]]
    BY <1>4
  <2>2. posts[p][i] \in [Items -> Nat]
    BY <2>1
  <2>3. CASE p # pr
    BY <1>4, <1>5, <2>3
  <2>4. CASE p = pr /\ i # it
    BY <1>4, <1>5, <2>1, <2>4
  <2>5. CASE p = pr /\ i = it
    <3>1. posts'[p] = [posts[p] EXCEPT ![i] = [posts[p][i] EXCEPT ![x] = @ + 1]]
      BY <1>4, <1>5, <2>5
    <3>2. posts'[p][i] = [posts[p][i] EXCEPT ![x] = @ + 1]
      BY <2>1, <3>1
    <3> QED
      BY <2>2, <2>5, <3>2
  <2> QED
    BY <2>3, <2>4, <2>5
<1> QED
  BY <1>1, <1>2, <1>3, <1>6 DEF pr, it

(* Threads change by a POST of a worker and by nothing else.               *)
LEMMA ThreadsMove ==
  Basic /\ [Next]_vars =>
    \/ UNCHANGED posts
    \/ \E w \in Workers, x \in Items :
         /\ wpc[w] = "posting" /\ x \in wtodo[w] /\ AddThread(w, x)
         /\ Post(w, x) \/ PostAckLost(w, x)
<1> SUFFICES ASSUME Basic, [Next]_vars
             PROVE  \/ UNCHANGED posts
                    \/ \E w \in Workers, x \in Items :
                         /\ wpc[w] = "posting" /\ x \in wtodo[w] /\ AddThread(w, x)
                         /\ Post(w, x) \/ PostAckLost(w, x)
  OBVIOUS
<1> DEFINE G == \/ UNCHANGED posts
                \/ \E w \in Workers, x \in Items :
                     /\ wpc[w] = "posting" /\ x \in wtodo[w] /\ AddThread(w, x)
                     /\ Post(w, x) \/ PostAckLost(w, x)
<1> USE DEF gatewayVars, recordVars, queueVars, workerVars, adoVars
<1>1. ASSUME NEW q \in Requests, NEW e \in Events, Webhook(q, e) PROVE G
  BY <1>1 DEF Webhook
<1>2. ASSUME NEW q \in Requests, Rerun(q) PROVE G
  BY <1>2 DEF Rerun
<1>3. ASSUME NEW q \in Requests, CheckExisting(q) PROVE G
  BY <1>3 DEF CheckExisting
<1>4. ASSUME NEW q \in Requests, RecordQueued(q) PROVE G
  BY <1>4 DEF RecordQueued
<1>5. ASSUME NEW q \in Requests, EnqueueJob(q) PROVE G
  BY <1>5 DEF EnqueueJob
<1>6. ASSUME NEW q \in Requests, EnqueueFails(q) PROVE G
  BY <1>6 DEF EnqueueFails
<1>7. ASSUME NEW q \in Requests, MarkEnqueueFailed(q) PROVE G
  BY <1>7 DEF MarkEnqueueFailed
<1>8. ASSUME NEW q \in Requests, GatewayCrash(q) PROVE G
  BY <1>8 DEF GatewayCrash
<1>9. ASSUME NEW q \in Requests, LockExpires(q) PROVE G
  BY <1>9 DEF LockExpires
<1>10. ASSUME NEW q \in Requests, MessageExpires(q) PROVE G
  BY <1>10 DEF MessageExpires
<1>11. ASSUME NEW w \in Workers, NEW q \in Requests, Receive(w, q) PROVE G
  BY <1>11 DEF Receive
<1>12. ASSUME NEW w \in Workers, MarkRunning(w) PROVE G
  BY <1>12 DEF MarkRunning
<1>13. ASSUME NEW w \in Workers, SkipDisabled(w) PROVE G
  BY <1>13 DEF SkipDisabled
<1>14. ASSUME NEW w \in Workers, Scan(w) PROVE G
  BY <1>14 DEF Scan
<1>15. ASSUME NEW w \in Workers, RecordResult(w) PROVE G
  BY <1>15 DEF RecordResult
<1>16. ASSUME NEW w \in Workers, ReadThreads(w) PROVE G
  BY <1>16 DEF ReadThreads
<1>17. ASSUME NEW w \in Workers, NEW x \in Items, Post(w, x) PROVE G
  BY <1>17 DEF Post, NextComment
<1>18. ASSUME NEW w \in Workers, NEW x \in Items, PostAckLost(w, x) PROVE G
  BY <1>18 DEF PostAckLost, NextComment
<1>19. ASSUME NEW w \in Workers, PostStatus(w) PROVE G
  BY <1>19 DEF PostStatus
<1>20. ASSUME NEW w \in Workers, CompleteMessage(w) PROVE G
  BY <1>20 DEF CompleteMessage, GoIdle
<1>21. ASSUME NEW w \in Workers, Fail(w) PROVE G
  BY <1>21 DEF Fail
<1>22. ASSUME NEW w \in Workers, MarkFailed(w) PROVE G
  BY <1>22 DEF MarkFailed
<1>23. ASSUME NEW w \in Workers, AbandonMessage(w) PROVE G
  BY <1>23 DEF AbandonMessage, GoIdle
<1>24. ASSUME NEW w \in Workers, WorkerCrash(w) PROVE G
  BY <1>24 DEF WorkerCrash, GoIdle
<1>25. CASE SetEnabled
  BY <1>25 DEF SetEnabled
<1>26. ASSUME NEW p \in PRs, Push(p) PROVE G
  BY <1>26 DEF Push
<1>27. CASE UNCHANGED vars
  BY <1>27 DEF vars
<1> QED
  BY <1>1, <1>2, <1>3, <1>4, <1>5, <1>6, <1>7, <1>8, <1>9, <1>10, <1>11, <1>12,
     <1>13, <1>14, <1>15, <1>16, <1>17, <1>18, <1>19, <1>20, <1>21, <1>22, <1>23,
     <1>24, <1>25, <1>26, <1>27
     DEF Next, GatewayStep, WorkerStep

(* No step removes a thread.                                               *)
LEMMA ThreadsGrow ==
  Basic /\ [Next]_vars =>
    \A p \in PRs, i \in Iterations, x \in Items : posts'[p][i][x] >= posts[p][i][x]
<1> SUFFICES ASSUME Basic, [Next]_vars,
                    NEW p \in PRs, NEW i \in Iterations, NEW x \in Items
             PROVE  posts'[p][i][x] >= posts[p][i][x]
  OBVIOUS
<1>1. posts[p][i][x] \in Nat
  <2>1. posts[p] \in [Iterations -> [Items -> Nat]]
    BY DEF Basic, TypeOK
  <2> QED
    BY <2>1
<1>2. CASE UNCHANGED posts
  BY <1>1, <1>2
<1>3. CASE \E w \in Workers, y \in Items : wpc[w] = "posting" /\ y \in wtodo[w] /\ AddThread(w, y)
  <2>1. PICK w \in Workers, y \in Items : wpc[w] = "posting" /\ y \in wtodo[w] /\ AddThread(w, y)
    BY <1>3
  <2> QED
    BY <1>1, <2>1, AddThreadEffect
<1> QED
  BY <1>2, <1>3, ThreadsMove

(* A run id is given to a request when it is served.                       *)
LEMMA RunsMove ==
  [Next]_vars =>
    \/ UNCHANGED rrun
    \/ \E q \in Requests : rpc[q] = "idle" /\ \E r : rrun' = [rrun EXCEPT ![q] = r]
<1> DEFINE G == \/ UNCHANGED rrun
                \/ \E q \in Requests : rpc[q] = "idle" /\ \E r : rrun' = [rrun EXCEPT ![q] = r]
<1> SUFFICES ASSUME [Next]_vars PROVE G
  OBVIOUS
<1> USE DEF gatewayVars, recordVars, queueVars, workerVars, adoVars
<1>1. ASSUME NEW q \in Requests, NEW e \in Events, Webhook(q, e) PROVE G
  BY <1>1 DEF Webhook, MayServe
<1>2. ASSUME NEW q \in Requests, Rerun(q) PROVE G
  BY <1>2 DEF Rerun, MayServe
<1>3. ASSUME NEW q \in Requests, CheckExisting(q) PROVE G
  BY <1>3 DEF CheckExisting
<1>4. ASSUME NEW q \in Requests, RecordQueued(q) PROVE G
  BY <1>4 DEF RecordQueued
<1>5. ASSUME NEW q \in Requests, EnqueueJob(q) PROVE G
  BY <1>5 DEF EnqueueJob
<1>6. ASSUME NEW q \in Requests, EnqueueFails(q) PROVE G
  BY <1>6 DEF EnqueueFails
<1>7. ASSUME NEW q \in Requests, MarkEnqueueFailed(q) PROVE G
  BY <1>7 DEF MarkEnqueueFailed
<1>8. ASSUME NEW q \in Requests, GatewayCrash(q) PROVE G
  BY <1>8 DEF GatewayCrash
<1>9. ASSUME NEW q \in Requests, LockExpires(q) PROVE G
  BY <1>9 DEF LockExpires
<1>10. ASSUME NEW q \in Requests, MessageExpires(q) PROVE G
  BY <1>10 DEF MessageExpires
<1>11. ASSUME NEW w \in Workers, NEW q \in Requests, Receive(w, q) PROVE G
  BY <1>11 DEF Receive
<1>12. ASSUME NEW w \in Workers, MarkRunning(w) PROVE G
  BY <1>12 DEF MarkRunning
<1>13. ASSUME NEW w \in Workers, SkipDisabled(w) PROVE G
  BY <1>13 DEF SkipDisabled
<1>14. ASSUME NEW w \in Workers, Scan(w) PROVE G
  BY <1>14 DEF Scan
<1>15. ASSUME NEW w \in Workers, RecordResult(w) PROVE G
  BY <1>15 DEF RecordResult
<1>16. ASSUME NEW w \in Workers, ReadThreads(w) PROVE G
  BY <1>16 DEF ReadThreads
<1>17. ASSUME NEW w \in Workers, NEW x \in Items, Post(w, x) PROVE G
  BY <1>17 DEF Post
<1>18. ASSUME NEW w \in Workers, NEW x \in Items, PostAckLost(w, x) PROVE G
  BY <1>18 DEF PostAckLost
<1>19. ASSUME NEW w \in Workers, PostStatus(w) PROVE G
  BY <1>19 DEF PostStatus
<1>20. ASSUME NEW w \in Workers, CompleteMessage(w) PROVE G
  BY <1>20 DEF CompleteMessage, GoIdle
<1>21. ASSUME NEW w \in Workers, Fail(w) PROVE G
  BY <1>21 DEF Fail
<1>22. ASSUME NEW w \in Workers, MarkFailed(w) PROVE G
  BY <1>22 DEF MarkFailed
<1>23. ASSUME NEW w \in Workers, AbandonMessage(w) PROVE G
  BY <1>23 DEF AbandonMessage, GoIdle
<1>24. ASSUME NEW w \in Workers, WorkerCrash(w) PROVE G
  BY <1>24 DEF WorkerCrash, GoIdle
<1>25. CASE SetEnabled
  BY <1>25 DEF SetEnabled
<1>26. ASSUME NEW p \in PRs, Push(p) PROVE G
  BY <1>26 DEF Push
<1>27. CASE UNCHANGED vars
  BY <1>27 DEF vars
<1> QED
  BY <1>1, <1>2, <1>3, <1>4, <1>5, <1>6, <1>7, <1>8, <1>9, <1>10, <1>11, <1>12,
     <1>13, <1>14, <1>15, <1>16, <1>17, <1>18, <1>19, <1>20, <1>21, <1>22, <1>23,
     <1>24, <1>25, <1>26, <1>27
     DEF Next, GatewayStep, WorkerStep

(* A busy worker keeps its run as long as it keeps its message.            *)
LEMMA RunKept ==
  ASSUME Basic, [Next]_vars, NEW w \in Workers, wpc[w] # "idle", wmsg'[w] = wmsg[w]
  PROVE  RunOf(w)' = RunOf(w) /\ RunOf(w) \in Runs
<1> USE ConstantsAssumption
<1> DEFINE m == wmsg[w]
           G == rrun'[m] = rrun[m]
<1>1. m \in Requests /\ msg[m] # "none"
  BY DEF Basic, Placed
<1>2. rpc[m] # "idle" /\ rrun[m] \in Runs
  BY <1>1 DEF Basic, Placed
<1>3. rrun'[m] = rrun[m]
  <2> HIDE DEF m
  <2> SUFFICES rrun'[m] = rrun[m]
    OBVIOUS
  <2>1. CASE UNCHANGED rrun
    BY <2>1
  <2>2. CASE \E q \in Requests : rpc[q] = "idle" /\ \E r : rrun' = [rrun EXCEPT ![q] = r]
    BY <1>1, <1>2, <2>2 DEF Basic, TypeOK
  <2>3. UNCHANGED rrun \/ \E q \in Requests : rpc[q] = "idle" /\ \E r : rrun' = [rrun EXCEPT ![q] = r]
    BY RunsMove
  <2> QED
    BY <2>1, <2>2, <2>3
<1> QED
  BY <1>2, <1>3 DEF RunOf

Still(w) == /\ wpc'[w] = wpc[w] /\ wmsg'[w] = wmsg[w]
            /\ wresult'[w] = wresult[w] /\ wtodo'[w] = wtodo[w]

(* How a worker comes to be posting or completing.                         *)
LEMMA PublishingMoves ==
  ASSUME Basic, [Next]_vars, NEW v \in Workers
  PROVE  \/ Still(v)
         \/ wpc'[v] \notin {"posting", "complete"}
         \/ ReadThreads(v) \/ SkipDisabled(v) \/ PostStatus(v)
         \/ \E y \in Items : Post(v, y)
<1> DEFINE G == \/ Still(v)
                \/ wpc'[v] \notin {"posting", "complete"}
                \/ ReadThreads(v) \/ SkipDisabled(v) \/ PostStatus(v)
                \/ \E y \in Items : Post(v, y)
<1>t. /\ wpc \in [Workers -> WorkerStates]
      /\ wmsg \in [Workers -> Requests \cup {NoMsg}]
      /\ wresult \in [Workers -> Results]
      /\ wtodo \in [Workers -> SUBSET Items]
  BY DEF Basic, TypeOK
<1> USE DEF Still, gatewayVars, recordVars, queueVars, workerVars, adoVars
<1>1. ASSUME NEW q \in Requests, NEW e \in Events, Webhook(q, e) PROVE G
  BY <1>1, <1>t DEF Webhook
<1>2. ASSUME NEW q \in Requests, Rerun(q) PROVE G
  BY <1>2, <1>t DEF Rerun
<1>3. ASSUME NEW q \in Requests, CheckExisting(q) PROVE G
  BY <1>3, <1>t DEF CheckExisting
<1>4. ASSUME NEW q \in Requests, RecordQueued(q) PROVE G
  BY <1>4, <1>t DEF RecordQueued
<1>5. ASSUME NEW q \in Requests, EnqueueJob(q) PROVE G
  BY <1>5, <1>t DEF EnqueueJob
<1>6. ASSUME NEW q \in Requests, EnqueueFails(q) PROVE G
  BY <1>6, <1>t DEF EnqueueFails
<1>7. ASSUME NEW q \in Requests, MarkEnqueueFailed(q) PROVE G
  BY <1>7, <1>t DEF MarkEnqueueFailed
<1>8. ASSUME NEW q \in Requests, GatewayCrash(q) PROVE G
  BY <1>8, <1>t DEF GatewayCrash
<1>9. ASSUME NEW q \in Requests, LockExpires(q) PROVE G
  BY <1>9, <1>t DEF LockExpires
<1>10. ASSUME NEW q \in Requests, MessageExpires(q) PROVE G
  BY <1>10, <1>t DEF MessageExpires
<1>11. ASSUME NEW w \in Workers, NEW q \in Requests, Receive(w, q) PROVE G
  BY <1>11, <1>t DEF Receive
<1>12. ASSUME NEW w \in Workers, MarkRunning(w) PROVE G
  BY <1>12, <1>t DEF MarkRunning
<1>13. ASSUME NEW w \in Workers, SkipDisabled(w) PROVE G
  <2>1. CASE w = v
    BY <1>13, <2>1
  <2>2. CASE w # v
    BY <1>13, <1>t, <2>2 DEF SkipDisabled
  <2> QED
    BY <2>1, <2>2
<1>14. ASSUME NEW w \in Workers, Scan(w) PROVE G
  BY <1>14, <1>t DEF Scan
<1>15. ASSUME NEW w \in Workers, RecordResult(w) PROVE G
  BY <1>15, <1>t DEF RecordResult
<1>16. ASSUME NEW w \in Workers, ReadThreads(w) PROVE G
  <2>1. CASE w = v
    BY <1>16, <2>1
  <2>2. CASE w # v
    BY <1>16, <1>t, <2>2 DEF ReadThreads
  <2> QED
    BY <2>1, <2>2
<1>17. ASSUME NEW w \in Workers, NEW x \in Items, Post(w, x) PROVE G
  <2>1. CASE w = v
    BY <1>17, <2>1
  <2>2. CASE w # v
    BY <1>17, <1>t, <2>2 DEF Post
  <2> QED
    BY <2>1, <2>2
<1>18. ASSUME NEW w \in Workers, NEW x \in Items, PostAckLost(w, x) PROVE G
  <2>1. wpc' = wpc \/ wpc' = [wpc EXCEPT ![w] = "failing"]
    BY <1>18 DEF PostAckLost
  <2>2. UNCHANGED <<wmsg, wresult, wtodo>>
    BY <1>18 DEF PostAckLost
  <2> QED
    BY <1>t, <2>1, <2>2
<1>19. ASSUME NEW w \in Workers, PostStatus(w) PROVE G
  <2>1. CASE w = v
    BY <1>19, <2>1
  <2>2. CASE w # v
    BY <1>19, <1>t, <2>2 DEF PostStatus
  <2> QED
    BY <2>1, <2>2
<1>20. ASSUME NEW w \in Workers, CompleteMessage(w) PROVE G
  BY <1>20, <1>t DEF CompleteMessage, GoIdle
<1>21. ASSUME NEW w \in Workers, Fail(w) PROVE G
  BY <1>21, <1>t DEF Fail
<1>22. ASSUME NEW w \in Workers, MarkFailed(w) PROVE G
  BY <1>22, <1>t DEF MarkFailed
<1>23. ASSUME NEW w \in Workers, AbandonMessage(w) PROVE G
  BY <1>23, <1>t DEF AbandonMessage, GoIdle
<1>24. ASSUME NEW w \in Workers, WorkerCrash(w) PROVE G
  BY <1>24, <1>t DEF WorkerCrash, GoIdle
<1>25. CASE SetEnabled
  BY <1>25, <1>t DEF SetEnabled
<1>26. ASSUME NEW p \in PRs, Push(p) PROVE G
  BY <1>26, <1>t DEF Push
<1>27. CASE UNCHANGED vars
  BY <1>27, <1>t DEF vars
<1> QED
  BY <1>1, <1>2, <1>3, <1>4, <1>5, <1>6, <1>7, <1>8, <1>9, <1>10, <1>11, <1>12,
     <1>13, <1>14, <1>15, <1>16, <1>17, <1>18, <1>19, <1>20, <1>21, <1>22, <1>23,
     <1>24, <1>25, <1>26, <1>27
     DEF Next, GatewayStep, WorkerStep

(* A posting worker has every comment of its result on the pull request    *)
(* that is not still to post; a completing one has them all.               *)
Posted ==
  \A w \in Workers : wpc[w] = "posting" =>
    \A x \in ({Summary} \cup wresult[w].found) \ wtodo[w] : Threads(w)[x] > 0

Reporting == Posted /\ ReportedBeforeComplete

LEMMA ReportedGrows == [Next]_vars => reported \subseteq reported'
<1> DEFINE G == reported \subseteq reported'
<1> SUFFICES ASSUME [Next]_vars PROVE G
  OBVIOUS
<1> USE DEF gatewayVars, recordVars, queueVars, workerVars, adoVars
<1>1. ASSUME NEW q \in Requests, NEW e \in Events, Webhook(q, e) PROVE G
  BY <1>1 DEF Webhook
<1>2. ASSUME NEW q \in Requests, Rerun(q) PROVE G
  BY <1>2 DEF Rerun
<1>3. ASSUME NEW q \in Requests, CheckExisting(q) PROVE G
  BY <1>3 DEF CheckExisting
<1>4. ASSUME NEW q \in Requests, RecordQueued(q) PROVE G
  BY <1>4 DEF RecordQueued
<1>5. ASSUME NEW q \in Requests, EnqueueJob(q) PROVE G
  BY <1>5 DEF EnqueueJob
<1>6. ASSUME NEW q \in Requests, EnqueueFails(q) PROVE G
  BY <1>6 DEF EnqueueFails
<1>7. ASSUME NEW q \in Requests, MarkEnqueueFailed(q) PROVE G
  BY <1>7 DEF MarkEnqueueFailed
<1>8. ASSUME NEW q \in Requests, GatewayCrash(q) PROVE G
  BY <1>8 DEF GatewayCrash
<1>9. ASSUME NEW q \in Requests, LockExpires(q) PROVE G
  BY <1>9 DEF LockExpires
<1>10. ASSUME NEW q \in Requests, MessageExpires(q) PROVE G
  BY <1>10 DEF MessageExpires
<1>11. ASSUME NEW w \in Workers, NEW q \in Requests, Receive(w, q) PROVE G
  BY <1>11 DEF Receive
<1>12. ASSUME NEW w \in Workers, MarkRunning(w) PROVE G
  BY <1>12 DEF MarkRunning
<1>13. ASSUME NEW w \in Workers, SkipDisabled(w) PROVE G
  BY <1>13 DEF SkipDisabled
<1>14. ASSUME NEW w \in Workers, Scan(w) PROVE G
  BY <1>14 DEF Scan
<1>15. ASSUME NEW w \in Workers, RecordResult(w) PROVE G
  BY <1>15 DEF RecordResult
<1>16. ASSUME NEW w \in Workers, ReadThreads(w) PROVE G
  BY <1>16 DEF ReadThreads
<1>17. ASSUME NEW w \in Workers, NEW x \in Items, Post(w, x) PROVE G
  BY <1>17 DEF Post
<1>18. ASSUME NEW w \in Workers, NEW x \in Items, PostAckLost(w, x) PROVE G
  BY <1>18 DEF PostAckLost
<1>19. ASSUME NEW w \in Workers, PostStatus(w) PROVE G
  BY <1>19 DEF PostStatus
<1>20. ASSUME NEW w \in Workers, CompleteMessage(w) PROVE G
  BY <1>20 DEF CompleteMessage, GoIdle
<1>21. ASSUME NEW w \in Workers, Fail(w) PROVE G
  BY <1>21 DEF Fail
<1>22. ASSUME NEW w \in Workers, MarkFailed(w) PROVE G
  BY <1>22 DEF MarkFailed
<1>23. ASSUME NEW w \in Workers, AbandonMessage(w) PROVE G
  BY <1>23 DEF AbandonMessage, GoIdle
<1>24. ASSUME NEW w \in Workers, WorkerCrash(w) PROVE G
  BY <1>24 DEF WorkerCrash, GoIdle
<1>25. CASE SetEnabled
  BY <1>25 DEF SetEnabled
<1>26. ASSUME NEW p \in PRs, Push(p) PROVE G
  BY <1>26 DEF Push
<1>27. CASE UNCHANGED vars
  BY <1>27 DEF vars
<1> QED
  BY <1>1, <1>2, <1>3, <1>4, <1>5, <1>6, <1>7, <1>8, <1>9, <1>10, <1>11, <1>12,
     <1>13, <1>14, <1>15, <1>16, <1>17, <1>18, <1>19, <1>20, <1>21, <1>22, <1>23,
     <1>24, <1>25, <1>26, <1>27
     DEF Next, GatewayStep, WorkerStep

LEMMA ReportingStep == Basic /\ Reporting /\ [Next]_vars => Reporting'
<1> USE ConstantsAssumption
<1> SUFFICES ASSUME Basic, Reporting, [Next]_vars, NEW w \in Workers
             PROVE  /\ wpc'[w] = "posting" =>
                         \A x \in ({Summary} \cup wresult'[w].found) \ wtodo'[w] :
                           Threads(w)'[x] > 0
                    /\ wpc'[w] = "complete" =>
                         \/ wresult'[w] = NoResult
                         \/ /\ RunOf(w)' \in reported'
                            /\ \A x \in {Summary} \cup wresult'[w].found : Threads(w)'[x] > 0
  BY DEF Reporting, Posted, ReportedBeforeComplete
<1>f. {Summary} \cup wresult[w].found \subseteq Items
  BY DEF Basic, TypeOK, Results, Items
<1>p. wresult[w].iter \in Iterations /\ wpc[w] # "idle" =>
        \A x \in Items : Threads(w)[x] \in Nat
  <2> SUFFICES ASSUME wresult[w].iter \in Iterations, wpc[w] # "idle", NEW x \in Items
               PROVE  Threads(w)[x] \in Nat
    OBVIOUS
  <2>1. wmsg[w] \in Requests /\ msg[wmsg[w]] # "none"
    BY DEF Basic, Placed
  <2>2. RunOf(w) \in Runs
    BY <2>1 DEF Basic, Placed, TypeOK, RunOf
  <2>3. posts[PrOf[RunOf(w)]] \in [Iterations -> [Items -> Nat]]
    BY <2>2 DEF Basic, TypeOK
  <2>4. Threads(w) \in [Items -> Nat]
    BY <2>3 DEF Threads
  <2> QED
    BY <2>4
(* Threads seen by a worker that keeps its message and its result.         *)
<1>k. ASSUME wpc[w] # "idle", wmsg'[w] = wmsg[w], wresult'[w] = wresult[w],
             wresult[w].iter \in Iterations
      PROVE  \A x \in Items : Threads(w)[x] > 0 => Threads(w)'[x] > 0
  <2>1. RunOf(w)' = RunOf(w) /\ RunOf(w) \in Runs
    BY <1>k, RunKept
  <2>2. Threads(w)' = posts'[PrOf[RunOf(w)]][wresult[w].iter]
    BY <1>k, <2>1 DEF Threads
  <2>3. PrOf[RunOf(w)] \in PRs
    BY <2>1
  <2>4. \A x \in Items : Threads(w)'[x] >= Threads(w)[x]
    BY <1>k, <2>2, <2>3, ThreadsGrow DEF Threads
  <2>5. \A x \in Items : Threads(w)'[x] \in Nat
    <3>1. posts' \in [PRs -> [Iterations -> [Items -> Nat]]]
      BY TypeStep DEF TypeOK
    <3>2. posts'[PrOf[RunOf(w)]] \in [Iterations -> [Items -> Nat]]
      BY <2>3, <3>1
    <3>3. Threads(w)' \in [Items -> Nat]
      BY <1>k, <2>2, <3>2
    <3> QED
      BY <3>3
  <2> QED
    BY <1>k, <1>p, <2>4, <2>5
<1>1. CASE Still(w)
  <2>1. CASE wpc[w] = "posting"
    <3>1. wresult[w].iter \in Iterations
      BY <2>1 DEF Basic, Placed
    <3> QED
      BY <1>1, <1>f, <1>k, <2>1, <3>1 DEF Still, Reporting, Posted
  <2>2. CASE wpc[w] = "complete"
    <3>1. CASE wresult[w] = NoResult
      BY <1>1, <2>2, <3>1 DEF Still
    <3>2. CASE wresult[w] # NoResult
      <4>1. /\ RunOf(w) \in reported
            /\ \A x \in {Summary} \cup wresult[w].found : Threads(w)[x] > 0
        BY <2>2, <3>2 DEF Reporting, ReportedBeforeComplete
      <4>2. RunOf(w)' = RunOf(w)
        BY <1>1, <2>2, RunKept DEF Still
      <4>3. wresult[w].iter \in Iterations
        BY <2>2, <3>2 DEF Basic, Placed
      <4> QED
        BY <1>1, <1>f, <1>k, <2>2, <4>1, <4>2, <4>3, ReportedGrows DEF Still
    <3> QED
      BY <3>1, <3>2
  <2>3. CASE wpc[w] \notin {"posting", "complete"}
    BY <1>1, <2>3 DEF Still
  <2> QED
    BY <2>1, <2>2, <2>3
<1>2. CASE wpc'[w] \notin {"posting", "complete"}
  BY <1>2
<1>3. CASE ReadThreads(w)
  <2>1. /\ wpc[w] = "publish" /\ wpc'[w] = "posting"
        /\ wmsg' = wmsg /\ wresult' = wresult
        /\ wtodo'[w] = {x \in {Summary} \cup wresult[w].found : Threads(w)[x] = 0}
    BY <1>3 DEF ReadThreads, workerVars, Basic, TypeOK
  <2>2. wresult[w].iter \in Iterations
    BY <2>1 DEF Basic, Placed
  <2>3. \A x \in ({Summary} \cup wresult[w].found) \ wtodo'[w] : Threads(w)[x] > 0
    BY <1>f, <1>p, <2>1, <2>2
  <2> QED
    BY <1>f, <1>k, <2>1, <2>2, <2>3
<1>4. CASE SkipDisabled(w)
  <2>1. wpc'[w] = "complete" /\ wresult'[w] = NoResult
    BY <1>4 DEF SkipDisabled, Basic, TypeOK
  <2> QED
    BY <2>1
<1>5. CASE PostStatus(w)
  <2>1. /\ wpc[w] = "posting" /\ wtodo[w] = {} /\ wpc'[w] = "complete"
        /\ wmsg' = wmsg /\ wresult' = wresult /\ reported' = reported \cup {RunOf(w)}
    BY <1>5 DEF PostStatus, Basic, TypeOK
  <2>2. wresult[w].iter \in Iterations
    BY <2>1 DEF Basic, Placed
  <2>3. RunOf(w)' = RunOf(w)
    BY <2>1, RunKept
  <2>4. \A x \in {Summary} \cup wresult[w].found : Threads(w)[x] > 0
    BY <2>1 DEF Reporting, Posted
  <2> QED
    BY <1>f, <1>k, <2>1, <2>2, <2>3, <2>4
<1>6. CASE \E y \in Items : Post(w, y)
  <2>1. PICK y \in Items : Post(w, y)
    BY <1>6
  <2>2. /\ wpc[w] = "posting" /\ wpc' = wpc /\ wmsg' = wmsg /\ wresult' = wresult
        /\ wtodo'[w] = wtodo[w] \ {y} /\ AddThread(w, y)
    BY <2>1 DEF Post, NextComment, Basic, TypeOK
  <2>3. wresult[w].iter \in Iterations
    BY <2>2 DEF Basic, Placed
  <2>4. Threads(w)'[y] > 0
    <3>1. RunOf(w)' = RunOf(w) /\ RunOf(w) \in Runs
      BY <2>2, RunKept
    <3>2. posts'[PrOf[RunOf(w)]][wresult[w].iter][y] = Threads(w)[y] + 1
      BY <2>2, AddThreadEffect DEF Threads
    <3>3. Threads(w)'[y] = Threads(w)[y] + 1
      BY <2>2, <3>1, <3>2 DEF Threads
    <3> QED
      BY <1>p, <2>2, <2>3, <3>3
  <2> QED
    BY <1>f, <1>k, <2>2, <2>3, <2>4 DEF Reporting, Posted
<1> QED
  BY <1>1, <1>2, <1>3, <1>4, <1>5, <1>6, PublishingMoves

(* THEOREM: for any number of workers, and whatever is lost, killed or     *)
(* repeated, a message is acknowledged only after the comments of the      *)
(* result and the commit status are on the pull request.                   *)
THEOREM AcknowledgedAfterReporting == Spec => []ReportedBeforeComplete
<1>1. Init => Reporting
  BY DEF Init, Reporting, Posted, ReportedBeforeComplete
<1>2. Reporting => ReportedBeforeComplete
  BY DEF Reporting
<1> QED
  BY <1>1, <1>2, BasicInvariant, ReportingStep, PTL DEF Spec
-------------------------------------------------------------------------------
(* What a worker still has to post is not on the pull request yet.         *)
Unposted ==
  \A w \in Workers : wpc[w] = "posting" => \A x \in wtodo[w] : Threads(w)[x] = 0

Fresh == NoDuplicateThreads /\ Unposted

LEMMA FreshStep ==
  ASSUME \A v, w \in Workers : v = w, "lost_ack" \notin Faults
  PROVE  Basic /\ Fresh /\ [Next]_vars => Fresh'
<1> USE ConstantsAssumption
<1> SUFFICES ASSUME Basic, Fresh, [Next]_vars PROVE Fresh'
  OBVIOUS
<1>n. ASSUME "lost_ack" \notin Faults
      PROVE  UNCHANGED posts \/ \E w \in Workers, x \in Items : AddThread(w, x) /\ Post(w, x)
  BY <1>n, ThreadsMove DEF PostAckLost
<1>c. \A p \in PRs, i \in Iterations, x \in Items : posts[p][i][x] \in Nat
  <2> SUFFICES ASSUME NEW p \in PRs, NEW i \in Iterations, NEW x \in Items
               PROVE  posts[p][i][x] \in Nat
    OBVIOUS
  <2>1. posts[p] \in [Iterations -> [Items -> Nat]]
    BY DEF Basic, TypeOK
  <2> QED
    BY <2>1
<1>1. NoDuplicateThreads'
  <2>1. CASE UNCHANGED posts
    BY <2>1 DEF Fresh, NoDuplicateThreads
  <2>2. CASE \E w \in Workers, x \in Items : AddThread(w, x) /\ Post(w, x)
    <3>1. PICK w \in Workers, x \in Items : AddThread(w, x) /\ Post(w, x)
      BY <2>2
    <3>2. wpc[w] = "posting" /\ x \in wtodo[w]
      BY <3>1 DEF Post, NextComment
    <3>3. posts[PrOf[RunOf(w)]][wresult[w].iter][x] = 0
      BY <3>2 DEF Fresh, Unposted, Threads
    <3> QED
      BY <1>c, <3>1, <3>2, <3>3, AddThreadEffect DEF Fresh, NoDuplicateThreads
  <2> QED
    BY <1>n, <2>1, <2>2
<1>2. ASSUME NEW w \in Workers, wpc'[w] = "posting", NEW x \in wtodo'[w]
      PROVE  Threads(w)'[x] = 0
  <2>1. CASE Still(w)
    <3>1. wpc[w] = "posting" /\ x \in wtodo[w] /\ wmsg'[w] = wmsg[w] /\ wresult'[w] = wresult[w]
      BY <1>2, <2>1 DEF Still
    <3>2. UNCHANGED posts
      <4>1. ASSUME NEW v \in Workers, NEW y \in Items, Post(v, y) PROVE FALSE
        <5>1. v = w
          OBVIOUS
        <5>2. y \in wtodo[w] /\ wtodo'[w] = wtodo[w] \ {y}
          BY <4>1, <5>1 DEF Post, NextComment, Basic, TypeOK
        <5> QED
          BY <2>1, <5>2 DEF Still
      <4> QED
        BY <1>n, <4>1
    <3>3. RunOf(w)' = RunOf(w)
      BY <3>1, RunKept
    <3>4. Threads(w)' = Threads(w)
      BY <3>1, <3>2, <3>3 DEF Threads
    <3> QED
      BY <3>1, <3>4 DEF Fresh, Unposted
  <2>2. CASE ReadThreads(w)
    <3>1. /\ wpc[w] = "publish" /\ wmsg' = wmsg /\ wresult' = wresult /\ posts' = posts
          /\ wtodo'[w] = {y \in {Summary} \cup wresult[w].found : Threads(w)[y] = 0}
      BY <2>2 DEF ReadThreads, adoVars, Basic, TypeOK
    <3>2. RunOf(w)' = RunOf(w)
      BY <3>1, RunKept
    <3>3. Threads(w)' = Threads(w)
      BY <3>1, <3>2 DEF Threads
    <3> QED
      BY <1>2, <3>1, <3>3
  <2>3. CASE SkipDisabled(w) \/ PostStatus(w)
    BY <1>2, <2>3 DEF SkipDisabled, PostStatus, Basic, TypeOK
  <2>4. CASE \E y \in Items : Post(w, y)
    <3>1. PICK y \in Items : Post(w, y)
      BY <2>4
    <3>2. /\ wpc[w] = "posting" /\ wmsg' = wmsg /\ wresult' = wresult
          /\ y \in wtodo[w] /\ wtodo'[w] = wtodo[w] \ {y} /\ AddThread(w, y)
      BY <3>1 DEF Post, NextComment, Basic, TypeOK
    <3>3. x \in wtodo[w] /\ x # y /\ x \in Items
      BY <1>2, <3>2 DEF Basic, TypeOK
    <3>4. RunOf(w)' = RunOf(w)
      BY <3>2, RunKept
    <3>5. posts'[PrOf[RunOf(w)]][wresult[w].iter][x] = posts[PrOf[RunOf(w)]][wresult[w].iter][x]
      BY <3>2, <3>3, AddThreadEffect
    <3>6. Threads(w)'[x] = Threads(w)[x]
      BY <3>2, <3>4, <3>5 DEF Threads
    <3> QED
      BY <3>2, <3>3, <3>6 DEF Fresh, Unposted
  <2> QED
    BY <1>2, <2>1, <2>2, <2>3, <2>4, PublishingMoves
<1> QED
  BY <1>1, <1>2 DEF Fresh, Unposted

(* THEOREM: with the one worker of the deployment, and POSTs whose answer  *)
(* arrives, no comment is ever on a pull request twice for an iteration:   *)
(* redeliveries, reruns, lock losses and kills included.                   *)
THEOREM NoDuplicatesWithOneWorker ==
  ASSUME \A v, w \in Workers : v = w, "lost_ack" \notin Faults
  PROVE  Spec => []NoDuplicateThreads
<1>1. Init => Fresh
  <2> SUFFICES ASSUME Init PROVE Fresh
    OBVIOUS
  <2>1. \A p \in PRs, i \in Iterations, x \in Items : posts[p][i][x] = 0
    BY DEF Init
  <2>2. \A w \in Workers : wpc[w] # "posting"
    BY DEF Init
  <2> QED
    BY <2>1, <2>2 DEF Fresh, NoDuplicateThreads, Unposted
<1>2. Fresh => NoDuplicateThreads
  BY DEF Fresh
<1>3. Basic /\ Fresh /\ [Next]_vars => Fresh'
  BY FreshStep
<1> QED
  BY <1>1, <1>2, <1>3, BasicInvariant, PTL DEF Spec
-------------------------------------------------------------------------------
(* An answer that is lost never leaves a message behind, and an            *)
(* acknowledged message is in nobody's hands.                              *)
Settled ==
  /\ \A q \in Requests : Sent(q) => rpc[q] = "accepted"
  /\ \A q \in Requests : msg[q] = "done" => \A w \in Workers : wpc[w] # "idle" => wmsg[w] # q

LEMMA SettledStep ==
  ASSUME \A v, w \in Workers : v = w, "ambiguous_send" \notin Faults
  PROVE  Basic /\ Settled /\ [Next]_vars => Settled'
<1> USE ConstantsAssumption
<1> SUFFICES ASSUME Basic, Settled, [Next]_vars PROVE Settled'
  OBVIOUS
<1> USE DEF Settled, Sent, gatewayVars, recordVars, queueVars, workerVars, adoVars
<1>t. /\ rpc \in [Requests -> {"idle"} \cup InFlight \cup Answered]
      /\ msg \in [Requests -> {"none", "ready", "locked", "done", "dead"}]
      /\ wpc \in [Workers -> WorkerStates]
      /\ wmsg \in [Workers -> Requests \cup {NoMsg}]
      /\ Placed
      /\ Settled
  BY DEF Basic, TypeOK
<1>1. ASSUME NEW q \in Requests, NEW e \in Events, Webhook(q, e) PROVE Settled'
  BY <1>1, <1>t DEF Webhook, MayServe, Placed
<1>2. ASSUME NEW q \in Requests, Rerun(q) PROVE Settled'
  BY <1>2, <1>t DEF Rerun, MayServe, Placed
<1>3. ASSUME NEW q \in Requests, CheckExisting(q) PROVE Settled'
  BY <1>3, <1>t DEF CheckExisting
<1>4. ASSUME NEW q \in Requests, RecordQueued(q) PROVE Settled'
  BY <1>4, <1>t DEF RecordQueued
<1>5. ASSUME NEW q \in Requests, EnqueueJob(q) PROVE Settled'
  BY <1>5, <1>t DEF EnqueueJob
<1>6. ASSUME NEW q \in Requests, EnqueueFails(q) PROVE Settled'
  BY <1>6, <1>t DEF EnqueueFails
<1>7. ASSUME NEW q \in Requests, MarkEnqueueFailed(q) PROVE Settled'
  BY <1>7, <1>t DEF MarkEnqueueFailed
<1>8. ASSUME NEW q \in Requests, GatewayCrash(q) PROVE Settled'
  BY <1>8, <1>t DEF GatewayCrash, InFlight
<1>9. ASSUME NEW q \in Requests, LockExpires(q) PROVE Settled'
  BY <1>9, <1>t DEF LockExpires, Released
<1>10. ASSUME NEW q \in Requests, MessageExpires(q) PROVE Settled'
  BY <1>10, <1>t DEF MessageExpires
<1>11. ASSUME NEW w \in Workers, NEW q \in Requests, Receive(w, q) PROVE Settled'
  BY <1>11, <1>t DEF Receive
<1>12. ASSUME NEW w \in Workers, MarkRunning(w) PROVE Settled'
  BY <1>12, <1>t DEF MarkRunning
<1>13. ASSUME NEW w \in Workers, SkipDisabled(w) PROVE Settled'
  BY <1>13, <1>t DEF SkipDisabled
<1>14. ASSUME NEW w \in Workers, Scan(w) PROVE Settled'
  BY <1>14, <1>t DEF Scan
<1>15. ASSUME NEW w \in Workers, RecordResult(w) PROVE Settled'
  BY <1>15, <1>t DEF RecordResult
<1>16. ASSUME NEW w \in Workers, ReadThreads(w) PROVE Settled'
  BY <1>16, <1>t DEF ReadThreads
<1>17. ASSUME NEW w \in Workers, NEW x \in Items, Post(w, x) PROVE Settled'
  BY <1>17, <1>t DEF Post
<1>18. ASSUME NEW w \in Workers, NEW x \in Items, PostAckLost(w, x) PROVE Settled'
  <2>1. wpc[w] = "posting" /\ (wpc' = wpc \/ wpc' = [wpc EXCEPT ![w] = "failing"])
    BY <1>18 DEF PostAckLost, NextComment
  <2>2. UNCHANGED <<rpc, msg, wmsg>>
    BY <1>18 DEF PostAckLost
  <2> QED
    BY <1>t, <2>1, <2>2
<1>19. ASSUME NEW w \in Workers, PostStatus(w) PROVE Settled'
  BY <1>19, <1>t DEF PostStatus
<1>20. ASSUME NEW w \in Workers, CompleteMessage(w) PROVE Settled'
  <2>1. wmsg[w] \in Requests /\ msg[wmsg[w]] # "none"
    BY <1>20, <1>t DEF CompleteMessage, Placed
  <2>2. \A v \in Workers : wpc'[v] = "idle"
    BY <1>20, <1>t DEF CompleteMessage, GoIdle
  <2> QED
    BY <1>20, <1>t, <2>1, <2>2 DEF CompleteMessage
<1>21. ASSUME NEW w \in Workers, Fail(w) PROVE Settled'
  BY <1>21, <1>t DEF Fail
<1>22. ASSUME NEW w \in Workers, MarkFailed(w) PROVE Settled'
  BY <1>22, <1>t DEF MarkFailed
<1>23. ASSUME NEW w \in Workers, AbandonMessage(w) PROVE Settled'
  <2>1. wmsg[w] \in Requests /\ msg[wmsg[w]] # "none"
    BY <1>23, <1>t DEF AbandonMessage, Placed
  <2>2. \A v \in Workers : wpc'[v] = "idle"
    BY <1>23, <1>t DEF AbandonMessage, GoIdle
  <2> QED
    BY <1>23, <1>t, <2>1, <2>2 DEF AbandonMessage, Released
<1>24. ASSUME NEW w \in Workers, WorkerCrash(w) PROVE Settled'
  BY <1>24, <1>t DEF WorkerCrash, GoIdle
<1>25. CASE SetEnabled
  BY <1>25, <1>t DEF SetEnabled
<1>26. ASSUME NEW p \in PRs, Push(p) PROVE Settled'
  BY <1>26, <1>t DEF Push
<1>27. CASE UNCHANGED vars
  BY <1>27, <1>t DEF vars
<1> QED
  BY <1>1, <1>2, <1>3, <1>4, <1>5, <1>6, <1>7, <1>8, <1>9, <1>10, <1>11, <1>12,
     <1>13, <1>14, <1>15, <1>16, <1>17, <1>18, <1>19, <1>20, <1>21, <1>22, <1>23,
     <1>24, <1>25, <1>26, <1>27
     DEF Next, GatewayStep, WorkerStep

(* What a step may do to the record of an acknowledged run: nothing.       *)
LEMMA FinalStep ==
  ASSUME Basic, Alone, Settled, [Next]_vars, NEW a \in Requests, msg[a] = "done"
  PROVE  status'[rrun[a]] = status[rrun[a]] /\ evidence'[rrun[a]] = evidence[rrun[a]]
<1> USE ConstantsAssumption
<1> DEFINE r == rrun[a]
           G == status'[r] = status[r] /\ evidence'[r] = evidence[r]
<1>t. /\ status \in [Runs -> RunStatuses]
      /\ evidence \in [Runs -> Results]
  BY DEF Basic, TypeOK
<1>g. \A q \in Requests : rpc[q] \in {"record", "failing"} => rrun[q] # r
  BY DEF Alone, Settled, Sent
<1>w. \A w \in Workers : wpc[w] # "idle" => RunOf(w) # r
  BY DEF Basic, Placed, Settled, Alone, OneMessagePerRun, Sent, RunOf
<1> HIDE DEF r
<1> USE DEF gatewayVars, recordVars, queueVars, workerVars, adoVars
<1>1. ASSUME NEW q \in Requests, NEW e \in Events, Webhook(q, e) PROVE G
  BY <1>1 DEF Webhook
<1>2. ASSUME NEW q \in Requests, Rerun(q) PROVE G
  BY <1>2 DEF Rerun
<1>3. ASSUME NEW q \in Requests, CheckExisting(q) PROVE G
  BY <1>3 DEF CheckExisting
<1>4. ASSUME NEW q \in Requests, RecordQueued(q) PROVE G
  BY <1>4, <1>t, <1>g DEF RecordQueued
<1>5. ASSUME NEW q \in Requests, EnqueueJob(q) PROVE G
  BY <1>5 DEF EnqueueJob
<1>6. ASSUME NEW q \in Requests, EnqueueFails(q) PROVE G
  BY <1>6 DEF EnqueueFails
<1>7. ASSUME NEW q \in Requests, MarkEnqueueFailed(q) PROVE G
  BY <1>7, <1>t, <1>g DEF MarkEnqueueFailed
<1>8. ASSUME NEW q \in Requests, GatewayCrash(q) PROVE G
  BY <1>8 DEF GatewayCrash
<1>9. ASSUME NEW q \in Requests, LockExpires(q) PROVE G
  BY <1>9 DEF LockExpires
<1>10. ASSUME NEW q \in Requests, MessageExpires(q) PROVE G
  BY <1>10 DEF MessageExpires
<1>11. ASSUME NEW w \in Workers, NEW q \in Requests, Receive(w, q) PROVE G
  BY <1>11 DEF Receive
<1>12. ASSUME NEW w \in Workers, MarkRunning(w) PROVE G
  BY <1>12, <1>t, <1>w DEF MarkRunning
<1>13. ASSUME NEW w \in Workers, SkipDisabled(w) PROVE G
  BY <1>13, <1>t, <1>w DEF SkipDisabled
<1>14. ASSUME NEW w \in Workers, Scan(w) PROVE G
  BY <1>14 DEF Scan
<1>15. ASSUME NEW w \in Workers, RecordResult(w) PROVE G
  BY <1>15, <1>t, <1>w DEF RecordResult
<1>16. ASSUME NEW w \in Workers, ReadThreads(w) PROVE G
  BY <1>16 DEF ReadThreads
<1>17. ASSUME NEW w \in Workers, NEW x \in Items, Post(w, x) PROVE G
  BY <1>17 DEF Post
<1>18. ASSUME NEW w \in Workers, NEW x \in Items, PostAckLost(w, x) PROVE G
  BY <1>18 DEF PostAckLost
<1>19. ASSUME NEW w \in Workers, PostStatus(w) PROVE G
  BY <1>19 DEF PostStatus
<1>20. ASSUME NEW w \in Workers, CompleteMessage(w) PROVE G
  BY <1>20 DEF CompleteMessage, GoIdle
<1>21. ASSUME NEW w \in Workers, Fail(w) PROVE G
  BY <1>21 DEF Fail
<1>22. ASSUME NEW w \in Workers, MarkFailed(w) PROVE G
  BY <1>22, <1>t, <1>w DEF MarkFailed
<1>23. ASSUME NEW w \in Workers, AbandonMessage(w) PROVE G
  BY <1>23 DEF AbandonMessage, GoIdle
<1>24. ASSUME NEW w \in Workers, WorkerCrash(w) PROVE G
  BY <1>24 DEF WorkerCrash, GoIdle
<1>25. CASE SetEnabled
  BY <1>25 DEF SetEnabled
<1>26. ASSUME NEW p \in PRs, Push(p) PROVE G
  BY <1>26 DEF Push
<1>27. CASE UNCHANGED vars
  BY <1>27 DEF vars
<1> QED
  BY <1>1, <1>2, <1>3, <1>4, <1>5, <1>6, <1>7, <1>8, <1>9, <1>10, <1>11, <1>12,
     <1>13, <1>14, <1>15, <1>16, <1>17, <1>18, <1>19, <1>20, <1>21, <1>22, <1>23,
     <1>24, <1>25, <1>26, <1>27
     DEF r, Next, GatewayStep, WorkerStep

(* THEOREM: in the deployed configuration, and when a send that raises has *)
(* not sent, the record of an acknowledged run never changes again.        *)
THEOREM AcknowledgedStaysFinal ==
  ASSUME SerialGateway, \A v, w \in Workers : v = w, "ambiguous_send" \notin Faults
  PROVE  Spec => AcknowledgedIsFinal
<1> DEFINE A == \A q \in Requests : msg[q] = "done" =>
                  status'[rrun[q]] = status[rrun[q]] /\ evidence'[rrun[q]] = evidence[rrun[q]]
<1>1. Init => Visible /\ Settled
  BY DEF Init, Visible, Settled, Sent
<1>2. Basic /\ Visible /\ Alone /\ [Next]_vars => Alone'
  BY AloneStep
<1>3. Basic /\ Settled /\ [Next]_vars => Settled'
  BY SettledStep
<1>4. Basic /\ Alone /\ Settled /\ [Next]_vars => [A]_vars
  BY FinalStep
<1>5. Spec => [][A]_vars
  <2> HIDE DEF A
  <2> QED
    BY <1>1, <1>2, <1>3, <1>4, InitAlone, BasicInvariant, VisibleStep, PTL DEF Spec
<1> QED
  BY <1>5 DEF AcknowledgedIsFinal
===============================================================================

# A formal model of the PR security review agent

The repository is a review service for Azure DevOps pull requests. A webhook
gateway records a review run and puts a message on a Service Bus queue; a
Container Apps job takes one message per execution, fetches the pull request,
runs deterministic and semantic checks, stores a review record and posts
comments; an admin portal governs the policies, controls, rule packs and
exceptions that those checks use. Gateway and worker share nothing but the
queue and the tables and blobs of `prsa_control/store.py`.

This directory holds TLA+ modules translated from that code, TLC runs and TLAPS
proofs. `PROJECT.json` maps every definition to the lines it models.

## Inventory

| component | state | operations | talks to |
|---|---|---|---|
| webhook gateway (`webhook-receiver/app.py`, `web_service.py`, `function_app.py`) | none of its own | `handler`, `queue_review_job`, `queue_policy_job`, `enqueue_job` | review records, policy jobs, queue |
| review records (`store.py` 316-408) | one record per run: status, phase, attempts, evidence | `record_review_queued`, `mark_review_running`, `mark_review_failed`, `record_review` | gateway and worker both write it |
| queue (`infra/modules/service-bus.bicep`) | per message: ready, locked, settled, delivery count | peek-lock receive, complete, abandon, lock and message expiry | gateway, worker |
| worker (`orchestrator.py`) | the message in hand | `run_once`, `handle_message`, `process_job`, `process_review` | everything |
| reporter (`reporter.py`) | threads and statuses in Azure DevOps | `publish`, `_request` with retries | Azure DevOps |
| Azure DevOps client (`ado_client.py`) | none | `fetch_diff`, `fetch_relevant_policy_files` with byte and file budgets | Azure DevOps |
| control lifecycle (`store.py` 772-1006, `admin.py` 300-434) | a record per control version, an approval record | propose, author, clarify, revise, approve, activate, suspend, retire, remove | admin API, policy ingestion, worker |
| policies and ingestion (`store.py` 412-770, `policy_engine.py` 1044-1117) | policy versions, clauses, analysis, jobs | save, extract, interpret, reconcile coverage, retire, remove, retry | admin API, queue, worker |
| policy interpreter (`policy_engine.py`) | none | `interpret`, `assess_policy_proposal`, `compile_proposal` | Azure OpenAI |
| storage primitives (`store.py` 155-271) | tables, blobs, a copy in process memory | `_put`, `_get`, `_list`, `_delete`, `update_settings` | Azure Storage |
| review evaluation (`orchestrator.py` 146-191, 232-325) | none | `_applicable_controls`, `_apply_exceptions`, coverage gaps | store |
| exceptions, rule packs, regulations (`store.py` 1025-1274) | records with a status and, for regulations, chunks | save, revoke, transition, search | admin API, worker |
| scanner, triage | none | regular expressions, Semgrep, Azure OpenAI | worker |
| portal, access control, scripts, infrastructure | none | HTML, roles, deployment | |

What is hard here, and what makes each component correct:

* **Run, record and message.** A run exists three times, as a record, a message
  and a set of comments, with no transaction over them. Crashes and failed
  calls between the writes must neither lose a run, nor review it twice, nor
  leave a message nobody can see. Every store call writes a whole record
  without an ETag, so gateway and worker can write over each other.
* **Delivery.** The queue delivers at least once. The lock lasts five minutes
  and a job may run for fifteen, so a message can be redelivered, or
  dead-lettered, while its review is running. Every message must settle, and a
  review that failed for good must be shown as failed.
* **Publication.** Comments are posted one by one and found again by markers.
  An interrupted publication must be finished, not repeated.
* **Control versions.** At most one version of a control may be active, only
  with an approval, and a retired version stays retired; each is enforced by
  reads followed by writes.
* **Coverage.** A policy that some obligation of has no control must be declared
  incomplete to every review, whatever happened to the controls since.
* **Ingestion.** A policy job that is delivered again, retried by hand or killed
  between two saves must converge on the same controls.
* **Fallback storage.** A process whose storage fails goes on with its own memory.

`PROJECT.json` lists these as hazards, each at its line.

## Modules

| module | part of the system | proofs |
|---|---|---|
| `ReviewLifecycle` | what gateway, queue, worker and reporter promise about a review run (abstract) | |
| `ReviewPipeline` | gateway, review records, queue, worker, reporter | `ReviewPipelineProofs`, `ReviewRecordsProofs`, `ReviewLifecycleProofs` |
| `VersionLifecycle` | what the versions of a control promise (abstract) | |
| `ControlLifecycle` | the store operations on them, under interleaved requests | `ControlLifecycleProofs` |
| `PolicyIngestion` | one policy version: upload, jobs, `process_policy_job`, coverage, retirement, removal | `PolicyIngestionProofs` |
| `Catalog` | exceptions, rule packs, reference sources | `ReviewEvidenceProofs` |
| `ReviewEvidence` | `process_review` reading all tables while administrators change them; extends `Catalog` | `ReviewEvidenceProofs` |
| `DiffFetch` | `fetch_diff` and `fetch_relevant_policy_files` with their limits | `DiffFetchProofs` |

`MC<module>` holds the instances that TLC checks, `MC<module>_<run>.cfg` the values.

The modules meet at what one writes and another reads. `ReviewPipeline` takes
what a scan finds as any set; `ReviewEvidence` is that scan, and takes the
changed files as given; `DiffFetch` fetches them. `ControlLifecycle` has the
reads and writes of an administrator's request on one control apart, and a
proposal of the worker as one operation; `PolicyIngestion` has the worker's job
step by step, and approval with activation as one operation. `ReviewEvidence`
sees of both the active controls and the coverage claim of their policies, and
lets them change at any time, so that it assumes nothing about their order.

## ReviewPipeline and ReviewLifecycle

### State and actions

A request to the gateway is a member of `Requests`, served at most once; the
event it carries fixes the id of its run (`review_run_id` hashes the event's
fields), and a manual rerun has a run of its own, named by the request. The
message a request enqueues is named by the request too.

| variables | code |
|---|---|
| `rpc`, `rrun` | the handler serving a request and the run id it computed |
| `status`, `attempts`, `evidence` | the review record: `status`, `attempts`, and the iteration and findings stored by `record_review` |
| `msg`, `deliveries`, `holder` | the message in the broker |
| `wpc`, `wmsg`, `wresult`, `wtodo`, `wtries` | one execution of the job: where it is, its message, the result in hand, the comments it found missing, the retries of `_request` |
| `posts`, `reported` | threads by pull request, iteration and marker; commit statuses |
| `enabled`, `iteration` | the administrator's switch, the latest push |

Each action is one call that somebody else can observe. `CheckExisting`,
`RecordQueued`, `EnqueueJob` or `EnqueueFails`, and `MarkEnqueueFailed` are
`queue_review_job` in its order. `Receive` is `run_once`; `MarkRunning`,
`SkipDisabled` or `Scan`, `RecordResult`, `ReadThreads`, `Post` per comment and
`PostStatus` are `process_job`, `process_review` and `publish`;
`CompleteMessage`, `Fail`, `MarkFailed`, `AbandonMessage` are `handle_message`.
What a scan finds is any set of findings. Findings without an inline position
are only in the summary comment, so they are not told apart from it; a review
whose triage failed has the same course as one whose triage worked.

`Faults` says what the environment may do in a run: kill the gateway, kill an
execution, let a lock expire under a running review, expire a message, lose the
answer to a POST, lose the answer to a send. `Fail` (any exception at any
point) is always possible.

`ReviewLifecycle` is the promise behind these steps, a run at a time: the record
comes before the job, the job is sent once, a comment is made once, after the
record that names it and after the summary, the commit status after the comments,
the acknowledgement after everything, and then the run is closed. It knows
nothing of requests, deliveries, locks and workers. `FollowsReview` says that
`ReviewPipeline` implements it, with `waiting`, `acknowledged` and `dead` mapped
to the runs whose message is on the queue, completed and dead-lettered
(`RunsIn`). A run in the dead-letter queue may still be worked on, by an
execution that lost its lock.

### Runs

| run | question | instance |
|---|---|---|
| `publish` | no comment twice, attempts are deliveries, acknowledged means reported and final, the evidence is on the pull request; all of it implements `ReviewLifecycle` | 2 requests, 1 finding, 2 iterations, kills, lost locks |
| `settle` | every message settles | kills, expiries and lost answers, fairness |
| `failures` | one message and one visible record per run, no delivery past the limit; a dead letter is a run shown as failed | 2 requests, 2 events, one of a type that is ignored; gateway kills, failed sends, lost locks, fairness |
| `lost_ack`, `swallowed` | expected violations, see the findings | smallest instance that shows each |

Two requests are an event and its redelivery, or an event and a rerun of it. Requests meet
only through a run, a pull request or the worker, so that pairs show every
conflict. One worker is what the job definition allows (`maxExecutions: 1`); the
lock it lost is the second actor. One finding and the summary are the two kinds
of comment, posted in order. A delivery limit of 2 has the first, the repeated and
the refused delivery.

Fairness is weak, per gateway request and per worker: a handler that is not
killed gets on, the job definition starts an execution while the queue is not
empty, and the broker returns an unsettled lock. Nothing forces a message to
expire, a fault, or an administrator.

### What is proved (`ReviewPipelineProofs`, `ReviewRecordsProofs`, `ReviewLifecycleProofs`)

For every number of requests, events, workers, findings and iterations:

* `TypeCorrect`: the types, and that no message is delivered more often than
  `MaxDelivery`. The inductive invariant `Basic` adds where a message that is
  held or being processed can be, so that `Receive` never meets an exhausted message.
* `RunsStayVisible`: each message has a record (`Visible` adds that a request
  past `RecordQueued` has one).
* `SerialGatewaySendsOnce`, for the serial gateway: one message per run. `Alone`
  adds that a request past its look-up is the only one in service, and that a
  message on the queue has a record, which makes later look-ups answer duplicate.
* `AcknowledgedAfterReporting`, for any number of workers and all faults:
  `Reporting` carries the comments that are posted, still to post or found,
  through the publication.
* `NoDuplicatesWithOneWorker`, for one worker and no lost POST answers: `Fresh`
  says that what is still to post is not on the pull request.
* `AcknowledgedStaysFinal`, for the serial gateway, one worker and sends whose
  outcome is known: `Settled` says that the run of an acknowledged message is not
  in any request's or worker's hands.
* `AttemptsStayDeliveries`, for the serial gateway and any finite number of
  workers: `Counted` adds to the attempts the workers that received the message
  and have not marked the run yet, of which a lost lock may leave several.
* `EvidenceStaysPublished`, under the hypotheses of `AcknowledgedStaysFinal`:
  `Recorded` says that a completed record holds what its worker is publishing,
  `ReportedBeforeComplete` that all of it is posted when the message goes, and
  the finality of the record keeps it so.
* `ImplementsReview`, for the serial gateway, one worker, sends whose outcome is
  known and no lost POST answers (`Deployed`): `FollowsReview`. To the invariants
  above it adds what the record says while somebody holds its run (`Tracked`: none
  or queued for a request on its way, running, completed or skipped for the
  worker, by its place), that only comments of the result are still to post
  (`Due`), and that a message somebody holds is locked (`Locked`), so that a
  worker can complete or give back only what is still on the queue. Each step is
  then an action of `ReviewLifecycle` on the run it serves, or a stutter: a
  delivery, a lost lock, a kill, a look-up and a redelivered event are stutters.

The hypotheses are needed. Concurrent handlers of the Function App may both
pass the look-up and both send; `lost_ack` shows what a lost answer does. A send
that raises although the message went out has the gateway mark as failed what
a worker is reviewing, and a second worker may publish what the first has
found missing. Liveness is only model-checked.

### Findings

* `swallowed`: after a failed enqueue the record stays as `enqueue_failed`, and
  the redelivered event is a duplicate.
* `lost_ack`: a POST repeated after a lost answer doubles a thread.

## ControlLifecycle and VersionLifecycle

`ControlLifecycle` has the versions of one control: their records (`control`),
approval records (`approval`), the setting that allows activation, and the
`coverage_complete` flag of their policy (`complete`). A request is one call of
the admin API or one proposal of an ingestion job; it reads a record, tests it,
and writes records later, each read and write being a step (`pc`, `op`, `ver`,
`record`, `others`, `covered` are its local variables). `Overlap` says who may
be in service at once: nobody beside one request (`none`), the serial container
gateway with the worker beside it (`worker`), or any two requests, as in the
Function App (`all`). With `Crashes` a process may die at any step.

An obligation with several detection surfaces is several members of
`Obligations`. `AdminVersions` are the versions that administrators author or
make by revision.

`VersionLifecycle` is the promise: versions move along `CONTROL_TRANSITIONS`,
become live only with an approval, at most one is active, retired is final until
removal, and removal takes the approval along. `FollowsLifecycle` says that
`ControlLifecycle` implements it: its `RetireOther` and `WriteControl` steps
write what was decided several steps before, and must still be lawful then.

| run | question | instance |
|---|---|---|
| `lifecycle` | lifecycle, one active version, live versions approved | 2 versions, every operation, the gateway and an ingestion job at once, kills anywhere |
| `concurrent_activation`, `uncovered` | expected violations | smallest instance that shows each |

Two versions are enough for a version to replace another, and for revisions in
both directions; the control of each request is finite, and versions meet only
in the activation, which lists the active ones.

In `lifecycle` administrators make the second version only. The job's look-up
and its save are separate: a version authored under the first name in between
would be overwritten by the proposal, which the lifecycle does not allow.
`CoverageIsTrue` is only used for the violation: a kill between a retirement
and its reconciliation leaves the claim stale, and so does an activation.

### What is proved (`ControlLifecycleProofs`)

For every number of versions, obligations, requests and jobs, with kills at any step:

* `TypeCorrect`, whichever requests overlap: a request about to write a record
  has one (`Held`).
* For one request at a time, or one administrator's request and an ingestion
  job beside it that has its version to itself (`Separated`): `OneActive`,
  `LiveVersionsAreApproved`, and `ImplementsLifecycle`, the refinement of
  `VersionLifecycle`.

The three rest on one inductive invariant, `IInv`. The properties alone are not
inductive, because a step writes what an earlier step read. `Fits` says
what each place of a request still knows of the store: a control to be created
does not exist, a record to be written is the stored one in another lawful state,
an approval quotes the obligations the control still has, the versions
to be retired are exactly the active ones. `Alone` and `Roles` say who can
invalidate it: one request is at work, or one of the administrator and one of the
worker. The job only writes its own version while it does not exist, as one that
is neither active nor approved, so that what the administrator has read
still holds (`JobWrites`, `AdminFitKept`); and no administrator creates that
version, so that what the job looked up still holds (`OnlyCreates`). `NoneLeft`
says that a version that is gone left no approval, which a kill between the two
deletions of a removal would break if they were made in the other order. For the
refinement, `RetireOther` and `WriteControl` are moves, `PutNew` a creation,
`RecordApproval` an approval, `DropApproval` and `DropControl` a withdrawal and
a removal; all other steps change nothing that `VersionLifecycle` sees.

The hypothesis is needed: a version authored under the job's name between its
look-up and its save would be overwritten, and full overlap breaks `OneActive`,
as `concurrent_activation` shows.

### Findings

`concurrent_activation` (two active versions in the Function App), `uncovered`
(activation retires the version that covered an obligation, and the claim stays).

## PolicyIngestion

One version of a policy document, its controls, its jobs and their messages.

| variables | code |
|---|---|
| `policy` | the policy record: `status`, `source_pending`, whether its source was fetched, whether it was analysed, and `coverage_complete` (`claim`) |
| `analysis` | the obligations of the analysis blob |
| `ctl` | the control records: owner, state, links to obligations, surfaces, open questions |
| `job`, `msg`, `deliveries` | job records and their messages |
| `gpc`, `gop`, `gjob`, `gpol` | the request in service at the gateway, with the record it read |
| `wpc`, `wjob`, `held`, `source`, `todo`, `saved`, `asked`, `relied`, `wpol` | the worker in `process_policy_job`, with what it read and still has to save |

`ObligationsOf` to `PlanComplete` are `assess_policy_proposal` and
`compile_proposal`: which obligations a proposal has, which controls they are
linked to, who is asked what, where a coverage placeholder stands in. A proposal
is any member of `Proposals`; whether a control compiles and passes its
tests, and which clause it cites, are fields of it. `Covered` is what
`reconcile_policy_coverage` computes, from the records this time.

`Begin` to `Abandon` are the worker's calls in order. The policy record is read,
changed and written whole, so that `Reconcile` and `SaveCoverage`,
`GatewayReconcile` and `GatewaySaveCoverage`, `RetirePolicy` and `WriteRetired`,
`Upload` and `MarkPending` are apart: another process may write in between.
Where nobody else writes between a read and a write, they are one step.
`Taken` are control ids that an earlier version of the document has.

| run | question | instance |
|---|---|---|
| `policy` | completed jobs stay completed, ingestion leaves existing controls alone, what it declares complete is covered, every message ends | 1 job, 2 deliveries, 2 control ids (one taken), 2 obligations, a complete proposal and one that needs a placeholder, every request, every fault, fairness |
| `partial_compile` | expected violation | a proposal of which one control does not compile |

A single job is delivered twice, so that a kill between any two of its calls is
followed by a run over what it left; the pasted and the fetched source, the
retry after a failed send or a crash of the gateway (`Retry` needs a job that
was not recorded), and the administrator's nine requests interleave with both.
Two proposals differ in what the second delivery finds planned, so that it may
meet controls of another plan.

Fairness is weak for the worker's steps taken together and for the broker: the
job definition starts an execution while there is a message, and an expired lock
gives it back. Requests, kills and failures are never forced. Deadlock is not
checked: when the one job is used up and nothing more can be requested, the
system stops.

`ReadyIsCovered` speaks of the moment when the worker is about to write the
status, and excludes controls that were retired or removed after it computed the
matrix: that race is in the code, and the record is then out of date.

### What is proved (`PolicyIngestionProofs`)

For all proposals, control ids, jobs, delivery limits, requests and faults, from
`ConstantsAssumption` and `NonesAssumption`: `TypeCorrect`, `CompletedJobsStay`,
`IngestionKeepsControls` and `ReadyPoliciesAreCovered`.

The inductive invariant `IInv` has, beside the types:

* `QueueInv`: a message that is ready may be delivered once more, and belongs to
  a job on record; `PlaceInv`: whoever is about to write a record has read one.
* `ClaimInv`: only what was analysed claims to be complete, in the table and in
  the two copies that somebody will write back. Otherwise a late write could
  bring a claim without an analysis.
* `JobInv`: the worker is not at work on a job that completed and kept its
  controls. `Begin` looks once, several calls before the first write; that this
  stays true rests on the gateway never completing a job nor adding a control.
* `CoverInv`: from the computation of the matrix to the end, a claim of
  completeness has its witnesses in `relied`, unless one of these was retired.
  `Milder` is what makes it stable: gateway steps change a control's state, never
  its links and surfaces, and only answer questions.

`PlanType` shows that every plan of a proposal is a set of well-formed controls.
`ClaimsAgree` compares the two computations of the claim, `PlanComplete` from the
proposal and `Covered` from the records, for every proposal whose controls are on
record as planned: they differ only by the questions of a control that no
obligation is linked to. The analysis of such a policy is stored with a gap, and the
reconciliation after the saves declares it complete while the question is open.
`JobsEnd` is only model-checked.

### Findings

`partial_compile`: the analysis's claim is stored before the controls are. When
a later control does not compile, the job fails, but the claim stays, and an
administrator may activate what was saved.

## Catalog and ReviewEvidence

`Catalog` has the tables that `ControlLifecycle` does not: `grant` (exceptions;
several contents may share an id, and the last one saved is the row), `pack`
(versions of a rule pack), `regulation` and `chunk`. A request that writes
several records leaves the remaining writes in `task`, one step each, and a
crash forgets them; `partial` remembers that chunks were left half-way.

`ReviewEvidence` adds one review, `process_review` with a step per table it
reads: the switch, rule packs, controls, coverage, feature flags, the scan, the
semantic scanner, exceptions, regulations, and the record. Administrators
change the tables between any two steps, `MaxChanges` times. `ever` and
`always` are history variables: the facts that held at some time, and all the
time, since the review started. No consistent snapshot exists, and the
properties say what the mixture still guarantees:

* `ActiveIsAccounted`: what was active all the time was applied, with all it
  found on record, or a gap tells that it was not.
* `OnlyInForce`: nothing on record comes from what was never in force.
* `SuppressionIsGranted`: both directions for exceptions.
* `IncompleteIsDeclared`: coverage gaps of what was incomplete all the time.
* `OnePackVersion` and `ChunksFollow`, of the catalog itself, with crashes.

The run `evidence` has three controls (a detector, a semantic and a manual one)
of one policy, two scanner flags, three exceptions under one id, two pack
versions, two chunks, three initial contents (one with a diff of deletions), and
three changes: enough for a request to be stopped and followed by another, and
for a fact to be withdrawn and given back between two reads. The review ends, so
that deadlock is not checked.

### What is proved (`ReviewEvidenceProofs`)

For every catalog, every assignment of controls to policies and detectors, and
any number of changes, from the named assumptions of the two modules, all
safety properties of the run: `TypeCorrect`, `OneVersionOfAPack`,
`ChunksFollowTheirSource`, `ActiveControlsAreAccounted`, `OnlyWhatWasInForce`,
`SuppressionsAreGranted`, `IncompletePoliciesAreDeclared`. `CatalogsAssumption`
says that the initial catalogs are well-formed and have at most one active
version of a pack and chunks in the state of their source.

The inductive invariant `IInv` has three parts. `CatalogInv` says what the
unfinished request still owes: it writes the status its document has
(`TaskFits`), no version is active but those an activation still has to retire
(`PacksFollow`), and the chunks that differ from their source are still to be
deleted or written, unless `partial` says that a request was stopped
(`ChunksPending`). `History` is always ⊆ now ⊆ ever, for the facts of `Facing`.
`ReviewInv` says what the review knows at each place, in terms of `always` and
`ever` alone (`RulesKnown`, `SnapshotKnown`, `CoverageKnown`, `FindingsKnown`,
`Suppressions`): `always` only shrinks and `ever` only grows, so that what
administrators do between two reads cannot invalidate it, and each read adds
what it saw by `History`.

## DiffFetch

One answer of Azure DevOps per step: the iterations, the changes, each changed
file, the inventory of the branch, each supplemental file. Any request may be
repeated (`Repeat`, up to `MaxRetries`) or fail, and the author may push between
any two. Sizes stand for contents; a missing or binary file reads as empty, as
`get_file_content` has it. `ListFiles` takes as many of the relevant files as the
limit allows, in any choice, because their order is that of Azure DevOps.

The run `diff` starts from every content of three files, with sizes on both
sides of the file limit (2) and of the total (3), lists longer than the limit of
files, and one push. Fairness is weak for the client's steps: every request has
a time-out of 30 s. `FetchEnds` needs it; the other properties do not.

`DiffFetchProofs` proves the invariants for all sizes, limits, lists and numbers
of pushes. The inductive invariant adds to them what the loop knows at each
index: every file taken lies before `index` (`Taken`), every earlier entry that
is no folder was taken (`Present`), an unmarked diff has no file that was cut
(`Whole`), a loop that ended has a mark or no entry left or no budget left
(`Ended`), and what is selected and not fetched is still wanted, or a gap
says so (`Outstanding`).

## Not modelled

* Storage is taken to answer. When it fails, a process goes on with its own
  memory, and gateway and worker share nothing any more; no document says what
  should hold then.
* `update_settings` is one step: two administrators can overwrite each other's
  setting in the Function App only.
* The computations on text: regular expressions, Semgrep, extraction of
  documents, prompts and answers of the models, the check of citations, markers
  and bodies of comments. Their results are arbitrary members of sets here.
* Several versions of one policy document at once: they share no record but
  the control ids that `Taken` stands for.
* The portal's HTML, access control, scripts and infrastructure keep no state of
  the system.

Out of reach of the provers, and left to TLC: liveness under fairness
(`MessagesSettle`, `DeadLettersAreFailures`, `JobsEnd`, `FetchEnds`), and what
recursive definitions compute for every input. `CoverageIsTrue` and
`ActiveIsDeclared` are violated, as the findings say.

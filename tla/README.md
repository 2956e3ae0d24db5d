# Verification of fictional-engine

This directory holds TLA+ models of fictional-engine, the TLC runs that check
them on small instances, and TLAPS proofs of their main properties for all
instances. The repository contains two programs that share nothing but the
tree:

- **fictional_engine** (`src/fictional_engine`): it ingests messages of Telegram
  signal channels, interprets them deterministically, and applies the
  interpreted events to a relational trading state. What the broker should do is
  written to a command outbox; a broker executor (not in the repository) reports
  back what came of each command.
- **development_automation** (`src/development_automation`): a control plane
  that drives coding tasks through GitHub events. Documents on a control branch
  are folded into a task state; a dispatcher starts provider runs, gated by CI
  and review.

Paths below are relative to the repository root. In `PROJECT.json` the root is
called `src/`.

## Inventory

| Component | State | Operations | Hard behaviour | What makes it correct |
|---|---|---|---|---|
| Raw ingestion (`application/ingestion.py`, `adapters/persistence/raw_message_repository.py`) | stored versions of each message | `ingest` inserts a version or finds a duplicate | commits before anything is applied; two ingestions race for a version number | versions are never lost or renumbered; a duplicate is found |
| Parser (`application/parsing.py`) | none | `parse`: text to an ordered list of events | order and mutual suppression of events | events come in the order of the text, orders keep their own prices; what is not understood goes to review |
| Processing service (`application/state_machine.py`, `replay*.py`) | none | `process_raw_message`: ingest, parse, apply | a crash between two of the three | every stored version is applied at some time, and once |
| Trading state (`adapters/persistence/trading_state_repository.py`) | sessions, no-trading days, orders, positions, command outbox, processed events, manual review | `apply_parsed_message` with one handler per event; `update_outbox_command_state` | redelivery, edits, versions out of order, late reports, cancel-then-replace | effectively-once intent; orders, outbox and positions agree; a replacement waits |
| Executor (external) | commands taken from the outbox | reports | late, repeated, contradicting answers | nothing but a report moves an order that has ended, and only the order its command cancels |
| Dispatcher and its store (`dispatcher.py`, `dispatcher_store.py`) | intents with status, version and lease; deliveries; runs | webhook handlers, `resume_unfinished_intents` | compare-and-set losses, crashes around provider calls, recovery beside a live handler | a task is not run twice; what is settled stays; what a crash leaves open is taken up again (it is not) |
| Reducer (`reducer.py`) | none (a fold) | documents to task state | order and duplication of documents | the same documents give one state; no document can stop a task for good |
| Entry point (`entrypoint.py`), CI gate (`ci_gate.py`) | documents and intents | a handler per GitHub event | crash windows between the two stores, retries, a pull request that moves on during a review | an attempt is run once; a verdict is about the head it is recorded under (it need not be) |
| Control branch (`github_persistence.py`, `storage.py`) | append-only files and their remote copy | `hydrate`, `sync`, merge | optimistic concurrency, union merge | no committed line is lost; one intent for a dedupe key |
| Coding agents (`live_adapters.py`, `cline_adapter.py`) | GitHub's issues and pull requests, a process of Cline | `run`, `reconcile`, `create_or_update_task` | requests that fail after their effect or are served after they were given up; a caller that dies | one issue per intent; the run that is reported exists and is one of the task |
| Reviewers, schemas, markdown, settings, logging | none | formatting, HTTP, validation | none for a model | left out |

The parts interact by calls within a process and, between processes, through the
database (trading) or the control branch (automation). Trading is called from
one place, the replay service, one message after the other. In the automation
part a workflow run is a process; the concurrency group of the workflow
serialises them, but a run may be killed anywhere.

`PROJECT.json` lists every hazard we found with its line, with the properties
that cover it or the reason why none does.

## Modules

The trading half is modelled by its parser, by the trading state with one
transaction at a time, and by a pipeline of several workers on that state. The
automation half is modelled by the dispatcher with its intents, the control plane
around it, the coding agents behind it, and the branch its records are kept on.

| Module | Role |
|---|---|
| `TradingTables` | the tables of the trading state and the handlers on them, as operators |
| `TradingSafety` | what consistent tables are: cancellations, positions, replacements, sessions |
| `TradingState` | the state machine: ingestion, transactions, redelivery, the executor |
| `CancelReplace` | abstract specification of replacing an order; `TradingState` implements it |
| `Dispatcher` | the intent store, the handlers and recovery workers, the coding agent |
| `DispatchOnce` | abstract specification of dispatching a task; `Dispatcher` implements it |
| `ControlReducer` | the run documents and their fold into task states, as operators |
| `ControlPlane` | the handlers of the entry point over documents and intents |
| `MessageParser` | what a text is read as: classes, orders, events, manual review |
| `MessagePipeline` | several workers that ingest and apply messages at once, on `TradingTables` |
| `ControlBranch` | checkouts, the log and the documents, and how they get to the branch |
| `CodingAgents` | Copilot and Cline, request by request, against GitHub |
| `MC...` | instances for TLC (`CodingAgents` needs none) |
| `TradingSafetyProofs`, `TradingStateTheorems` | proofs about trading |
| `MessageParserTheorems` | proofs about what the parser makes of any text |
| `MessagePipelineTheorems` | proofs about the pipeline, on those about the tables |
| `DispatcherTheorems` | proofs about the dispatcher, and that it implements `DispatchOnce` |
| `ControlBranchTheorems` | proofs about the control branch |
| `ControlPlaneTheorems` | proofs about the fold of the documents and the control plane |
| `CodingAgentsTheorems` | proofs about the coding agents |

`TradingTables` has the tables as a value and one pure operator per event handler
and for the broker report. `TradingSafety` says when such a value is consistent, part
by part. `TradingState` and `MessagePipeline` are two state machines around it, and
`CancelReplace` is the abstract specification of the first.
`TradingSafetyProofs` speaks of tables and handlers only, so the theorems about both
state machines rest on it.

### How TradingTables and TradingState correspond to the code

| Model | Code (`trading_state_repository.py`) |
|---|---|
| `Tables` | `_load_snapshot`, `_upsert_snapshot`, the models and enums behind them |
| `PlacePendingOrder`, `CancelPendingOrder`, `MarkOrderTriggered`, `RecordTradeResult`, `EndSession`, `NoTradingDay`, `Review` | the `_apply_*` methods and the dispatch in `_apply_event` |
| `ResolvedInstrument`, `OpenFor` | `_resolve_or_create_session` |
| `UpdateOutboxCommandState` | `update_outbox_command_state` |
| `Ingest` | `SqlAlchemyRawMessageRepository.ingest`, a commit of its own |
| `Begin`, `Commit`, `Rollback` | the session of `apply_parsed_message` |
| `ReplayEvent` | lines 91-100: an event with a row in `processed_events` |
| `GuardEditedEvent` | `_apply_prior_version_guard` |
| `Dependency`, `Unresolved` | `_resolve_replacement_dependency` |
| `Record` | the `processed_events` row each event leaves |

A transaction is a sequence of steps, one per event, on the working copy `work`;
`db` is what is committed. Only the commit, and a report, changes `db`.

Abstractions, and why they lose nothing the properties speak of:

- generated row ids are positions in a sequence, since every insert takes a
  fresh id and no row is deleted;
- prices are one value of `Terms`, as they are only compared for equality, and
  a side stands for side and order type, as the parser only produces stop orders;
- the content of `manual_reviews`, timestamps, providers, evidence and reasons
  are left out: nothing is decided on them;
- events of a message are numbered from 1 (the code counts from 0);
- what the parser makes of a text is a set of event sequences, `Contents`, made
  of the shapes of the sample conversations in `tests/` and `fixtures/`;
- the executor is external. It reports on a command that is not `BLOCKED`, since
  a blocked one is never offered to it, and it may report at any time between
  transactions, any number of times. `LateReports` says whether it may contradict
  a success;
- `StaleDelivery` says whether an older version may be applied after a newer one.

`ACCEPTING_SIGNALS`, `ENDED` and `NO_TRADING` are the session states the code
writes; the other three are only compared with.

### How Dispatcher corresponds to the code

Every method of `FileDispatcherStore` runs under a file lock, so each of its calls
is one step of the model, and each call of the coding agent is another. Between
two of them every other worker may run, die, or lose its lease. A worker is a
call of `process_event` (a handler) or of `resume_unfinished_intents` (a recovery
worker); its record in `loc` says where in the method it is and what it has read.

| Model | Code (`dispatcher.py`, `dispatcher_store.py`) |
|---|---|
| `intents` | the latest record of each intent; a dedupe key names one intent |
| `AllowedTransitions`, `Transition`, `Updated`, `MayWrite` | `ALLOWED_STATUS_TRANSITIONS`, `transition_intent` |
| `Refused` | the same method when it raises: the caller ends |
| `Receive`, `Refuse` | `process_event` up to the claim; `remember_delivery` |
| `ClaimNew`, `ClaimKnown` | `claim_intent` and what the handler does with its answer |
| `Start`, `Lookup`, `Exec`, `RunFails`, `Acknowledge`, `Settle`, `LeaveRunning` | `_handle_dispatch_intent`, and the same calls at the end of `resume_unfinished_intents` |
| `HandlerReconcile`, `Release` | the `except ProviderError` of the handler |
| `CompleteCheck` | the second write of `_handle_ci_intent` |
| `Resume`, `Lease`, `NothingLeft`, `Ask`, `AskFails`, `Mark` | `resume_unfinished_intents`, `lease_unfinished_intent` |
| `Expire` | a lease older than 120 seconds |
| `Lookup`, `Exec`, `Land`, `Progress` | the agent, as the live adapters use it (external) |

Abstractions:

- versions are not counted. A write succeeds only if its worker holds the latest
  version, and every write, a lease included, makes the others stale (`fresh`);
- the owner of a lease is never compared with anybody by the code, so a lease is
  a flag;
- transport checks, policy checks, the binding of the event to the task and the CI
  gate decide whether a handler goes on. All of them are the one choice `Refuse`,
  which can happen at any time; `ControlPlane` has the conditions;
- the agent keeps the runs it accepted for a task. `run` of an adapter first looks
  for one (by marker or branch) and then creates one, in two requests, so something
  may happen in between. It may raise before its request had an effect, after it, or
  with the request still under way (`late`), in which case it may `Land` later;
- the answer to a run is its status or just that it was accepted; a status the
  dispatcher does not know is `odd`;
- a crash sends a worker to `idle` and leaves the store alone. A write of the store
  is one appended record and is taken as atomic.

`DispatchOnce` says what is left of this for someone who only waits for a task: each task
is a lock. A caller takes it when it is free, has at most one call accepted that it did not
give up, and frees it again only while there is none; a task ends with an answer only
after the agent accepted a call, and is uncertain otherwise. Deliveries, leases, versions,
the order of recovery and the crashes of workers have no counterpart. `Dispatcher` maps to
it by `PhaseOf` (the status of the intent), `InRunOf` (the workers between the transition to
`running` and the answer of the agent), the number of runs and the calls given up.

### How ControlReducer and ControlPlane correspond to the code

`ControlReducer` is `reduce_run_events`: a set of run documents, folded in the order
of their time stamps. `Fits` has the guards, `Moved` and `Reviewed` the transitions; a
document that does not fit makes the reduction raise, which is the projection with
`ok = FALSE`. `ControlPlane` is the entry point on top of it.

| Model | Code (`entrypoint.py`, `reducer.py`, `storage.py`) |
|---|---|
| `docs`, `results` | `control/runs`, and the `TASK_RESULT` messages of `control/messages` |
| `intents` | the status of each intent; `Dispatcher` has the rest of it |
| `Reduce`, `Applied`, `Before` | `reduce_run_events`, `_event_sort_key` |
| `History` | `_projection`, read anew by every handler |
| `Accepting` | `validate_incoming_event` |
| `Write` | `append_document`: the same document again is fine, another of the same id raises |
| `OpenIssue`, `Redispatch`, `StartDispatch` .. `RecordDispatch` | the issue and comment handlers, `_handle_dispatch_intent`, `_persist_dispatch` |
| `ReceiveResult`, `RecordResult` | `_persist_copilot_result` |
| `OpenGate`, `RecordEvidence` | `_handle_ci_intent`, the first half of `_persist_ci_and_review` |
| `RetryReview` | `_review_retry_outcome` |
| `StartReview` .. `RecordReview` | the rest of `_persist_ci_and_review`, `_persist_review` |
| `StartNext` .. `RecordNext` | the follow-up of `_persist_review` |
| `Push`, `ChecksPass`, `Crash` | the coding agent, the CI, the runner of the workflow (external) |

Abstractions:

- the workflow's concurrency group lets one handler run at a time, so `job` is one
  record; it may die between any two writes. What an exception leaves behind is
  what a crash there leaves;
- a delivery that changes nothing is left out: the guard of each action is the
  condition under which its handler writes something. Remembered delivery ids are left
  out with them, since a re-run of a workflow has a new one;
- an event carries a time. `Stamps` allows any time from what the event is about up to
  now if `Delayed`, and only now otherwise; events are `Gap` seconds apart and a
  handler's own offsets (1, 2 and 4 seconds) are less than that. `Delayed = FALSE`
  is the assumption that events are handled in the order they happened. A
  `TASK_CREATED` carries the time its issue was opened, which only moves the first
  document further to the front;
- a claim is merged with the transition to `running` that follows: a handler that dies
  in between leaves a claimed intent, which is what a provider error leaves;
- messages other than `TASK_RESULT` are left out: their ids never meet other
  content and no handler decides on them. An issue whose text was edited between a
  crash and its next event is the exception, and is not modelled;
- the branch and the pull request of a task are the task's own;
- `tip` is the head a pull request is at and changes with `Push`. Asking the reviewer
  reads the pull request, then its diff, and then sends both; these requests are one
  step, and `judged` of a verdict is the head it finds, `head` the one it is recorded
  under. Nothing in the adapters or the entry point compares them;
- a failed call of the agent here is one without a run; calls that fail after their
  effect are the subject of `Dispatcher`. `failed` stands for `blocked` too;
- the checks of a head are the workflow's list at the time of the event. A
  `check_run` payload is read for one check only, so with three required names such an
  event never opens the gate and can only retry a review;
- `HUMAN_DECISION_REQUIRED` is treated like `BLOCKED`; no handler writes
  `TASK_PAUSED`, `TASK_COMPLETED` or a result without progress.

### How MessageParser corresponds to the code

A text is the sequence of what the patterns of `parsing.py` find in it: a line of
each kind with what it names. The state is the text as far as it is written and
what `parse` makes of it, so that every text of up to `MaxFragments` fragments is a
state, and an edit that adds a line is a step.

| Model | Code (`application/parsing.py`) |
|---|---|
| `Rules`, `Classification` | `classify`, the first pattern that matches |
| `Headers`, `Block`, `Section`, `OrderAt` | `_extract_provider_boundaries`, `_parse_provider_blocks`, `_parse_order_sections`, `_parse_order_instruction` |
| `Compatible`, `Selected`, `ProvidersUnclear` | `_provider_blocks_compatible`, `_select_provider_blocks` and the review they lead to |
| `InOrder` | the loops over lines and matches, which go down the text |
| `Placements`, `StatusEvents`, `Merged`, `ByStart`, `Ordered` | `_order_events_from_block`, `_parse_message_status_events`, `_sort_events_by_evidence` |
| `AmbiguousDelete`, `NeedsReview`, `NeedsContext`, `ReadAs`, `Parse` | `parse` |

`classify` searches the normalised text, the status events single lines of the
original: a `split` line is a phrase that only the first search finds. The patterns,
the spelling of numbers, confidence and evidence spans (but for where they start) are
left out, and a line holds one thing. So no two events start in one place
(`EventsStartApart` of `MessageParserTheorems`), and `ByStart` needs no rule for ties.

### How MessagePipeline corresponds to the code

`TradingState` applies one version after the other. `MessagePipeline` uses the same
handlers, with the steps of the database between them.

| Model | Code |
|---|---|
| `Receive`, `Insert`, `FindAgain`, `GiveUp` | `ingest_message`: the lookup, the insertion and its commit, the second lookup after an integrity error, the error |
| `Clashes` | the two unique constraints of `raw_telegram_messages` |
| `Load` | `_load_snapshot` |
| `Look` | `_find_processed_event`, for the events that were handled before |
| `Write` | from the first new event of `apply_parsed_message` to the commit, or to the rollback |
| `Written`, `Upserted`, `Moved` | `_upsert_snapshot`: rows that were read are written back whole |
| `Refused` | the unique constraints of sessions, no-trading days and processed events |
| `Report`, `Crash` | `update_outbox_command_state`; the process of a worker (external) |

The database is SQLite, which the tests and the local configuration use: reads see
what is committed, the first flush takes the write lock, and it is held until the
commit. Hence reads are steps of their own, and the first write and everything
after it are one step. A content is its deduplication key. The replay service
handles one message after the other; a second worker is a second replay process, and
the executor is a process in any case.

### How ControlBranch corresponds to the code

Every workflow run has a checkout of its own. The concurrency group serialises the
runs of one repository, but a cancelled run's last request may still be served, and
the persistence layer itself is written for several writers, with a compare-and-set
and a merge. The model has both, and `overlap` tells them apart.

| Model | Code (`github_persistence.py`, `dispatcher_store.py`, `storage.py`) |
|---|---|
| `Start`, `Hydrated` | `hydrate` |
| `Claim`, `Transition`, `AppendRecord` | `claim_intent`, `transition_intent`, `_append_record_locked` with `after_write` |
| `Save` | `append_document` |
| `CreateBranch` | `_get_ref_state`, which makes the branch from the base ref |
| `Push` | an attempt of `sync_paths` up to its `_update_ref` |
| `Merge`, `Conflict` | `_merge_jsonl`, `_reconcile_local_files` |
| `Serve`, `FastForward`, `AfterLoss` | GitHub's answer to `_update_ref`, and the next attempt |
| `Stop`, `Drop` | errors and cancelled runs; requests that are never served |

A line of the log is an intent, the version of its record, who wrote it and when (`at`,
the number of the write, as `recorded_at` in the code); the merge takes equal lines for
one, so it is the time that makes two records two. Blobs,
trees and commits are immutable and only reachable through the branch, so creating
them is one step with the request. `readBy` and `overlap` are history: which lines a
writer had read, and whether two runs were ever under way at once.

### How CodingAgents corresponds to the code

`Dispatcher` takes an agent for what it promises: `run`, `reconcile`, and a request that
may land late. `CodingAgents` is how the two agents do it.

| Model | Code (`live_adapters.py`, `cline_adapter.py`) |
|---|---|
| `agent` | the choice in `main` (`entrypoint.py`) |
| `Call` | `run` for a dispatch, `create_or_update_task` for a follow-up |
| `Find`, `Create`, `Assign` | `create_or_update_task`: `_find_issue_by_correlation`, the new issue, `_assign_copilot` |
| `FindPull`, `Exit`, `Check` | `run` of Cline: `_find_pull_request_by_branch`, the process, the second search |
| `Fail`, `RequestLost`, `Reconcile` | the error of an adapter and its handling in `dispatcher.py:249-259` (and `entrypoint.py:822` for follow-ups) |
| `Crash`, `Recover` | a dead caller; `resume_unfinished_intents` up to its own call of `run` |
| `ServeCreation`, `ServeAssignment`, `Close`, `OpenPull`, `OrphanExit` | GitHub and the process of Cline (external) |

One caller at a time works on an intent, which `OneRunAtATime` of `Dispatcher` says.
The second attempt of a task is dispatched after the first was, as in `ControlPlane`. The
update of an issue's text is left out, as it moves nothing else. `subprocess.run` kills
the process on a timeout; children it may have are not modelled. GitHub's lists show an issue
from the moment it is created, and Cline's search for issues finds it on the first page.

## Runs

| Run | Instance | Shows |
|---|---|---|
| `safety` | 3 messages, 3 stored versions, 7 contents, 1 rollback, symmetry in the messages | types; orders, outbox, positions and sessions agree at each commit and inside each transaction; effectively-once intent, closed sessions, replay; the refinement of `CancelReplace` |
| `liveness` | 2 dates, 2 messages, 1 rollback, any delivery order, reports that contradict each other | every stored version is processed; a message changes no row of another date; a filled order stays filled, a cancelled one is only moved by a report that takes back the success of its own cancellation; no order returns to pending, no closed position changes |
| `twocancels` | a message with two cancellations and a placement | the violation described below |
| `dispatch_safety` | 2 handlers, 1 recovery worker; 2 deliveries of a dispatch and 1 of a CI result; 1 crash, 1 late call | one worker at a time talks to the agent about a task; one run per task and late call; completions are true; settled intents stay; the refinement of `DispatchOnce` |
| `dispatch_resumefailed` | recovery runs a claimed intent | the violation described below |
| `control_safety` | 1 issue and its follow-up, 2 heads, 1 repair, 7 events, 1 crash, symmetry in the heads | the history stays reducible; an attempt is run once; a verdict is recorded once under a head, and only if it was delivered and green; the follow-up is never dispatched |
| `control_exacthead` | 1 issue, 2 heads | the violation described below |
| `control_secondissue` | 2 ordinary issues | the violation described below |
| `branch_safety` | 3 runs, 1 dedupe key, 3 documents of one id, 2 attempts to move the branch, 4 writes, symmetry in the runs | the branch only grows; what a write returned for is on it; no line is doubled or put before one its writer had read; runs that do not overlap act as one |
| `parser_safety` | texts of up to 4 fragments out of 22, 2 providers, none configured | orders keep their own prices, providers agree, instructions other than the end of a session follow the text, nothing but advertisement, lessons and advice is passed over in silence |
| `pipeline_safety` | 2 workers, 2 messages, 3 stored versions, an entry, its replacement and a trigger, 1 crash, no late reports, symmetry in workers and messages | versions are numbered without gaps and duplicates never raise; commands and markers match; tables stay consistent until a stale row is written back |
| `agents_safety` | either agent, 2 attempts of a task and a follow-up, 3 faults | an intent has one issue and one more per creation served late; one process per task; the run that is reported exists, is assigned if Copilot's `run` returned it, is on the task's branch and of no later attempt for Cline, and is the intent's own if `reconcile` found it |

Bounds: `MaxStored` is the number of stored versions of all messages together,
`MaxCrashes` the number of rollbacks. Two versions of a message make an edit, a
third an edit of an edit or a second message beside it, and this is what the
edit guard, which compares with one row, can tell apart. One instrument is
enough for the runs, as instruments only meet in `ResolvedInstrument`, and the
theorems hold for any number of them. One rollback is enough as it leads back
to a state that differs only in the counter.

For the dispatcher, a second delivery of one dispatch is what a retry is, and two
handlers and a recovery worker are the three parties that can hold the same
intent; a crash and a late call are enough to put any two of them past one
another. Intents of different keys share nothing but the order recovery takes
them in, so one dispatch and one CI result show what there is. A second recovery
worker multiplies the states, and the theorems hold for any number of them. The dispatcher's runs do not check for deadlock: once every
delivery was handled and the stop boundary is reached, all workers are idle and
the system may stop.

For the control plane, seven events take a task from its issue over a repair to
the follow-up and leave two for retries. Two heads are one per attempt, or one that
replaces another; one repair is the smallest limit that can be exceeded. One crash
can hit any write, and a second one would hit a history that differs from one without
it only by documents that are missing. The runs do not check for deadlock: after
`MaxEvents` events, or at the stop boundary, nothing has to happen any more.

For the branch, three runs are two that race and one that hydrates what they leave; four
writes are enough for a claim and its transition by one run to be overtaken by
those of another; two attempts are one lost race that is survived and one that is not.
For the parser, four fragments are two headers with an order each, or an order between
two others, with one phrase among them. For the pipeline, the three contents give each
kind of row that can be stale: an order that is cancelled, filled or replaced
meanwhile. Three stored versions are two of a message and one of the other. For the
agents, three faults are a request that fails, its retry that fails differently, and
a crash. Branch, parser and agents may stop, so their runs do not check for deadlock.

In `liveness` two stored versions are enough to cancel an order, have the success reported
and taken back, and trigger it again, since an order may be placed and cancelled by one
message.

In `safety` and `liveness` the outcome `FAILED` is left out of the reports: the code treats it like
`UNKNOWN`, up to the name of the state.

Every property is tested against a seeded fault (`*_Fault` operators, each
right before the operator it replaces): TLC finds the property violated with it.

### Where the code departs from its documents

- `twocancels`: `_resolve_replacement_dependency` (line 728) takes the last
  cancellation of a message. With two, the placement is released while the first
  is unknown; `docs/DOMAIN_MODEL.md:159` says "no replacement until the prior
  cancellation is known".
- `control_exacthead`: the reviewer is shown the pull request and its diff as they are when it
  is asked (`entrypoint.py:660`, `678-680`), and the verdict is recorded under the head of the
  CI event (`718-778`). The agent may have pushed in between; then a head that was neither
  delivered nor checked is judged, and another one gets the verdict.
  `control/DECISIONS.md:24` calls reviews "exact-head bound". `VerdictsAreGated` and
  `OneVerdictPerHead` are about the head a verdict is recorded under.
- `dispatch_resumefailed`: recovery takes every answer but `completed` for a failure
  (`dispatcher.py:471-492`), while the live adapters answer `running` or `accepted`;
  the run goes on and its intent is failed. The handler leaves such an intent alone,
  and a test (`tests/development_automation/test_dispatcher.py:867`) asks this of recovery.
- `control_secondissue`: `_create_task_from_issue` (`entrypoint.py:271-297`) only asks
  whether this issue has a task, and appends `TASK_CREATED`; the reducer accepts
  one `TASK_CREATED` in all (`reducer.py:162`). One more ordinary issue makes this and
  every later reduction raise, and the branch is append-only;
  `control/CURRENT_STATE.md:18` says "Run events can rebuild task projections after
  restart."

### Departures that no run states

These follow from the models in the same way. The runs above leave them out by a
constant or by a guard, which is named here, and check what holds without them.

Trading:

- Versions out of order (`StaleDelivery`): `_find_prior_processed_event`
  (`trading_state_repository.py:945`) looks at older versions only. A version that is
  delivered after a newer one is applied as if it were new, so an instruction leads to
  two commands; `docs/PROJECT_SPEC.md:153` promises "effectively-once broker intent".
  With `StaleDelivery = TRUE` TLC finds `OneIntentPerInstruction` violated.
- Late reports (`LateReports`): `update_outbox_command_state`
  (`trading_state_repository.py:213-226`) has no guard on the present state. A late
  `FAILED` or `UNKNOWN` after `SUCCEEDED` takes an order out of `CANCELLED` again;
  `docs/DOMAIN_MODEL.md:93` calls it terminal. With `LateReports = TRUE` TLC finds
  `TerminalOrdersStay` violated. `SettledUnlessTakenBack`, which `liveness` checks with such
  reports, says that this is the only way out of a terminal state.
- Stale rows (`stale` of `MessagePipeline`): an order that was read before a report and is
  written back after it returns from `CANCELLED` to `CANCEL_REQUESTED`, or becomes
  `FILLED`, while its command says otherwise. `ConsistentUnlessStale` says that this is
  the only way to inconsistent tables.
- Parser: a section without its prices is dropped without a review if the message has
  any other event (`parsing.py:505`, against `docs/MILESTONES.md:58`); all events of a message
  are ordered by where they start (line 722), the end of a session among them, while
  `docs/DOMAIN_MODEL.md:71` says "explicit events in the same message execute before
  `EndSession`" (TLC finds `EndSessionComesLast` violated in the instance of `parser_safety`,
  and `EventsFollowTheText` speaks of the other events only); with a configured provider that has two blocks, an order
  in both is placed twice, which is why `parser_safety` configures none; a vague
  deletion beside a clear one is ignored; a word of a promotion, a lesson or a risk
  warning silences the instructions of the same message.

Automation:

- A CI intent that is stuck: `_handle_ci_intent` claims and completes in two writes
  (`dispatcher.py:328-346`). A handler that stops in between leaves a claimed intent
  that makes later events duplicates and that recovery passes over (line 393);
  `control/CURRENT_STATE.md:40` promises recovery of unfinished work.
- Recovery is not run: only tests call `resume_unfinished_intents` (`dispatcher.py:377`). An
  intent that a dead handler leaves `running` makes every later delivery a duplicate and
  stays; `control/CURRENT_STATE.md:40` lists "replay-based recovery of unfinished work".
- Events out of their order (`Delayed`): documents carry the time of their event and are
  folded by it (`reducer.py:53`), while handlers decide on what the branch holds. A re-run
  workflow, or a CI run that ended in the same second as the last update of the pull
  request (`msg-ci` sorts before `msg-pr`), writes a document that sorts before the one it
  builds on, and the reducer raises for good. `HistoryRebuilds` says what does hold.
- Overlapping runs (`overlap` of `ControlBranch`): two runs that claim the same key from
  checkouts of their own both get an intent, and the merge keeps both
  (`github_persistence.py:225-232`). `SequentialHistory` says that this takes an overlap.
- Copilot: an issue whose assignment failed is found by `reconcile` and reported as
  running though nobody is assigned (`live_adapters.py:602-615`, `dispatcher.py:249-259`).
  `AcceptedRunsAreReal` asks for the assignee of what `run` returned only.
- Copilot: an issue creation that is served after the retry has searched makes a second issue
  (`control/CURRENT_STATE.md:25` says reconciliation does not). `NothingTwice` counts these.
- Copilot: `_assign_copilot` reads the assignees and replaces them; one that is added in
  between is dropped. Other assignees are not modelled.
- Cline: the second attempt of a task is answered with the pull request of the first and
  no process runs (`cline_adapter.py:282`). `AcceptedRunsAreReal` asks for a pull request of
  the task's branch and of no later attempt, and for the intent's own of `reconcile` only.
- Cline: the search for a follow-up's issue reads one page of a hundred
  (`cline_adapter.py:184-200`); an older one is created again.
- A handler that dies after it completed the `ci-ready` intent, or while the review intent
  is `running`, leaves the task where it is: later CI events of the head are duplicates. An
  attempt whose run was accepted before the handler died stays `READY_FOR_COPILOT`.
- A replacement whose cancellation ends `FAILED` or `UNKNOWN` stays `BLOCKED` until the
  executor reports again (`trading_state_repository.py:234`).

### Fairness

`FairSpec` is used by `liveness` only. Weak fairness of `ApplyEvent` and `Commit`:
a process that has a transaction open goes on with it, unless it dies
(`Rollback`, without fairness, finitely often). Strong fairness of `Redeliver`:
a version that is stored and not processed is delivered again, which is the
at-least-once delivery of `docs/PROJECT_SPEC.md:153`; strong because transactions
of other messages may disable it again and again. The replay service redelivers
by running the fixtures once more; it has no timer of its own.

`Dispatcher` has no fairness, and no liveness of it is claimed: nothing in the repository
starts recovery. Were it run again and again, workers whose leases always run out before
`reconcile` has answered would refuse each other's writes for ever (`dispatcher.py:390`),
and that some lease lasts long enough is what one would have to assume. That
takeovers never run a task twice or change what is settled is checked and proved
(`OneRunAtATime`, `AcceptedOnce`, `SettledStays`).

## Proofs

### Trading

`Invariance` of `TradingStateTheorems` proves that `IInv` is an invariant of `Spec`, from the assumptions of
`TradingTables`, `TradingSafety` and `TradingState` on their constants alone: for any number of
messages, instruments, dates and versions, with late reports and out-of-order
delivery or without.

`IInv` is the conjunction of

- `TypeOK`;
- `Good(db)` and `Good(work)`: the safety invariants of one content of the
  tables, and two facts that make them inductive: an order has at most one cancel
  command and a cancelled order is never filled (so a report cannot take a
  position's order away), and a placement depends on a cancel command;
- `OneCommandPerEvent` of both;
- `TxInv`: outside a transaction the working copy is the committed one; inside,
  it follows from it (`Follows`: rows stay, orders leave `PENDING` only, closed
  positions and commands are untouched), and the results so far name the
  commands they emitted. The latter is what `Dependency` relies on: the
  cancellation a placement is blocked by is a pending command of the same
  transaction, so the executor cannot have answered it yet.

The argument has three layers. The first half of `TradingSafetyProofs` says which rows
each change writes (`*Rows`), the second that such changes keep the tables `Good`
(`*Good`), what commands a handler `Emits`, whatever state its tables are in,
and that it is `Sound` for its event on `Good` ones. `TradingStateTheorems` shows that
each action keeps `IInv` (`*Inv`), and draws the theorems:
`TypeCorrect`, `CancelsInSync`, `PositionsCorrect`, `ReplacementsWait`,
`SessionsCorrect`, `OneCommandEach` and the action properties `NothingReopens` and
`OnlyReportsReopen`, both with reports that contradict each other. The latter rests on
`CancelInSync`: a report moves only the order its command cancels, and a cancelled one only
if that command had succeeded.

`IInv` says what tables are like, not what one transaction may do to them. A second
invariant, `HInv` (theorem `History`), is proved on top of it:

- `TxEffect`: from the committed tables to those of the transaction only orders,
  positions and sessions of the message's book have changed, closed sessions are still
  closed and have no new order, and every order has one placement command (`Effect`, a
  lemma per handler, and transitive over the events of a message);
- `TxReplay`: a transaction of a version that is processed has written nothing, since
  each of its events finds its row;
- `TxOrder` and `OneIntent`, if stale versions are not delivered: no newer version of the
  message has a row, so an event that finds no older row is the first of its instruction.

From it follow `ReplaysAreIdle`, `BooksAreSeparate`, `ClosedSessions` and, without stale
delivery, `IntentsAreUnique`: an older version applied after a newer one does place the
order again, which `_find_prior_processed_event` has no means to notice.

`Refinement` proves that the committed tables implement `CancelReplace` unless reports
contradict a success. `SagaState` maps tables to a state of the saga; `Advances` says what
a commit (`CommitAdvances`, from `Follows` and `TxEffect`) and a report
(`ReportAdvances`) have in common, and `SagaStep` that this is a step of the saga. That
each order has one placement is what makes the order it replaces well defined.

Only model-checked: `EveryVersionProcessed` (liveness under fairness is out of the
prover's reach).

### Dispatcher

`Invariance` of `DispatcherTheorems` proves that `IInv` is an invariant of `Spec`, for
any sets of tasks, checks, deliveries and workers and any bounds on crashes and
late calls, from `TargetAssumption`, `KeysAssumption`, `WorkersAssumption`,
`BoundAssumption` and `NoneAssumption`.

`OneRunAtATime` and `AcceptedOnce` are not inductive: neither says why a second worker
cannot enter a run. `IInv` adds

- `GoodWorker`, what a worker may rely on where it stands. The decisive parts: while a
  worker is in a run its intent is not `claimed`, and only a `claimed` intent leads
  into a run; a fresh worker at `start` knows that the intent is `claimed`; a worker that
  may still call the agent, or give the intent back, knows that all calls so far
  have timed out; the run a worker was told of is there, and is completed if it was
  told so;
- `GoodTask`, how the intent and the runs of a task agree: the calls of a task that
  can be claimed have all timed out, those of any other all but one; a completed
  intent names a completed run.

Giving an intent back (`Release`) and recovery that finds an intent `running` are the
steps that could break this. The first is only taken by the worker of the run, after
the agent knew no run; the second never makes the intent `claimed` (the mutant
`WithoutRun_Fault` is exactly the bug of doing so).

A step moves one worker (`MoveKeeps`), writes an intent (`WriteKeeps`) or changes the
runs of a task (`CallKeeps`, `AgentKeeps`). `DispatcherTheorems` has these four lemmas
and one lemma for each step that reduces it to them, puts them
together and draws `TypeCorrect`, `Exclusive`, `Once`, `CompletionsAreTrue` and the action
property `SettledForGood`.

`Refinement` proves that `Spec` implements `DispatchOnce`. `WhoRuns` says how the workers in
the run of a task change when one worker moves, and `MovesOnly` that a step which only moves
a worker is hidden or a `Leave`; that covers all steps of deliveries and leases and most of
recovery. What remains is one lemma for each step that `DispatchOnce` sees: `Start` is
`Take`, `Release` is `GiveBack`, an accepted call is `Accept`, a lost one `Lose`, `Land` is
`Arrive`, `Settle` and `Mark` are `Settle`. Two parts of `GoodWorker` are there for it:
a fresh worker in or after a run finds its intent `running`, so that an acknowledgement is not
a second `Take`; and recovery that marks a task with an answer was told of a run.

### Control branch

`Invariance` of `ControlBranchTheorems` proves that `IInv` is an invariant of `Spec`, for
any runs, keys, documents, attempts, versions and writes, from `BoundsAssumption` (all but
`MaxWrites` are positive) and `NoneAssumption`.

`BranchOnlyGrows` and `LinesInCausalOrder` speak of the branch only, but what keeps them is
what requests and checkouts look like before they reach it. `IInv` adds

- `GoodRequest`: an open request, given up or not, asks for a commit whose log is in causal
  order; if it can still win, that is, if it is numbered one more than the branch, it extends
  the branch. Once another request has won it cannot;
- `GoodRun`: between writes a checkout is a part of the branch. While a record is synced it
  is a part of the branch and one line (`Pending`) that is neither on the branch nor in any
  other run's request, and whatever its run had read is in that part; while a document is
  synced, a part and that document.

So a merge appends exactly that line (`MergeAppends`, whose hard part, that the fold of
`_merge_jsonl` over the checkout yields one line, is `MissingIsTheLastLine`), and a run that
has lost the race is where it was before (`ServeKeeps`). Steps that only move a run are
reduced to `MoveKeeps`.

`SequentialHistory` holds only while nothing overlaps, and needs an invariant of its own,
`Sequential`: at most one run is active, its checkout is exactly the commit of the branch and
its own write, and so is the commit it asks for. A record is therefore numbered after all
records there are have been counted: `OrderedAppend` says that such a record may be added,
and `LastIsCounted` that the version replay finds in the last record is that count. The
first run that starts while another is under way, or whose request is still to be served,
ends this, which is what `overlap` remembers. `DocsAssumption` is not used: it is `Save`
that keeps two documents of an id from one checkout.

### Control plane

`Invariance` of `ControlPlaneTheorems` proves that `IInv` is an invariant of `Spec`, for any
tasks, issues, heads, repairs, events and crashes, with events in order or not, from the
assumptions of `ControlReducer` and `ControlPlane` on their constants.

The first half is about the fold. `Reduce` is the fold of the community modules, whose
function is chosen among those that satisfy its recursion; that there is one, and what it
yields, would be an induction over the documents. The proof takes a smallest set of documents
for which the claim is wrong instead: strict inclusion on the subsets of a finite set is well
founded, and the set without its last document is a smaller one. `FoldExists` builds the
function so, and `ReduceIsSound` shows that a projection only says what some document tells:
which task was created, that the head a task waits for was delivered for this attempt, that
its checks were recorded, and that attempt and repairs are within the limit. `AppliedIsSound`
is the step of one document, a lemma per kind under it.

`IInv` is the conjunction of

- `TypeOK`, whose hard part is that attempts stay within the limit: it follows from the fold;
- `DocsInv`: documents are well formed, and one of CI evidence is backed by a green head, the
  result of its attempt, and the intent of its gate;
- `OneTask`: whatever was run, is worked on or was followed up belongs to the one task that
  was created. A second issue may append its document, but the reduction then raises, and
  with it everything that reads the history;
- `DispatchInv` and `ReviewInv`: an intent that can still be started has had no effect, and a
  handler between the start of one and its effect is the only one of it. `ReviewInv` also
  says that a review is only started behind its gate, so a head that is reported again
  after its verdict cannot pass a second time;
- `JobInv`: a handler holds what its step needs.

From it follow `TypeCorrect`, `AttemptsRunOnce`, `HeadsAreJudgedOnce`,
`VerdictsBehindTheGate` and `FollowUpsWait`. What is said of verdicts is about the head
one is recorded under; that the reviewer was shown that head is not true
(`control_exacthead`).

`HistoryRebuilds` is not true of every instance: a second issue breaks it (the run
`control_secondissue`), and so does an event that is handled late. `HistoryAlwaysRebuilds`
therefore assumes `~Delayed` and at most one issue, as the run does, and nothing about the
number of tasks, heads, repairs, events or crashes. It rests on a second invariant,
`RebuildInv`. The documents of one handler carry the time of its event and a few seconds
(`Offset`), and events are `Gap` seconds apart, so what is written next is later than all
there is (`InTime`); the fold then applies it last, to the very projection the handler went by
(`LatestIsApplied`, which compares the two folds). What is left is that this
projection fits: at every step between an event and its last document the task is in the state
the document needs, for the attempt and head the handler holds (`Awaits`). After the stop
boundary no task waits for a document (`Settled`), so a review that is retried need not ask
for the boundary.

### Coding agents

`Invariance` of `CodingAgentsTheorems` proves that `IInv` is an invariant of `Spec`, for any
tasks, attempts, follow-ups and faults, from `AgentsAssumption`. Beside types it says

- `Located`: a caller is where its agent works, an issue it is about to assign is its own,
  what a finished call reports is real (`Real`), and a process of Cline that outlives its call has
  left its pull request if the call is done. The last is why the next attempt does
  not start a second process on the branch;
- `Once`: a caller about to create an issue knows of none, so there are none but those served
  late;
- `Ordered`: all attempts before one that has left a trace are done;
- `GithubInv`: nobody is assigned to a follow-up, and a pull request that names a dispatch is
  on its branch.

Each action is reduced to one of a few shapes: it moves its caller (`QuietKeeps`), takes a
run for the intent (`AcceptKeeps`), loses a request (`LostKeeps`) or changes an issue
(`IssueKeeps`). From it follow `CreatedOnce` and `RunsAreReal`. For Cline the latter does not
say that the run is the intent's own: `run` takes what is on the branch. That it is never
one of a later attempt is `NoLaterPull`, by `Ordered`.

### Message pipeline

`Invariance` of `MessagePipelineTheorems` proves that `IInv` is an invariant of `Spec`, for
any workers, messages, contents, stored versions and crashes, with late reports or
without, from `PipelineAssumption` and the assumptions of the tables. The proof cannot say
that each write is one of `TradingState`: a worker starts from rows that may be older than
the tables it writes to, and what it writes may then be inconsistent. What holds anyway has to
be told apart from what holds only of fresh rows:

- `TypeOK`: a row is well typed whoever wrote it last. It is needed for the others and proved
  with them, so `pipeline_safety` spends no run on it;
- `Numbered`: numbers have no gap, so the highest is their count, and with the two unique
  constraints that is all ingestion needs, however stale the number is it tries;
- `Marked`: events and commands match (`OneCommandPerEvent`, `Paid`), every marked event is of
  a stored version, and a version is marked all or none;
- `JobInv`: what a worker has read and still relies on when it acts. Stored versions and
  marked events are only ever added to, so the numbers below its own, the clash it ran
  into, the version it applies and the events it saw marked stay what they were
  (`OthersKeep`). The rows of orders and sessions are deliberately not among these;
- `~stale => Good(db)`.

`AllDone` is a recursive function over the events of a version. `Progression` shows that there
is one, by a smallest event at which it would fail, and `AllKeeps` carries `Done` from event
to event: whatever the rows were, each event adds its row and, if applied, its one
command (`HandleEmits`), and if the tables were `Good` to begin with they stay so
(`HandleSound`). A cancellation of the same version is a command nobody has answered,
so a placement waits for it (`DependencyAwaited`). `WrittenRows` is the write back: over rows that
others have changed it keeps types, events and commands; over the rows that were read it is
exactly what the worker holds, which is why `stale` is the only way out of `Good`.
A worker whose first new event was marked meanwhile is refused, and as versions are
marked whole, none of its events had been. From `IInv` follow `TypesHold`, `VersionsHold`,
`IntentsHold` and `ConsistencyHolds`.

### Message parser

`Invariance` of `MessageParserTheorems` proves that what the message is read as is what
`Parse` makes of the whole text written so far, for any fragments, providers, prices and
length, from `ParserAssumption`. The rest is about `Parse`, without induction over the text:

- `InOrder`, which lists a set of numbers in ascending order, is shown to do so by counting
  (`InOrderLists`): the place of a number is how many lie below it;
- hence the lines of a kind come in the order of the text (`ListedLines`), a section has its
  own prices and nobody else's (`OrdersOfSections`, `PlacedSection`), and `ByStart` of events that
  start apart lists them all by where they start (`EventsInOrder`);
- events do start apart (`EventsStartApart`): a placement starts at the line of its buy or
  sell, a status event at its phrase, and a line is one thing.

From these follow `WholeOrders`, `OneProvider`, `TextOrder` (of instructions other than the
end of a session) and `NoSilence`, the last by the cases of `parse` in the order they are
tried.

### Only model-checked

- `EveryVersionProcessed`: liveness under fairness is out of the prover's reach.

Every other property of a passing run is stated by a theorem. `TypeOK` of `ControlBranch`
and `MessagePipeline` is proved for all instances, so their runs leave it out.

## Plan

Done: every module of the table above, with proofs. What could come next:

1. `DispatchOnce` for the coding agents: `CodingAgents` under the handlers of `Dispatcher`, with
   the requests of an adapter in place of `Lookup`, `Exec` and `Land`;
2. liveness of the control plane without crashes: an accepted attempt is judged in
   the end, and which crashes it survives;
3. liveness of recovery under an explicit bound on how often a lease runs out in mid-call.

## Not modelled

- Reviewers (`openrouter_adapter.py`, the reviewer of `live_adapters.py`): one request
  and the validation of its answer; what they answer is a choice of `ControlPlane`.
- Field validation, markdown, JSON formatting, logging and settings, which have no state
  of their own, and the fixture adapter, which reads a file.
- Migrations, which run once at deployment, and the queue rows of manual review, on
  which nothing is decided.
- The workflow files, but for the concurrency group `ControlPlane` rests on.
- The patterns of the parser: that a text contains a phrase is where `MessageParser` starts.
- Databases other than SQLite, where other writers may come between two writes of a
  transaction.

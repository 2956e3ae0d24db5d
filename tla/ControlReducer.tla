--------------------------- MODULE ControlReducer ---------------------------
(***************************************************************************)
(* reduce_run_events: the state of the development tasks as a fold of the  *)
(* run documents on the control branch.  Documents are sorted by their     *)
(* time stamps, not by the order they were written in, and one that does   *)
(* not fit the state before it makes the whole reduction raise: ok is      *)
(* FALSE and nothing else in the projection is of use.                     *)
(*                                                                         *)
(* Covered are the documents the entry point writes.  TASK_PAUSED and      *)
(* TASK_COMPLETED have no writer; every result it writes shows progress.   *)
(* The branch and the pull request of a task are the task's own.           *)
(***************************************************************************)
EXTENDS Naturals, Folds

CONSTANTS
    Tasks,       \* task numbers
    Heads,       \* commits of the task branches
    MaxRepairs,  \* MAX_REPAIR_ATTEMPTS_PER_TASK
    None

ASSUME TasksAssumption == Tasks \subseteq Nat /\ None \notin Tasks \cup Heads
ASSUME RepairsAssumption == MaxRepairs \in Nat

DocumentTypes == {"created", "dispatched", "result", "ci", "review", "next"}
Decisions == {"ACCEPT", "NEXT_TASK", "FIX_REQUIRED", "BLOCKED"}
Attempts == 1 .. MaxRepairs + 1

\* A run document: head is head_sha or expected_head_sha, at is created_at.
Document == [type: DocumentTypes, task: Tasks, at: Nat, attempt: Attempts,
             head: Heads \cup {None}, decision: Decisions \cup {None},
             next: Tasks \cup {None}]

\* What message_id is the digest of.
Id(d) ==
    CASE d.type = "result" -> <<d.type, d.head>>
      [] d.type = "next" -> <<d.type, d.task, d.next>>
      [] OTHER -> <<d.type, d.task, d.attempt, d.head>>

LifecycleStates == {"READY_FOR_COPILOT", "COPILOT_RUNNING", "WAITING_FOR_CI",
                    "WAITING_FOR_OPENAI_REVIEW", "PAUSED", "COMPLETED"}
TaskProjection == [state: LifecycleStates, attempt: Attempts,
                   repairs: 0 .. MaxRepairs, head: Heads \cup {None}]

ASSUME NothingAssumption == None \notin TaskProjection \cup Decisions

NewTask(attempt) ==
    [state |-> "READY_FOR_COPILOT", attempt |-> attempt, repairs |-> 0, head |-> None]

\* first is task_order[0], stopped the stop reason SECOND_TASK_CREATED.
NoHistory == [tasks |-> [t \in Tasks |-> None], first |-> None,
              stopped |-> FALSE, ok |-> TRUE]

\* The order of the fold: by time stamp, then by message id, which starts with
\* the kind of the document (ci, dispatch, follow-up, issue, pr, review).
Rank == [ci |-> 1, dispatched |-> 2, next |-> 3, created |-> 4, result |-> 5,
         review |-> 6]
Before(d, e) == d.at < e.at \/ (d.at = e.at /\ Rank[d.type] < Rank[e.type])
Latest(docs) == CHOOSE d \in docs : ~\E e \in docs : Before(d, e)

-----------------------------------------------------------------------------
(* One document. *)

StateFor(type) ==
    CASE type = "dispatched" -> "READY_FOR_COPILOT"
      [] type = "result" -> "COPILOT_RUNNING"
      [] type = "ci" -> "WAITING_FOR_CI"
      [] type = "review" -> "WAITING_FOR_OPENAI_REVIEW"
      [] OTHER -> "COMPLETED"

\* The document is one the task is waiting for.
FitsTask(task, d) ==
    /\ task.state = StateFor(d.type)
    /\ d.type # "next" => d.attempt = task.attempt
    /\ d.type \in {"ci", "review"} => d.head = task.head

\* reduce_run_events does not raise on d; after the stop boundary every document
\* of these types is refused.
Fits(p, d) ==
    /\ ~p.stopped
    /\ IF d.type = "created" THEN p.first = None
       ELSE p.tasks[d.task] # None /\ FitsTask(p.tasks[d.task], d)
    /\ d.type = "next" => d.task = p.first /\ p.tasks[d.next] = None

\* The bug of a repair limit that is checked one attempt too late.
MayRepair_Fault(task) == task.repairs <= MaxRepairs

MayRepair(task) == task.repairs < MaxRepairs

\* A decision moves the task on; a repair too many pauses it.
Reviewed(task, decision) ==
    CASE decision = "FIX_REQUIRED" /\ MayRepair(task) ->
           [state |-> "READY_FOR_COPILOT", attempt |-> task.attempt + 1,
            repairs |-> task.repairs + 1, head |-> None]
      [] decision \in {"ACCEPT", "NEXT_TASK"} -> [task EXCEPT !.state = "COMPLETED"]
      [] OTHER -> [task EXCEPT !.state = "PAUSED"]

\* What a document that fits makes of its task.
Moved(task, d) ==
    CASE d.type = "dispatched" -> [task EXCEPT !.state = "COPILOT_RUNNING"]
      [] d.type = "result" ->
           [task EXCEPT !.state = "WAITING_FOR_CI", !.head = d.head]
      [] d.type = "ci" -> [task EXCEPT !.state = "WAITING_FOR_OPENAI_REVIEW"]
      [] d.type = "review" -> Reviewed(task, d.decision)

Applied(d, p) ==
    IF ~p.ok \/ ~Fits(p, d) THEN [p EXCEPT !.ok = FALSE]
    ELSE CASE d.type = "created" -> [p EXCEPT !.tasks[d.task] = NewTask(d.attempt),
                                              !.first = d.task]
           [] d.type = "next" -> [p EXCEPT !.tasks[d.next] = NewTask(1),
                                           !.stopped = TRUE]
           [] OTHER -> [p EXCEPT !.tasks[d.task] = Moved(@, d)]

Self(d) == d

\* The projection of a set of documents.  Ids are unique in it (append_document).
Reduce(docs) == MapThenFoldSet(Applied, NoHistory, Self, Latest, docs)
=============================================================================

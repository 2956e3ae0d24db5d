---------------------------- MODULE ControlPlane ----------------------------
(***************************************************************************)
(* The entry point of the development automation: one handler for each     *)
(* kind of GitHub event, which reads the projection of the run documents,  *)
(* claims intents, calls the coding agent or the reviewer, and appends     *)
(* documents.  A document or an intent is on the control branch as soon as *)
(* it is written, so every write is a step and a handler may die between   *)
(* any two.                                                                *)
(*                                                                         *)
(* The workflow's concurrency group runs one handler at a time.  Events    *)
(* may be lost, come again and carry old data.  A delivery that changes    *)
(* nothing is left out, and so is a claim that the same handler starts in  *)
(* its next write: dying in between leaves what a provider error leaves.   *)
(* Dispatcher has the intents in detail.                                   *)
(***************************************************************************)
EXTENDS ControlReducer, Sequences

CONSTANTS
    Issues,      \* tasks that an issue of an allow-listed actor asks for
    Gap,         \* seconds between two events
    Delayed,     \* whether an event may be handled after a later one
    MaxEvents,   \* bound on the deliveries that change something
    MaxCrashes   \* bound on the handlers that die

ASSUME IssuesAssumption == Issues \subseteq Tasks
ASSUME GapAssumption == Gap \in Nat /\ Gap > 4 /\ Delayed \in BOOLEAN
ASSUME LimitsAssumption == MaxEvents \in Nat /\ MaxCrashes \in Nat

VARIABLES
    docs,       \* run documents on the control branch
    results,    \* result messages on it, with the head each is named after
    intents,    \* status of the intents, by dedupe key
    job,        \* the handler that runs, or None
    clock,      \* events handled so far
    pushed,     \* for each head its task and the time it was pushed, or None
    tip,        \* the head the pull request of each task is at, or None
    green,      \* heads whose required checks have succeeded
    runs,       \* dispatches the coding agent accepted, in order
    verdicts,   \* the reviewer's decisions, in order: under which head each is
                \* recorded, and which head was judged
    followUps,  \* tasks the automation opened an issue for
    crashes

vars == <<docs, results, intents, job, clock, pushed, tip, green, runs, verdicts,
          followUps, crashes>>
World == <<pushed, tip, green, runs, verdicts, followUps>>

\* Where a handler may be, and what it works on.
Steps == {"dispatch", "run", "settle", "record", "result", "evidence", "review",
          "ask", "decided", "verdict", "next", "create", "created", "stop"}
Handlers == [pc : Steps, task : Tasks, attempt : Attempts, at : Nat,
             head : Heads \cup {None}, decision : Decisions \cup {None}]

Run == [task : Tasks, attempt : Attempts]
Verdict == [task : Tasks, attempt : Attempts, head : Heads, judged : Heads \cup {None}]
PushedHead == [task : Tasks, at : Nat]

ASSUME NoneAssumption == None \notin Handlers \cup PushedHead

Init ==
    /\ docs = {}
    /\ results = {}
    /\ intents = [k \in {} |-> "claimed"]
    /\ job = None
    /\ clock = 0
    /\ pushed = [h \in Heads |-> None]
    /\ tip = [t \in Tasks |-> None]
    /\ green = {}
    /\ runs = <<>>
    /\ verdicts = <<>>
    /\ followUps = {}
    /\ crashes = 0

-----------------------------------------------------------------------------
(* What the handlers read and write. *)

History == Reduce(docs)

\* The bug of a validation that forgets the stop boundary.
Accepting_Fault(p) == p.ok

\* validate_incoming_event lets the event through.
Accepting(p) == p.ok /\ ~p.stopped

InState(p, t, state) == p.tasks[t] # None /\ p.tasks[t].state = state

Status(key) == IF key \in DOMAIN intents THEN intents[key] ELSE "none"
SetStatus(key, status) ==
    intents' = [k \in DOMAIN intents \cup {key} |->
                  IF k = key THEN status ELSE intents[k]]

DispatchKey(t, attempt) == <<"dispatch", t, attempt>>
GateKey(t, attempt, h) == <<"ci-ready", t, attempt, h>>
ReviewKey(t, attempt, h) == <<"review", t, attempt, h>>
NextKey(t) == <<"next-task", t, t + 1>>

\* The bug of a handler that takes a running dispatch for one to be started.
DispatchOpen_Fault(t, attempt) ==
    Status(DispatchKey(t, attempt)) \in {"none", "claimed", "running"}

DispatchOpen(t, attempt) == Status(DispatchKey(t, attempt)) \in {"none", "claimed"}

\* The bug of a retry that only looks for a completed review.
ReviewOpen_Fault(t, attempt, h) == Status(ReviewKey(t, attempt, h)) # "completed"

ReviewOpen(t, attempt, h) == Status(ReviewKey(t, attempt, h)) \in {"none", "claimed"}

Blank(type, t, at, attempt) ==
    [type |-> type, task |-> t, at |-> at, attempt |-> attempt, head |-> None,
     decision |-> None, next |-> None]

\* append_document, after which the handler goes on as next; it raises if the id
\* is taken by another document.
Write(d, next) ==
    IF \E e \in docs : Id(e) = Id(d) /\ e # d
    THEN UNCHANGED docs /\ job' = None
    ELSE docs' = docs \cup {d} /\ job' = next

\* A handler at pc for task t, started by an event of time at.
Handler(pc, t, attempt, at, h) ==
    [pc |-> pc, task |-> t, attempt |-> attempt, at |-> at, head |-> h,
     decision |-> None]
Doing(pc) == job # None /\ job.pc = pc
Then(pc) == [job EXCEPT !.pc = pc]

\* The times an event may carry that happened after `since`.
Stamps(since) ==
    {Gap * c : c \in (IF Delayed THEN since ELSE clock + 1) .. clock + 1}

\* The next event is taken up.
Deliver ==
    /\ job = None
    /\ clock < MaxEvents
    /\ clock' = clock + 1
    /\ UNCHANGED <<World, crashes>>

-----------------------------------------------------------------------------
(* issues and issue_comment. *)

\* The first event of an issue creates its task and goes on to dispatch it.
OpenIssue(t) ==
    /\ Deliver
    /\ Accepting(History)
    /\ History.tasks[t] = None
    /\ \E at \in Stamps(1) :
         LET now == docs \cup {Blank("created", t, at, 1)} IN
         /\ docs' = now
         /\ job' = IF Reduce(now).ok THEN Handler("dispatch", t, 1, at, None) ELSE None
    /\ UNCHANGED <<results, intents>>

\* A comment, or the issue again, dispatches a task that is ready.
Redispatch(t) ==
    /\ Deliver
    /\ Accepting(History)
    /\ InState(History, t, "READY_FOR_COPILOT")
    /\ DispatchOpen(t, History.tasks[t].attempt)
    /\ \E at \in Stamps(1) :
         job' = Handler("dispatch", t, History.tasks[t].attempt, at, None)
    /\ UNCHANGED <<docs, results, intents>>

StartDispatch ==
    /\ Doing("dispatch")
    /\ SetStatus(DispatchKey(job.task, job.attempt), "running")
    /\ job' = Then("run")
    /\ UNCHANGED <<docs, results, clock, World, crashes>>

\* The agent takes the task, or fails and has no run: the intent is given back.
RunAgent ==
    /\ Doing("run")
    /\ \/ /\ runs' = Append(runs, [task |-> job.task, attempt |-> job.attempt])
          /\ job' = Then("settle")
          /\ UNCHANGED intents
       \/ /\ SetStatus(DispatchKey(job.task, job.attempt), "claimed")
          /\ job' = None
          /\ UNCHANGED runs
    /\ UNCHANGED <<docs, results, clock, pushed, tip, green, verdicts, followUps, crashes>>

\* Only a dispatch that is under way or completed gets a document; failed stands
\* for blocked too.
SettleDispatch ==
    /\ Doing("settle")
    /\ \E s \in {"running", "completed", "failed"} :
         /\ SetStatus(DispatchKey(job.task, job.attempt), s)
         /\ job' = IF s = "failed" THEN None ELSE Then("record")
    /\ UNCHANGED <<docs, results, clock, World, crashes>>

\* _persist_dispatch.
RecordDispatch ==
    /\ Doing("record")
    /\ Write(Blank("dispatched", job.task, job.at + 1, job.attempt), None)
    /\ UNCHANGED <<results, intents, clock, World, crashes>>

-----------------------------------------------------------------------------
(* pull_request: _persist_copilot_result. *)

\* The message comes first; its id is taken if the same head was reported with
\* another time or attempt.
ReceiveResult(h) ==
    /\ Deliver
    /\ Accepting(History)
    /\ pushed[h] # None
    /\ LET t == pushed[h].task IN
       /\ InState(History, t, "COPILOT_RUNNING")
       /\ \E at \in Stamps(pushed[h].at) :
            LET attempt == History.tasks[t].attempt
                message == [head |-> h, at |-> at, attempt |-> attempt]
            IN  /\ ~\E m \in results : m.head = h /\ m # message
                /\ results' = results \cup {message}
                /\ job' = Handler("result", t, attempt, at, h)
    /\ UNCHANGED <<docs, intents>>

RecordResult ==
    /\ Doing("result")
    /\ Write([Blank("result", job.task, job.at, job.attempt) EXCEPT !.head = job.head],
             None)
    /\ UNCHANGED <<results, intents, clock, World, crashes>>

-----------------------------------------------------------------------------
(* workflow_run and check_run. *)

\* The bug of a gate that takes the checks of any head of the branch.
GateOpens_HeadFault(task, h) == h \in green

\* The bug of a gate that takes checks that are still running.
GateOpens_CheckFault(task, h) == task.head = h

\* The exact head the task waits for has passed its checks.
GateOpens(task, h) == task.head = h /\ h \in green

OpenGate(h) ==
    /\ Deliver
    /\ Accepting(History)
    /\ pushed[h] # None
    /\ LET t == pushed[h].task
           task == History.tasks[t]
           key == GateKey(t, task.attempt, h)
       IN  /\ InState(History, t, "WAITING_FOR_CI")
           /\ GateOpens(task, h)
           /\ Status(key) = "none"
           /\ SetStatus(key, "completed")
           /\ \E at \in Stamps(pushed[h].at) :
                job' = Handler("evidence", t, task.attempt, at, h)
    /\ UNCHANGED <<docs, results>>

RecordEvidence ==
    /\ Doing("evidence")
    /\ Write([Blank("ci", job.task, job.at, job.attempt) EXCEPT !.head = job.head],
             Then("review"))
    /\ UNCHANGED <<results, intents, clock, World, crashes>>

\* Another CI event of the head, whatever its checks say: a review that is due
\* and not under way is tried again.
RetryReview(h) ==
    /\ Deliver
    /\ History.ok
    /\ pushed[h] # None
    /\ LET t == pushed[h].task
           task == History.tasks[t]
       IN  /\ InState(History, t, "WAITING_FOR_OPENAI_REVIEW")
           /\ task.head = h
           /\ ReviewOpen(t, task.attempt, h)
           /\ \E at \in Stamps(pushed[h].at) :
                job' = Handler("review", t, task.attempt, at, h)
    /\ UNCHANGED <<docs, results, intents>>

StartReview ==
    /\ Doing("review")
    /\ SetStatus(ReviewKey(job.task, job.attempt, job.head), "running")
    /\ job' = Then("ask")
    /\ UNCHANGED <<docs, results, clock, World, crashes>>

\* The handler fetches the pull request and its diff as they are now, and the reviewer
\* decides on them; nothing compares them with the head the handler is about. Or
\* GitHub or the reviewer cannot be reached, and is asked again another time.
AskReviewer ==
    /\ Doing("ask")
    /\ \/ \E d \in Decisions :
            /\ d = "NEXT_TASK" => job.task + 1 \in Tasks
            /\ verdicts' = Append(verdicts, [task |-> job.task, attempt |-> job.attempt,
                                             head |-> job.head, judged |-> tip[job.task]])
            /\ job' = [job EXCEPT !.pc = "decided", !.decision = d]
            /\ UNCHANGED intents
       \/ /\ SetStatus(ReviewKey(job.task, job.attempt, job.head), "claimed")
          /\ job' = None
          /\ UNCHANGED verdicts
    /\ UNCHANGED <<docs, results, clock, pushed, tip, green, runs, followUps, crashes>>

CompleteReview ==
    /\ Doing("decided")
    /\ SetStatus(ReviewKey(job.task, job.attempt, job.head), "completed")
    /\ job' = Then("verdict")
    /\ UNCHANGED <<docs, results, clock, World, crashes>>

\* _persist_review: the decision, and the follow-up if there is to be one.
RecordReview ==
    /\ Doing("verdict")
    /\ Write([Blank("review", job.task, job.at + 2, job.attempt) EXCEPT
                !.head = job.head, !.decision = job.decision],
             IF job.decision = "NEXT_TASK" THEN Then("next") ELSE None)
    /\ UNCHANGED <<results, intents, clock, World, crashes>>

StartNext ==
    /\ Doing("next")
    /\ SetStatus(NextKey(job.task), "running")
    /\ job' = Then("create")
    /\ UNCHANGED <<docs, results, clock, World, crashes>>

CreateNext ==
    /\ Doing("create")
    /\ \/ /\ followUps' = followUps \cup {job.task + 1}
          /\ job' = Then("created")
          /\ UNCHANGED intents
       \/ /\ SetStatus(NextKey(job.task), "claimed")
          /\ job' = None
          /\ UNCHANGED followUps
    /\ UNCHANGED <<docs, results, clock, pushed, tip, green, runs, verdicts, crashes>>

CompleteNext ==
    /\ Doing("created")
    /\ SetStatus(NextKey(job.task), "completed")
    /\ job' = Then("stop")
    /\ UNCHANGED <<docs, results, clock, World, crashes>>

RecordNext ==
    /\ Doing("stop")
    /\ Write([Blank("next", job.task, job.at + 4, job.attempt) EXCEPT
                !.head = job.head, !.next = job.task + 1],
             None)
    /\ UNCHANGED <<results, intents, clock, World, crashes>>

-----------------------------------------------------------------------------
(* The surroundings. *)

\* The agent pushes to the branch of a task it took, after the events so far.
Push(h) ==
    /\ pushed[h] = None
    /\ \E i \in DOMAIN runs :
         /\ pushed' = [pushed EXCEPT ![h] = [task |-> runs[i].task, at |-> clock + 1]]
         /\ tip' = [tip EXCEPT ![runs[i].task] = h]
    /\ UNCHANGED <<docs, results, intents, job, clock, green, runs, verdicts,
                   followUps, crashes>>

ChecksPass(h) ==
    /\ pushed[h] # None
    /\ h \notin green
    /\ green' = green \cup {h}
    /\ UNCHANGED <<docs, results, intents, job, clock, pushed, tip, runs, verdicts,
                   followUps, crashes>>

\* The workflow run is cancelled, times out, or an exception ends it.
Crash ==
    /\ job # None
    /\ crashes < MaxCrashes
    /\ crashes' = crashes + 1
    /\ job' = None
    /\ UNCHANGED <<docs, results, intents, clock, World>>

Dispatching == StartDispatch \/ RunAgent \/ SettleDispatch \/ RecordDispatch
Reviewing ==
    \/ RecordEvidence \/ StartReview \/ AskReviewer \/ CompleteReview \/ RecordReview
    \/ StartNext \/ CreateNext \/ CompleteNext \/ RecordNext

Next ==
    \/ \E t \in Issues : OpenIssue(t)
    \/ \E t \in Tasks : Redispatch(t)
    \/ Dispatching
    \/ \E h \in Heads : ReceiveResult(h) \/ OpenGate(h) \/ RetryReview(h)
    \/ RecordResult
    \/ Reviewing
    \/ \E h \in Heads : Push(h) \/ ChecksPass(h)
    \/ Crash

Spec == Init /\ [][Next]_vars

-----------------------------------------------------------------------------
(* Properties. *)

\* Documents, handlers and runs have their types: the attempts of a task stay
\* within the repair limit.
TypeOK ==
    /\ docs \subseteq Document
    /\ results \subseteq [head : Heads, at : Nat, attempt : Attempts]
    /\ \A k \in DOMAIN intents :
         intents[k] \in {"claimed", "running", "completed", "failed"}
    /\ job \in Handlers \cup {None}
    /\ clock \in 0 .. MaxEvents /\ crashes \in 0 .. MaxCrashes
    /\ pushed \in [Heads -> PushedHead \cup {None}] /\ tip \in [Tasks -> Heads \cup {None}]
    /\ green \subseteq Heads /\ followUps \subseteq Tasks
    /\ runs \in Seq(Run)
    /\ verdicts \in Seq(Verdict)

\* Whatever handlers died where and whatever came again, the documents on the
\* branch can be reduced: task projections can be rebuilt after a restart.
HistoryRebuilds == History.ok

\* A task the automation opened itself is never given to the coding agent.
SecondTaskWaits == \A i \in DOMAIN runs : runs[i].task \notin followUps

\* The coding agent gets every attempt of a task once, however often its issue,
\* comments on it or the handler come again.
OneRunPerAttempt == \A i, j \in DOMAIN runs : runs[i] = runs[j] => i = j

\* The verdicts that claim to be about one head of one attempt.
SameReview(v, w) == v.task = w.task /\ v.attempt = w.attempt /\ v.head = w.head

\* The reviewer decides once under a head of an attempt, though its review is
\* retried after errors and crashes.
OneVerdictPerHead ==
    \A i, j \in DOMAIN verdicts : SameReview(verdicts[i], verdicts[j]) => i = j

\* A verdict is only asked for and recorded under a head that passed its checks and
\* that the agent delivered for this very attempt, whatever events are late or retry
\* the review. What the reviewer was shown is ExactHeadIsJudged.
VerdictsAreGated ==
    \A i \in DOMAIN verdicts :
        /\ verdicts[i].head \in green
        /\ \E d \in docs : /\ d.type = "result"
                           /\ d.task = verdicts[i].task
                           /\ d.attempt = verdicts[i].attempt
                           /\ d.head = verdicts[i].head

\* The head that is judged is the head that passed the gate and that the verdict is
\* recorded under, also when a review is retried and when the agent goes on pushing.
ExactHeadIsJudged == \A i \in DOMAIN verdicts : verdicts[i].judged = verdicts[i].head
=============================================================================

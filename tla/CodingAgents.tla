---------------------------- MODULE CodingAgents -----------------------------
(***************************************************************************)
(* The two coding agents behind the dispatcher, step by step against       *)
(* GitHub.  Copilot is asked by an issue that is assigned to it and found  *)
(* again by a marker; Cline is a process that opens a pull request, which  *)
(* run looks for by branch and reconcile by marker.  Follow-up tasks are   *)
(* issues of either agent that nobody is assigned to.                      *)
(*                                                                         *)
(* The callers are the handler of a dispatch, which reconciles after an    *)
(* error, the one of a review, which creates follow-ups, and recovery.     *)
(* One of them at a time works on an intent (OneRunAtATime of Dispatcher). *)
(* Any request may fail before or after GitHub has served it, or be served *)
(* after the caller has given it up.                                       *)
(***************************************************************************)
EXTENDS Naturals, FiniteSets, Sequences

CONSTANTS
    Branches,     \* one per task
    MaxAttempt,   \* attempts of a task
    Followups,    \* intents that create a follow-up task
    MaxFaults     \* bound on failed requests and crashes

Dispatches == Branches \X (1 .. MaxAttempt)
Intents == Dispatches \cup Followups

ASSUME AgentsAssumption ==
    /\ Dispatches \cap Followups = {}
    /\ MaxAttempt \in Nat /\ MaxFaults \in Nat

VARIABLES
    agent,        \* the coding agent the dispatcher runs with
    issues,       \* GitHub's issues, in the order of their numbers
    pulls,        \* GitHub's pull requests
    job,          \* per intent, how far its caller is
    process,      \* per intent, whether a process of Cline works on it
    unserved,     \* per intent, creations that were given up and may be served
    lateAssign,   \* issues whose assignment was given up and may be served
    servedLate,   \* per intent, issues created after they were given up
    faults

vars == <<agent, issues, pulls, job, process, unserved, lateAssign, servedLate, faults>>
github == <<issues, pulls>>
late == <<unserved, lateAssign, servedLate>>

Issue == [marker : Intents, assigned : BOOLEAN, open : BOOLEAN]
Pull == [branch : Branches, marker : Dispatches \cup {<<>>}]

Waiting == [pc |-> "claimed", ref |-> 0, by |-> "nobody"]

Init ==
    /\ agent \in {"copilot", "cline"}
    /\ issues = <<>>
    /\ pulls = <<>>
    /\ job = [i \in Intents |-> Waiting]
    /\ process = [i \in Intents |-> FALSE]
    /\ unserved = [i \in Intents |-> 0]
    /\ lateAssign = {}
    /\ servedLate = [i \in Intents |-> 0]
    /\ faults = 0

-----------------------------------------------------------------------------
(* What can be found. *)

\* The bug of a search that leaves out closed issues.
Found_Fault(i) == {n \in DOMAIN issues : issues[n].marker = i /\ issues[n].open}

\* _find_issue_by_correlation, with all pages and states.
Found(i) == {n \in DOMAIN issues : issues[n].marker = i}

FoundByBranch(i) == {n \in DOMAIN pulls : pulls[n].branch = i[1]}
FoundByMarker(i) == {n \in DOMAIN pulls : pulls[n].marker = i}

\* What reconcile looks for.
Reconciled(i) == IF agent = "copilot" THEN Found(i) ELSE FoundByMarker(i)

At(i, pc) == job[i].pc = pc
GoesTo(i, pc) == job' = [job EXCEPT ![i].pc = pc]
Holds(i, pc, n) == job' = [job EXCEPT ![i].pc = pc, ![i].ref = n]

\* The caller records the run it was told of, by run or by reconcile.
Accepted(i, n, by) == job' = [job EXCEPT ![i] = [pc |-> "done", ref |-> n, by |-> by]]

-----------------------------------------------------------------------------
(* create_or_update_task, by run with the assignment, for a follow-up without. *)

\* An attempt is dispatched when the one before it was.
Call(i) ==
    /\ At(i, "claimed")
    /\ i \in Dispatches /\ i[2] > 1 => At(<<i[1], i[2] - 1>>, "done")
    /\ GoesTo(i, IF agent = "cline" /\ i \in Dispatches THEN "findPull" ELSE "find")
    /\ UNCHANGED <<agent, github, process, late, faults>>

\* The bug of a retry that takes the issue it finds for a finished call.
MustAssign_Fault(i, n) == i \in Dispatches /\ Found(i) = {}

\* The issue of a dispatch is assigned unless it was.
MustAssign(i, n) == i \in Dispatches /\ ~issues[n].assigned

Find(i) ==
    /\ At(i, "find")
    /\ IF Found(i) = {} THEN GoesTo(i, "create")
       ELSE \E n \in Found(i) :
                IF MustAssign(i, n) THEN Holds(i, "assign", n)
                ELSE Accepted(i, n, "run")
    /\ UNCHANGED <<agent, github, process, late, faults>>

NewIssue(i) == Append(issues, [marker |-> i, assigned |-> FALSE, open |-> TRUE])

\* A new issue is assigned to nobody.
Create(i) ==
    /\ At(i, "create")
    /\ issues' = NewIssue(i)
    /\ LET n == Len(issues) + 1
       IN  IF i \in Dispatches THEN Holds(i, "assign", n) ELSE Accepted(i, n, "run")
    /\ UNCHANGED <<agent, pulls, process, late, faults>>

AssignedTo(n) == [issues EXCEPT ![n].assigned = TRUE]

Assign(i) ==
    /\ At(i, "assign")
    /\ issues' = AssignedTo(job[i].ref)
    /\ Accepted(i, job[i].ref, "run")
    /\ UNCHANGED <<agent, pulls, process, late, faults>>

-----------------------------------------------------------------------------
(* run of Cline. *)

FindPull(i) ==
    /\ At(i, "findPull")
    /\ IF FoundByBranch(i) # {}
       THEN /\ \E n \in FoundByBranch(i) : Accepted(i, n, "run")
            /\ UNCHANGED process
       ELSE /\ GoesTo(i, "code")
            /\ process' = [process EXCEPT ![i] = TRUE]
    /\ UNCHANGED <<agent, github, late, faults>>

\* The process opens its pull request, with the marker it was told to put there or
\* without; GitHub takes one per branch.
OpenPull(i, marker) ==
    /\ process[i]
    /\ FoundByBranch(i) = {}
    /\ pulls' = Append(pulls, [branch |-> i[1], marker |-> marker])
    /\ UNCHANGED <<agent, issues, job, process, late, faults>>

\* It ends well, and the pull request is looked for.
Exit(i) ==
    /\ At(i, "code")
    /\ process' = [process EXCEPT ![i] = FALSE]
    /\ GoesTo(i, "check")
    /\ UNCHANGED <<agent, github, late, faults>>

Check(i) ==
    /\ At(i, "check")
    /\ IF FoundByBranch(i) = {} THEN GoesTo(i, "reconcile")
       ELSE \E n \in FoundByBranch(i) : Accepted(i, n, "run")
    /\ UNCHANGED <<agent, github, process, late, faults>>

\* A process whose caller is gone works on until it ends.
OrphanExit(i) ==
    /\ process[i] /\ ~At(i, "code")
    /\ process' = [process EXCEPT ![i] = FALSE]
    /\ UNCHANGED <<agent, github, job, late, faults>>

-----------------------------------------------------------------------------
(* Errors. *)

\* What becomes of the request that was under way: it was not served, or was and
\* the answer is lost, or will be.
RequestLost(i) ==
    \/ UNCHANGED <<issues, late>>
    \/ /\ At(i, "create")
       /\ \/ issues' = NewIssue(i) /\ UNCHANGED late
          \/ /\ unserved' = [unserved EXCEPT ![i] = @ + 1]
             /\ UNCHANGED <<issues, lateAssign, servedLate>>
    \/ /\ At(i, "assign")
       /\ \/ issues' = AssignedTo(job[i].ref) /\ UNCHANGED late
          \/ /\ lateAssign' = lateAssign \cup {job[i].ref}
             /\ UNCHANGED <<issues, unserved, servedLate>>

Fault ==
    /\ faults < MaxFaults
    /\ faults' = faults + 1
    /\ UNCHANGED <<agent, pulls>>

\* The adapter raises, and has killed its process on a timeout.  A dispatch is
\* reconciled, a follow-up is left for another call.
Fail(i) ==
    /\ job[i].pc \in {"find", "create", "assign", "findPull", "code", "check"}
    /\ Fault
    /\ RequestLost(i)
    /\ GoesTo(i, IF i \in Dispatches THEN "reconcile" ELSE "claimed")
    /\ process' = [process EXCEPT ![i] = FALSE]

\* reconcile: what is found is the run, and without one the intent goes back to
\* claimed for another delivery.
Reconcile(i) ==
    /\ At(i, "reconcile")
    /\ IF Reconciled(i) = {} THEN GoesTo(i, "claimed")
       ELSE \E n \in Reconciled(i) : Accepted(i, n, "reconcile")
    /\ UNCHANGED <<agent, github, process, late, faults>>

\* The caller dies, or reconcile fails, and the intent stays running.
Crash(i) ==
    /\ job[i].pc \notin {"claimed", "done", "stopped", "unknown"}
    /\ Fault
    /\ RequestLost(i)
    /\ GoesTo(i, "stopped")
    /\ UNCHANGED process

\* reconcile takes a pull request or a closed issue for a completed run.
Completed(n) == agent = "cline" \/ ~issues[n].open

\* Recovery reconciles dispatches that are running, and those that went back to
\* claimed after an error: of these it accepts completed runs and is refused on
\* running ones, and without a run it calls the agent as the handler does.  A running
\* one that it cannot find is left to a human.
Recover(i) ==
    /\ i \in Dispatches
    /\ \/ \E n \in Reconciled(i) :
             /\ At(i, "stopped") \/ (At(i, "claimed") /\ Completed(n))
             /\ Accepted(i, n, "reconcile")
       \/ /\ At(i, "stopped") /\ Reconciled(i) = {}
          /\ GoesTo(i, "unknown")
    /\ UNCHANGED <<agent, github, process, late, faults>>

-----------------------------------------------------------------------------
(* GitHub. *)

ServeCreation(i) ==
    /\ unserved[i] > 0
    /\ unserved' = [unserved EXCEPT ![i] = @ - 1]
    /\ servedLate' = [servedLate EXCEPT ![i] = @ + 1]
    /\ issues' = NewIssue(i)
    /\ UNCHANGED <<agent, pulls, job, process, lateAssign, faults>>

ServeAssignment(n) ==
    /\ n \in lateAssign
    /\ lateAssign' = lateAssign \ {n}
    /\ issues' = AssignedTo(n)
    /\ UNCHANGED <<agent, pulls, job, process, unserved, servedLate, faults>>

\* The agent or a human closes an issue.
Close(n) ==
    /\ issues[n].open
    /\ issues' = [issues EXCEPT ![n].open = FALSE]
    /\ UNCHANGED <<agent, pulls, job, process, late, faults>>

Next ==
    \/ \E i \in Intents :
           \/ Call(i) \/ Find(i) \/ Create(i) \/ Assign(i)
           \/ FindPull(i) \/ Exit(i) \/ Check(i) \/ OrphanExit(i)
           \/ Fail(i) \/ Reconcile(i) \/ Crash(i) \/ Recover(i)
           \/ ServeCreation(i)
    \/ \E i \in Dispatches : \E marker \in {i, <<>>} : OpenPull(i, marker)
    \/ \E n \in DOMAIN issues : ServeAssignment(n) \/ Close(n)

Spec == Init /\ [][Next]_vars

-----------------------------------------------------------------------------
(* Properties. *)

\* "Restart reconciliation does not create duplicate GitHub issues": an intent has
\* one issue, and one more for each creation that GitHub served after the caller had
\* given it up; and one process of Cline at a time works on a task, whichever of its
\* attempts die.
NothingTwice ==
    /\ \A i \in Intents :
         Cardinality({n \in DOMAIN issues : issues[n].marker = i}) <= 1 + servedLate[i]
    /\ \A i, j \in Dispatches : i[1] = j[1] /\ process[i] /\ process[j] => i = j

\* What the caller was told is the run.  Of Copilot it is the intent's own issue, and
\* run only returns when somebody is assigned; a follow-up has an issue of its own that
\* nobody is ever assigned to.  Of Cline it is a pull request of the task's branch,
\* which need not be the intent's own: run takes what is on the branch, the pull
\* request of an earlier attempt but never of a later one.  What reconcile took is the
\* intent's own.
AcceptedRunsAreReal ==
    \A i \in Intents : At(i, "done") =>
        LET n == job[i].ref IN
        IF agent = "cline" /\ i \in Dispatches
        THEN /\ pulls[n].branch = i[1]
             /\ \A j \in Dispatches : pulls[n].marker = j => j[1] = i[1] /\ j[2] <= i[2]
             /\ job[i].by = "reconcile" => pulls[n].marker = i
        ELSE /\ issues[n].marker = i
             /\ issues[n].assigned => i \in Dispatches
             /\ i \in Dispatches /\ job[i].by = "run" => issues[n].assigned
=============================================================================

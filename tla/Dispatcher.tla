----------------------------- MODULE Dispatcher -----------------------------
(***************************************************************************)
(* The dispatcher of the development automation: webhook handlers          *)
(* (GitHubEventDispatcher.process_event) and recovery workers              *)
(* (resume_unfinished_intents) that share the append-only intent store     *)
(* (FileDispatcherStore) and call a coding agent outside the repository.   *)
(*                                                                         *)
(* Every method of the store runs under a file lock, so it is one step;    *)
(* between two of them, and around every call of the agent, the other      *)
(* workers run.  The store's records are read back as the latest state of  *)
(* each intent.  A write names the version it expects; instead of          *)
(* counting versions the model remembers which workers still hold the      *)
(* latest one (field fresh): every write makes the others stale.           *)
(***************************************************************************)
EXTENDS Naturals, Sequences

CONSTANTS
    Tasks,       \* dedupe keys of dispatch-task intents (task, attempt, branch)
    Checks,      \* dedupe keys of ci-ready intents (an exact head of a task)
    Deliveries,  \* delivery ids
    Target,      \* the dedupe key of the event that a delivery carries
    Handlers,    \* calls of process_event that run at the same time
    Recoverers,  \* calls of resume_unfinished_intents that do
    MaxLate,     \* bound on the calls of a task that time out and arrive later
    MaxCrashes,  \* bound on the crashes of workers
    None

Keys == Tasks \cup Checks
Workers == Handlers \cup Recoverers

ASSUME TargetAssumption == Target \in [Deliveries -> Keys]
ASSUME KeysAssumption == Tasks \cap Checks = {} /\ None \notin Keys
ASSUME WorkersAssumption == Handlers \cap Recoverers = {}
ASSUME BoundAssumption == MaxLate \in Nat /\ MaxCrashes \in Nat

TerminalStates == {"completed", "failed", "blocked", "unknown"}
OpenStates == {"claimed", "running"}
IntentStates == OpenStates \cup TerminalStates
\* What the agent says of a run: "odd" is a status the dispatcher does not know.
RunStates == {"running", "completed", "failed", "odd"}

\* ALLOWED_STATUS_TRANSITIONS.
AllowedTransitions ==
    [s \in IntentStates |->
        CASE s = "claimed" -> IntentStates \ {"claimed"}
          [] s = "running" -> IntentStates
          [] OTHER -> {}]

\* An intent as its last record says.  Of a lease only whether it is live
\* matters: its owner is never compared with anybody.
Intent == [status: IntentStates, leased: BOOLEAN, run: Nat]
ASSUME NoneAssumption == None \notin Intent

Steps == {"idle", "claim", "start", "lookup", "exec", "reconcile", "release",
          "ack", "settle", "complete", "resume", "ask", "mark"}
\* A worker: where it is, the intent it works on, the status and provider run
\* it read or was told (to: the status to report or to write), and whether the
\* version it expects is still the latest.
Worker == [pc: Steps, key: Keys \cup {None}, st: IntentStates \cup {None},
           to: IntentStates \cup RunStates \cup {None}, ref: Nat, fresh: BOOLEAN]
Idle == [pc |-> "idle", key |-> None, st |-> None, to |-> None, ref |-> 0,
         fresh |-> FALSE]

VARIABLES
    intents,  \* the intent of each dedupe key, or None
    seen,     \* delivery ids remembered by the store
    stopped,  \* the stop boundary SECOND_TASK_CREATED is reached
    runs,     \* the runs the agent has accepted for each task, in order
    late,     \* calls of each task that timed out and have not arrived yet
    timeouts, \* calls of each task that timed out before they arrived, in all
    loc,      \* the workers
    crashes

vars == <<intents, seen, stopped, runs, late, timeouts, loc, crashes>>

Init ==
    /\ intents = [k \in Keys |-> None]
    /\ seen = {}
    /\ stopped = FALSE
    /\ runs = [k \in Tasks |-> <<>>]
    /\ late = [k \in Tasks |-> 0]
    /\ timeouts = [k \in Tasks |-> 0]
    /\ loc = [w \in Workers |-> Idle]
    /\ crashes = 0

-----------------------------------------------------------------------------
(* The store. *)

At(w, pc) == loc[w].pc = pc
Holds(w, k) == loc[w].key = k
Open(k) == intents[k] # None /\ intents[k].status \in OpenStates
Ended(k) == intents[k] # None /\ intents[k].status \in TerminalStates

\* Worker w goes on as described by rec; nothing was written.
Goes(w, rec) == loc' = [loc EXCEPT ![w] = rec]

\* Worker w wrote the intent of k and goes on: whoever read it before is stale.
Wrote(w, k, rec) ==
    loc' = [v \in Workers |->
              IF v = w THEN rec
              ELSE IF Holds(v, k) THEN [loc[v] EXCEPT !.fresh = FALSE]
              ELSE loc[v]]

\* The bug of a store that compares the status only, and not the version.
MayWrite_Fault(w, status) ==
    status \in AllowedTransitions[intents[loc[w].key].status]

\* transition_intent accepts: expected status and version are the stored ones.
MayWrite(w, status) ==
    /\ loc[w].fresh
    /\ status \in AllowedTransitions[intents[loc[w].key].status]

\* The bug of a record written without the provider run known before.
Updated_Fault(intent, status, ref) ==
    [status |-> status, leased |-> intent.leased /\ status \in OpenStates,
     run |-> ref]

\* The bug of a record that keeps the lease of an intent that has ended.
Updated_LeaseFault(intent, status, ref) ==
    [status |-> status, leased |-> intent.leased,
     run |-> IF ref = 0 THEN intent.run ELSE ref]

\* The record transition_intent appends: terminal states drop the lease.
Updated(intent, status, ref) ==
    [status |-> status,
     leased |-> intent.leased /\ status \in OpenStates,
     run |-> IF ref = 0 THEN intent.run ELSE ref]

\* transition_intent by w, which goes on as rec.
Transition(w, status, ref, rec) ==
    LET k == loc[w].key IN
    /\ MayWrite(w, status)
    /\ intents' = [intents EXCEPT ![k] = Updated(intents[k], status, ref)]
    /\ Wrote(w, k, rec)
    /\ UNCHANGED <<seen, stopped, runs, late, timeouts, crashes>>

\* Where a worker is when it has handled its intent: a handler returns, a
\* recovery worker looks for the next one.
Finished(w) == IF w \in Handlers THEN Idle ELSE [Idle EXCEPT !.pc = "resume"]

-----------------------------------------------------------------------------
(* Handlers: process_event. *)

\* A delivery that passes transport and policy checks is remembered.  One that
\* is refused, comes again or comes after the stop boundary changes nothing.
Receive(w, d) ==
    /\ At(w, "idle")
    /\ ~stopped
    /\ d \notin seen
    /\ seen' = seen \cup {d}
    /\ Goes(w, [Idle EXCEPT !.pc = "claim", !.key = Target[d]])
    /\ UNCHANGED <<intents, stopped, runs, late, timeouts, crashes>>

\* The task is not in the state, branch or attempt of the event, or the checks
\* of the head do not open the CI gate.
Refuse(w) ==
    /\ At(w, "claim")
    /\ Goes(w, Idle)
    /\ UNCHANGED <<intents, seen, stopped, runs, late, timeouts, crashes>>

\* claim_intent creates the intent unless its dedupe key is there.
ClaimNew(w) ==
    LET k == loc[w].key IN
    /\ At(w, "claim")
    /\ intents[k] = None
    /\ intents' = [intents EXCEPT ![k] =
                     [status |-> "claimed", leased |-> FALSE, run |-> 0]]
    /\ Goes(w, [loc[w] EXCEPT !.pc = IF k \in Tasks THEN "start" ELSE "complete",
                              !.st = "claimed", !.fresh = TRUE])
    /\ UNCHANGED <<seen, stopped, runs, late, timeouts, crashes>>

\* The bug of a handler that takes any unfinished intent for its own.
TakesOver_Fault(k) == k \in Tasks /\ Open(k)

\* A handler takes an intent over only if it is a dispatch still claimed.
TakesOver(k) == k \in Tasks /\ intents[k].status = "claimed"

\* claim_intent returned an intent that is there: the handler goes on with it
\* or reports a duplicate.
ClaimKnown(w) ==
    LET k == loc[w].key IN
    /\ At(w, "claim")
    /\ intents[k] # None
    /\ Goes(w, IF TakesOver(k)
               THEN [loc[w] EXCEPT !.pc = "start", !.st = intents[k].status,
                                   !.fresh = TRUE]
               ELSE Idle)
    /\ UNCHANGED <<intents, seen, stopped, runs, late, timeouts, crashes>>

\* The CI-ready intent is completed in a second write.
CompleteCheck(w) ==
    /\ At(w, "complete")
    /\ Transition(w, "completed", 0, Idle)

\* The agent could not be reached: reconcile tells whether it has the run.
HandlerReconcile(w) ==
    LET k == loc[w].key IN
    /\ At(w, "reconcile")
    /\ \/ \E i \in DOMAIN runs[k] :
             Goes(w, [loc[w] EXCEPT !.pc = "ack", !.ref = i, !.to = runs[k][i]])
       \/ runs[k] = <<>> /\ Goes(w, [loc[w] EXCEPT !.pc = "release"])
       \/ Goes(w, Idle)        \* reconcile raises as well
    /\ UNCHANGED <<intents, seen, stopped, runs, late, timeouts, crashes>>

\* No run is known: the intent can be dispatched again, and the error goes up.
Release(w) ==
    /\ At(w, "release")
    /\ Transition(w, "claimed", 0, Idle)

-----------------------------------------------------------------------------
(* Dispatching, by handlers and recovery workers alike. *)

Start(w) ==
    /\ At(w, "start")
    /\ Transition(w, "running", 0,
                  [loc[w] EXCEPT !.pc = "lookup", !.st = "running"])

\* The adapter first looks for a run of this task and returns it.  It may tell
\* the status of the run or only that the run was accepted.
Lookup(w) ==
    LET k == loc[w].key IN
    /\ At(w, "lookup")
    /\ \/ \E i \in DOMAIN runs[k] : \E a \in {runs[k][i], "running"} :
             Goes(w, [loc[w] EXCEPT !.pc = "ack", !.ref = i, !.to = a])
       \/ runs[k] = <<>> /\ Goes(w, [loc[w] EXCEPT !.pc = "exec"])
    /\ UNCHANGED <<intents, seen, stopped, runs, late, timeouts, crashes>>

Accepts(k, s) == runs' = [runs EXCEPT ![k] = Append(@, s)]

\* The agent accepts the run and answers.
Exec(w) ==
    LET k == loc[w].key IN
    /\ At(w, "exec")
    /\ \E s \in RunStates : \E a \in {s, "running"} :
         /\ Accepts(k, s)
         /\ Goes(w, [loc[w] EXCEPT !.pc = "ack", !.ref = Len(runs[k]) + 1, !.to = a])
    /\ UNCHANGED <<intents, seen, stopped, late, timeouts, crashes>>

\* The adapter raises: before the call had an effect, after it, or with the
\* call still under way.  A handler reconciles; recovery is given up.
RunFails(w) ==
    LET k == loc[w].key IN
    /\ At(w, "lookup") \/ At(w, "exec")
    /\ \/ UNCHANGED <<runs, late, timeouts>>
       \/ /\ At(w, "exec")
          /\ \E s \in RunStates : Accepts(k, s)
          /\ UNCHANGED <<late, timeouts>>
       \/ /\ At(w, "exec") /\ timeouts[k] < MaxLate
          /\ late' = [late EXCEPT ![k] = @ + 1]
          /\ timeouts' = [timeouts EXCEPT ![k] = @ + 1]
          /\ UNCHANGED runs
    /\ Goes(w, IF w \in Handlers THEN [loc[w] EXCEPT !.pc = "reconcile"] ELSE Idle)
    /\ UNCHANGED <<intents, seen, stopped, crashes>>

\* The run is recorded in the intent before anything else is done with it.
Acknowledge(w) ==
    /\ At(w, "ack")
    /\ Transition(w, "running", loc[w].ref, [loc[w] EXCEPT !.pc = "settle"])

\* The bug of a handler that completes an intent as soon as its run is accepted.
Settled_Fault(w, answer) ==
    IF answer \in {"completed", "running"} THEN "completed"
    ELSE IF answer = "failed" \/ w \in Recoverers THEN "failed" ELSE "blocked"

\* The state an answer settles an intent in.  Recovery takes every answer but
\* completed for a failure.
Settled(w, answer) ==
    IF answer = "completed" THEN "completed"
    ELSE IF answer = "failed" \/ w \in Recoverers THEN "failed" ELSE "blocked"

\* A handler leaves a run that is under way alone.
LeftRunning(w) == w \in Handlers /\ loc[w].to = "running"

Settle(w) ==
    /\ At(w, "settle")
    /\ ~LeftRunning(w)
    /\ Transition(w, Settled(w, loc[w].to), 0, Finished(w))

LeaveRunning(w) ==
    /\ At(w, "settle")
    /\ LeftRunning(w)
    /\ Goes(w, Idle)
    /\ UNCHANGED <<intents, seen, stopped, runs, late, timeouts, crashes>>

\* The transition a worker is about to ask the store for.
Wanted(w) ==
    CASE At(w, "start") \/ At(w, "ack") -> "running"
      [] At(w, "release") -> "claimed"
      [] At(w, "complete") -> "completed"
      [] At(w, "settle") -> Settled(w, loc[w].to)
      [] At(w, "mark") -> loc[w].to
      [] OTHER -> "running"

Writing(w) ==
    \/ loc[w].pc \in {"start", "ack", "release", "complete", "mark"}
    \/ At(w, "settle") /\ ~LeftRunning(w)

\* transition_intent raises: the caller gives up whatever it was doing.
Refused(w) ==
    /\ Writing(w)
    /\ ~MayWrite(w, Wanted(w))
    /\ Goes(w, Idle)
    /\ UNCHANGED <<intents, seen, stopped, runs, late, timeouts, crashes>>

-----------------------------------------------------------------------------
(* Recovery: resume_unfinished_intents. *)

Resume(w) ==
    /\ At(w, "idle")
    /\ ~stopped
    /\ Goes(w, Finished(w))
    /\ UNCHANGED <<intents, seen, stopped, runs, late, timeouts, crashes>>

\* Every unfinished intent without a live lease, in some order.
Leasable(k) == Open(k) /\ ~intents[k].leased

\* lease_unfinished_intent: a write like any other.  An intent that is not a
\* dispatch is leased and passed over.
Lease(w, k) ==
    /\ At(w, "resume")
    /\ Leasable(k)
    /\ intents' = [intents EXCEPT ![k].leased = TRUE]
    /\ Wrote(w, k, IF k \in Tasks
                   THEN [pc |-> "ask", key |-> k, st |-> intents[k].status,
                         to |-> None, ref |-> intents[k].run, fresh |-> TRUE]
                   ELSE Finished(w))
    /\ UNCHANGED <<seen, stopped, runs, late, timeouts, crashes>>

NothingLeft(w) ==
    /\ At(w, "resume")
    /\ ~\E k \in Keys : Leasable(k)
    /\ Goes(w, Idle)
    /\ UNCHANGED <<intents, seen, stopped, runs, late, timeouts, crashes>>

\* The bug of a recovery that gives a running intent without a run free again.
WithoutRun_Fault(w) ==
    IF loc[w].st = "running"
    THEN [loc[w] EXCEPT !.pc = "mark", !.to = "claimed", !.ref = 0]
    ELSE [loc[w] EXCEPT !.pc = "start", !.ref = 0]

\* reconcile finds no run, or one in a state the dispatcher does not know: an
\* intent that was running is uncertain, one that was not is dispatched.
WithoutRun(w) ==
    IF loc[w].st = "running"
    THEN [loc[w] EXCEPT !.pc = "mark", !.to = "unknown", !.ref = 0]
    ELSE [loc[w] EXCEPT !.pc = "start", !.ref = 0]

\* reconcile finds run i in state s.
WithRun(w, i, s) ==
    CASE s \in {"completed", "failed"} ->
           [loc[w] EXCEPT !.pc = "mark", !.to = s, !.ref = i]
      [] s = "running" /\ loc[w].ref # i ->
           [loc[w] EXCEPT !.pc = "mark", !.to = loc[w].st, !.ref = i]
      [] s = "running" /\ loc[w].ref = i -> Finished(w)
      [] OTHER -> WithoutRun(w)

Ask(w) ==
    LET k == loc[w].key IN
    /\ At(w, "ask")
    /\ \/ \E i \in DOMAIN runs[k] : Goes(w, WithRun(w, i, runs[k][i]))
       \/ runs[k] = <<>> /\ Goes(w, WithoutRun(w))
    /\ UNCHANGED <<intents, seen, stopped, runs, late, timeouts, crashes>>

AskFails(w) ==
    /\ At(w, "ask")
    /\ Goes(w, Idle)
    /\ UNCHANGED <<intents, seen, stopped, runs, late, timeouts, crashes>>

Mark(w) ==
    /\ At(w, "mark")
    /\ Transition(w, loc[w].to, loc[w].ref, Finished(w))

-----------------------------------------------------------------------------
(* The surroundings. *)

\* A lease runs out after 120 seconds.
Expire(k) ==
    /\ intents[k] # None
    /\ intents[k].leased
    /\ intents' = [intents EXCEPT ![k].leased = FALSE]
    /\ UNCHANGED <<seen, stopped, runs, late, timeouts, loc, crashes>>

\* The agent finishes a run.
Progress(k) ==
    /\ \E i \in DOMAIN runs[k] : \E s \in {"completed", "failed"} :
         /\ runs[k][i] = "running"
         /\ runs' = [runs EXCEPT ![k][i] = s]
    /\ UNCHANGED <<intents, seen, stopped, late, timeouts, loc, crashes>>

\* A call that timed out reaches the agent after all.
Land(k) ==
    /\ late[k] > 0
    /\ late' = [late EXCEPT ![k] = @ - 1]
    /\ Accepts(k, "running")
    /\ UNCHANGED <<intents, seen, stopped, timeouts, loc, crashes>>

\* The second task of the live proof is recorded: nothing new is dispatched.
ReachStop ==
    /\ ~stopped
    /\ stopped' = TRUE
    /\ UNCHANGED <<intents, seen, runs, late, timeouts, loc, crashes>>

\* The process of a worker dies, or an exception nobody expects ends its call.
Crash(w) ==
    /\ ~At(w, "idle")
    /\ crashes < MaxCrashes
    /\ crashes' = crashes + 1
    /\ Goes(w, Idle)
    /\ UNCHANGED <<intents, seen, stopped, runs, late, timeouts>>

HandlerStep(w) ==
    \/ \E d \in Deliveries : Receive(w, d)
    \/ Refuse(w) \/ ClaimNew(w) \/ ClaimKnown(w) \/ CompleteCheck(w)
    \/ HandlerReconcile(w) \/ Release(w) \/ LeaveRunning(w)

RecoveryStep(w) ==
    \/ Resume(w) \/ NothingLeft(w)
    \/ \E k \in Keys : Lease(w, k)
    \/ Ask(w) \/ AskFails(w) \/ Mark(w)

DispatchStep(w) ==
    Start(w) \/ Lookup(w) \/ Exec(w) \/ RunFails(w) \/ Acknowledge(w)
    \/ Settle(w) \/ Refused(w)

Surroundings ==
    \/ \E k \in Keys : Expire(k)
    \/ \E k \in Tasks : Progress(k) \/ Land(k)
    \/ ReachStop
    \/ \E w \in Workers : Crash(w)

Next ==
    \/ \E w \in Handlers : HandlerStep(w)
    \/ \E w \in Recoverers : RecoveryStep(w)
    \/ \E w \in Workers : DispatchStep(w)
    \/ Surroundings

Spec == Init /\ [][Next]_vars

-----------------------------------------------------------------------------
(* Properties. *)

\* Every variable keeps its type, only unfinished intents are leased, and a worker
\* that has taken up a delivery or an intent knows which.
TypeOK ==
    /\ intents \in [Keys -> Intent \cup {None}]
    /\ seen \subseteq Deliveries
    /\ stopped \in BOOLEAN
    /\ runs \in [Tasks -> Seq(RunStates)]
    /\ late \in [Tasks -> Nat]
    /\ timeouts \in [Tasks -> 0 .. MaxLate]
    /\ loc \in [Workers -> Worker]
    /\ \A k \in Keys : intents[k] # None /\ intents[k].leased => Open(k)
    /\ \A w \in Workers : loc[w].key = None <=> loc[w].pc \in {"idle", "resume"}
    /\ crashes \in 0 .. MaxCrashes

\* Worker w is between the transition to running and the end of the agent's call.
InRun(w) == loc[w].pc \in {"lookup", "exec", "reconcile", "release"}

\* However deliveries, recoveries and crashes interleave, at most one worker
\* talks to the agent about a task: the claim, the lease and the versions of
\* the store are a lock around run and reconcile.
OneRunAtATime ==
    \A v, w \in Workers :
        InRun(v) /\ InRun(w) /\ loc[v].key = loc[w].key => v = w

\* The agent accepts one run of a task, whatever is delivered again, crashes or
\* is recovered, and one more at most for each call that reached it only after
\* the dispatcher had given it up.
AcceptedOnce == \A k \in Tasks : Len(runs[k]) <= 1 + timeouts[k]

\* An intent that is completed names a run the agent has completed.
CompletedIsTrue ==
    \A k \in Tasks :
        intents[k] # None /\ intents[k].status = "completed" =>
            /\ intents[k].run \in DOMAIN runs[k]
            /\ runs[k][intents[k].run] = "completed"

\* An intent that is failed names a run that failed: the handler leaves a run
\* that is queued or running alone.
FailedIsTrue ==
    \A k \in Tasks :
        intents[k] # None /\ intents[k].status = "failed" =>
            /\ intents[k].run \in DOMAIN runs[k]
            /\ runs[k][intents[k].run] = "failed"

\* No write, of a stale worker or of any other, changes an intent that is settled,
\* and none forgets that a run was recorded.
SettledStays ==
    [][\A k \in Keys : intents[k] # None =>
         /\ intents'[k] # None
         /\ intents[k].status \in TerminalStates => intents'[k] = intents[k]
         /\ intents[k].run # 0 => intents'[k].run # 0]_vars

\* Where a task stands for those who wait for its end: free is an intent that may
\* be taken, taken one that is running, and only completed, failed and blocked
\* say that the agent's answer is known.
PhaseOf(intent) ==
    IF intent = None THEN "absent"
    ELSE CASE intent.status = "claimed" -> "free"
           [] intent.status = "running" -> "taken"
           [] intent.status = "unknown" -> "uncertain"
           [] OTHER -> "ended"

\* The workers that talk to the agent about task k.
InRunOf(k) == {w \in Workers : InRun(w) /\ loc[w].key = k}

Lock == INSTANCE DispatchOnce WITH
            Callers <- Workers,
            phase <- [k \in Tasks |-> PhaseOf(intents[k])],
            holders <- [k \in Tasks |-> InRunOf(k)],
            accepted <- [k \in Tasks |-> Len(runs[k])],
            lost <- timeouts

\* Deliveries that come again, leases that run out, workers that crash or act on
\* what they read long ago: seen from outside, a lock that one worker at a time
\* takes and gives back only with every call of its task given up, and a task that
\* ends with an answer only after the agent has accepted it.
ImplementsDispatchOnce == Lock!Spec
=============================================================================

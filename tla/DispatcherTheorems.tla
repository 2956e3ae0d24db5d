------------------------- MODULE DispatcherTheorems -------------------------
(***************************************************************************)
(* What is proved about the dispatcher for every number of tasks, workers, *)
(* deliveries, crashes and late calls.                                     *)
(*                                                                         *)
(* The inductive invariant says what each worker may rely on where it      *)
(* stands (GoodWorker) and how intents and runs agree (GoodTask).  The     *)
(* steps fall into kinds: those that move one worker only, those that      *)
(* write an intent, and those that change the runs of a task; a lemma for  *)
(* each kind reduces a step to what is particular to it.                   *)
(*                                                                         *)
(* The last part shows that every step is one of DispatchOnce or hidden    *)
(* from it, along the same kinds.                                          *)
(***************************************************************************)
EXTENDS Dispatcher, TLAPS

\* Steps at which a worker has taken up a dispatch that is in the store.
DispatchSteps == {"start", "lookup", "exec", "reconcile", "release", "ack",
                  "settle", "ask", "mark"}

RunSteps == {"lookup", "exec", "reconcile", "release"}

\* The calls of a task that have been accepted or still will be.
Calls(k) == Len(runs[k]) + late[k]

\* What a worker r may rely on: its dispatch is there, and not claimable while it
\* talks to the agent; it knows the state of an intent no one has written since;
\* before it calls the agent there are no calls but those that timed out; the run
\* it was told of exists and has ended as it was told; and whoever started a run and
\* still holds the latest version finds it running.
GoodWorker(r) ==
    /\ r.key = None <=> r.pc \in {"idle", "resume"}
    /\ r.pc \in DispatchSteps => r.key \in Tasks /\ intents[r.key] # None
    /\ r.pc = "complete" => r.key \in Checks /\ intents[r.key] # None
    /\ r.pc = "ask" => r.st \in OpenStates
    /\ r.pc = "mark" /\ r.to \in OpenStates => r.to = r.st
    /\ r.pc = "start" /\ r.fresh => intents[r.key].status = "claimed"
    /\ r.pc \in {"ask", "mark"} /\ r.fresh => intents[r.key].status = r.st
    /\ r.pc \in RunSteps => intents[r.key].status # "claimed"
    /\ r.pc \in {"lookup", "exec", "release"} => Calls(r.key) <= timeouts[r.key]
    /\ r.pc \in RunSteps \cup {"ack", "settle"} /\ r.fresh =>
         intents[r.key].status = "running"
    /\ r.pc \in {"ack", "settle"} => r.ref \in DOMAIN runs[r.key]
    /\ r.pc = "mark" /\ r.to \notin OpenStates \cup {"unknown"} =>
         r.ref \in DOMAIN runs[r.key]
    /\ r.pc \in {"ack", "settle", "mark"} /\ r.to = "completed" =>
         r.ref \in DOMAIN runs[r.key] /\ runs[r.key][r.ref] = "completed"
    /\ r.pc = "settle" /\ r.fresh => intents[r.key].run = r.ref

\* A completed intent names a completed run.
TrueIntent(k, e) ==
    e # None /\ e.status = "completed" =>
        e.run \in DOMAIN runs[k] /\ runs[k][e.run] = "completed"

\* The calls of a task that can still be dispatched have all timed out, those of
\* any other all but one.
GoodTask(k) ==
    /\ late[k] <= timeouts[k]
    /\ Calls(k) <= 1 + timeouts[k]
    /\ intents[k] = None \/ intents[k].status = "claimed" => Calls(k) <= timeouts[k]
    /\ TrueIntent(k, intents[k])

IInv ==
    /\ TypeOK
    /\ OneRunAtATime
    /\ \A k \in Tasks : GoodTask(k)
    /\ \A w \in Workers : GoodWorker(loc[w])

-----------------------------------------------------------------------------
(* The kinds of steps. *)

\* A step that moves worker w to r and leaves intents and runs alone.
LEMMA MoveKeeps ==
  ASSUME IInv, NEW w \in Workers, NEW r \in Worker, Goes(w, r),
         UNCHANGED <<intents, runs, late, timeouts>>,
         seen' \subseteq Deliveries, stopped' \in BOOLEAN,
         crashes' \in 0 .. MaxCrashes,
         GoodWorker(r),
         r.pc \in RunSteps => loc[w].pc \in RunSteps /\ loc[w].key = r.key
  PROVE  IInv'
<1>1. /\ loc \in [Workers -> Worker] /\ loc' \in [Workers -> Worker]
      /\ loc'[w] = r
      /\ \A v \in Workers \ {w} : loc'[v] = loc[v]
  BY DEF IInv, TypeOK, Goes
<1>2. \A v \in Workers : GoodWorker(loc'[v])
  BY <1>1 DEF IInv
<1>3. \A v \in Workers : GoodWorker(loc[v])'
  BY <1>2 DEF GoodWorker, Calls
<1>4. TypeOK'
  BY <1>1, <1>2 DEF IInv, TypeOK, GoodWorker, Open
<1>5. OneRunAtATime'
  BY <1>1 DEF IInv, OneRunAtATime, InRun, RunSteps
<1>6. \A k \in Tasks : GoodTask(k)'
  BY DEF IInv, GoodTask, TrueIntent, Calls
<1> QED
  BY <1>3, <1>4, <1>5, <1>6 DEF IInv

\* A step in which worker w writes the intent e of k and goes on as r.  It makes
\* an intent claimable only if it was, or if w has just given up its run, and it
\* leads into a run only from a claimed intent.
LEMMA WriteKeeps ==
  ASSUME IInv, NEW w \in Workers, NEW r \in Worker, NEW k \in Keys,
         intents[k] # None,
         NEW e \in Intent, intents' = [intents EXCEPT ![k] = e],
         Wrote(w, k, r),
         UNCHANGED <<seen, stopped, runs, late, timeouts, crashes>>,
         e.leased => e.status \in OpenStates,
         GoodWorker(r)',
         k \in Tasks => TrueIntent(k, e),
         e.status = "claimed" =>
           \/ intents[k].status = "claimed"
           \/ /\ loc[w].pc \in RunSteps /\ loc[w].key = k
              /\ k \in Tasks => Calls(k) <= timeouts[k],
         r.pc \in RunSteps => r.key = k /\ intents[k].status = "claimed"
  PROVE  IInv'
<1>1. /\ loc \in [Workers -> Worker] /\ intents \in [Keys -> Intent \cup {None}]
      /\ \A v \in Workers : GoodWorker(loc[v])
  BY DEF IInv, TypeOK
<1>2. /\ loc' \in [Workers -> Worker]
      /\ loc'[w] = r
      /\ \A v \in Workers \ {w} :
           /\ loc'[v].pc = loc[v].pc /\ loc'[v].key = loc[v].key
           /\ loc'[v].st = loc[v].st /\ loc'[v].to = loc[v].to
           /\ loc'[v].ref = loc[v].ref
           /\ loc'[v].fresh => loc[v].fresh /\ loc[v].key # k
  BY <1>1 DEF Wrote, Holds, Worker
<1>3. /\ intents' \in [Keys -> Intent \cup {None}]
      /\ intents'[k] = e
      /\ \A j \in Keys \ {k} : intents'[j] = intents[j]
  BY <1>1
<1>4. e # None
  BY NoneAssumption
<1>5. ASSUME NEW v \in Workers \ {w}
      PROVE  GoodWorker(loc[v])'
  <2>1. GoodWorker(loc[v])
    BY <1>1
  <2>2. CASE loc[v].key # k
    BY <1>1, <1>2, <1>3, <2>1, <2>2, KeysAssumption
       DEF GoodWorker, Calls, DispatchSteps, RunSteps, Keys
  <2>3. CASE loc[v].key = k
    <3>1. ~loc'[v].fresh
      BY <1>2, <2>3
    <3>2. loc[v].pc \in RunSteps => e.status # "claimed"
      BY <2>1, <2>3, <1>1 DEF IInv, OneRunAtATime, InRun, RunSteps, GoodWorker
    <3> QED
      BY <1>1, <1>2, <1>3, <1>4, <2>1, <2>3, <3>1, <3>2
         DEF GoodWorker, Calls, DispatchSteps, RunSteps
  <2> QED
    BY <2>2, <2>3
<1>6. \A v \in Workers : GoodWorker(loc[v])'
  BY <1>2, <1>5
<1>7. TypeOK'
  <2>1. \A j \in Keys : intents'[j] # None /\ intents'[j].leased => Open(j)'
    BY <1>1, <1>3, <1>4 DEF IInv, TypeOK, Open
  <2>2. \A v \in Workers : loc'[v].key = None <=> loc'[v].pc \in {"idle", "resume"}
    BY <1>6 DEF GoodWorker
  <2> QED
    BY <1>2, <1>3, <2>1, <2>2 DEF IInv, TypeOK
<1>8. OneRunAtATime'
  <2>1. \A v \in Workers : loc[v].pc \in RunSteps /\ intents[k].status = "claimed"
                            => loc[v].key # k
    BY <1>1 DEF GoodWorker
  <2> QED
    BY <1>2, <2>1 DEF IInv, OneRunAtATime, InRun, RunSteps
<1>9. \A j \in Tasks : GoodTask(j)'
  BY <1>3, <1>4 DEF IInv, GoodTask, TrueIntent, Calls, Keys
<1> QED
  BY <1>6, <1>7, <1>8, <1>9 DEF IInv

\* Runs only grow, and a run that has ended stays as it is.
RunsGrow(k) ==
    \A i \in DOMAIN runs[k] :
        i \in DOMAIN runs'[k] /\ (runs[k][i] = "completed" => runs'[k][i] = "completed")

\* A call of worker w about task k: the run is accepted, or will be later, and w
\* goes on as r, which does not call again before it has reconciled.
LEMMA CallKeeps ==
  ASSUME IInv, NEW w \in Workers, At(w, "exec"), NEW k \in Tasks, loc[w].key = k,
         NEW r \in Worker, Goes(w, r),
         UNCHANGED <<intents, seen, stopped, crashes>>,
         runs' \in [Tasks -> Seq(RunStates)],
         late' \in [Tasks -> Nat], timeouts' \in [Tasks -> 0 .. MaxLate],
         \A j \in Tasks \ {k} : /\ runs'[j] = runs[j] /\ late'[j] = late[j]
                                /\ timeouts'[j] = timeouts[j],
         RunsGrow(k),
         late'[k] <= timeouts'[k], Calls(k)' <= 1 + timeouts'[k],
         GoodWorker(r)',
         r.pc \notin {"lookup", "exec", "release"},
         r.pc \in RunSteps => r.key = k
  PROVE  IInv'
<1>1. /\ loc \in [Workers -> Worker] /\ loc' \in [Workers -> Worker]
      /\ loc'[w] = r
      /\ \A v \in Workers \ {w} : loc'[v] = loc[v]
      /\ \A v \in Workers : GoodWorker(loc[v])
  BY DEF IInv, TypeOK, Goes
<1>2. intents[k] # None /\ intents[k].status # "claimed"
  BY <1>1 DEF GoodWorker, At, DispatchSteps, RunSteps
<1>3. \A v \in Workers \ {w} : loc[v].key = k => loc[v].pc \notin RunSteps
  BY DEF IInv, OneRunAtATime, InRun, RunSteps, At
<1>4. ASSUME NEW v \in Workers \ {w}
      PROVE  GoodWorker(loc[v])'
  <2>1. GoodWorker(loc[v]) /\ loc'[v] = loc[v]
    BY <1>1
  <2>2. CASE loc[v].key = k
    BY <1>1, <1>3, <2>1, <2>2
       DEF GoodWorker, Calls, RunsGrow, DispatchSteps, RunSteps
  <2>3. CASE loc[v].key # k
    <3>1. loc[v].pc = "mark" => loc[v].key \in Tasks
      BY <2>1 DEF GoodWorker, DispatchSteps
    <3> QED
      BY <1>1, <2>1, <2>3, <3>1 DEF GoodWorker, Calls, DispatchSteps, RunSteps
  <2> QED
    BY <2>2, <2>3
<1>5. \A v \in Workers : GoodWorker(loc[v])'
  BY <1>1, <1>4
<1>6. TypeOK'
  BY <1>1, <1>5 DEF IInv, TypeOK, GoodWorker, Open
<1>7. OneRunAtATime'
  <2>1. ASSUME NEW u \in Workers, NEW v \in Workers, loc'[u].pc \in RunSteps,
               loc'[v].pc \in RunSteps, loc'[u].key = loc'[v].key, u # v
        PROVE  FALSE
    <3>1. CASE u # w /\ v # w
      BY <1>1, <2>1, <3>1 DEF IInv, OneRunAtATime, InRun, RunSteps
    <3>2. CASE u = w \/ v = w
      BY <1>1, <1>3, <2>1, <3>2
    <3> QED
      BY <3>1, <3>2
  <2> QED
    BY <2>1 DEF OneRunAtATime, InRun, RunSteps
<1>8. ASSUME NEW j \in Tasks
      PROVE  GoodTask(j)'
  <2>1. CASE j = k
    BY <1>2, <2>1 DEF IInv, GoodTask, TrueIntent, RunsGrow
  <2>2. CASE j # k
    BY <2>2 DEF IInv, GoodTask, TrueIntent, Calls
  <2> QED
    BY <2>1, <2>2
<1> QED
  BY <1>5, <1>6, <1>7, <1>8 DEF IInv

\* A step of the agent itself: the calls of a task stay as many.
LEMMA AgentKeeps ==
  ASSUME IInv, NEW k \in Tasks,
         UNCHANGED <<intents, seen, stopped, timeouts, loc, crashes>>,
         runs' \in [Tasks -> Seq(RunStates)], late' \in [Tasks -> Nat],
         \A j \in Tasks \ {k} : runs'[j] = runs[j] /\ late'[j] = late[j],
         RunsGrow(k),
         late'[k] <= late[k], Calls(k)' = Calls(k)
  PROVE  IInv'
<1>1. ASSUME NEW j \in Tasks
      PROVE  /\ RunsGrow(j) /\ Calls(j)' = Calls(j)
             /\ late'[j] \in Nat /\ late[j] \in Nat /\ late'[j] <= late[j]
             /\ timeouts[j] \in Nat /\ timeouts'[j] = timeouts[j]
  <2>1. /\ late'[j] \in Nat /\ late[j] \in Nat
        /\ timeouts[j] \in Nat /\ timeouts'[j] = timeouts[j]
    BY BoundAssumption DEF IInv, TypeOK
  <2>2. CASE j = k
    BY <2>1, <2>2
  <2>3. CASE j # k
    BY <2>1, <2>3 DEF RunsGrow, Calls
  <2> QED
    BY <2>1, <2>2, <2>3
<1>2. ASSUME NEW v \in Workers
      PROVE  GoodWorker(loc[v])'
  <2>1. GoodWorker(loc[v])
    BY DEF IInv
  <2>2. CASE loc[v].key \in Tasks
    BY <1>1, <2>1, <2>2 DEF GoodWorker, RunsGrow
  <2>3. CASE loc[v].key \notin Tasks
    BY <2>1, <2>3 DEF GoodWorker, DispatchSteps, RunSteps
  <2> QED
    BY <2>2, <2>3
<1>3. TypeOK'
  BY DEF IInv, TypeOK, Open
<1>4. OneRunAtATime'
  BY DEF IInv, OneRunAtATime, InRun
<1>5. ASSUME NEW j \in Tasks
      PROVE  GoodTask(j)'
  <2>1. GoodTask(j)
    BY DEF IInv
  <2>2. Calls(j) \in Nat
    BY <1>1 DEF Calls, IInv, TypeOK
  <2> QED
    BY <1>1, <2>1, <2>2 DEF GoodTask, TrueIntent, RunsGrow
<1> QED
  BY <1>2, <1>3, <1>4, <1>5 DEF IInv
-----------------------------------------------------------------------------
(* The steps. *)

LEMMA IdleGood ==
  ASSUME NEW w \in Workers
  PROVE  /\ Idle \in Worker /\ GoodWorker(Idle)
         /\ Finished(w) \in Worker /\ GoodWorker(Finished(w))
         /\ Idle.pc \notin RunSteps /\ Finished(w).pc \notin RunSteps
  BY DEF Idle, Finished, Worker, Steps, GoodWorker, DispatchSteps, RunSteps

LEMMA WorkerGood ==
  ASSUME IInv, NEW w \in Workers
  PROVE  loc[w] \in Worker /\ GoodWorker(loc[w])
  BY DEF IInv, TypeOK

\* A worker that gives up, returns or looks for the next intent.
LEMMA StopKeeps ==
  ASSUME IInv, NEW w \in Workers, Goes(w, Idle) \/ Goes(w, Finished(w)),
         UNCHANGED <<intents, seen, stopped, runs, late, timeouts>>,
         crashes' \in 0 .. MaxCrashes
  PROVE  IInv'
<1>1. seen' \subseteq Deliveries /\ stopped' \in BOOLEAN
  BY DEF IInv, TypeOK
<1>2. CASE Goes(w, Idle)
  BY <1>1, <1>2, IdleGood, MoveKeeps
<1>3. CASE Goes(w, Finished(w))
  BY <1>1, <1>3, IdleGood, MoveKeeps
<1> QED
  BY <1>2, <1>3

LEMMA ReceiveKeeps ==
  ASSUME IInv, NEW w \in Workers, NEW d \in Deliveries, Receive(w, d)
  PROVE  IInv'
<1> DEFINE r == [Idle EXCEPT !.pc = "claim", !.key = Target[d]]
<1>1. r \in Worker
  BY TargetAssumption DEF Idle, Worker, Steps
<1>2. GoodWorker(r) /\ r.pc \notin RunSteps
  BY TargetAssumption, KeysAssumption
     DEF Idle, GoodWorker, DispatchSteps, RunSteps
<1>3. seen' \subseteq Deliveries /\ stopped' \in BOOLEAN /\ crashes' \in 0 .. MaxCrashes
  BY DEF IInv, TypeOK, Receive
<1>4. Goes(w, r) /\ UNCHANGED <<intents, runs, late, timeouts>>
  BY DEF Receive
<1> QED
  BY <1>1, <1>2, <1>3, <1>4, MoveKeeps

\* Steps of a worker that learns something and writes nothing.
LEMMA LearnKeeps ==
  ASSUME IInv, NEW w \in Workers, NEW r \in Worker, Goes(w, r),
         UNCHANGED <<intents, seen, stopped, runs, late, timeouts, crashes>>,
         GoodWorker(r),
         r.pc \in RunSteps => loc[w].pc \in RunSteps /\ loc[w].key = r.key
  PROVE  IInv'
<1>1. seen' \subseteq Deliveries /\ stopped' \in BOOLEAN /\ crashes' \in 0 .. MaxCrashes
  BY DEF IInv, TypeOK
<1> QED
  BY <1>1, MoveKeeps

LEMMA ClaimKnownKeeps ==
  ASSUME IInv, NEW w \in Workers, ClaimKnown(w)
  PROVE  IInv'
<1> DEFINE k == loc[w].key
           r == [loc[w] EXCEPT !.pc = "start", !.st = intents[k].status, !.fresh = TRUE]
<1>1. loc[w] \in Worker /\ GoodWorker(loc[w]) /\ loc[w].pc = "claim" /\ intents[k] # None
  BY WorkerGood DEF ClaimKnown, At
<1>2. crashes' \in 0 .. MaxCrashes
  BY DEF IInv, TypeOK, ClaimKnown
<1>3. CASE TakesOver(k)
  <2>1. k \in Tasks /\ intents[k].status = "claimed" /\ k # None
    BY <1>3, KeysAssumption DEF TakesOver, Keys
  <2>2. r \in Worker
    BY <1>1, <2>1 DEF Worker, Steps, IntentStates, OpenStates
  <2>3. GoodWorker(r) /\ r.pc \notin RunSteps
    BY <1>1, <2>1 DEF Worker, GoodWorker, DispatchSteps, RunSteps
  <2>4. Goes(w, r)
    BY <1>3 DEF ClaimKnown
  <2> QED
    BY <2>2, <2>3, <2>4, LearnKeeps DEF ClaimKnown
<1>4. CASE ~TakesOver(k)
  <2>1. Goes(w, Idle)
    BY <1>4 DEF ClaimKnown
  <2> QED
    BY <1>2, <2>1, StopKeeps DEF ClaimKnown
<1> QED
  BY <1>3, <1>4

LEMMA HandlerReconcileKeeps ==
  ASSUME IInv, NEW w \in Workers, HandlerReconcile(w)
  PROVE  IInv'
<1> DEFINE k == loc[w].key
<1>1. /\ loc[w] \in Worker /\ GoodWorker(loc[w]) /\ loc[w].pc = "reconcile"
      /\ k \in Tasks /\ k # None
  BY WorkerGood, KeysAssumption
     DEF HandlerReconcile, At, GoodWorker, DispatchSteps, Keys
<1>2. /\ runs[k] \in Seq(RunStates) /\ late[k] \in Nat /\ timeouts[k] \in Nat
      /\ late[k] <= timeouts[k] /\ crashes \in 0 .. MaxCrashes
  BY <1>1, BoundAssumption DEF IInv, TypeOK, GoodTask
<1>3. ASSUME NEW i \in DOMAIN runs[k],
             Goes(w, [loc[w] EXCEPT !.pc = "ack", !.ref = i, !.to = runs[k][i]])
      PROVE  IInv'
  <2> DEFINE r == [loc[w] EXCEPT !.pc = "ack", !.ref = i, !.to = runs[k][i]]
  <2>1. i \in Nat /\ runs[k][i] \in RunStates
    BY <1>2
  <2>2. r \in Worker
    BY <1>1, <2>1 DEF Worker, Steps
  <2>3. GoodWorker(r) /\ r.pc \notin RunSteps
    BY <1>1 DEF Worker, GoodWorker, DispatchSteps, RunSteps
  <2> QED
    BY <1>3, <2>2, <2>3, LearnKeeps DEF HandlerReconcile
<1>4. ASSUME runs[k] = <<>>, Goes(w, [loc[w] EXCEPT !.pc = "release"])
      PROVE  IInv'
  <2> DEFINE r == [loc[w] EXCEPT !.pc = "release"]
  <2>1. r \in Worker /\ r.pc \in RunSteps /\ loc[w].pc \in RunSteps /\ loc[w].key = r.key
    BY <1>1 DEF Worker, Steps, RunSteps
  <2>2. Calls(k) <= timeouts[k]
    BY <1>2, <1>4 DEF Calls
  <2>3. GoodWorker(r)
    BY <1>1, <2>2 DEF Worker, GoodWorker, DispatchSteps, RunSteps
  <2> QED
    BY <1>4, <2>1, <2>3, LearnKeeps DEF HandlerReconcile
<1>5. ASSUME Goes(w, Idle)
      PROVE  IInv'
  BY <1>2, <1>5, StopKeeps DEF HandlerReconcile
<1> QED
  BY <1>3, <1>4, <1>5 DEF HandlerReconcile

LEMMA LookupKeeps ==
  ASSUME IInv, NEW w \in Workers, Lookup(w)
  PROVE  IInv'
<1> DEFINE k == loc[w].key
<1>1. /\ loc[w] \in Worker /\ GoodWorker(loc[w]) /\ loc[w].pc = "lookup"
      /\ k \in Tasks /\ k # None
  BY WorkerGood, KeysAssumption DEF Lookup, At, GoodWorker, DispatchSteps, Keys
<1>2. runs[k] \in Seq(RunStates)
  BY <1>1 DEF IInv, TypeOK
<1>3. ASSUME NEW i \in DOMAIN runs[k], NEW a \in {runs[k][i], "running"},
             Goes(w, [loc[w] EXCEPT !.pc = "ack", !.ref = i, !.to = a])
      PROVE  IInv'
  <2> DEFINE r == [loc[w] EXCEPT !.pc = "ack", !.ref = i, !.to = a]
  <2>1. i \in Nat /\ a \in RunStates
    BY <1>2 DEF RunStates
  <2>2. r \in Worker
    BY <1>1, <2>1 DEF Worker, Steps
  <2>3. GoodWorker(r) /\ r.pc \notin RunSteps
    BY <1>1 DEF Worker, GoodWorker, DispatchSteps, RunSteps
  <2> QED
    BY <1>3, <2>2, <2>3, LearnKeeps DEF Lookup
<1>4. ASSUME Goes(w, [loc[w] EXCEPT !.pc = "exec"])
      PROVE  IInv'
  <2> DEFINE r == [loc[w] EXCEPT !.pc = "exec"]
  <2>1. r \in Worker /\ r.pc \in RunSteps /\ loc[w].pc \in RunSteps /\ loc[w].key = r.key
    BY <1>1 DEF Worker, Steps, RunSteps
  <2>2. GoodWorker(r)
    BY <1>1 DEF Worker, GoodWorker, DispatchSteps, RunSteps
  <2> QED
    BY <1>4, <2>1, <2>2, LearnKeeps DEF Lookup
<1> QED
  BY <1>3, <1>4 DEF Lookup

LEMMA AskKeeps ==
  ASSUME IInv, NEW w \in Workers, Ask(w)
  PROVE  IInv'
<1> DEFINE k == loc[w].key
<1>1. /\ loc[w] \in Worker /\ GoodWorker(loc[w]) /\ loc[w].pc = "ask"
      /\ k \in Tasks /\ k # None /\ intents[k] # None /\ loc[w].st \in OpenStates
  BY WorkerGood, KeysAssumption DEF Ask, At, GoodWorker, DispatchSteps, Keys
<1>2. runs[k] \in Seq(RunStates)
  BY <1>1 DEF IInv, TypeOK
<1>3. WithoutRun(w) \in Worker /\ GoodWorker(WithoutRun(w))
      /\ WithoutRun(w).pc \notin RunSteps
  <2>1. CASE loc[w].st = "running"
    BY <1>1, <2>1 DEF WithoutRun, Worker, Steps, IntentStates, OpenStates,
       TerminalStates, GoodWorker, DispatchSteps, RunSteps
  <2>2. CASE loc[w].st = "claimed"
    BY <1>1, <2>2 DEF WithoutRun, Worker, Steps, IntentStates, OpenStates,
       TerminalStates, GoodWorker, DispatchSteps, RunSteps
  <2> QED
    BY <1>1, <2>1, <2>2 DEF OpenStates
<1>4. ASSUME NEW i \in DOMAIN runs[k], Goes(w, WithRun(w, i, runs[k][i]))
      PROVE  IInv'
  <2> DEFINE s == runs[k][i]
             ended == [loc[w] EXCEPT !.pc = "mark", !.to = s, !.ref = i]
             same == [loc[w] EXCEPT !.pc = "mark", !.to = loc[w].st, !.ref = i]
  <2>1. i \in Nat /\ s \in RunStates
    BY <1>2
  <2>2. CASE s \in {"completed", "failed"}
    <3>1. Goes(w, ended)
      BY <1>4, <2>2 DEF WithRun
    <3>2. ended \in Worker
      BY <1>1, <2>1 DEF Worker, Steps
    <3>3. GoodWorker(ended) /\ ended.pc \notin RunSteps
      BY <1>1, <2>2 DEF Worker, GoodWorker, DispatchSteps, RunSteps, OpenStates
    <3> QED
      BY <3>1, <3>2, <3>3, LearnKeeps DEF Ask
  <2>3. CASE s = "running" /\ loc[w].ref # i
    <3>1. Goes(w, same)
      BY <1>4, <2>3 DEF WithRun
    <3>2. same \in Worker
      BY <1>1, <2>1 DEF Worker, Steps, IntentStates
    <3>3. GoodWorker(same) /\ same.pc \notin RunSteps
      BY <1>1 DEF Worker, GoodWorker, DispatchSteps, RunSteps, OpenStates
    <3> QED
      BY <3>1, <3>2, <3>3, LearnKeeps DEF Ask
  <2>4. CASE s = "running" /\ loc[w].ref = i
    <3>1. Goes(w, Finished(w)) /\ crashes \in 0 .. MaxCrashes
      BY <1>4, <2>4 DEF WithRun, IInv, TypeOK
    <3> QED
      BY <3>1, StopKeeps DEF Ask
  <2>5. CASE s = "odd"
    <3>1. Goes(w, WithoutRun(w))
      BY <1>4, <2>5 DEF WithRun
    <3> QED
      BY <1>3, <3>1, LearnKeeps DEF Ask
  <2> QED
    BY <2>1, <2>2, <2>3, <2>4, <2>5 DEF RunStates
<1>5. ASSUME Goes(w, WithoutRun(w))
      PROVE  IInv'
  BY <1>3, <1>5, LearnKeeps DEF Ask
<1> QED
  BY <1>4, <1>5 DEF Ask

\* A claimed intent may become anything else, a running one anything, and an
\* intent that has ended nothing.
LEMMA Allowed ==
  ASSUME NEW s \in IntentStates, NEW t \in AllowedTransitions[s]
  PROVE  /\ t \in IntentStates /\ s \in OpenStates
         /\ s = "claimed" => t # "claimed"
  BY DEF AllowedTransitions, IntentStates, OpenStates, TerminalStates

\* transition_intent by a worker that has taken up an intent.
LEMMA TransitionKeeps ==
  ASSUME IInv, NEW w \in Workers, NEW status, NEW ref \in Nat, NEW r \in Worker,
         Transition(w, status, ref, r),
         loc[w].key \in Keys, intents[loc[w].key] # None,
         GoodWorker(r)',
         loc[w].key \in Tasks =>
           TrueIntent(loc[w].key, Updated(intents[loc[w].key], status, ref)),
         status = "claimed" /\ intents[loc[w].key].status # "claimed" =>
           /\ loc[w].pc \in RunSteps
           /\ loc[w].key \in Tasks => Calls(loc[w].key) <= timeouts[loc[w].key],
         r.pc \in RunSteps =>
           r.key = loc[w].key /\ intents[loc[w].key].status = "claimed"
  PROVE  IInv'
<1> DEFINE k == loc[w].key
           e == Updated(intents[k], status, ref)
<1>1. intents[k] \in Intent
  BY DEF IInv, TypeOK
<1>2. status \in IntentStates
  BY <1>1, Allowed DEF Transition, MayWrite, Intent
<1>3. e \in Intent /\ e.status = status /\ (e.leased => e.status \in OpenStates)
  BY <1>1, <1>2 DEF Updated, Intent
<1>4. intents' = [intents EXCEPT ![k] = e] /\ Wrote(w, k, r)
      /\ UNCHANGED <<seen, stopped, runs, late, timeouts, crashes>>
  BY DEF Transition
<1> HIDE DEF e
<1>5. k \in Tasks => TrueIntent(k, e)
  BY DEF e
<1> QED
  BY <1>3, <1>4, <1>5, WriteKeeps

\* What transition_intent leaves in the store.
LEMMA Stored ==
  ASSUME IInv, NEW w \in Workers, NEW status, NEW ref \in Nat, NEW r,
         Transition(w, status, ref, r),
         loc[w].key \in Keys, intents[loc[w].key] # None
  PROVE  LET k == loc[w].key IN
         /\ loc[w].fresh
         /\ intents[k] \in Intent /\ status \in IntentStates
         /\ intents[k].status \in OpenStates
         /\ intents[k].status = "claimed" => status # "claimed"
         /\ intents'[k] # None /\ intents'[k].status = status
         /\ intents'[k].run = IF ref = 0 THEN intents[k].run ELSE ref
         /\ UNCHANGED <<runs, late, timeouts>>
<1> DEFINE k == loc[w].key
<1>1. intents \in [Keys -> Intent \cup {None}] /\ intents[k] \in Intent
  BY DEF IInv, TypeOK
<1>2. /\ loc[w].fresh /\ status \in AllowedTransitions[intents[k].status]
      /\ intents' = [intents EXCEPT ![k] = Updated(intents[k], status, ref)]
      /\ UNCHANGED <<runs, late, timeouts>>
  BY DEF Transition, MayWrite
<1>3. /\ status \in IntentStates /\ intents[k].status \in OpenStates
      /\ intents[k].status = "claimed" => status # "claimed"
  BY <1>1, <1>2, Allowed DEF Intent
<1>4. intents'[k] = Updated(intents[k], status, ref)
  BY <1>1, <1>2
<1>5. Updated(intents[k], status, ref) \in Intent
  BY <1>1, <1>3 DEF Updated, Intent
<1> QED
  BY <1>1, <1>2, <1>3, <1>4, <1>5, NoneAssumption DEF Updated

\* Where a worker that has taken up a dispatch stands.
LEMMA Taken ==
  ASSUME IInv, NEW w \in Workers, loc[w].pc \in DispatchSteps
  PROVE  /\ loc[w] \in Worker /\ GoodWorker(loc[w])
         /\ loc[w].key \in Tasks /\ loc[w].key \in Keys /\ loc[w].key # None
         /\ intents[loc[w].key] # None
         /\ runs[loc[w].key] \in Seq(RunStates)
         /\ late[loc[w].key] \in Nat /\ timeouts[loc[w].key] \in 0 .. MaxLate
         /\ GoodTask(loc[w].key)
<1>1. loc[w] \in Worker /\ GoodWorker(loc[w])
  BY WorkerGood
<1>2. loc[w].key \in Tasks /\ intents[loc[w].key] # None
  BY <1>1 DEF GoodWorker
<1> QED
  BY <1>1, <1>2, KeysAssumption DEF IInv, TypeOK, Keys

LEMMA StartKeeps ==
  ASSUME IInv, NEW w \in Workers, Start(w)
  PROVE  IInv'
<1> DEFINE k == loc[w].key
<1>0. PICK r \in Worker : r = [loc[w] EXCEPT !.pc = "lookup", !.st = "running"]
  BY WorkerGood DEF Worker, Steps, IntentStates, OpenStates
<1>1. loc[w].pc = "start" /\ Transition(w, "running", 0, r)
  BY <1>0 DEF Start, At
<1>2. /\ loc[w] \in Worker /\ GoodWorker(loc[w]) /\ GoodTask(k)
      /\ k \in Tasks /\ k \in Keys /\ k # None /\ intents[k] # None
  BY <1>1, Taken DEF DispatchSteps
<1>3. /\ loc[w].fresh /\ intents'[k] # None /\ intents'[k].status = "running"
      /\ UNCHANGED <<runs, late, timeouts>>
  BY <1>1, <1>2, Stored
<1>4. intents[k].status = "claimed" /\ Calls(k) <= timeouts[k]
  BY <1>1, <1>2, <1>3 DEF GoodWorker, GoodTask
<1>5. r.key = k /\ r.pc = "lookup"
  BY <1>0, <1>2 DEF Worker
<1>6. GoodWorker(r)'
  BY <1>2, <1>3, <1>4, <1>5 DEF GoodWorker, Calls, DispatchSteps, RunSteps
<1>7. TrueIntent(k, Updated(intents[k], "running", 0))
  BY DEF TrueIntent, Updated
<1> QED
  BY <1>1, <1>2, <1>4, <1>5, <1>6, <1>7, TransitionKeeps

LEMMA ReleaseKeeps ==
  ASSUME IInv, NEW w \in Workers, Release(w)
  PROVE  IInv'
<1> DEFINE k == loc[w].key
<1>1. loc[w].pc = "release" /\ Transition(w, "claimed", 0, Idle)
  BY DEF Release, At
<1>2. /\ GoodWorker(loc[w]) /\ k \in Tasks /\ k \in Keys /\ intents[k] # None
  BY <1>1, Taken DEF DispatchSteps
<1>3. loc[w].pc \in RunSteps /\ Calls(k) <= timeouts[k]
  BY <1>1, <1>2 DEF GoodWorker, RunSteps
<1>4. Idle \in Worker /\ GoodWorker(Idle)' /\ Idle.pc \notin RunSteps
  BY IdleGood DEF Idle, GoodWorker, DispatchSteps, RunSteps
<1>5. TrueIntent(k, Updated(intents[k], "claimed", 0))
  BY DEF TrueIntent, Updated
<1> QED
  BY <1>1, <1>2, <1>3, <1>4, <1>5, TransitionKeeps

LEMMA CompleteCheckKeeps ==
  ASSUME IInv, NEW w \in Workers, CompleteCheck(w)
  PROVE  IInv'
<1> DEFINE k == loc[w].key
<1>1. loc[w].pc = "complete" /\ Transition(w, "completed", 0, Idle)
  BY DEF CompleteCheck, At
<1>2. k \in Checks /\ k \in Keys /\ k \notin Tasks /\ intents[k] # None
  BY <1>1, WorkerGood, KeysAssumption DEF GoodWorker, Keys
<1>3. Idle \in Worker /\ GoodWorker(Idle)' /\ Idle.pc \notin RunSteps
  BY IdleGood DEF Idle, GoodWorker, DispatchSteps, RunSteps
<1> QED
  BY <1>1, <1>2, <1>3, TransitionKeeps

LEMMA AcknowledgeKeeps ==
  ASSUME IInv, NEW w \in Workers, Acknowledge(w)
  PROVE  IInv'
<1> DEFINE k == loc[w].key
<1>0. PICK r \in Worker : r = [loc[w] EXCEPT !.pc = "settle"]
  BY WorkerGood DEF Worker, Steps
<1>1. loc[w].pc = "ack" /\ Transition(w, "running", loc[w].ref, r)
  BY <1>0 DEF Acknowledge, At
<1>2. /\ loc[w] \in Worker /\ GoodWorker(loc[w]) /\ runs[k] \in Seq(RunStates)
      /\ k \in Tasks /\ k \in Keys /\ k # None /\ intents[k] # None
  BY <1>1, Taken DEF DispatchSteps
<1>3. loc[w].ref \in Nat /\ loc[w].ref # 0 /\ loc[w].ref \in DOMAIN runs[k]
  BY <1>1, <1>2 DEF GoodWorker
<1>4. /\ intents'[k] # None /\ intents'[k].status = "running"
      /\ intents'[k].run = loc[w].ref
      /\ UNCHANGED <<runs, late, timeouts>>
  BY <1>1, <1>2, <1>3, Stored
<1>5. /\ r.pc = "settle" /\ r.key = k /\ r.ref = loc[w].ref /\ r.to = loc[w].to
      /\ r.pc \notin RunSteps
  BY <1>0, <1>2 DEF Worker, RunSteps
<1>6. GoodWorker(r)'
  BY <1>1, <1>2, <1>3, <1>4, <1>5 DEF GoodWorker, DispatchSteps, RunSteps
<1>7. TrueIntent(k, Updated(intents[k], "running", loc[w].ref))
  BY DEF TrueIntent, Updated
<1> QED
  BY <1>1, <1>2, <1>3, <1>5, <1>6, <1>7, TransitionKeeps

LEMMA SettleKeeps ==
  ASSUME IInv, NEW w \in Workers, Settle(w)
  PROVE  IInv'
<1> DEFINE k == loc[w].key
           s == Settled(w, loc[w].to)
<1>1. loc[w].pc = "settle" /\ Transition(w, s, 0, Finished(w))
  BY DEF Settle, At
<1>2. /\ GoodWorker(loc[w]) /\ k \in Tasks /\ k \in Keys /\ intents[k] # None
  BY <1>1, Taken DEF DispatchSteps
<1>3. s # "claimed" /\ (s = "completed" => loc[w].to = "completed")
  BY DEF Settled
<1>4. loc[w].fresh
  BY <1>1, <1>2, Stored
<1>5. TrueIntent(k, Updated(intents[k], s, 0))
  BY <1>1, <1>2, <1>3, <1>4 DEF TrueIntent, Updated, GoodWorker
<1>6. Finished(w) \in Worker /\ GoodWorker(Finished(w))' /\ Finished(w).pc \notin RunSteps
  BY IdleGood DEF Finished, Idle, GoodWorker, DispatchSteps, RunSteps
<1> HIDE DEF s
<1> QED
  BY <1>1, <1>2, <1>3, <1>5, <1>6, TransitionKeeps

LEMMA MarkKeeps ==
  ASSUME IInv, NEW w \in Workers, Mark(w)
  PROVE  IInv'
<1> DEFINE k == loc[w].key
           s == loc[w].to
<1>1. loc[w].pc = "mark" /\ Transition(w, s, loc[w].ref, Finished(w))
  BY DEF Mark, At
<1>2. /\ loc[w] \in Worker /\ GoodWorker(loc[w]) /\ runs[k] \in Seq(RunStates)
      /\ k \in Tasks /\ k \in Keys /\ intents[k] # None /\ loc[w].ref \in Nat
  BY <1>1, Taken DEF DispatchSteps, Worker
<1>3. loc[w].fresh /\ (intents[k].status = "claimed" => s # "claimed")
  BY <1>1, <1>2, Stored
<1>4. s = "claimed" => intents[k].status = "claimed"
  BY <1>1, <1>2, <1>3 DEF GoodWorker, OpenStates
<1>5. TrueIntent(k, Updated(intents[k], s, loc[w].ref))
  BY <1>1, <1>2 DEF TrueIntent, Updated, GoodWorker
<1>6. Finished(w) \in Worker /\ GoodWorker(Finished(w))' /\ Finished(w).pc \notin RunSteps
  BY IdleGood DEF Finished, Idle, GoodWorker, DispatchSteps, RunSteps
<1> QED
  BY <1>1, <1>2, <1>3, <1>4, <1>5, <1>6, TransitionKeeps

LEMMA LeaseKeeps ==
  ASSUME IInv, NEW w \in Workers, NEW k \in Keys, Lease(w, k)
  PROVE  IInv'
<1>1. /\ intents \in [Keys -> Intent \cup {None}] /\ intents[k] \in Intent
      /\ intents[k] # None /\ intents[k].status \in OpenStates
  BY DEF IInv, TypeOK, Lease, Leasable, Open
<1>2. PICK e \in Intent : e = [intents[k] EXCEPT !.leased = TRUE]
  BY <1>1 DEF Intent
<1>3. /\ intents' = [intents EXCEPT ![k] = e]
      /\ e.status = intents[k].status /\ e.run = intents[k].run
  BY <1>1, <1>2 DEF Lease, Intent
<1>4. intents'[k] = e /\ e # None
  BY <1>1, <1>3, NoneAssumption
<1>5. k \in Tasks => TrueIntent(k, e)
  BY <1>1, <1>3 DEF IInv, GoodTask, TrueIntent
<1>6. UNCHANGED <<seen, stopped, runs, late, timeouts, crashes>>
  BY DEF Lease
<1>7. CASE k \in Tasks
  <2>1. PICK r \in Worker :
          r = [pc |-> "ask", key |-> k, st |-> intents[k].status,
               to |-> None, ref |-> intents[k].run, fresh |-> TRUE]
    BY <1>1 DEF Worker, Steps, Intent
  <2>2. Wrote(w, k, r)
    BY <1>7, <2>1 DEF Lease
  <2>3. r.pc = "ask" /\ r.key = k /\ r.st = intents[k].status /\ r.to = None
    BY <2>1
  <2>4. GoodWorker(r)'
    BY <1>1, <1>3, <1>4, <1>7, <2>3, KeysAssumption
       DEF GoodWorker, DispatchSteps, RunSteps, OpenStates
  <2> QED
    BY <1>1, <1>3, <1>5, <1>6, <2>2, <2>3, <2>4, WriteKeeps DEF RunSteps
<1>8. CASE k \notin Tasks
  <2>1. Wrote(w, k, Finished(w))
    BY <1>8 DEF Lease
  <2>2. Finished(w) \in Worker /\ GoodWorker(Finished(w))' /\ Finished(w).pc \notin RunSteps
    BY IdleGood DEF Finished, Idle, GoodWorker, DispatchSteps, RunSteps
  <2> QED
    BY <1>1, <1>3, <1>5, <1>6, <2>1, <2>2, WriteKeeps
<1> QED
  BY <1>7, <1>8

LEMMA ClaimNewKeeps ==
  ASSUME IInv, NEW w \in Workers, ClaimNew(w)
  PROVE  IInv'
<1> DEFINE k == loc[w].key
           e == [status |-> "claimed", leased |-> FALSE, run |-> 0]
<1>1. /\ loc[w] \in Worker /\ GoodWorker(loc[w]) /\ loc[w].pc = "claim"
      /\ intents[k] = None
  BY WorkerGood DEF ClaimNew, At
<1>2. k \in Keys /\ k # None
  BY <1>1 DEF GoodWorker, Worker
<1>3. /\ loc \in [Workers -> Worker] /\ intents \in [Keys -> Intent \cup {None}]
      /\ \A v \in Workers : GoodWorker(loc[v])
  BY DEF IInv, TypeOK
<1>4. /\ intents' = [intents EXCEPT ![k] = e]
      /\ UNCHANGED <<seen, stopped, runs, late, timeouts, crashes>>
  BY DEF ClaimNew
<1>5. /\ e \in Intent /\ e # None
      /\ e.status = "claimed" /\ e.leased = FALSE
  <2>1. "claimed" \in IntentStates
    BY DEF IntentStates, OpenStates
  <2>2. e \in Intent
    BY <2>1 DEF Intent
  <2> QED
    BY <2>2, NoneAssumption
<1> HIDE DEF e
<1>6. /\ intents' \in [Keys -> Intent \cup {None}] /\ intents'[k] = e
      /\ \A j \in Keys \ {k} : intents'[j] = intents[j]
  BY <1>2, <1>3, <1>4, <1>5
<1>7. PICK r \in Worker :
        r = [loc[w] EXCEPT !.pc = IF k \in Tasks THEN "start" ELSE "complete",
                           !.st = "claimed", !.fresh = TRUE]
  BY <1>1 DEF Worker, Steps, IntentStates, OpenStates
<1>8. /\ loc' \in [Workers -> Worker] /\ loc'[w] = r
      /\ \A v \in Workers \ {w} : loc'[v] = loc[v]
  BY <1>3, <1>7 DEF ClaimNew, Goes
<1>9. /\ r.pc = IF k \in Tasks THEN "start" ELSE "complete"
      /\ r.key = k /\ r.pc \notin RunSteps
  BY <1>1, <1>7 DEF Worker, RunSteps
<1>10. GoodWorker(loc[w])'
  BY <1>2, <1>5, <1>6, <1>8, <1>9 DEF GoodWorker, DispatchSteps, RunSteps, Keys
<1>11. ASSUME NEW v \in Workers \ {w}
       PROVE  GoodWorker(loc[v])'
  <2>1. GoodWorker(loc[v]) /\ loc'[v] = loc[v]
    BY <1>3, <1>8
  <2>2. CASE loc[v].key = k
    BY <1>1, <1>2, <2>1, <2>2 DEF GoodWorker, DispatchSteps, RunSteps
  <2>3. CASE loc[v].key # k
    BY <1>4, <1>6, <2>1, <2>3 DEF GoodWorker, Calls, DispatchSteps, RunSteps, Keys
  <2> QED
    BY <2>2, <2>3
<1>12. TypeOK'
  <2>1. \A j \in Keys : intents'[j] # None /\ intents'[j].leased => Open(j)'
    BY <1>5, <1>6 DEF IInv, TypeOK, Open
  <2>2. \A v \in Workers : loc'[v].key = None <=> loc'[v].pc \in {"idle", "resume"}
    BY <1>8, <1>10, <1>11 DEF GoodWorker
  <2> QED
    BY <1>4, <1>6, <1>8, <2>1, <2>2 DEF IInv, TypeOK
<1>13. OneRunAtATime'
  BY <1>8, <1>9 DEF IInv, OneRunAtATime, InRun, RunSteps
<1>14. \A j \in Tasks : GoodTask(j)'
  BY <1>1, <1>4, <1>5, <1>6 DEF IInv, GoodTask, TrueIntent, Calls, Keys
<1> QED
  BY <1>8, <1>10, <1>11, <1>12, <1>13, <1>14 DEF IInv

\* What appending a run to those of a task does.
LEMMA Accepted ==
  ASSUME IInv, NEW k \in Tasks, NEW s \in RunStates, Accepts(k, s)
  PROVE  /\ runs' \in [Tasks -> Seq(RunStates)]
         /\ \A j \in Tasks \ {k} : runs'[j] = runs[j]
         /\ RunsGrow(k)
         /\ Len(runs'[k]) = Len(runs[k]) + 1 /\ Len(runs[k]) \in Nat
         /\ Len(runs[k]) + 1 \in DOMAIN runs'[k]
         /\ runs'[k][Len(runs[k]) + 1] = s
<1>1. runs \in [Tasks -> Seq(RunStates)] /\ runs[k] \in Seq(RunStates)
  BY DEF IInv, TypeOK
<1>2. runs'[k] = Append(runs[k], s) /\ runs' = [runs EXCEPT ![k] = Append(runs[k], s)]
  BY <1>1 DEF Accepts
<1>3. Append(runs[k], s) \in Seq(RunStates)
  BY <1>1
<1> QED
  BY <1>1, <1>2, <1>3 DEF RunsGrow

LEMMA ExecKeeps ==
  ASSUME IInv, NEW w \in Workers, Exec(w)
  PROVE  IInv'
<1>1. /\ At(w, "exec") /\ loc[w].pc = "exec"
      /\ UNCHANGED <<intents, seen, stopped, late, timeouts, crashes>>
  BY DEF Exec, At
<1>0. PICK k \in Tasks : k = loc[w].key
  BY <1>1, Taken DEF DispatchSteps
<1>2. /\ loc[w] \in Worker /\ GoodWorker(loc[w]) /\ GoodTask(k)
      /\ k # None /\ intents[k] # None
      /\ late[k] \in Nat /\ timeouts[k] \in Nat
  BY <1>0, <1>1, Taken, BoundAssumption DEF DispatchSteps
<1>3. PICK s \in RunStates, a \in RunStates :
        /\ a \in {s, "running"} /\ Accepts(k, s)
        /\ Goes(w, [loc[w] EXCEPT !.pc = "ack", !.ref = Len(runs[k]) + 1, !.to = a])
  BY <1>0 DEF Exec, RunStates
<1>4. /\ runs' \in [Tasks -> Seq(RunStates)] /\ RunsGrow(k)
      /\ \A j \in Tasks \ {k} : runs'[j] = runs[j]
      /\ Len(runs'[k]) = Len(runs[k]) + 1 /\ Len(runs[k]) \in Nat
      /\ Len(runs[k]) + 1 \in DOMAIN runs'[k]
      /\ runs'[k][Len(runs[k]) + 1] = s
  BY <1>2, <1>3, Accepted
<1>5. PICK r \in Worker :
        r = [loc[w] EXCEPT !.pc = "ack", !.ref = Len(runs[k]) + 1, !.to = a]
  <2>1. /\ "ack" \in Steps /\ Len(runs[k]) + 1 \in Nat
        /\ a \in IntentStates \cup RunStates \cup {None}
    BY <1>3, <1>4 DEF Steps
  <2>2. [loc[w] EXCEPT !.pc = "ack", !.ref = Len(runs[k]) + 1, !.to = a] \in Worker
    BY <1>2, <2>1, Zenon DEF Worker
  <2> QED
    BY <2>2
<1>6. /\ Goes(w, r) /\ r.pc = "ack" /\ r.key = k /\ r.to = a /\ r.fresh = loc[w].fresh
      /\ r.ref = Len(runs[k]) + 1 /\ r.pc \notin RunSteps
      /\ r.pc \notin {"lookup", "exec", "release"}
  BY <1>0, <1>2, <1>3, <1>5 DEF Worker, RunSteps
<1>7. Calls(k) <= timeouts[k] /\ late'[k] <= timeouts'[k]
  BY <1>0, <1>1, <1>2 DEF GoodWorker, GoodTask
<1>8. Calls(k)' <= 1 + timeouts'[k]
  BY <1>1, <1>2, <1>4, <1>7 DEF Calls
<1>9. GoodWorker(r)'
  BY <1>0, <1>1, <1>2, <1>3, <1>4, <1>6 DEF GoodWorker, DispatchSteps, RunSteps
<1>10. late' \in [Tasks -> Nat] /\ timeouts' \in [Tasks -> 0 .. MaxLate]
  BY <1>1 DEF IInv, TypeOK
<1> QED
  BY <1>0, <1>1, <1>2, <1>4, <1>6, <1>7, <1>8, <1>9, <1>10, CallKeeps

LEMMA RunFailsKeeps ==
  ASSUME IInv, NEW w \in Workers, RunFails(w)
  PROVE  IInv'
<1>1. /\ loc[w].pc \in {"lookup", "exec"}
      /\ UNCHANGED <<intents, seen, stopped, crashes>>
  BY DEF RunFails, At
<1>0. PICK k \in Tasks : k = loc[w].key
  BY <1>1, Taken DEF DispatchSteps
<1>2. /\ loc[w] \in Worker /\ GoodWorker(loc[w]) /\ GoodTask(k)
      /\ k # None /\ intents[k] # None
      /\ late[k] \in Nat /\ timeouts[k] \in Nat
      /\ Calls(k) <= timeouts[k] /\ intents[k].status # "claimed"
      /\ runs[k] \in Seq(RunStates)
  BY <1>0, <1>1, Taken, BoundAssumption DEF DispatchSteps, RunSteps, GoodWorker
<1>3. PICK r \in Worker :
        r = IF w \in Handlers THEN [loc[w] EXCEPT !.pc = "reconcile"] ELSE Idle
  BY <1>2, IdleGood DEF Worker, Steps
<1>4. Goes(w, r)
  BY <1>3 DEF RunFails
<1>5. \/ r = Idle /\ r.pc \notin RunSteps
      \/ /\ r.pc = "reconcile" /\ r.key = k /\ r.fresh = loc[w].fresh
         /\ r.pc \in RunSteps /\ loc[w].pc \in RunSteps
  BY <1>0, <1>1, <1>2, <1>3, IdleGood DEF Worker, RunSteps
<1>6. GoodWorker(r) /\ GoodWorker(r)'
  <2>1. CASE r = Idle
    BY <2>1 DEF Idle, GoodWorker, DispatchSteps, RunSteps
  <2>2. CASE r.pc = "reconcile" /\ r.key = k /\ r.fresh = loc[w].fresh
    BY <1>0, <1>1, <1>2, <2>2 DEF GoodWorker, DispatchSteps, RunSteps
  <2> QED
    BY <1>5, <2>1, <2>2
<1>7. r.pc \notin {"lookup", "exec", "release"} /\ (r.pc \in RunSteps => r.key = k)
  BY <1>5 DEF Idle, RunSteps
<1>8. /\ runs \in [Tasks -> Seq(RunStates)] /\ late \in [Tasks -> Nat]
      /\ timeouts \in [Tasks -> 0 .. MaxLate]
  BY DEF IInv, TypeOK
<1>9. CASE UNCHANGED <<runs, late, timeouts>>
  BY <1>0, <1>1, <1>4, <1>5, <1>6, <1>9, LearnKeeps
<1>10. ASSUME NEW s \in RunStates, At(w, "exec"), Accepts(k, s),
              UNCHANGED <<late, timeouts>>
       PROVE  IInv'
  <2>1. /\ runs' \in [Tasks -> Seq(RunStates)] /\ RunsGrow(k)
        /\ \A j \in Tasks \ {k} : runs'[j] = runs[j]
        /\ Len(runs'[k]) = Len(runs[k]) + 1 /\ Len(runs[k]) \in Nat
    BY <1>2, <1>10, Accepted
  <2>2. late'[k] <= timeouts'[k]
    BY <1>2, <1>10 DEF GoodTask
  <2>3. Calls(k)' <= 1 + timeouts'[k]
    BY <1>2, <1>10, <2>1 DEF Calls
  <2> QED
    BY <1>0, <1>1, <1>2, <1>4, <1>6, <1>7, <1>8, <1>10, <2>1, <2>2, <2>3, CallKeeps
<1>11. ASSUME At(w, "exec"), timeouts[k] < MaxLate,
              late' = [late EXCEPT ![k] = @ + 1],
              timeouts' = [timeouts EXCEPT ![k] = @ + 1], UNCHANGED runs
       PROVE  IInv'
  <2>1. /\ late' \in [Tasks -> Nat] /\ timeouts' \in [Tasks -> 0 .. MaxLate]
        /\ late'[k] = late[k] + 1 /\ timeouts'[k] = timeouts[k] + 1
        /\ \A j \in Tasks \ {k} : late'[j] = late[j] /\ timeouts'[j] = timeouts[j]
    BY <1>2, <1>8, <1>11, BoundAssumption
  <2>2. RunsGrow(k) /\ Len(runs[k]) \in Nat
    BY <1>2, <1>11 DEF RunsGrow
  <2>3. late'[k] <= timeouts'[k]
    BY <1>2, <2>1 DEF GoodTask
  <2>4. Calls(k)' <= 1 + timeouts'[k]
    BY <1>2, <1>11, <2>1, <2>2 DEF Calls
  <2> QED
    BY <1>0, <1>1, <1>2, <1>4, <1>6, <1>7, <1>8, <1>11, <2>1, <2>2, <2>3, <2>4, CallKeeps
<1> QED
  BY <1>0, <1>9, <1>10, <1>11 DEF RunFails

LEMMA ProgressKeeps ==
  ASSUME IInv, NEW k \in Tasks, Progress(k)
  PROVE  IInv'
<1>1. PICK i \in DOMAIN runs[k], s \in {"completed", "failed"} :
        runs[k][i] = "running" /\ runs' = [runs EXCEPT ![k][i] = s]
  BY DEF Progress
<1>2. /\ runs \in [Tasks -> Seq(RunStates)] /\ runs[k] \in Seq(RunStates)
      /\ late \in [Tasks -> Nat] /\ late[k] \in Nat
  BY DEF IInv, TypeOK
<1>3. runs'[k] = [runs[k] EXCEPT ![i] = s] /\ \A j \in Tasks \ {k} : runs'[j] = runs[j]
  BY <1>1, <1>2
<1>4. s \in RunStates
  BY DEF RunStates
<1>5. [runs[k] EXCEPT ![i] = s] \in Seq(RunStates)
      /\ Len([runs[k] EXCEPT ![i] = s]) = Len(runs[k])
      /\ DOMAIN [runs[k] EXCEPT ![i] = s] = DOMAIN runs[k]
  BY <1>2, <1>4
<1>6. runs' \in [Tasks -> Seq(RunStates)]
  BY <1>1, <1>2, <1>3, <1>5
<1>7. RunsGrow(k)
  BY <1>1, <1>3, <1>5 DEF RunsGrow
<1>8. /\ UNCHANGED <<intents, seen, stopped, timeouts, loc, crashes>>
      /\ UNCHANGED late
  BY DEF Progress
<1>9. Calls(k)' = Calls(k)
  BY <1>3, <1>5, <1>8 DEF Calls
<1>10. /\ late' \in [Tasks -> Nat] /\ late'[k] <= late[k]
       /\ \A j \in Tasks \ {k} : late'[j] = late[j]
  BY <1>2, <1>8
<1> QED
  BY <1>3, <1>6, <1>7, <1>8, <1>9, <1>10, AgentKeeps

LEMMA LandKeeps ==
  ASSUME IInv, NEW k \in Tasks, Land(k)
  PROVE  IInv'
<1>1. /\ late[k] > 0 /\ late' = [late EXCEPT ![k] = @ - 1] /\ Accepts(k, "running")
      /\ UNCHANGED <<intents, seen, stopped, timeouts, loc, crashes>>
  BY DEF Land
<1>2. late \in [Tasks -> Nat] /\ late[k] \in Nat
  BY DEF IInv, TypeOK
<1>3. /\ late' \in [Tasks -> Nat] /\ late'[k] = late[k] - 1
      /\ \A j \in Tasks \ {k} : late'[j] = late[j]
  BY <1>1, <1>2
<1>4. "running" \in RunStates
  BY DEF RunStates
<1>5. /\ runs' \in [Tasks -> Seq(RunStates)] /\ RunsGrow(k)
      /\ \A j \in Tasks \ {k} : runs'[j] = runs[j]
      /\ Len(runs'[k]) = Len(runs[k]) + 1 /\ Len(runs[k]) \in Nat
  BY <1>1, <1>4, Accepted
<1>6. Calls(k)' = Calls(k) /\ late'[k] <= late[k]
  BY <1>2, <1>3, <1>5 DEF Calls
<1> QED
  BY <1>1, <1>3, <1>5, <1>6, AgentKeeps

LEMMA ExpireKeeps ==
  ASSUME IInv, NEW k \in Keys, Expire(k)
  PROVE  IInv'
<1>1. intents \in [Keys -> Intent \cup {None}] /\ intents[k] \in Intent
  BY DEF IInv, TypeOK, Expire
<1>2. PICK e \in Intent : e = [intents[k] EXCEPT !.leased = FALSE]
  BY <1>1 DEF Intent
<1>3. /\ e # None /\ ~e.leased /\ e.status = intents[k].status /\ e.run = intents[k].run
      /\ intents[k] # None
  BY <1>1, <1>2, NoneAssumption DEF Intent
<1>4. /\ intents' = [intents EXCEPT ![k] = e]
      /\ UNCHANGED <<seen, stopped, runs, late, timeouts, loc, crashes>>
  BY <1>2 DEF Expire
<1>5. /\ intents' \in [Keys -> Intent \cup {None}]
      /\ \A j \in Keys :
           /\ intents'[j] = None <=> intents[j] = None
           /\ intents[j] # None => /\ intents'[j].status = intents[j].status
                                   /\ intents'[j].run = intents[j].run
                                   /\ intents'[j].leased => intents[j].leased
  BY <1>1, <1>3, <1>4
<1>6. ASSUME NEW v \in Workers
      PROVE  GoodWorker(loc[v])'
  <2>1. GoodWorker(loc[v]) /\ loc'[v] = loc[v]
    BY <1>4 DEF IInv
  <2> QED
    BY <1>4, <1>5, <2>1 DEF GoodWorker, Calls, DispatchSteps, RunSteps, Keys
<1>7. TypeOK'
  BY <1>4, <1>5 DEF IInv, TypeOK, Open
<1>8. OneRunAtATime'
  BY <1>4 DEF IInv, OneRunAtATime, InRun
<1>9. ASSUME NEW j \in Tasks
      PROVE  GoodTask(j)'
  BY <1>4, <1>5 DEF IInv, GoodTask, TrueIntent, Calls, Keys
<1> QED
  BY <1>6, <1>7, <1>8, <1>9 DEF IInv

\* Nothing has been delivered, claimed or run.
LEMMA InitGood == Init => IInv
<1> SUFFICES ASSUME Init
             PROVE  IInv
  OBVIOUS
<1>1. /\ \A k \in Keys : intents[k] = None
      /\ \A w \in Workers : loc[w] = Idle
      /\ \A k \in Tasks : runs[k] = <<>> /\ late[k] = 0 /\ timeouts[k] = 0
  BY DEF Init, Keys
<1>2. \A w \in Workers : GoodWorker(loc[w]) /\ loc[w].pc \notin RunSteps
  BY <1>1, IdleGood
<1>3. TypeOK
  <2>1. /\ intents \in [Keys -> Intent \cup {None}] /\ seen \subseteq Deliveries
        /\ stopped \in BOOLEAN /\ crashes \in 0 .. MaxCrashes
        /\ runs \in [Tasks -> Seq(RunStates)] /\ late \in [Tasks -> Nat]
        /\ timeouts \in [Tasks -> 0 .. MaxLate]
    <3>1. 0 \in 0 .. MaxLate /\ 0 \in 0 .. MaxCrashes
      BY BoundAssumption
    <3>2. intents \in [Keys -> Intent \cup {None}]
      BY DEF Init
    <3>3. runs \in [Tasks -> Seq(RunStates)]
      <4>1. <<>> \in Seq(RunStates)
        OBVIOUS
      <4> QED
        BY <4>1 DEF Init
    <3>4. late \in [Tasks -> Nat] /\ timeouts \in [Tasks -> 0 .. MaxLate]
      BY <3>1 DEF Init
    <3> QED
      BY <3>1, <3>2, <3>3, <3>4 DEF Init
  <2>2. loc \in [Workers -> Worker]
    BY IdleGood DEF Init
  <2> QED
    BY <1>1, <1>2, <2>1, <2>2 DEF TypeOK, GoodWorker
<1>4. OneRunAtATime
  BY <1>2 DEF OneRunAtATime, InRun, RunSteps
<1>5. ASSUME NEW k \in Tasks
      PROVE  GoodTask(k)
  BY <1>1 DEF GoodTask, TrueIntent, Calls, Keys
<1> QED
  BY <1>2, <1>3, <1>4, <1>5 DEF IInv

\* Every step keeps the inductive invariant.
LEMMA NextKeeps == IInv /\ [Next]_vars => IInv'
<1> SUFFICES ASSUME IInv, [Next]_vars
             PROVE  IInv'
  OBVIOUS
<1>0. crashes \in 0 .. MaxCrashes /\ crashes \in Nat
  BY BoundAssumption DEF IInv, TypeOK
<1>1. ASSUME NEW w \in Workers, HandlerStep(w)
      PROVE  IInv'
  <2>1. CASE \E d \in Deliveries : Receive(w, d)
    BY <2>1, ReceiveKeeps
  <2>2. CASE Refuse(w)
    BY <1>0, <2>2, StopKeeps DEF Refuse
  <2>3. CASE ClaimNew(w)
    BY <2>3, ClaimNewKeeps
  <2>4. CASE ClaimKnown(w)
    BY <2>4, ClaimKnownKeeps
  <2>5. CASE CompleteCheck(w)
    BY <2>5, CompleteCheckKeeps
  <2>6. CASE HandlerReconcile(w)
    BY <2>6, HandlerReconcileKeeps
  <2>7. CASE Release(w)
    BY <2>7, ReleaseKeeps
  <2>8. CASE LeaveRunning(w)
    BY <1>0, <2>8, StopKeeps DEF LeaveRunning
  <2> QED
    BY <1>1, <2>1, <2>2, <2>3, <2>4, <2>5, <2>6, <2>7, <2>8 DEF HandlerStep
<1>2. ASSUME NEW w \in Workers, RecoveryStep(w)
      PROVE  IInv'
  <2>1. CASE Resume(w)
    BY <1>0, <2>1, StopKeeps DEF Resume
  <2>2. CASE NothingLeft(w)
    BY <1>0, <2>2, StopKeeps DEF NothingLeft
  <2>3. CASE \E k \in Keys : Lease(w, k)
    BY <2>3, LeaseKeeps
  <2>4. CASE Ask(w)
    BY <2>4, AskKeeps
  <2>5. CASE AskFails(w)
    BY <1>0, <2>5, StopKeeps DEF AskFails
  <2>6. CASE Mark(w)
    BY <2>6, MarkKeeps
  <2> QED
    BY <1>2, <2>1, <2>2, <2>3, <2>4, <2>5, <2>6 DEF RecoveryStep
<1>3. ASSUME NEW w \in Workers, DispatchStep(w)
      PROVE  IInv'
  <2>1. CASE Start(w)
    BY <2>1, StartKeeps
  <2>2. CASE Lookup(w)
    BY <2>2, LookupKeeps
  <2>3. CASE Exec(w)
    BY <2>3, ExecKeeps
  <2>4. CASE RunFails(w)
    BY <2>4, RunFailsKeeps
  <2>5. CASE Acknowledge(w)
    BY <2>5, AcknowledgeKeeps
  <2>6. CASE Settle(w)
    BY <2>6, SettleKeeps
  <2>7. CASE Refused(w)
    BY <1>0, <2>7, StopKeeps DEF Refused
  <2> QED
    BY <1>3, <2>1, <2>2, <2>3, <2>4, <2>5, <2>6, <2>7 DEF DispatchStep
<1>4. ASSUME Surroundings
      PROVE  IInv'
  <2>1. CASE \E k \in Keys : Expire(k)
    BY <2>1, ExpireKeeps
  <2>2. CASE \E k \in Tasks : Progress(k)
    BY <2>2, ProgressKeeps
  <2>3. CASE \E k \in Tasks : Land(k)
    BY <2>3, LandKeeps
  <2>4. CASE ReachStop
    <3>1. UNCHANGED <<intents, seen, runs, late, timeouts, loc, crashes>>
          /\ stopped' \in BOOLEAN
      BY <2>4 DEF ReachStop
    <3>2. TypeOK'
      BY <3>1 DEF IInv, TypeOK, Open
    <3> QED
      BY <3>1, <3>2 DEF IInv, OneRunAtATime, InRun, GoodTask, TrueIntent, Calls,
         GoodWorker
  <2>5. ASSUME NEW w \in Workers, Crash(w)
        PROVE  IInv'
    <3>1. crashes' \in 0 .. MaxCrashes
      BY <1>0, <2>5, BoundAssumption DEF Crash
    <3> QED
      BY <2>5, <3>1, StopKeeps DEF Crash
  <2> QED
    BY <1>4, <2>1, <2>2, <2>3, <2>4, <2>5 DEF Surroundings
<1>5. CASE UNCHANGED vars
  <2>1. UNCHANGED <<intents, seen, stopped, runs, late, timeouts, loc, crashes>>
    BY <1>5 DEF vars
  <2>2. TypeOK'
    BY <2>1 DEF IInv, TypeOK, Open
  <2> QED
    BY <2>1, <2>2 DEF IInv, OneRunAtATime, InRun, GoodTask, TrueIntent, Calls,
       GoodWorker
<1> QED
  BY <1>1, <1>2, <1>3, <1>4, <1>5 DEF Next, Workers

\* The inductive invariant holds in every reachable state: what a worker may rely
\* on where it stands, and how intents and runs agree.
THEOREM Invariance == Spec => []IInv
  BY InitGood, NextKeeps, PTL DEF Spec

\* The store, the agent and the workers stay well typed, and only unfinished
\* intents are leased.
THEOREM TypeCorrect == Spec => []TypeOK
<1>1. IInv => TypeOK
  BY DEF IInv
<1> QED
  BY <1>1, Invariance, PTL

\* At most one worker talks to the agent about a task, whoever claims, leases,
\* crashes or comes back.
THEOREM Exclusive == Spec => []OneRunAtATime
<1>1. IInv => OneRunAtATime
  BY DEF IInv
<1> QED
  BY <1>1, Invariance, PTL

\* The agent accepts one run of a task and one more at most for every call that
\* reached it after the dispatcher had given it up.
THEOREM Once == Spec => []AcceptedOnce
<1>1. IInv => AcceptedOnce
  <2> SUFFICES ASSUME IInv, NEW k \in Tasks
               PROVE  Len(runs[k]) <= 1 + timeouts[k]
    BY DEF AcceptedOnce
  <2>1. /\ runs[k] \in Seq(RunStates) /\ late[k] \in Nat /\ timeouts[k] \in 0 .. MaxLate
        /\ GoodTask(k)
    BY DEF IInv, TypeOK
  <2>2. Len(runs[k]) \in Nat /\ timeouts[k] \in Nat
    BY <2>1, BoundAssumption
  <2> QED
    BY <2>1, <2>2 DEF GoodTask, Calls
<1> QED
  BY <1>1, Invariance, PTL

\* A completed intent names a run the agent has completed.
THEOREM CompletionsAreTrue == Spec => []CompletedIsTrue
<1>1. IInv => CompletedIsTrue
  BY DEF IInv, GoodTask, TrueIntent, CompletedIsTrue
<1> QED
  BY <1>1, Invariance, PTL

\* What the writes of a step do to an intent that is there.
SettledStep ==
    \A k \in Keys : intents[k] # None =>
        /\ intents'[k] # None
        /\ intents[k].status \in TerminalStates => intents'[k] = intents[k]
        /\ intents[k].run # 0 => intents'[k].run # 0

LEMMA TransitionSettles ==
  ASSUME IInv, NEW w \in Workers, NEW status, NEW ref \in Nat, NEW r,
         Transition(w, status, ref, r),
         loc[w].key \in Keys, intents[loc[w].key] # None
  PROVE  SettledStep
<1> DEFINE k == loc[w].key
<1>1. /\ intents[k].status \in OpenStates /\ intents'[k] # None
      /\ intents'[k].run = IF ref = 0 THEN intents[k].run ELSE ref
  BY Stored
<1>2. \A j \in Keys \ {k} : intents'[j] = intents[j]
  BY DEF Transition, IInv, TypeOK
<1>3. intents[k].status \notin TerminalStates
  BY <1>1 DEF OpenStates, TerminalStates
<1> QED
  BY <1>1, <1>2, <1>3 DEF SettledStep

\* No write of any worker, stale or not, changes a settled intent or forgets that
\* a run was recorded.
THEOREM SettledForGood == Spec => SettledStays
<1>1. ASSUME IInv, [Next]_vars
      PROVE  SettledStep
  <2>1. ASSUME UNCHANGED intents
        PROVE  SettledStep
    BY <2>1 DEF SettledStep
  <2>2. ASSUME NEW w \in Workers,
               Start(w) \/ Acknowledge(w) \/ Settle(w) \/ Release(w) \/ Mark(w)
        PROVE  SettledStep
    <3>1. loc[w].pc \in DispatchSteps
      BY <2>2 DEF Start, Acknowledge, Settle, Release, Mark, At, DispatchSteps
    <3>2. loc[w].key \in Keys /\ intents[loc[w].key] # None /\ loc[w].ref \in Nat
      BY <1>1, <3>1, Taken DEF Worker
    <3> QED
      BY <1>1, <2>2, <3>2, TransitionSettles
         DEF Start, Acknowledge, Settle, Release, Mark
  <2>3. ASSUME NEW w \in Workers, CompleteCheck(w)
        PROVE  SettledStep
    <3>1. loc[w].key \in Keys /\ intents[loc[w].key] # None
      BY <1>1, <2>3, WorkerGood DEF CompleteCheck, At, GoodWorker, Keys
    <3> QED
      BY <1>1, <2>3, <3>1, TransitionSettles DEF CompleteCheck
  <2>4. ASSUME NEW w \in Workers, ClaimNew(w)
        PROVE  SettledStep
    BY <1>1, <2>4 DEF ClaimNew, SettledStep, IInv, TypeOK
  <2>5. ASSUME NEW w \in Workers, NEW k \in Keys, Lease(w, k)
        PROVE  SettledStep
    <3>1. intents[k] \in Intent /\ intents[k].status \notin TerminalStates
      BY <1>1, <2>5 DEF Lease, Leasable, Open, OpenStates, TerminalStates,
         IInv, TypeOK
    <3>2. /\ intents'[k] \in Intent /\ intents'[k].run = intents[k].run
          /\ \A j \in Keys \ {k} : intents'[j] = intents[j]
      BY <1>1, <2>5, <3>1 DEF Lease, IInv, TypeOK, Intent
    <3> QED
      BY <3>1, <3>2, NoneAssumption DEF SettledStep
  <2>6. CASE UNCHANGED vars
    BY <2>1, <2>6 DEF vars
  <2>7. ASSUME NEW k \in Keys, Expire(k)
        PROVE  SettledStep
    <3>1. intents[k] \in Intent /\ intents[k].status \notin TerminalStates
      BY <1>1, <2>7 DEF Expire, Open, OpenStates, TerminalStates, IInv, TypeOK
    <3>2. /\ intents'[k] \in Intent /\ intents'[k].run = intents[k].run
          /\ \A j \in Keys \ {k} : intents'[j] = intents[j]
      BY <1>1, <2>7, <3>1 DEF Expire, IInv, TypeOK, Intent
    <3> QED
      BY <3>1, <3>2, NoneAssumption DEF SettledStep
  <2>8. ASSUME NEW w \in Workers, HandlerStep(w)
        PROVE  SettledStep
    BY <2>1, <2>2, <2>3, <2>4, <2>8 DEF HandlerStep, Receive, Refuse, ClaimKnown,
       HandlerReconcile, LeaveRunning
  <2>9. ASSUME NEW w \in Workers, RecoveryStep(w)
        PROVE  SettledStep
    BY <2>1, <2>2, <2>5, <2>9 DEF RecoveryStep, Resume, NothingLeft, Ask, AskFails
  <2>10. ASSUME NEW w \in Workers, DispatchStep(w)
         PROVE  SettledStep
    BY <2>1, <2>2, <2>10 DEF DispatchStep, Lookup, Exec, RunFails, Refused
  <2>11. ASSUME Surroundings
         PROVE  SettledStep
    BY <2>1, <2>7, <2>11 DEF Surroundings, Progress, Land, ReachStop, Crash
  <2> QED
    BY <1>1, <2>6, <2>8, <2>9, <2>10, <2>11 DEF Next, Workers
<1>2. SettledStep => [SettledStep]_vars
  OBVIOUS
<1>3. Spec => [][SettledStep]_vars
  BY <1>1, Invariance, PTL DEF Spec
<1> QED
  BY <1>3, PTL DEF SettledStays, SettledStep
-----------------------------------------------------------------------------
(* The dispatcher implements DispatchOnce. *)

\* Worker w goes on as r, every other one stays where it is with its task.
Moved(w, r) ==
    /\ loc' \in [Workers -> Worker]
    /\ loc'[w] = r
    /\ \A v \in Workers \ {w} : loc'[v].pc = loc[v].pc /\ loc'[v].key = loc[v].key

LEMMA Moves ==
  ASSUME IInv, NEW w \in Workers, NEW r \in Worker, NEW k,
         Goes(w, r) \/ Wrote(w, k, r)
  PROVE  Moved(w, r)
<1>1. loc \in [Workers -> Worker]
  BY DEF IInv, TypeOK
<1>2. CASE Goes(w, r)
  BY <1>1, <1>2 DEF Goes, Moved
<1>3. CASE Wrote(w, k, r)
  BY <1>1, <1>3 DEF Wrote, Moved, Holds, Worker
<1> QED
  BY <1>2, <1>3

\* A worker that is in a run before and after, or neither, leaves the runs as they
\* are; one that comes joins that of its task, and one that goes leaves it.
LEMMA WhoRuns ==
  ASSUME NEW w \in Workers, NEW r \in Worker, Moved(w, r)
  PROVE  /\ r.pc \in RunSteps /\ loc[w].pc \in RunSteps /\ r.key = loc[w].key
              => \A k \in Tasks : InRunOf(k)' = InRunOf(k)
         /\ r.pc \notin RunSteps /\ loc[w].pc \notin RunSteps
              => \A k \in Tasks : InRunOf(k)' = InRunOf(k)
         /\ r.pc \notin RunSteps /\ loc[w].pc \in RunSteps
              => \A k \in Tasks : InRunOf(k)' = InRunOf(k) \ {w}
         /\ r.pc \in RunSteps /\ loc[w].pc \notin RunSteps
              => \A k \in Tasks : InRunOf(k)' = IF k = r.key THEN InRunOf(k) \cup {w}
                                                ELSE InRunOf(k)
<1>1. /\ loc'[w].pc = r.pc /\ loc'[w].key = r.key
      /\ \A v \in Workers \ {w} : loc'[v].pc = loc[v].pc /\ loc'[v].key = loc[v].key
  BY DEF Moved
<1>2. ASSUME NEW k \in Tasks
      PROVE  /\ w \in InRunOf(k)' <=> r.pc \in RunSteps /\ r.key = k
             /\ w \in InRunOf(k) <=> loc[w].pc \in RunSteps /\ loc[w].key = k
             /\ \A v : v # w => (v \in InRunOf(k)' <=> v \in InRunOf(k))
  BY <1>1 DEF InRunOf, InRun, RunSteps
<1>3. ASSUME NEW k \in Tasks, NEW S, NEW T, S = InRunOf(k), T = InRunOf(k)'
      PROVE  /\ r.pc \in RunSteps /\ loc[w].pc \in RunSteps /\ r.key = loc[w].key
                  => T = S
             /\ r.pc \notin RunSteps /\ loc[w].pc \notin RunSteps => T = S
             /\ r.pc \notin RunSteps /\ loc[w].pc \in RunSteps => T = S \ {w}
             /\ r.pc \in RunSteps /\ loc[w].pc \notin RunSteps
                  => T = IF k = r.key THEN S \cup {w} ELSE S
  <2>1. /\ w \in T <=> r.pc \in RunSteps /\ r.key = k
        /\ w \in S <=> loc[w].pc \in RunSteps /\ loc[w].key = k
        /\ \A v : v # w => (v \in T <=> v \in S)
    BY <1>2, <1>3
  <2> QED
    BY <2>1
<1> QED
  BY <1>3

\* A task that is claimed has nobody in a run, and any has one worker at most.
LEMMA OneRuns ==
  ASSUME IInv, NEW k \in Tasks
  PROVE  /\ intents[k] = None \/ intents[k].status = "claimed" => InRunOf(k) = {}
         /\ \A w \in InRunOf(k) : InRunOf(k) = {w}
<1>1. \A w \in InRunOf(k) : w \in Workers /\ loc[w].pc \in RunSteps /\ loc[w].key = k
  BY DEF InRunOf, InRun, RunSteps
<1>2. \A w \in InRunOf(k) : intents[k] # None /\ intents[k].status # "claimed"
  BY <1>1 DEF IInv, GoodWorker, RunSteps, DispatchSteps
<1>3. \A v, w \in InRunOf(k) : v = w
  BY DEF IInv, OneRunAtATime, InRunOf
<1> QED
  BY <1>2, <1>3

\* The state that DispatchOnce sees of task k.
SameTask(k) ==
    /\ PhaseOf(intents'[k]) = PhaseOf(intents[k])
    /\ Len(runs'[k]) = Len(runs[k])
    /\ late'[k] = late[k] /\ timeouts'[k] = timeouts[k]

\* A step of which DispatchOnce sees nothing.
LEMMA Unseen ==
  ASSUME \A k \in Tasks : SameTask(k) /\ InRunOf(k)' = InRunOf(k),
         late' = late, timeouts' = timeouts
  PROVE  UNCHANGED Lock!vars
BY DEF SameTask, Lock!vars

\* A step in which worker w moves, and of which DispatchOnce sees at most that it
\* leaves the run it was in.
LEMMA MovesOnly ==
  ASSUME IInv, NEW w \in Workers, NEW r \in Worker, Moved(w, r),
         UNCHANGED <<late, timeouts>>,
         \A k \in Tasks : SameTask(k),
         r.pc \in RunSteps => loc[w].pc \in RunSteps /\ loc[w].key = r.key
  PROVE  [Lock!Next]_(Lock!vars)
<1>1. CASE r.pc \in RunSteps \/ loc[w].pc \notin RunSteps
  BY <1>1, WhoRuns, Unseen
<1>2. CASE r.pc \notin RunSteps /\ loc[w].pc \in RunSteps
  <2>1. \A k \in Tasks : InRunOf(k)' = InRunOf(k) \ {w}
    BY <1>2, WhoRuns
  <2>2. PICK k \in Tasks : k = loc[w].key
    BY <1>2, Taken DEF RunSteps, DispatchSteps
  <2>3. w \in InRunOf(k) /\ \A j \in Tasks \ {k} : w \notin InRunOf(j)
    BY <1>2, <2>2 DEF InRunOf, InRun, RunSteps
  <2>4. \A j \in Tasks \ {k} : InRunOf(j)' = InRunOf(j)
    BY <2>1, <2>3
  <2>5. Lock!Leave(k, w)
    BY <2>1, <2>3, <2>4 DEF Lock!Leave, SameTask
  <2> QED
    BY <2>5 DEF Lock!Next
<1> QED
  BY <1>1, <1>2

\* A worker that gives up, returns or looks for the next intent.
LEMMA StopRefines ==
  ASSUME IInv, NEW w \in Workers, Goes(w, Idle) \/ Goes(w, Finished(w)),
         UNCHANGED <<intents, runs, late, timeouts>>
  PROVE  [Lock!Next]_(Lock!vars)
<1>1. \A k \in Tasks : SameTask(k)
  BY DEF SameTask
<1>2. Moved(w, Idle) \/ Moved(w, Finished(w))
  BY IdleGood, Moves
<1> QED
  BY <1>1, <1>2, IdleGood, MovesOnly

\* A worker that learns something and writes nothing.
LEMMA LearnRefines ==
  ASSUME IInv, NEW w \in Workers, NEW r \in Worker, Goes(w, r),
         UNCHANGED <<intents, runs, late, timeouts>>,
         r.pc \in RunSteps => loc[w].pc \in RunSteps /\ loc[w].key = r.key
  PROVE  [Lock!Next]_(Lock!vars)
<1>1. \A k \in Tasks : SameTask(k)
  BY DEF SameTask
<1>2. Moved(w, r)
  BY Moves
<1> QED
  BY <1>1, <1>2, MovesOnly

LEMMA ReceiveRefines ==
  ASSUME IInv, NEW w \in Workers, NEW d \in Deliveries, Receive(w, d)
  PROVE  [Lock!Next]_(Lock!vars)
<1>1. PICK r \in Worker : r = [Idle EXCEPT !.pc = "claim", !.key = Target[d]]
  BY TargetAssumption DEF Idle, Worker, Steps
<1>2. r.pc \notin RunSteps
  BY <1>1 DEF Idle, RunSteps
<1> QED
  BY <1>1, <1>2, LearnRefines DEF Receive

LEMMA ClaimKnownRefines ==
  ASSUME IInv, NEW w \in Workers, ClaimKnown(w)
  PROVE  [Lock!Next]_(Lock!vars)
<1> DEFINE k == loc[w].key
<1>1. loc[w] \in Worker
  BY WorkerGood
<1>2. CASE TakesOver(k)
  <2>1. PICK r \in Worker :
          r = [loc[w] EXCEPT !.pc = "start", !.st = intents[k].status, !.fresh = TRUE]
    BY <1>1, <1>2 DEF TakesOver, Worker, Steps, IntentStates, OpenStates
  <2>2. r.pc \notin RunSteps
    BY <1>1, <2>1 DEF Worker, RunSteps
  <2> QED
    BY <1>2, <2>1, <2>2, LearnRefines DEF ClaimKnown
<1>3. CASE ~TakesOver(k)
  BY <1>3, StopRefines DEF ClaimKnown
<1> QED
  BY <1>2, <1>3

LEMMA HandlerReconcileRefines ==
  ASSUME IInv, NEW w \in Workers, HandlerReconcile(w)
  PROVE  [Lock!Next]_(Lock!vars)
<1> DEFINE k == loc[w].key
<1>1. /\ loc[w] \in Worker /\ loc[w].pc = "reconcile" /\ runs[k] \in Seq(RunStates)
      /\ UNCHANGED <<intents, runs, late, timeouts>>
  BY Taken DEF HandlerReconcile, At, DispatchSteps
<1>2. ASSUME NEW i \in DOMAIN runs[k],
             Goes(w, [loc[w] EXCEPT !.pc = "ack", !.ref = i, !.to = runs[k][i]])
      PROVE  [Lock!Next]_(Lock!vars)
  <2>1. PICK r \in Worker : r = [loc[w] EXCEPT !.pc = "ack", !.ref = i, !.to = runs[k][i]]
    <3>1. i \in Nat /\ runs[k][i] \in RunStates
      BY <1>1
    <3> QED
      BY <1>1, <3>1 DEF Worker, Steps
  <2>2. r.pc \notin RunSteps
    BY <1>1, <2>1 DEF Worker, RunSteps
  <2> QED
    BY <1>1, <1>2, <2>1, <2>2, LearnRefines
<1>3. ASSUME Goes(w, [loc[w] EXCEPT !.pc = "release"])
      PROVE  [Lock!Next]_(Lock!vars)
  <2>1. PICK r \in Worker : r = [loc[w] EXCEPT !.pc = "release"]
    BY <1>1 DEF Worker, Steps
  <2>2. loc[w].pc \in RunSteps /\ r.key = loc[w].key
    BY <1>1, <2>1 DEF Worker, RunSteps
  <2> QED
    BY <1>1, <1>3, <2>1, <2>2, LearnRefines
<1>4. ASSUME Goes(w, Idle)
      PROVE  [Lock!Next]_(Lock!vars)
  BY <1>1, <1>4, StopRefines
<1> QED
  BY <1>2, <1>3, <1>4 DEF HandlerReconcile

LEMMA LookupRefines ==
  ASSUME IInv, NEW w \in Workers, Lookup(w)
  PROVE  [Lock!Next]_(Lock!vars)
<1> DEFINE k == loc[w].key
<1>1. /\ loc[w] \in Worker /\ loc[w].pc = "lookup" /\ runs[k] \in Seq(RunStates)
      /\ UNCHANGED <<intents, runs, late, timeouts>>
  BY Taken DEF Lookup, At, DispatchSteps
<1>2. ASSUME NEW i \in DOMAIN runs[k], NEW a \in {runs[k][i], "running"},
             Goes(w, [loc[w] EXCEPT !.pc = "ack", !.ref = i, !.to = a])
      PROVE  [Lock!Next]_(Lock!vars)
  <2>1. i \in Nat /\ a \in RunStates
    BY <1>1 DEF RunStates
  <2>2. PICK r \in Worker : r = [loc[w] EXCEPT !.pc = "ack", !.ref = i, !.to = a]
    BY <1>1, <2>1 DEF Worker, Steps
  <2>3. r.pc \notin RunSteps
    BY <1>1, <2>2 DEF Worker, RunSteps
  <2> QED
    BY <1>1, <1>2, <2>2, <2>3, LearnRefines
<1>3. ASSUME Goes(w, [loc[w] EXCEPT !.pc = "exec"])
      PROVE  [Lock!Next]_(Lock!vars)
  <2>1. PICK r \in Worker : r = [loc[w] EXCEPT !.pc = "exec"]
    BY <1>1 DEF Worker, Steps
  <2>2. loc[w].pc \in RunSteps /\ r.key = loc[w].key
    BY <1>1, <2>1 DEF Worker, RunSteps
  <2> QED
    BY <1>1, <1>3, <2>1, <2>2, LearnRefines
<1> QED
  BY <1>2, <1>3 DEF Lookup

LEMMA AskRefines ==
  ASSUME IInv, NEW w \in Workers, Ask(w)
  PROVE  [Lock!Next]_(Lock!vars)
<1> DEFINE k == loc[w].key
<1>1. /\ loc[w] \in Worker /\ GoodWorker(loc[w]) /\ loc[w].pc = "ask"
      /\ runs[k] \in Seq(RunStates)
      /\ UNCHANGED <<intents, runs, late, timeouts>>
  BY Taken DEF Ask, At, DispatchSteps
<1>2. WithoutRun(w) \in Worker /\ WithoutRun(w).pc \notin RunSteps
  <2>1. CASE loc[w].st = "running"
    BY <1>1, <2>1 DEF WithoutRun, Worker, Steps, IntentStates, TerminalStates, RunSteps
  <2>2. CASE loc[w].st # "running"
    BY <1>1, <2>2 DEF WithoutRun, Worker, Steps, RunSteps
  <2> QED
    BY <2>1, <2>2
<1>3. ASSUME NEW i \in DOMAIN runs[k]
      PROVE  LET r == WithRun(w, i, runs[k][i]) IN
             r = Finished(w) \/ (r \in Worker /\ r.pc \notin RunSteps)
  <2> DEFINE s == runs[k][i]
  <2>1. i \in Nat /\ s \in RunStates
    BY <1>1
  <2>2. CASE s \in {"completed", "failed"}
    BY <1>1, <2>1, <2>2 DEF WithRun, Worker, Steps, RunSteps
  <2>3. CASE s = "running" /\ loc[w].ref # i
    <3>1. loc[w].st \in IntentStates
      BY <1>1 DEF GoodWorker, IntentStates
    <3> QED
      BY <1>1, <2>1, <2>3, <3>1 DEF WithRun, Worker, Steps, RunSteps
  <2>4. CASE s = "running" /\ loc[w].ref = i
    BY <2>4 DEF WithRun
  <2>5. CASE s = "odd"
    BY <1>2, <2>5 DEF WithRun
  <2> QED
    BY <2>1, <2>2, <2>3, <2>4, <2>5 DEF RunStates
<1>4. ASSUME NEW r \in Worker, r.pc \notin RunSteps, Goes(w, r)
      PROVE  [Lock!Next]_(Lock!vars)
  BY <1>1, <1>4, LearnRefines
<1>5. Goes(w, Finished(w)) => [Lock!Next]_(Lock!vars)
  BY <1>1, StopRefines
<1> QED
  BY <1>2, <1>3, <1>4, <1>5 DEF Ask

\* What a transition of worker w changes of the tasks.
LEMMA TransitionSeen ==
  ASSUME IInv, NEW w \in Workers, NEW status, NEW ref \in Nat, NEW r \in Worker,
         Transition(w, status, ref, r),
         loc[w].key \in Keys, intents[loc[w].key] # None
  PROVE  LET k == loc[w].key IN
         /\ Moved(w, r) /\ loc[w].fresh
         /\ UNCHANGED <<runs, late, timeouts>>
         /\ intents[k].status \in OpenStates /\ status \in IntentStates
         /\ intents[k].status = "claimed" => status # "claimed"
         /\ intents'[k] # None /\ intents'[k].status = status
         /\ \A j \in Tasks \ {k} : SameTask(j)
<1>1. Moved(w, r)
  BY Moves DEF Transition
<1>2. \A j \in Keys \ {loc[w].key} : intents'[j] = intents[j]
  BY DEF Transition, IInv, TypeOK
<1>3. UNCHANGED <<runs, late, timeouts>>
  BY DEF Transition
<1>4. \A j \in Tasks \ {loc[w].key} : SameTask(j)
  BY <1>2, <1>3 DEF SameTask, Keys
<1> QED
  BY <1>1, <1>3, <1>4, Stored

\* A write that keeps the status of a task.
LEMMA SameStatus ==
  ASSUME NEW k, intents[k] # None, intents'[k] # None,
         intents'[k].status = intents[k].status, UNCHANGED <<runs, late, timeouts>>
  PROVE  SameTask(k)
BY DEF SameTask, PhaseOf

LEMMA StartRefines ==
  ASSUME IInv, NEW w \in Workers, Start(w)
  PROVE  Lock!Next
<1>1. PICK k \in Tasks : k = loc[w].key
  BY Taken DEF Start, At, DispatchSteps
<1>2. PICK r \in Worker : r = [loc[w] EXCEPT !.pc = "lookup", !.st = "running"]
  BY WorkerGood DEF Worker, Steps, IntentStates, OpenStates
<1>3. /\ loc[w].pc = "start" /\ Transition(w, "running", 0, r)
      /\ loc[w] \in Worker /\ GoodWorker(loc[w]) /\ GoodTask(k)
      /\ k \in Keys /\ intents[k] # None
  BY <1>1, <1>2, Taken DEF Start, At, DispatchSteps
<1>4. /\ Moved(w, r) /\ loc[w].fresh /\ UNCHANGED <<runs, late, timeouts>>
      /\ intents'[k] # None /\ intents'[k].status = "running"
      /\ \A j \in Tasks \ {k} : SameTask(j)
  BY <1>1, <1>3, TransitionSeen
<1>5. intents[k].status = "claimed" /\ Calls(k) <= timeouts[k]
  BY <1>1, <1>3, <1>4 DEF GoodWorker, GoodTask
<1>6. InRunOf(k) = {}
  BY <1>5, OneRuns
<1>7. r.pc \in RunSteps /\ loc[w].pc \notin RunSteps /\ r.key = k
  BY <1>1, <1>2, <1>3 DEF Worker, RunSteps
<1>8. InRunOf(k)' = {w} /\ \A j \in Tasks \ {k} : InRunOf(j)' = InRunOf(j)
  BY <1>4, <1>6, <1>7, WhoRuns
<1>9. PhaseOf(intents[k]) = "free" /\ PhaseOf(intents'[k]) = "taken"
  BY <1>3, <1>4, <1>5 DEF PhaseOf
<1>10. Lock!Take(k, w)
  BY <1>4, <1>5, <1>6, <1>8, <1>9
     DEF Lock!Take, Lock!Uncalled, SameTask, Calls
<1> QED
  BY <1>10 DEF Lock!Next

LEMMA ReleaseRefines ==
  ASSUME IInv, NEW w \in Workers, Release(w)
  PROVE  Lock!Next
<1>1. PICK k \in Tasks : k = loc[w].key
  BY Taken DEF Release, At, DispatchSteps
<1>2. /\ loc[w].pc = "release" /\ Transition(w, "claimed", 0, Idle) /\ Idle \in Worker
      /\ GoodWorker(loc[w]) /\ k \in Keys /\ intents[k] # None
  BY <1>1, Taken, IdleGood DEF Release, At, DispatchSteps
<1>3. /\ Moved(w, Idle) /\ UNCHANGED <<runs, late, timeouts>>
      /\ intents[k].status \in OpenStates
      /\ intents'[k] # None /\ intents'[k].status = "claimed"
      /\ \A j \in Tasks \ {k} : SameTask(j)
  BY <1>1, <1>2, TransitionSeen
<1>4. /\ intents[k].status = "running" /\ Calls(k) <= timeouts[k]
      /\ loc[w].pc \in RunSteps /\ Idle.pc \notin RunSteps
  BY <1>1, <1>2, <1>3, IdleGood DEF GoodWorker, OpenStates, RunSteps
<1>5. w \in InRunOf(k) /\ \A j \in Tasks \ {k} : w \notin InRunOf(j)
  BY <1>1, <1>4 DEF InRunOf, InRun, RunSteps
<1>6. InRunOf(k) = {w}
  BY <1>5, OneRuns
<1>7. InRunOf(k)' = {} /\ \A j \in Tasks \ {k} : InRunOf(j)' = InRunOf(j)
  BY <1>3, <1>4, <1>5, <1>6, IdleGood, WhoRuns
<1>8. PhaseOf(intents[k]) = "taken" /\ PhaseOf(intents'[k]) = "free"
  BY <1>2, <1>3, <1>4 DEF PhaseOf
<1>9. Lock!GiveBack(k, w)
  BY <1>3, <1>4, <1>6, <1>7, <1>8
     DEF Lock!GiveBack, Lock!Uncalled, SameTask, Calls
<1> QED
  BY <1>9 DEF Lock!Next

LEMMA CompleteCheckRefines ==
  ASSUME IInv, NEW w \in Workers, CompleteCheck(w)
  PROVE  [Lock!Next]_(Lock!vars)
<1> DEFINE k == loc[w].key
<1>1. /\ Transition(w, "completed", 0, Idle) /\ Idle \in Worker /\ Idle.pc \notin RunSteps
      /\ k \in Keys /\ k \notin Tasks /\ intents[k] # None
  BY WorkerGood, IdleGood, KeysAssumption DEF CompleteCheck, At, GoodWorker, Keys
<1>2. /\ Moved(w, Idle) /\ UNCHANGED <<late, timeouts>>
      /\ \A j \in Tasks : SameTask(j)
  BY <1>1, TransitionSeen
<1> QED
  BY <1>1, <1>2, MovesOnly

LEMMA AcknowledgeRefines ==
  ASSUME IInv, NEW w \in Workers, Acknowledge(w)
  PROVE  [Lock!Next]_(Lock!vars)
<1> DEFINE k == loc[w].key
<1>1. PICK r \in Worker : r = [loc[w] EXCEPT !.pc = "settle"]
  BY WorkerGood DEF Worker, Steps
<1>2. /\ loc[w] \in Worker /\ GoodWorker(loc[w]) /\ loc[w].ref \in Nat
      /\ loc[w].pc = "ack" /\ Transition(w, "running", loc[w].ref, r)
      /\ k \in Tasks /\ k \in Keys /\ intents[k] # None
  BY <1>1, Taken DEF Acknowledge, At, DispatchSteps, Worker
<1>3. /\ Moved(w, r) /\ UNCHANGED <<runs, late, timeouts>>
      /\ intents[k].status \in OpenStates
      /\ intents'[k] # None /\ intents'[k].status = "running"
      /\ \A j \in Tasks \ {k} : SameTask(j)
  BY <1>2, TransitionSeen
<1>4. intents[k].status = "running" /\ SameTask(k)
  <2>1. intents[k].status = "running"
    BY <1>2, Stored DEF GoodWorker
  <2> QED
    BY <1>2, <1>3, <2>1, SameStatus
<1>5. r.pc \notin RunSteps
  BY <1>1, <1>2 DEF Worker, RunSteps
<1> QED
  BY <1>3, <1>4, <1>5, MovesOnly

\* A write that settles task k, by a worker that is in no run.
LEMMA SettlesTask ==
  ASSUME IInv, NEW w \in Workers, NEW status, NEW ref \in Nat, NEW r \in Worker,
         Transition(w, status, ref, r), NEW k \in Tasks, loc[w].key = k,
         intents[k] # None, status \notin OpenStates,
         status = "unknown" \/ Len(runs[k]) > 0,
         r.pc \notin RunSteps, loc[w].pc \notin RunSteps
  PROVE  Lock!Next
<1>1. /\ Moved(w, r) /\ UNCHANGED <<runs, late, timeouts>>
      /\ intents[k].status \in OpenStates /\ status \in IntentStates
      /\ intents'[k] # None /\ intents'[k].status = status
      /\ \A j \in Tasks \ {k} : SameTask(j)
  BY TransitionSeen DEF Keys
<1>2. \A j \in Tasks : InRunOf(j)' = InRunOf(j)
  BY <1>1, WhoRuns
<1>3. PhaseOf(intents[k]) \in {"free", "taken"}
  BY <1>1 DEF PhaseOf, OpenStates
<1>4. PhaseOf(intents'[k]) = IF status = "unknown" THEN "uncertain" ELSE "ended"
  BY <1>1 DEF PhaseOf, OpenStates
<1>5. Lock!Settle(k)
  BY <1>1, <1>2, <1>3, <1>4 DEF Lock!Settle, SameTask
<1> QED
  BY <1>5 DEF Lock!Next

LEMMA SettleRefines ==
  ASSUME IInv, NEW w \in Workers, Settle(w)
  PROVE  Lock!Next
<1>1. PICK k \in Tasks : k = loc[w].key
  BY Taken DEF Settle, At, DispatchSteps
<1>2. PICK s : s = Settled(w, loc[w].to)
  OBVIOUS
<1>3. s \in {"completed", "failed", "blocked"}
  BY <1>2 DEF Settled
<1>4. /\ loc[w].pc = "settle" /\ Transition(w, s, 0, Finished(w))
      /\ GoodWorker(loc[w]) /\ intents[k] # None /\ runs[k] \in Seq(RunStates)
  BY <1>1, <1>2, Taken DEF Settle, At, DispatchSteps
<1>5. Len(runs[k]) > 0
  BY <1>1, <1>4 DEF GoodWorker
<1>6. s \notin OpenStates /\ loc[w].pc \notin RunSteps
  BY <1>3, <1>4 DEF OpenStates, RunSteps
<1> QED
  BY <1>1, <1>4, <1>5, <1>6, IdleGood, SettlesTask

LEMMA MarkRefines ==
  ASSUME IInv, NEW w \in Workers, Mark(w)
  PROVE  [Lock!Next]_(Lock!vars)
<1>1. PICK k \in Tasks : k = loc[w].key
  BY Taken DEF Mark, At, DispatchSteps
<1>2. PICK s : s = loc[w].to
  OBVIOUS
<1>3. /\ loc[w].pc = "mark" /\ Transition(w, s, loc[w].ref, Finished(w))
      /\ loc[w].ref \in Nat /\ GoodWorker(loc[w]) /\ k \in Keys
      /\ intents[k] # None /\ runs[k] \in Seq(RunStates)
  BY <1>1, <1>2, Taken DEF Mark, At, DispatchSteps, Worker
<1>4. loc[w].pc \notin RunSteps
  BY <1>3 DEF RunSteps
<1>5. CASE s \in OpenStates
  <2>1. /\ Moved(w, Finished(w)) /\ loc[w].fresh /\ UNCHANGED <<runs, late, timeouts>>
        /\ intents'[k] # None /\ intents'[k].status = s
        /\ \A j \in Tasks \ {k} : SameTask(j)
    BY <1>1, <1>3, IdleGood, TransitionSeen
  <2>2. intents[k].status = s
    BY <1>1, <1>2, <1>3, <1>5, <2>1 DEF GoodWorker
  <2>3. SameTask(k)
    BY <1>3, <2>1, <2>2, SameStatus
  <2> QED
    BY <2>1, <2>3, IdleGood, MovesOnly
<1>6. CASE s \notin OpenStates
  <2>1. s = "unknown" \/ Len(runs[k]) > 0
    BY <1>1, <1>2, <1>3, <1>6 DEF GoodWorker
  <2> QED
    BY <1>1, <1>3, <1>4, <1>6, <2>1, IdleGood, SettlesTask
<1> QED
  BY <1>5, <1>6

LEMMA LeaseRefines ==
  ASSUME IInv, NEW w \in Workers, NEW k \in Keys, Lease(w, k)
  PROVE  [Lock!Next]_(Lock!vars)
<1>1. /\ intents \in [Keys -> Intent \cup {None}] /\ intents[k] \in Intent
      /\ intents[k] # None
  BY DEF IInv, TypeOK, Lease, Leasable, Open
<1>2. /\ \A j \in Keys \ {k} : intents'[j] = intents[j]
      /\ intents'[k] \in Intent /\ intents'[k].status = intents[k].status
      /\ UNCHANGED <<runs, late, timeouts>>
  BY <1>1 DEF Lease, Intent
<1>3. \A j \in Tasks : SameTask(j)
  <2>1. SameTask(k)
    BY <1>1, <1>2, NoneAssumption, SameStatus
  <2> QED
    BY <1>2, <2>1 DEF SameTask, Keys
<1>4. PICK r \in Worker : Wrote(w, k, r) /\ r.pc \notin RunSteps
  <2>1. CASE k \in Tasks
    <3>1. PICK r \in Worker :
            r = [pc |-> "ask", key |-> k, st |-> intents[k].status,
                 to |-> None, ref |-> intents[k].run, fresh |-> TRUE]
      BY <1>1 DEF Worker, Steps, Intent
    <3> QED
      BY <2>1, <3>1 DEF Lease, RunSteps
  <2>2. CASE k \notin Tasks
    BY <2>2, IdleGood DEF Lease
  <2> QED
    BY <2>1, <2>2
<1>5. Moved(w, r)
  BY <1>4, Moves
<1> QED
  BY <1>2, <1>3, <1>4, <1>5, MovesOnly

LEMMA ClaimNewRefines ==
  ASSUME IInv, NEW w \in Workers, ClaimNew(w)
  PROVE  [Lock!Next]_(Lock!vars)
<1> DEFINE k == loc[w].key
<1>1. /\ loc[w] \in Worker /\ loc[w].pc = "claim" /\ k \in Keys
      /\ intents \in [Keys -> Intent \cup {None}] /\ intents[k] = None
  BY WorkerGood DEF ClaimNew, At, GoodWorker, Worker, IInv, TypeOK
<1>2. PICK r \in Worker :
        r = [loc[w] EXCEPT !.pc = IF k \in Tasks THEN "start" ELSE "complete",
                           !.st = "claimed", !.fresh = TRUE]
  BY <1>1 DEF Worker, Steps, IntentStates, OpenStates
<1>3. r.pc \notin RunSteps /\ loc[w].pc \notin RunSteps
  BY <1>1, <1>2 DEF Worker, RunSteps
<1>4. Moved(w, r) /\ UNCHANGED <<runs, late, timeouts>>
  BY <1>2, Moves DEF ClaimNew
<1>5. PICK e \in Intent : e = [status |-> "claimed", leased |-> FALSE, run |-> 0]
  BY DEF Intent, IntentStates, OpenStates
<1>6. intents'[k] = e /\ \A j \in Keys \ {k} : intents'[j] = intents[j]
  BY <1>1, <1>5 DEF ClaimNew
<1>7. \A j \in Tasks \ {k} : SameTask(j)
  BY <1>4, <1>6 DEF SameTask, Keys
<1>8. CASE k \in Tasks
  <2>1. PhaseOf(intents[k]) = "absent" /\ PhaseOf(intents'[k]) = "free"
    <3>1. e.status = "claimed" /\ e # None
      BY <1>5, NoneAssumption
    <3> QED
      BY <1>1, <1>6, <3>1 DEF PhaseOf
  <2>2. \A j \in Tasks : InRunOf(j)' = InRunOf(j)
    BY <1>3, <1>4, WhoRuns
  <2>3. Lock!Claim(k)
    BY <1>4, <1>7, <1>8, <2>1, <2>2 DEF Lock!Claim, SameTask
  <2> QED
    BY <1>8, <2>3 DEF Lock!Next
<1>9. CASE k \notin Tasks
  BY <1>3, <1>4, <1>7, <1>9, MovesOnly
<1> QED
  BY <1>8, <1>9

\* Where worker w that has a call of task k under way goes with it, in the terms of
\* DispatchOnce: it leaves the run, or keeps it to reconcile.
LEMMA CallerGoes ==
  ASSUME IInv, NEW w \in Workers, At(w, "exec"), NEW k \in Tasks, loc[w].key = k,
         NEW r \in Worker, Goes(w, r), r.pc \in RunSteps => r.key = k
  PROVE  /\ w \in InRunOf(k)
         /\ \/ \A j \in Tasks : InRunOf(j)' = InRunOf(j)
            \/ /\ InRunOf(k)' = InRunOf(k) \ {w}
               /\ \A j \in Tasks \ {k} : InRunOf(j)' = InRunOf(j)
<1>1. Moved(w, r) /\ loc[w].pc \in RunSteps
  BY Moves DEF At, RunSteps
<1>2. w \in InRunOf(k) /\ \A j \in Tasks \ {k} : w \notin InRunOf(j)
  BY <1>1 DEF InRunOf, InRun, RunSteps
<1>3. CASE r.pc \in RunSteps
  BY <1>1, <1>2, <1>3, WhoRuns
<1>4. CASE r.pc \notin RunSteps
  <2>1. \A j \in Tasks : InRunOf(j)' = InRunOf(j) \ {w}
    BY <1>1, <1>4, WhoRuns
  <2> QED
    BY <1>2, <2>1
<1> QED
  BY <1>3, <1>4

\* A call that the agent accepts.
LEMMA AcceptRefines ==
  ASSUME IInv, NEW w \in Workers, At(w, "exec"), NEW k \in Tasks, loc[w].key = k,
         NEW r \in Worker, Goes(w, r), r.pc \in RunSteps => r.key = k,
         NEW s \in RunStates, Accepts(k, s), UNCHANGED <<intents, late, timeouts>>
  PROVE  Lock!Next
<1>1. GoodWorker(loc[w]) /\ Calls(k) <= timeouts[k]
  BY WorkerGood DEF At, GoodWorker
<1>2. /\ Len(runs'[k]) = Len(runs[k]) + 1
      /\ \A j \in Tasks \ {k} : runs'[j] = runs[j]
  BY Accepted
<1>3. PICK P, Q : P = [j \in Tasks |-> InRunOf(j)] /\ Q = [j \in Tasks |-> InRunOf(j)']
  OBVIOUS
<1>4. w \in InRunOf(k) /\ (Q = [P EXCEPT ![k] = @ \ {w}] \/ Q = P)
  BY <1>3, CallerGoes
<1>5. Lock!KeepOrLeave(k, w)
  BY <1>3, <1>4 DEF Lock!KeepOrLeave
<1>6. Lock!Accept(k, w)
  BY <1>1, <1>2, <1>4, <1>5 DEF Lock!Accept, Lock!Uncalled, Calls
<1> QED
  BY <1>6 DEF Lock!Next

LEMMA ExecRefines ==
  ASSUME IInv, NEW w \in Workers, Exec(w)
  PROVE  Lock!Next
<1>1. At(w, "exec") /\ loc[w].pc = "exec" /\ UNCHANGED <<intents, late, timeouts>>
  BY DEF Exec, At
<1>2. PICK k \in Tasks : k = loc[w].key
  BY <1>1, Taken DEF DispatchSteps
<1>3. loc[w] \in Worker /\ runs[k] \in Seq(RunStates)
  BY <1>1, <1>2, Taken DEF DispatchSteps
<1>4. PICK s \in RunStates, a \in RunStates :
        /\ Accepts(k, s)
        /\ Goes(w, [loc[w] EXCEPT !.pc = "ack", !.ref = Len(runs[k]) + 1, !.to = a])
  BY <1>2 DEF Exec, RunStates
<1>5. PICK r \in Worker :
        r = [loc[w] EXCEPT !.pc = "ack", !.ref = Len(runs[k]) + 1, !.to = a]
  <2>1. /\ "ack" \in Steps /\ Len(runs[k]) + 1 \in Nat
        /\ a \in IntentStates \cup RunStates \cup {None}
    BY <1>3 DEF Steps
  <2>2. [loc[w] EXCEPT !.pc = "ack", !.ref = Len(runs[k]) + 1, !.to = a] \in Worker
    BY <1>3, <2>1, Zenon DEF Worker
  <2> QED
    BY <2>2
<1>6. r.pc \notin RunSteps
  BY <1>3, <1>5 DEF Worker, RunSteps
<1> QED
  BY <1>1, <1>2, <1>4, <1>5, <1>6, AcceptRefines

LEMMA RunFailsRefines ==
  ASSUME IInv, NEW w \in Workers, RunFails(w)
  PROVE  [Lock!Next]_(Lock!vars)
<1>1. loc[w].pc \in {"lookup", "exec"} /\ UNCHANGED intents
  BY DEF RunFails, At
<1>2. PICK k \in Tasks : k = loc[w].key
  BY <1>1, Taken DEF DispatchSteps
<1>3. /\ loc[w] \in Worker /\ loc[w].pc \in RunSteps
      /\ GoodWorker(loc[w]) /\ Calls(k) <= timeouts[k]
  BY <1>1, <1>2, WorkerGood DEF GoodWorker, RunSteps
<1>4. PICK r \in Worker :
        r = IF w \in Handlers THEN [loc[w] EXCEPT !.pc = "reconcile"] ELSE Idle
  BY <1>3, IdleGood DEF Worker, Steps
<1>5. Goes(w, r) /\ (r.pc \in RunSteps => r.key = k)
  BY <1>2, <1>3, <1>4, IdleGood DEF RunFails, Worker
<1>6. CASE UNCHANGED <<runs, late, timeouts>>
  BY <1>1, <1>2, <1>3, <1>5, <1>6, LearnRefines
<1>7. ASSUME NEW s \in RunStates, At(w, "exec"), Accepts(k, s),
             UNCHANGED <<late, timeouts>>
      PROVE  Lock!Next
  BY <1>1, <1>2, <1>5, <1>7, AcceptRefines
<1>8. ASSUME At(w, "exec"), late' = [late EXCEPT ![k] = @ + 1],
             timeouts' = [timeouts EXCEPT ![k] = @ + 1], UNCHANGED runs
      PROVE  Lock!Next
  <2>1. PICK P, Q : P = [j \in Tasks |-> InRunOf(j)] /\ Q = [j \in Tasks |-> InRunOf(j)']
    OBVIOUS
  <2>2. w \in InRunOf(k) /\ (Q = [P EXCEPT ![k] = @ \ {w}] \/ Q = P)
    BY <1>2, <1>5, <1>8, <2>1, CallerGoes
  <2>3. Lock!KeepOrLeave(k, w)
    BY <2>1, <2>2 DEF Lock!KeepOrLeave
  <2>4. Lock!Lose(k, w)
    BY <1>1, <1>3, <1>8, <2>2, <2>3 DEF Lock!Lose, Lock!Uncalled, Calls
  <2> QED
    BY <2>4 DEF Lock!Next
<1> QED
  BY <1>2, <1>6, <1>7, <1>8 DEF RunFails

LEMMA LandRefines ==
  ASSUME IInv, NEW k \in Tasks, Land(k)
  PROVE  Lock!Next
<1>1. /\ late[k] > 0 /\ late' = [late EXCEPT ![k] = @ - 1] /\ Accepts(k, "running")
      /\ UNCHANGED <<intents, timeouts, loc>>
  BY DEF Land
<1>2. /\ Len(runs'[k]) = Len(runs[k]) + 1
      /\ \A j \in Tasks \ {k} : runs'[j] = runs[j]
  BY <1>1, Accepted DEF RunStates
<1>3. \A j \in Tasks : InRunOf(j)' = InRunOf(j)
  BY <1>1 DEF InRunOf, InRun
<1>4. Lock!Arrive(k)
  BY <1>1, <1>2, <1>3 DEF Lock!Arrive
<1> QED
  BY <1>4 DEF Lock!Next

\* The steps of the surroundings that move no worker and accept no run.
LEMMA QuietRefines ==
  ASSUME IInv, UNCHANGED <<loc, late, timeouts>>,
         \A k \in Tasks : SameTask(k)
  PROVE  [Lock!Next]_(Lock!vars)
<1>1. \A k \in Tasks : InRunOf(k)' = InRunOf(k)
  BY DEF InRunOf, InRun
<1> QED
  BY <1>1, Unseen

LEMMA ProgressRefines ==
  ASSUME IInv, NEW k \in Tasks, Progress(k)
  PROVE  [Lock!Next]_(Lock!vars)
<1>1. PICK i \in DOMAIN runs[k], s \in RunStates : runs' = [runs EXCEPT ![k][i] = s]
  BY DEF Progress, RunStates
<1>2. runs \in [Tasks -> Seq(RunStates)] /\ runs[k] \in Seq(RunStates)
  BY DEF IInv, TypeOK
<1>3. Len([runs[k] EXCEPT ![i] = s]) = Len(runs[k])
  BY <1>2
<1>4. \A j \in Tasks : Len(runs'[j]) = Len(runs[j])
  BY <1>1, <1>2, <1>3
<1>5. UNCHANGED <<intents, loc, late, timeouts>>
  BY DEF Progress
<1>6. \A j \in Tasks : SameTask(j)
  BY <1>4, <1>5 DEF SameTask
<1> QED
  BY <1>5, <1>6, QuietRefines

LEMMA ExpireRefines ==
  ASSUME IInv, NEW k \in Keys, Expire(k)
  PROVE  [Lock!Next]_(Lock!vars)
<1>1. /\ intents \in [Keys -> Intent \cup {None}] /\ intents[k] \in Intent
      /\ intents[k] # None
  BY DEF IInv, TypeOK, Expire
<1>2. /\ \A j \in Keys \ {k} : intents'[j] = intents[j]
      /\ intents'[k] \in Intent /\ intents'[k].status = intents[k].status
      /\ UNCHANGED <<runs, late, timeouts, loc>>
  BY <1>1 DEF Expire, Intent
<1>3. SameTask(k)
  BY <1>1, <1>2, NoneAssumption, SameStatus
<1>4. \A j \in Tasks : SameTask(j)
  BY <1>2, <1>3 DEF SameTask, Keys
<1> QED
  BY <1>2, <1>4, QuietRefines

\* Every step is a step of DispatchOnce or one it sees nothing of.
LEMMA NextRefines == IInv /\ [Next]_vars => [Lock!Next]_(Lock!vars)
<1> SUFFICES ASSUME IInv, [Next]_vars
             PROVE  [Lock!Next]_(Lock!vars)
  OBVIOUS
<1>1. ASSUME NEW w \in Workers, HandlerStep(w)
      PROVE  [Lock!Next]_(Lock!vars)
  <2>1. CASE \E d \in Deliveries : Receive(w, d)
    BY <2>1, ReceiveRefines
  <2>2. CASE Refuse(w)
    BY <2>2, StopRefines DEF Refuse
  <2>3. CASE ClaimNew(w)
    BY <2>3, ClaimNewRefines
  <2>4. CASE ClaimKnown(w)
    BY <2>4, ClaimKnownRefines
  <2>5. CASE CompleteCheck(w)
    BY <2>5, CompleteCheckRefines
  <2>6. CASE HandlerReconcile(w)
    BY <2>6, HandlerReconcileRefines
  <2>7. CASE Release(w)
    BY <2>7, ReleaseRefines
  <2>8. CASE LeaveRunning(w)
    BY <2>8, StopRefines DEF LeaveRunning
  <2> QED
    BY <1>1, <2>1, <2>2, <2>3, <2>4, <2>5, <2>6, <2>7, <2>8 DEF HandlerStep
<1>2. ASSUME NEW w \in Workers, RecoveryStep(w)
      PROVE  [Lock!Next]_(Lock!vars)
  <2>1. CASE Resume(w)
    BY <2>1, StopRefines DEF Resume
  <2>2. CASE NothingLeft(w)
    BY <2>2, StopRefines DEF NothingLeft
  <2>3. CASE \E k \in Keys : Lease(w, k)
    BY <2>3, LeaseRefines
  <2>4. CASE Ask(w)
    BY <2>4, AskRefines
  <2>5. CASE AskFails(w)
    BY <2>5, StopRefines DEF AskFails
  <2>6. CASE Mark(w)
    BY <2>6, MarkRefines
  <2> QED
    BY <1>2, <2>1, <2>2, <2>3, <2>4, <2>5, <2>6 DEF RecoveryStep
<1>3. ASSUME NEW w \in Workers, DispatchStep(w)
      PROVE  [Lock!Next]_(Lock!vars)
  <2>1. CASE Start(w)
    BY <2>1, StartRefines
  <2>2. CASE Lookup(w)
    BY <2>2, LookupRefines
  <2>3. CASE Exec(w)
    BY <2>3, ExecRefines
  <2>4. CASE RunFails(w)
    BY <2>4, RunFailsRefines
  <2>5. CASE Acknowledge(w)
    BY <2>5, AcknowledgeRefines
  <2>6. CASE Settle(w)
    BY <2>6, SettleRefines
  <2>7. CASE Refused(w)
    BY <2>7, StopRefines DEF Refused
  <2> QED
    BY <1>3, <2>1, <2>2, <2>3, <2>4, <2>5, <2>6, <2>7 DEF DispatchStep
<1>4. ASSUME Surroundings
      PROVE  [Lock!Next]_(Lock!vars)
  <2>1. CASE \E k \in Keys : Expire(k)
    BY <2>1, ExpireRefines
  <2>2. CASE \E k \in Tasks : Progress(k)
    BY <2>2, ProgressRefines
  <2>3. CASE \E k \in Tasks : Land(k)
    BY <2>3, LandRefines
  <2>4. CASE ReachStop
    BY <2>4, QuietRefines DEF ReachStop, SameTask
  <2>5. CASE \E w \in Workers : Crash(w)
    BY <2>5, StopRefines DEF Crash
  <2> QED
    BY <1>4, <2>1, <2>2, <2>3, <2>4, <2>5 DEF Surroundings
<1>5. CASE UNCHANGED vars
  BY <1>5, QuietRefines DEF vars, SameTask
<1> QED
  BY <1>1, <1>2, <1>3, <1>4, <1>5 DEF Next, Workers

\* The dispatcher implements DispatchOnce: deliveries, leases, versions, recoveries
\* and crashes come down to a lock for each task that one worker at a time takes and
\* gives back only while every call of its task has been given up.
THEOREM Refinement == Spec => ImplementsDispatchOnce
<1>1. Init => Lock!Init
  <2> SUFFICES ASSUME Init
               PROVE  Lock!Init
    OBVIOUS
  <2>1. ASSUME NEW k \in Tasks
        PROVE  /\ PhaseOf(intents[k]) = "absent" /\ InRunOf(k) = {}
               /\ Len(runs[k]) = 0 /\ late[k] = 0 /\ timeouts[k] = 0
    BY DEF Init, Keys, PhaseOf, InRunOf, InRun, Idle
  <2>2. late = [k \in Tasks |-> 0] /\ timeouts = [k \in Tasks |-> 0]
    BY DEF Init
  <2> QED
    BY <2>1, <2>2 DEF Lock!Init
<1> QED
  BY <1>1, NextRefines, Invariance, PTL
     DEF Spec, ImplementsDispatchOnce, Lock!Spec

=============================================================================

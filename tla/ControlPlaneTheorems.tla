------------------------ MODULE ControlPlaneTheorems ------------------------
(***************************************************************************)
(* What is proved about the control plane for every number of tasks,       *)
(* heads, repairs, events and crashes, whatever order the events come in.  *)
(*                                                                         *)
(* First the fold: what a projection says is told by some document.  Then  *)
(* the inductive invariant, a lemma per action, and the theorems.  Last, a *)
(* second invariant on top of it for the events of one issue that come in  *)
(* order: their documents can always be folded again.                      *)
(***************************************************************************)
EXTENDS ControlPlane, FiniteSetTheorems, TLAPS

-----------------------------------------------------------------------------
(* Folding the documents. *)

LEMMA HasMinimalSubset ==
    ASSUME NEW D, IsFiniteSet(D), NEW X \in SUBSET SUBSET D, X # {}
    PROVE  \E T \in X : \A U \in X : U \subseteq T => U = T
<1> DEFINE Less == StrictSubsetOrdering(D)
<1>1. IsWellFoundedOn(Less, SUBSET D)
  BY FS_StrictSubsetOrderingWellFounded, FS_FiniteSubsetsOfFinite
<1>2. PICK T \in X : \A U \in X : <<U, T>> \notin Less
  <2> HIDE DEF Less
  <2> QED  BY <1>1, WFMin
<1>3. ASSUME NEW U \in X, U \subseteq T PROVE U = T
  <2>1. <<U, T>> \in (SUBSET D) \X (SUBSET D) /\ <<U, T>> \notin Less
    BY <1>2
  <2> QED  BY <1>3, <2>1 DEF StrictSubsetOrdering
<1> QED  BY <1>3

LEMMA BeforeIsAnOrder ==
    ASSUME NEW c \in Document, NEW d \in Document, NEW e \in Document
    PROVE  /\ ~Before(d, d)
           /\ Before(c, d) /\ Before(d, e) => Before(c, e)
<1>1. \A x \in Document : x.at \in Nat /\ Rank[x.type] \in Nat
  BY DEF Document, DocumentTypes, Rank
<1> QED  BY <1>1 DEF Before

\* Some document of a finite set is the last one.
LEMMA LatestIsIn ==
    ASSUME NEW D \in SUBSET Document, IsFiniteSet(D), D # {}
    PROVE  Latest(D) \in D
<1> DEFINE Closed(T) == \A d \in T, e \in D : Before(d, e) => e \in T
           X == {T \in SUBSET D : T # {} /\ Closed(T)}
<1>1. PICK T \in X : \A U \in X : U \subseteq T => U = T
  <2>1. X \in SUBSET SUBSET D /\ D \in X
    OBVIOUS
  <2> HIDE DEF X
  <2> QED  BY <2>1, HasMinimalSubset
<1>2. PICK d \in T : TRUE
  OBVIOUS
<1>3. ASSUME NEW x \in D, Before(d, x) PROVE FALSE
  <2> DEFINE U == {e \in D : Before(d, e)}
  <2>1. U # {} /\ U \subseteq T /\ d \notin U
    BY <1>1, <1>2, <1>3, BeforeIsAnOrder
  <2>2. Closed(U)
    BY <1>2, BeforeIsAnOrder
  <2>3. U \in X
    BY <2>1, <2>2
  <2>4. U = T
    BY <1>1, <2>1, <2>3
  <2> QED  BY <1>2, <2>1, <2>4
<1> QED  BY <1>2, <1>3 DEF Latest

Folded(f, s) ==
    IF s = {} THEN NoHistory ELSE Applied(Latest(s), f[s \ {Latest(s)}])

IsFold(f, D) == f = [s \in SUBSET D |-> Folded(f, s)]

\* Two folds agree on what both of them fold.
LEMMA FoldsAgree ==
    ASSUME NEW D \in SUBSET Document, IsFiniteSet(D),
           NEW S \in SUBSET D, NEW T \in SUBSET D,
           NEW f, IsFold(f, S), NEW g, IsFold(g, T),
           NEW s \in SUBSET S, s \in SUBSET T
    PROVE  f[s] = g[s]
<1> DEFINE Wrong == {u \in SUBSET s : f[u] # g[u]}
<1>1. SUFFICES ASSUME Wrong # {} PROVE FALSE
  OBVIOUS
<1>2. PICK u \in Wrong : \A v \in Wrong : v \subseteq u => v = u
  <2>1. Wrong \in SUBSET SUBSET D
    OBVIOUS
  <2> HIDE DEF Wrong
  <2> QED  BY <1>1, <2>1, HasMinimalSubset
<1>3. f[u] = Folded(f, u) /\ g[u] = Folded(g, u)
  BY DEF IsFold
<1>4. CASE u = {}
  BY <1>2, <1>3, <1>4 DEF Folded
<1>5. CASE u # {}
  <2> DEFINE v == u \ {Latest(u)}
  <2>1. u \in SUBSET Document /\ IsFiniteSet(u)
    BY FS_Subset
  <2>2. Latest(u) \in u
    BY <1>5, <2>1, LatestIsIn
  <2>3. v \subseteq u /\ v # u
    BY <2>2
  <2>4. f[v] = g[v]
    BY <1>2, <2>3
  <2> QED  BY <1>2, <1>3, <1>5, <2>4 DEF Folded
<1> QED  BY <1>4, <1>5

LEMMA FoldExists ==
    ASSUME NEW D \in SUBSET Document, IsFiniteSet(D)
    PROVE  \E f : IsFold(f, D)
<1> DEFINE Without == {T \in SUBSET D : ~\E f : IsFold(f, T)}
           G(s) == CHOOSE f : IsFold(f, s)
<1>1. SUFFICES ASSUME Without # {} PROVE FALSE
  OBVIOUS
<1>2. PICK T \in Without : \A U \in Without : U \subseteq T => U = T
  <2>1. Without \in SUBSET SUBSET D
    OBVIOUS
  <2> HIDE DEF Without
  <2> QED  BY <1>1, <2>1, HasMinimalSubset
<1>3. ASSUME NEW s \in SUBSET T, s # T
      PROVE  IsFold(G(s), s)
  <2>1. \E f : IsFold(f, s)
    BY <1>2, <1>3
  <2> QED  BY <2>1
<1> DEFINE h == [s \in SUBSET T |-> G(s)[s]]
           f == [s \in SUBSET T |-> IF s = T THEN Folded(h, T) ELSE h[s]]
<1>4. ASSUME NEW s \in SUBSET T PROVE s = {} \/ (Latest(s) \in s /\ s \ {Latest(s)} # T)
  <2>1. s \in SUBSET Document /\ IsFiniteSet(s)
    BY FS_Subset
  <2> QED  BY <2>1, LatestIsIn
<1>5. ASSUME NEW s \in SUBSET T PROVE f[s] = Folded(f, s)
  <2> DEFINE v == s \ {Latest(s)}
  <2>1. s # {} => v # T /\ v \in SUBSET T /\ f[v] = h[v]
    BY <1>4
  <2>2. Folded(f, s) = Folded(h, s)
    BY <2>1 DEF Folded
  <2>3. CASE s = T
    BY <2>2, <2>3
  <2>4. CASE s # T
    <3>1. IsFold(G(s), s)
      BY <1>3, <2>4
    <3>2. G(s)[s] = Folded(G(s), s)
      BY <3>1 DEF IsFold
    <3>3. s # {} => h[v] = G(s)[v]
      <4>1. SUFFICES ASSUME s # {} PROVE G(v)[v] = G(s)[v]
        BY <2>1
      <4>2. IsFold(G(v), v) /\ v \in SUBSET s /\ v \in SUBSET D /\ s \in SUBSET D
        BY <1>3, <2>1, <4>1
      <4> HIDE DEF G, v
      <4> QED  BY <3>1, <4>2, FoldsAgree
    <3>4. Folded(h, s) = Folded(G(s), s)
      BY <3>3 DEF Folded
    <3> QED  BY <2>2, <2>4, <3>2, <3>4
  <2> QED  BY <2>3, <2>4
<1>6. IsFold(f, T)
  <2> HIDE DEF f
  <2>1. f = [s \in SUBSET T |-> f[s]]
    BY DEF f
  <2> QED  BY <1>5, <2>1 DEF IsFold
<1> QED  BY <1>2, <1>6

LEMMA ReduceIsFold ==
    ASSUME NEW D \in SUBSET Document, IsFiniteSet(D)
    PROVE  \E f : IsFold(f, D) /\ Reduce(D) = f[D]
<1> DEFINE iter == CHOOSE f : f = [s \in SUBSET D |-> Folded(f, s)]
<1>1. IsFold(iter, D)
  <2>1. \E f : f = [s \in SUBSET D |-> Folded(f, s)]
    BY FoldExists DEF IsFold
  <2> QED  BY <2>1 DEF IsFold
<1>2. Reduce(D) = iter[D]
  BY DEF Reduce, MapThenFoldSet, Self, Folded
<1> QED  BY <1>1, <1>2

-----------------------------------------------------------------------------
(* What a projection says of the documents. *)

\* A document as the handlers write them.
WellFormed(d) ==
    /\ d \in Document
    /\ d.type = "created" => d.attempt = 1
    /\ d.type = "next" => d.next \in Tasks

Has(s, type, t, attempt, h) ==
    \E d \in s : d.type = type /\ d.task = t /\ d.attempt = attempt /\ d.head = h

Projection == [tasks : [Tasks -> TaskProjection \cup {None}], first : Tasks \cup {None},
               stopped : BOOLEAN, ok : BOOLEAN]

Created(s, t) == \E d \in s : d.type = "created" /\ d.task = t

\* A task is where it is because of documents about its attempt and its head; but
\* for the follow-up it is the one task that was created.
TaskTold(p, s, t) ==
    LET task == p.tasks[t] IN
    /\ task.attempt = task.repairs + 1
    /\ t = p.first \/ (p.stopped /\ task.state = "READY_FOR_COPILOT")
    /\ task.state \in {"WAITING_FOR_CI", "WAITING_FOR_OPENAI_REVIEW"} =>
         Has(s, "result", t, task.attempt, task.head)
    /\ task.state = "WAITING_FOR_OPENAI_REVIEW" =>
         Has(s, "ci", t, task.attempt, task.head)

Told(p, s) ==
    /\ \A t \in Tasks : Created(s, t) => t = p.first
    /\ p.first # None => p.tasks[p.first] # None /\ Created(s, p.first)
    /\ \A t \in Tasks : p.tasks[t] # None => TaskTold(p, s, t)

Sound(p, s) == p \in Projection /\ (p.ok => Told(p, s))

LEMMA NewTaskIsTask ==
    /\ NewTask(1) \in TaskProjection
    /\ NewTask(1) # None
    /\ NewTask(1).state = "READY_FOR_COPILOT"
    /\ NewTask(1).attempt = NewTask(1).repairs + 1
<1>1. NewTask(1) \in TaskProjection
  BY RepairsAssumption DEF NewTask, TaskProjection, LifecycleStates, Attempts
<1> QED  BY <1>1, NothingAssumption DEF NewTask

\* The step of a document about a task that is there.
LEMMA MovedIsTold ==
    ASSUME NEW task \in TaskProjection, NEW d, WellFormed(d), FitsTask(task, d),
           d.type \in {"dispatched", "result", "ci", "review"},
           task.attempt = task.repairs + 1
    PROVE  LET moved == Moved(task, d) IN
           /\ moved \in TaskProjection
           /\ moved.attempt = moved.repairs + 1
           /\ moved.state = "WAITING_FOR_CI" =>
                /\ d.type = "result" /\ d.attempt = moved.attempt /\ d.head = moved.head
           /\ moved.state = "WAITING_FOR_OPENAI_REVIEW" =>
                /\ task.state = "WAITING_FOR_CI"
                /\ moved.attempt = task.attempt /\ moved.head = task.head
                /\ d.type = "ci" /\ d.attempt = moved.attempt /\ d.head = moved.head
<1>1. d \in Document /\ task.repairs \in 0 .. MaxRepairs /\ MaxRepairs \in Nat
      /\ d.attempt = task.attempt
  BY RepairsAssumption DEF WellFormed, FitsTask, TaskProjection
<1>2. CASE d.type = "dispatched"
  <2>1. Moved(task, d) = [task EXCEPT !.state = "COPILOT_RUNNING"]
    BY <1>2 DEF Moved
  <2> QED  BY <2>1 DEF TaskProjection, LifecycleStates
<1>3. CASE d.type = "result"
  <2>1. Moved(task, d) = [task EXCEPT !.state = "WAITING_FOR_CI", !.head = d.head]
    BY <1>3 DEF Moved
  <2>2. d.head \in Heads \cup {None}
    BY <1>1 DEF Document
  <2> QED  BY <1>1, <1>3, <2>1, <2>2 DEF TaskProjection, LifecycleStates
<1>4. CASE d.type = "ci"
  <2>1. Moved(task, d) = [task EXCEPT !.state = "WAITING_FOR_OPENAI_REVIEW"]
    BY <1>4 DEF Moved
  <2>2. task.state = "WAITING_FOR_CI" /\ d.head = task.head
    BY <1>4 DEF FitsTask, StateFor
  <2> QED  BY <1>1, <1>4, <2>1, <2>2 DEF TaskProjection, LifecycleStates
<1>5. CASE d.type = "review"
  <2>1. Moved(task, d) = Reviewed(task, d.decision)
    BY <1>5 DEF Moved
  <2>2. CASE d.decision = "FIX_REQUIRED" /\ MayRepair(task)
    <3>1. Moved(task, d) = [state |-> "READY_FOR_COPILOT", attempt |-> task.attempt + 1,
                            repairs |-> task.repairs + 1, head |-> None]
      BY <2>1, <2>2 DEF Reviewed
    <3> QED  BY <1>1, <2>2, <3>1 DEF MayRepair, TaskProjection, LifecycleStates, Attempts
  <2>3. CASE ~(d.decision = "FIX_REQUIRED" /\ MayRepair(task))
    <3>1. \E s \in {"COMPLETED", "PAUSED"} : Moved(task, d) = [task EXCEPT !.state = s]
      BY <2>1, <2>3 DEF Reviewed
    <3> QED  BY <3>1 DEF TaskProjection, LifecycleStates
  <2> QED  BY <2>2, <2>3
<1> QED  BY <1>2, <1>3, <1>4, <1>5

LEMMA HasMore ==
    ASSUME NEW s, NEW d
    PROVE  /\ \A type, t, attempt, h :
                 Has(s, type, t, attempt, h) => Has(s \cup {d}, type, t, attempt, h)
           /\ \A t : Created(s, t) => Created(s \cup {d}, t)
           /\ d.type # "created" => \A t : Created(s \cup {d}, t) => Created(s, t)
           /\ d.type = "created" =>
                \A t : Created(s \cup {d}, t) <=> Created(s, t) \/ t = d.task
           /\ Has(s \cup {d}, d.type, d.task, d.attempt, d.head)
BY DEF Has, Created

LEMMA CreatedIsSound ==
    ASSUME NEW s, NEW p, Sound(p, s), p.ok, NEW d, WellFormed(d), Fits(p, d),
           d.type = "created"
    PROVE  Sound(Applied(d, p), s \cup {d})
<1> DEFINE q == [p EXCEPT !.tasks[d.task] = NewTask(d.attempt), !.first = d.task]
           S == s \cup {d}
<1>1. Applied(d, p) = q
  BY DEF Applied
<1>2. /\ p \in Projection /\ d.task \in Tasks /\ d.attempt = 1
      /\ p.first = None /\ ~p.stopped /\ Told(p, s)
  BY DEF Sound, WellFormed, Document, Fits
<1>3. \A t \in Tasks : p.tasks[t] = None /\ ~Created(s, t)
  BY <1>2, TasksAssumption DEF Told, TaskTold
<1>4. /\ q \in Projection /\ q.first = d.task
      /\ q.tasks = [p.tasks EXCEPT ![d.task] = NewTask(1)]
  BY <1>2, NewTaskIsTask DEF Projection
<1>5. /\ q.tasks[d.task] = NewTask(1)
      /\ \A t \in Tasks : t # d.task => q.tasks[t] = None
  BY <1>2, <1>3, <1>4 DEF Projection
<1> HIDE DEF q
<1>6. \A t \in Tasks : Created(S, t) <=> t = d.task
  BY <1>3, HasMore
<1>7. Told(q, S)
  <2>1. TaskTold(q, S, d.task)
    BY <1>4, <1>5, NewTaskIsTask DEF TaskTold
  <2>2. \A t \in Tasks : q.tasks[t] # None => t = d.task
    BY <1>5
  <2> QED  BY <1>2, <1>4, <1>5, <1>6, <2>1, <2>2, NewTaskIsTask DEF Told
<1> QED  BY <1>1, <1>4, <1>7 DEF Sound

LEMMA NextIsSound ==
    ASSUME NEW s, NEW p, Sound(p, s), p.ok, NEW d, WellFormed(d), Fits(p, d),
           d.type = "next"
    PROVE  Sound(Applied(d, p), s \cup {d})
<1> DEFINE q == [p EXCEPT !.tasks[d.next] = NewTask(1), !.stopped = TRUE]
           S == s \cup {d}
<1>1. Applied(d, p) = q
  BY DEF Applied
<1>2. /\ p \in Projection /\ d.next \in Tasks /\ p.tasks[d.next] = None
      /\ Told(p, s)
  BY DEF Sound, WellFormed, Fits
<1>3. /\ q \in Projection /\ q.first = p.first /\ q.stopped
      /\ q.tasks = [p.tasks EXCEPT ![d.next] = NewTask(1)]
  BY <1>2, NewTaskIsTask DEF Projection
<1>4. /\ q.tasks[d.next] = NewTask(1)
      /\ \A t \in Tasks : t # d.next => q.tasks[t] = p.tasks[t]
  BY <1>2, <1>3 DEF Projection
<1> HIDE DEF q
<1>5. \A t \in Tasks : q.tasks[t] # None => TaskTold(q, S, t)
  BY <1>2, <1>3, <1>4, NewTaskIsTask, HasMore DEF Told, TaskTold
<1>6. q.first # None => q.tasks[q.first] # None /\ Created(S, q.first)
  <2>1. SUFFICES ASSUME q.first # None PROVE q.tasks[q.first] # None /\ Created(S, q.first)
    OBVIOUS
  <2>2. p.first \in Tasks /\ p.first # d.next /\ Created(s, p.first)
    BY <1>2, <1>3, <2>1 DEF Told, Projection
  <2>3. q.tasks[p.first] = p.tasks[p.first] /\ p.tasks[p.first] # None
    BY <1>2, <1>3, <1>4, <2>1, <2>2 DEF Told
  <2>4. Created(S, p.first)
    BY <2>2, HasMore
  <2> QED  BY <1>3, <2>3, <2>4
<1>7. \A t \in Tasks : Created(S, t) => t = q.first
  BY <1>2, <1>3, HasMore DEF Told
<1> QED  BY <1>1, <1>3, <1>5, <1>6, <1>7 DEF Sound, Told

LEMMA MoveIsSound ==
    ASSUME NEW s, NEW p, Sound(p, s), p.ok, NEW d, WellFormed(d), Fits(p, d),
           d.type \notin {"created", "next"}
    PROVE  Sound(Applied(d, p), s \cup {d})
<1> DEFINE t0 == d.task
           moved == Moved(p.tasks[t0], d)
           q == [p EXCEPT !.tasks[t0] = moved]
           S == s \cup {d}
<1>1. Applied(d, p) = q
  BY DEF Applied
<1>2. /\ p \in Projection /\ t0 \in Tasks /\ ~p.stopped /\ Told(p, s)
      /\ p.tasks[t0] # None /\ FitsTask(p.tasks[t0], d)
      /\ d.type \in {"dispatched", "result", "ci", "review"}
  BY DEF Sound, WellFormed, Document, DocumentTypes, Fits
<1>3. /\ p.tasks[t0] \in TaskProjection /\ TaskTold(p, s, t0)
  BY <1>2 DEF Projection, Told
<1>4. /\ moved \in TaskProjection
      /\ moved.attempt = moved.repairs + 1
      /\ moved.state = "WAITING_FOR_CI" =>
           /\ d.type = "result" /\ d.attempt = moved.attempt /\ d.head = moved.head
      /\ moved.state = "WAITING_FOR_OPENAI_REVIEW" =>
           /\ p.tasks[t0].state = "WAITING_FOR_CI"
           /\ moved.attempt = p.tasks[t0].attempt /\ moved.head = p.tasks[t0].head
           /\ d.type = "ci" /\ d.attempt = moved.attempt /\ d.head = moved.head
  <2>1. p.tasks[t0].attempt = p.tasks[t0].repairs + 1
    BY <1>3 DEF TaskTold
  <2> QED  BY <1>2, <1>3, <2>1, MovedIsTold
<1> HIDE DEF moved
<1>5. /\ q \in Projection /\ q.first = p.first /\ ~q.stopped
      /\ q.tasks = [p.tasks EXCEPT ![t0] = moved]
  BY <1>2, <1>4 DEF Projection
<1>6. /\ q.tasks[t0] = moved /\ moved # None
      /\ \A t \in Tasks : t # t0 => q.tasks[t] = p.tasks[t]
  BY <1>2, <1>4, <1>5, NothingAssumption DEF Projection
<1> HIDE DEF q
<1>7. TaskTold(q, S, t0)
  <2>1. t0 = q.first
    BY <1>2, <1>3, <1>5 DEF TaskTold
  <2>2. moved.state = "WAITING_FOR_CI" => Has(S, "result", t0, moved.attempt, moved.head)
    BY <1>4, HasMore
  <2>3. moved.state = "WAITING_FOR_OPENAI_REVIEW" =>
           /\ Has(S, "result", t0, moved.attempt, moved.head)
           /\ Has(S, "ci", t0, moved.attempt, moved.head)
    BY <1>3, <1>4, HasMore DEF TaskTold
  <2> QED  BY <1>4, <1>6, <2>1, <2>2, <2>3 DEF TaskTold
<1>8. ASSUME NEW t \in Tasks, t # t0, q.tasks[t] # None
      PROVE  TaskTold(q, S, t)
  BY <1>2, <1>5, <1>6, <1>8, HasMore DEF Told, TaskTold
<1>9. \A t \in Tasks : Created(S, t) => t = q.first
  BY <1>2, <1>5, HasMore DEF Told
<1>10. q.first # None => q.tasks[q.first] # None /\ Created(S, q.first)
  BY <1>2, <1>5, <1>6, HasMore DEF Told, Projection
<1> QED  BY <1>1, <1>5, <1>7, <1>8, <1>9, <1>10 DEF Sound, Told

LEMMA AppliedIsSound ==
    ASSUME NEW s, NEW p, Sound(p, s), NEW d, WellFormed(d)
    PROVE  Sound(Applied(d, p), s \cup {d})
<1>1. CASE p.ok /\ Fits(p, d)
  BY <1>1, CreatedIsSound, NextIsSound, MoveIsSound
<1>2. CASE ~(p.ok /\ Fits(p, d))
  <2>1. Applied(d, p) = [p EXCEPT !.ok = FALSE]
    BY <1>2 DEF Applied
  <2>2. p \in Projection
    BY DEF Sound
  <2>3. [p EXCEPT !.ok = FALSE] \in Projection /\ ~[p EXCEPT !.ok = FALSE].ok
    BY <2>2 DEF Projection
  <2> QED  BY <2>1, <2>3 DEF Sound
<1> QED  BY <1>1, <1>2

\* What the reduction yields for documents in any number and order.
LEMMA ReduceIsSound ==
    ASSUME NEW D, IsFiniteSet(D), \A d \in D : WellFormed(d)
    PROVE  Sound(Reduce(D), D)
<1>1. D \in SUBSET Document
  BY DEF WellFormed
<1>2. PICK f : IsFold(f, D) /\ Reduce(D) = f[D]
  BY <1>1, ReduceIsFold
<1> DEFINE Wrong == {s \in SUBSET D : ~Sound(f[s], s)}
<1>3. SUFFICES ASSUME Wrong # {} PROVE FALSE
  BY <1>2
<1>4. PICK s \in Wrong : \A u \in Wrong : u \subseteq s => u = s
  <2>1. Wrong \in SUBSET SUBSET D
    OBVIOUS
  <2> HIDE DEF Wrong
  <2> QED  BY <1>3, <2>1, HasMinimalSubset
<1>5. f[s] = Folded(f, s)
  BY <1>2 DEF IsFold
<1>6. CASE s = {}
  <2>1. f[s] = NoHistory
    BY <1>5, <1>6 DEF Folded
  <2>2. NoHistory \in Projection
    BY DEF NoHistory, Projection
  <2>3. Told(NoHistory, {})
    BY DEF Told, NoHistory, Created
  <2> QED  BY <1>4, <1>6, <2>1, <2>2, <2>3 DEF Sound
<1>7. CASE s # {}
  <2> DEFINE d == Latest(s)
             v == s \ {d}
  <2>1. d \in s
    BY <1>1, <1>7, FS_Subset, LatestIsIn
  <2>2. WellFormed(d) /\ v \cup {d} = s
    BY <2>1
  <2>3. Sound(f[v], v)
    BY <1>4, <2>1
  <2>4. f[s] = Applied(d, f[v])
    BY <1>5, <1>7 DEF Folded
  <2> HIDE DEF d, v
  <2> QED  BY <1>4, <2>2, <2>3, <2>4, AppliedIsSound
<1> QED  BY <1>6, <1>7

-----------------------------------------------------------------------------
(* The inductive invariant. *)

Entered(key) == key \in DOMAIN intents

DocsInv ==
    /\ IsFiniteSet(docs)
    /\ \A d \in docs : WellFormed(d)
    /\ \A d \in docs : d.type = "ci" =>
          /\ d.head \in green
          /\ Has(docs, "result", d.task, d.attempt, d.head)
          /\ Entered(GateKey(d.task, d.attempt, d.head))

\* Nothing was ever done for another task than t.
Alone(t) ==
    /\ Created(docs, t)
    /\ \A i \in DOMAIN runs : runs[i].task = t
    /\ job # None => job.task = t
    /\ \A f \in followUps : f = t + 1

OneTask ==
    \/ runs = <<>> /\ job = None /\ followUps = {}
    \/ \E t \in Tasks : Alone(t)

Ran(t, attempt) ==
    \E i \in DOMAIN runs : runs[i].task = t /\ runs[i].attempt = attempt

\* A dispatch that can still be started has no run.
DispatchInv ==
    /\ OneRunPerAttempt
    /\ \A t \in Tasks, a \in Attempts : Ran(t, a) => ~DispatchOpen(t, a)
    /\ job # None /\ job.pc \in {"dispatch", "run"} => ~Ran(job.task, job.attempt)
    /\ Doing("run") => ~DispatchOpen(job.task, job.attempt)

Judged(t, attempt, h) ==
    \E i \in DOMAIN verdicts : /\ verdicts[i].task = t
                               /\ verdicts[i].attempt = attempt
                               /\ verdicts[i].head = h

\* A review that can still be started has no verdict, and none is started before
\* the gate of its head was entered.
ReviewInv ==
    /\ OneVerdictPerHead
    /\ VerdictsAreGated
    /\ \A t \in Tasks, a \in Attempts, h \in Heads :
          /\ Judged(t, a, h) => ~ReviewOpen(t, a, h)
          /\ Entered(ReviewKey(t, a, h)) => Entered(GateKey(t, a, h))
    /\ job # None /\ job.pc \in {"evidence", "review", "ask"} =>
          /\ ~Judged(job.task, job.attempt, job.head)
          /\ Entered(GateKey(job.task, job.attempt, job.head))
          /\ job.head \in green
          /\ Has(docs, "result", job.task, job.attempt, job.head)
    /\ Doing("ask") => ~ReviewOpen(job.task, job.attempt, job.head)
    /\ Doing("decided") => Entered(GateKey(job.task, job.attempt, job.head))

Following == {"next", "create", "created", "stop"}

JobInv ==
    job # None =>
        /\ job.pc \in {"result", "evidence", "review", "ask"} => job.head \in Heads
        /\ job.decision = "NEXT_TASK" => job.task + 1 \in Tasks
        /\ job.pc \in Following => job.decision = "NEXT_TASK"

IInv ==
    /\ TypeOK
    /\ DocsInv
    /\ OneTask
    /\ DispatchInv
    /\ ReviewInv
    /\ JobInv

-----------------------------------------------------------------------------
(* What the handlers read and write. *)

LEMMA HistoryIsSound ==
    ASSUME IInv
    PROVE  Sound(History, docs)
BY ReduceIsSound DEF IInv, DocsInv, History

\* A task a handler goes on with is the one that was created, if it is past its
\* creation or the history is not stopped.
LEMMA TaskOfHistory ==
    ASSUME IInv, History.ok, NEW t \in Tasks, NEW state, InState(History, t, state),
           state # "READY_FOR_COPILOT" \/ ~History.stopped
    PROVE  /\ History.tasks[t].attempt \in Attempts
           /\ TaskTold(History, docs, t)
           /\ Created(docs, t)
<1>1. History \in Projection /\ Told(History, docs)
  BY HistoryIsSound DEF Sound
<1>2. TaskTold(History, docs, t) /\ History.tasks[t] # None
  BY <1>1 DEF InState, Told
<1>3. History.tasks[t] \in TaskProjection
  BY <1>1, <1>2 DEF Projection
<1>4. t = History.first
  BY <1>2 DEF TaskTold, InState
<1> QED  BY <1>1, <1>2, <1>3, <1>4, TasksAssumption DEF Told, TaskProjection

LEMMA KeysDiffer ==
    \A t, u, a, b, h, g :
        /\ DispatchKey(t, a) = DispatchKey(u, b) => t = u /\ a = b
        /\ ReviewKey(t, a, h) = ReviewKey(u, b, g) => t = u /\ a = b /\ h = g
        /\ DispatchKey(t, a) # GateKey(u, b, g)
        /\ DispatchKey(t, a) # ReviewKey(u, b, g)
        /\ GateKey(t, a, h) # ReviewKey(u, b, g)
        /\ NextKey(t) # DispatchKey(u, b)
        /\ NextKey(t) # GateKey(u, b, g)
        /\ NextKey(t) # ReviewKey(u, b, g)
BY DEF DispatchKey, GateKey, ReviewKey, NextKey

\* The status of one intent is written.
LEMMA StatusIsSet ==
    ASSUME NEW key, NEW s, SetStatus(key, s)
    PROVE  /\ Entered(key)' /\ Status(key)' = s
           /\ \A k : Entered(k) => Entered(k)'
           /\ \A k : k # key => (Entered(k)' <=> Entered(k)) /\ Status(k)' = Status(k)
BY DEF SetStatus, Entered, Status

LEMMA StatusTypes ==
    ASSUME NEW key, NEW s \in {"claimed", "running", "completed", "failed"},
           SetStatus(key, s), IInv
    PROVE  \A k \in DOMAIN intents' :
              intents'[k] \in {"claimed", "running", "completed", "failed"}
BY DEF SetStatus, IInv, TypeOK

LEMMA StampsAreTimes ==
    ASSUME IInv, NEW since \in Nat, NEW at \in Stamps(since)
    PROVE  at \in Nat
<1>1. clock \in Nat /\ Gap \in Nat
  BY GapAssumption, LimitsAssumption DEF IInv, TypeOK
<1>2. PICK c \in (IF Delayed THEN since ELSE clock + 1) .. clock + 1 : at = Gap * c
  BY DEF Stamps
<1>3. c \in Nat
  BY <1>1, <1>2
<1> QED  BY <1>1, <1>2, <1>3

LEMMA PushedTask ==
    ASSUME IInv, NEW h \in Heads, pushed[h] # None
    PROVE  \E t \in Tasks : t = pushed[h].task /\ pushed[h].at \in Nat
BY DEF IInv, TypeOK, PushedHead

LEMMA WriteDoes ==
    ASSUME NEW d, NEW next, Write(d, next)
    PROVE  \/ docs' = docs /\ job' = None
           \/ docs' = docs \cup {d} /\ job' = next
BY DEF Write

LEMMA ThenIsHandler ==
    ASSUME NEW pc \in Steps, job \in Handlers
    PROVE  /\ Then(pc) \in Handlers /\ Then(pc).pc = pc
           /\ Then(pc).task = job.task /\ Then(pc).attempt = job.attempt
           /\ Then(pc).head = job.head /\ Then(pc).decision = job.decision
           /\ Then(pc).at = job.at
BY DEF Then, Handlers

LEMMA HandlerIsHandler ==
    ASSUME NEW pc \in Steps, NEW t \in Tasks, NEW a \in Attempts, NEW at \in Nat,
           NEW h \in Heads \cup {None}
    PROVE  /\ Handler(pc, t, a, at, h) \in Handlers
           /\ Handler(pc, t, a, at, h) # None
           /\ Handler(pc, t, a, at, h).pc = pc /\ Handler(pc, t, a, at, h).task = t
           /\ Handler(pc, t, a, at, h).attempt = a /\ Handler(pc, t, a, at, h).head = h
           /\ Handler(pc, t, a, at, h).decision = None
BY NoneAssumption DEF Handler, Handlers

LEMMA BlankIsDocument ==
    ASSUME NEW type \in DocumentTypes, NEW t \in Tasks, NEW at \in Nat, NEW a \in Attempts
    PROVE  /\ Blank(type, t, at, a) \in Document
           /\ Blank(type, t, at, a).type = type /\ Blank(type, t, at, a).task = t
           /\ Blank(type, t, at, a).attempt = a /\ Blank(type, t, at, a).at = at
BY DEF Blank, Document

-----------------------------------------------------------------------------
(* Parts of the invariant that a step leaves alone. *)

\* Every step keeps what was written.
Grows ==
    /\ green \subseteq green'
    /\ docs \subseteq docs'
    /\ \A k : Entered(k) => Entered(k)'

LEMMA DocsKept ==
    ASSUME IInv, Grows, NEW d, docs' = docs \/ docs' = docs \cup {d},
           docs' # docs => WellFormed(d),
           docs' # docs /\ d.type = "ci" =>
               /\ d.head \in green
               /\ Has(docs, "result", d.task, d.attempt, d.head)
               /\ Entered(GateKey(d.task, d.attempt, d.head))
    PROVE  DocsInv'
<1>1. IsFiniteSet(docs')
  BY FS_AddElement DEF IInv, DocsInv
<1>2. \A e \in docs' : e \in docs \/ (docs' # docs /\ e = d)
  OBVIOUS
<1>3. \A type, t, a, h : Has(docs, type, t, a, h) => Has(docs, type, t, a, h)'
  BY DEF Has, Grows
<1> QED  BY <1>1, <1>2, <1>3 DEF IInv, DocsInv, Grows

LEMMA OneTaskKept ==
    ASSUME IInv, Grows, UNCHANGED <<runs, followUps>>,
           job' = None \/ (job # None /\ job'.task = job.task)
    PROVE  OneTask'
<1>1. \A t : Created(docs, t) => Created(docs, t)'
  BY DEF Created, Grows
<1> QED  BY <1>1 DEF IInv, OneTask, Alone

LEMMA OneTaskStarts ==
    ASSUME IInv, Grows, UNCHANGED <<runs, followUps>>,
           Sound(History, docs)', History'.ok,
           NEW t \in Tasks, job'.task = t, Created(docs, t)'
    PROVE  OneTask'
<1>1. \A u \in Tasks : Created(docs, u)' => u = t
  BY DEF Sound, Told
<1>2. \A u : Created(docs, u) => Created(docs, u)'
  BY DEF Created, Grows
<1>3. CASE \E u \in Tasks : Alone(u)
  <2>1. PICK u \in Tasks : Alone(u)
    BY <1>3
  <2>2. u = t
    BY <1>1, <1>2, <2>1 DEF Alone
  <2> QED  BY <1>2, <2>1, <2>2 DEF Alone, OneTask
<1>4. CASE runs = <<>> /\ job = None /\ followUps = {}
  BY <1>4 DEF Alone, OneTask
<1> QED  BY <1>3, <1>4 DEF IInv, OneTask

LEMMA DispatchKept ==
    ASSUME IInv, UNCHANGED runs,
           \A t \in Tasks, a \in Attempts :
               Status(DispatchKey(t, a))' = Status(DispatchKey(t, a)),
           job' = None \/ job'.pc \notin {"dispatch", "run"}
    PROVE  DispatchInv'
BY DEF IInv, DispatchInv, OneRunPerAttempt, Ran, DispatchOpen, Doing

LEMMA ReviewKept ==
    ASSUME IInv, Grows, UNCHANGED verdicts,
           \A t \in Tasks, a \in Attempts, h \in Heads :
               /\ Status(ReviewKey(t, a, h))' = Status(ReviewKey(t, a, h))
               /\ Entered(ReviewKey(t, a, h))' => Entered(ReviewKey(t, a, h)),
           job' = None \/ job'.pc \notin {"evidence", "review", "ask", "decided"}
    PROVE  ReviewInv'
<1>1. OneVerdictPerHead'
  BY DEF IInv, ReviewInv, OneVerdictPerHead
<1>2. VerdictsAreGated'
  BY DEF IInv, ReviewInv, VerdictsAreGated, Grows
<1> QED  BY <1>1, <1>2 DEF IInv, ReviewInv, Judged, ReviewOpen, Doing, Grows

-----------------------------------------------------------------------------
(* Events that start a handler. *)

LEMMA OpenIssueKeeps ==
    ASSUME IInv, NEW t \in Issues, OpenIssue(t)
    PROVE  IInv'
<1>1. PICK at \in Stamps(1) :
        LET now == docs \cup {Blank("created", t, at, 1)} IN
        /\ docs' = now
        /\ job' = IF Reduce(now).ok THEN Handler("dispatch", t, 1, at, None) ELSE None
  BY DEF OpenIssue
<1>2. /\ t \in Tasks /\ at \in Nat /\ 1 \in Attempts
      /\ UNCHANGED <<results, intents, World, crashes>>
      /\ clock' = clock + 1 /\ clock < MaxEvents
      /\ job = None /\ History.ok /\ History.tasks[t] = None
  BY IssuesAssumption, RepairsAssumption, StampsAreTimes
     DEF OpenIssue, Deliver, Accepting, Attempts
<1>3. PICK d \in Document :
        d = Blank("created", t, at, 1) /\ d.type = "created" /\ d.task = t /\ d.attempt = 1
  BY <1>2, BlankIsDocument DEF DocumentTypes
<1>4. docs' = docs \cup {d} /\ WellFormed(d)
  BY <1>1, <1>3 DEF WellFormed
<1>5. /\ job' \in Handlers \cup {None}
      /\ job' # None => /\ Reduce(docs').ok /\ job'.pc = "dispatch" /\ job'.task = t
                        /\ job'.attempt = 1 /\ job'.decision = None
  BY <1>1, <1>2, <1>3, <1>4, HandlerIsHandler DEF Steps
<1>6. Grows
  BY <1>2, <1>4 DEF Grows, World, Entered
<1>7. TypeOK'
  BY <1>2, <1>4, <1>5, LimitsAssumption DEF IInv, TypeOK, World
<1>8. DocsInv'
  BY <1>3, <1>4, <1>6, DocsKept
<1>9. Sound(History, docs)'
  BY <1>8, ReduceIsSound DEF DocsInv, History
<1>10. Created(docs, t)'
  BY <1>3, <1>4 DEF Created
<1>11. OneTask'
  <2>1. CASE job' = None
    BY <1>2, <1>6, <2>1, OneTaskKept DEF World
  <2>2. CASE job' # None
    <3>1. History'.ok
      BY <1>5, <2>2 DEF History
    <3> QED  BY <1>2, <1>5, <1>6, <1>9, <1>10, <2>2, <3>1, OneTaskStarts DEF World
  <2> QED  BY <2>1, <2>2
<1>12. ~Created(docs, t)
  BY <1>2, HistoryIsSound, TasksAssumption DEF Sound, Told
<1>13. \A a : ~Ran(t, a)'
  <2>1. CASE job' = None \/ runs = <<>>
    <3>1. \A i \in DOMAIN runs : Created(docs, runs[i].task)
      BY <2>1 DEF IInv, OneTask, Alone
    <3> QED  BY <1>2, <1>12, <3>1 DEF Ran, World
  <2>2. CASE ~(job' = None \/ runs = <<>>)
    <3>1. \A i \in DOMAIN runs : Created(docs, runs[i].task)
      BY <2>2 DEF IInv, OneTask, Alone
    <3> QED  BY <1>2, <1>12, <3>1 DEF Ran, World
  <2> QED  BY <2>1, <2>2
<1>14. DispatchInv'
  BY <1>2, <1>5, <1>13 DEF IInv, DispatchInv, OneRunPerAttempt, Ran, DispatchOpen, Status,
                           Doing, World
<1>15. ReviewInv'
  BY <1>2, <1>5, <1>6, ReviewKept DEF Status, Entered, World
<1>16. JobInv'
  BY <1>5, NothingAssumption DEF JobInv, Following, Decisions
<1> QED  BY <1>7, <1>8, <1>11, <1>14, <1>15, <1>16 DEF IInv

LEMMA RedispatchKeeps ==
    ASSUME IInv, NEW t \in Tasks, Redispatch(t)
    PROVE  IInv'
<1> DEFINE a == History.tasks[t].attempt
<1>1. PICK at \in Stamps(1) : job' = Handler("dispatch", t, a, at, None)
  BY DEF Redispatch
<1>2. /\ UNCHANGED <<docs, results, intents, World, crashes>>
      /\ clock' = clock + 1 /\ clock < MaxEvents
      /\ DispatchOpen(t, a)
      /\ History.ok /\ ~History.stopped
  BY DEF Redispatch, Deliver, Accepting
<1>3. a \in Attempts /\ Created(docs, t)
  BY <1>2, TaskOfHistory DEF Redispatch
<1> HIDE DEF a
<1>4. /\ job' \in Handlers /\ job' # None /\ job'.pc = "dispatch" /\ job'.task = t
      /\ job'.attempt = a /\ job'.decision = None
  BY <1>1, <1>3, StampsAreTimes, HandlerIsHandler DEF Steps
<1>5. Grows
  BY <1>2 DEF Grows, World, Entered
<1>6. TypeOK'
  BY <1>2, <1>4, LimitsAssumption DEF IInv, TypeOK, World
<1>7. DocsInv'
  BY <1>2, <1>5, DocsKept
<1>8. OneTask'
  <2>1. Sound(History, docs)' /\ History'.ok /\ Created(docs, t)'
    BY <1>2, <1>3, HistoryIsSound DEF History
  <2> QED  BY <1>2, <1>4, <1>5, <2>1, OneTaskStarts DEF World
<1>9. DispatchInv'
  BY <1>2, <1>3, <1>4 DEF IInv, DispatchInv, OneRunPerAttempt, Ran, DispatchOpen, Status,
                          Doing, World
<1>10. ReviewInv'
  BY <1>2, <1>4, <1>5, ReviewKept DEF Status, Entered, World
<1>11. JobInv'
  BY <1>4, NothingAssumption DEF JobInv, Following, Decisions
<1> QED  BY <1>6, <1>7, <1>8, <1>9, <1>10, <1>11 DEF IInv

LEMMA ReceiveResultKeeps ==
    ASSUME IInv, NEW h \in Heads, ReceiveResult(h)
    PROVE  IInv'
<1>1. PICK t \in Tasks : t = pushed[h].task /\ pushed[h].at \in Nat
  BY PushedTask DEF ReceiveResult
<1> DEFINE a == History.tasks[t].attempt
<1>2. PICK at \in Stamps(pushed[h].at) :
        /\ results' = results \cup {[head |-> h, at |-> at, attempt |-> a]}
        /\ job' = Handler("result", t, a, at, h)
  BY <1>1 DEF ReceiveResult
<1>3. /\ UNCHANGED <<docs, intents, World, crashes>>
      /\ clock' = clock + 1 /\ clock < MaxEvents
      /\ History.ok /\ InState(History, t, "COPILOT_RUNNING")
  BY <1>1 DEF ReceiveResult, Deliver, Accepting
<1>4. a \in Attempts /\ Created(docs, t) /\ at \in Nat
  BY <1>1, <1>2, <1>3, TaskOfHistory, StampsAreTimes
<1> HIDE DEF a
<1>5. /\ job' \in Handlers /\ job' # None /\ job'.pc = "result" /\ job'.task = t
      /\ job'.attempt = a /\ job'.decision = None /\ job'.head = h
  BY <1>1, <1>2, <1>4, HandlerIsHandler DEF Steps
<1>6. Grows
  BY <1>3 DEF Grows, World, Entered
<1>7. TypeOK'
  BY <1>2, <1>3, <1>4, <1>5, LimitsAssumption DEF IInv, TypeOK, World
<1>8. DocsInv'
  BY <1>3, <1>6, DocsKept
<1>9. OneTask'
  <2>1. Sound(History, docs)' /\ History'.ok /\ Created(docs, t)'
    BY <1>3, <1>4, HistoryIsSound DEF History
  <2> QED  BY <1>1, <1>3, <1>5, <1>6, <2>1, OneTaskStarts DEF World
<1>10. DispatchInv'
  BY <1>3, <1>5, DispatchKept DEF Status, World
<1>11. ReviewInv'
  BY <1>3, <1>5, <1>6, ReviewKept DEF Status, Entered, World
<1>12. JobInv'
  BY <1>5, NothingAssumption DEF JobInv, Following, Decisions
<1> QED  BY <1>7, <1>8, <1>9, <1>10, <1>11, <1>12 DEF IInv

LEMMA OpenGateKeeps ==
    ASSUME IInv, NEW h \in Heads, OpenGate(h)
    PROVE  IInv'
<1>1. PICK t \in Tasks : t = pushed[h].task /\ pushed[h].at \in Nat
  BY PushedTask DEF OpenGate
<1> DEFINE a == History.tasks[t].attempt
           key == GateKey(t, a, h)
<1>2. PICK at \in Stamps(pushed[h].at) : job' = Handler("evidence", t, a, at, h)
  BY <1>1 DEF OpenGate
<1>3. /\ UNCHANGED <<docs, results, World, crashes>>
      /\ clock' = clock + 1 /\ clock < MaxEvents
      /\ History.ok /\ InState(History, t, "WAITING_FOR_CI")
      /\ History.tasks[t].head = h /\ h \in green
      /\ Status(key) = "none" /\ SetStatus(key, "completed")
  BY <1>1 DEF OpenGate, Deliver, Accepting, GateOpens
<1>4. /\ a \in Attempts /\ Created(docs, t) /\ at \in Nat
      /\ Has(docs, "result", t, a, h)
  <2>1. TaskTold(History, docs, t) /\ a \in Attempts /\ Created(docs, t)
    BY <1>3, TaskOfHistory
  <2> QED  BY <1>1, <1>2, <1>3, <2>1, StampsAreTimes DEF TaskTold, InState
<1>5. ~Entered(key)
  BY <1>3 DEF Status, Entered, IInv, TypeOK
<1>6. ~Entered(ReviewKey(t, a, h)) /\ ~Judged(t, a, h)
  BY <1>4, <1>5 DEF IInv, ReviewInv, ReviewOpen, Status, Entered
<1>7. PICK a0 \in Attempts : a0 = a
  BY <1>4
<1> HIDE DEF a, key
<1>8. /\ job' \in Handlers /\ job' # None /\ job'.pc = "evidence" /\ job'.task = t
      /\ job'.attempt = a0 /\ job'.decision = None /\ job'.head = h
  BY <1>2, <1>4, <1>7, HandlerIsHandler DEF Steps
<1>9. /\ \A k : Entered(k) => Entered(k)'
      /\ \A k : k # GateKey(t, a0, h) =>
            (Entered(k)' <=> Entered(k)) /\ Status(k)' = Status(k)
      /\ Entered(GateKey(t, a0, h))'
  BY <1>3, <1>7, StatusIsSet DEF key
<1>10. Grows
  BY <1>3, <1>9 DEF Grows, World
<1>11. TypeOK'
  <2>1. \A k \in DOMAIN intents' :
           intents'[k] \in {"claimed", "running", "completed", "failed"}
    BY <1>3, StatusTypes
  <2> QED  BY <1>3, <1>8, <2>1, LimitsAssumption DEF IInv, TypeOK, World
<1>12. DocsInv'
  BY <1>3, <1>10, DocsKept
<1>13. OneTask'
  <2>1. Sound(History, docs)' /\ History'.ok /\ Created(docs, t)'
    BY <1>3, <1>4, HistoryIsSound DEF History
  <2> QED  BY <1>3, <1>8, <1>10, <2>1, OneTaskStarts DEF World
<1>14. DispatchInv'
  BY <1>3, <1>8, <1>9, KeysDiffer, DispatchKept DEF World
<1>15. ReviewInv'
  <2>1. OneVerdictPerHead' /\ VerdictsAreGated'
    BY <1>3 DEF IInv, ReviewInv, OneVerdictPerHead, VerdictsAreGated, World
  <2>2. \A u \in Tasks, b \in Attempts, g \in Heads :
          /\ Judged(u, b, g)' => ~ReviewOpen(u, b, g)'
          /\ Entered(ReviewKey(u, b, g))' => Entered(GateKey(u, b, g))'
    BY <1>3, <1>9, KeysDiffer DEF IInv, ReviewInv, Judged, ReviewOpen, World
  <2>3. ~Judged(t, a0, h)' /\ Has(docs, "result", t, a0, h)' /\ h \in green'
    BY <1>3, <1>4, <1>6, <1>7 DEF Judged, World
  <2> QED  BY <1>8, <1>9, <2>1, <2>2, <2>3 DEF ReviewInv, Doing
<1>16. JobInv'
  BY <1>8, NothingAssumption DEF JobInv, Following, Decisions
<1> QED  BY <1>11, <1>12, <1>13, <1>14, <1>15, <1>16 DEF IInv

LEMMA RetryReviewKeeps ==
    ASSUME IInv, NEW h \in Heads, RetryReview(h)
    PROVE  IInv'
<1>1. PICK t \in Tasks : t = pushed[h].task /\ pushed[h].at \in Nat
  BY PushedTask DEF RetryReview
<1> DEFINE a == History.tasks[t].attempt
<1>2. PICK at \in Stamps(pushed[h].at) : job' = Handler("review", t, a, at, h)
  BY <1>1 DEF RetryReview
<1>3. /\ UNCHANGED <<docs, results, intents, World, crashes>>
      /\ clock' = clock + 1 /\ clock < MaxEvents
      /\ History.ok /\ InState(History, t, "WAITING_FOR_OPENAI_REVIEW")
      /\ History.tasks[t].head = h /\ ReviewOpen(t, a, h)
  BY <1>1 DEF RetryReview, Deliver
<1>4. /\ a \in Attempts /\ Created(docs, t) /\ at \in Nat
      /\ Has(docs, "result", t, a, h) /\ Has(docs, "ci", t, a, h)
  <2>1. TaskTold(History, docs, t) /\ a \in Attempts /\ Created(docs, t)
    BY <1>3, TaskOfHistory
  <2> QED  BY <1>1, <1>2, <1>3, <2>1, StampsAreTimes DEF TaskTold, InState
<1>5. h \in green /\ Entered(GateKey(t, a, h)) /\ ~Judged(t, a, h)
  BY <1>3, <1>4 DEF IInv, DocsInv, Has, ReviewInv
<1>6. PICK a0 \in Attempts : a0 = a
  BY <1>4
<1> HIDE DEF a
<1>7. /\ job' \in Handlers /\ job' # None /\ job'.pc = "review" /\ job'.task = t
      /\ job'.attempt = a0 /\ job'.decision = None /\ job'.head = h
  BY <1>2, <1>4, <1>6, HandlerIsHandler DEF Steps
<1>8. Grows
  BY <1>3 DEF Grows, World, Entered
<1>9. TypeOK'
  BY <1>3, <1>7, LimitsAssumption DEF IInv, TypeOK, World
<1>10. DocsInv'
  BY <1>3, <1>8, DocsKept
<1>11. OneTask'
  <2>1. Sound(History, docs)' /\ History'.ok /\ Created(docs, t)'
    BY <1>3, <1>4, HistoryIsSound DEF History
  <2> QED  BY <1>3, <1>7, <1>8, <2>1, OneTaskStarts DEF World
<1>12. DispatchInv'
  BY <1>3, <1>7, DispatchKept DEF World, Status
<1>13. ReviewInv'
  BY <1>3, <1>4, <1>5, <1>6, <1>7
     DEF IInv, ReviewInv, OneVerdictPerHead, VerdictsAreGated, Judged, ReviewOpen, Status,
         Entered, Doing, World
<1>14. JobInv'
  BY <1>7, NothingAssumption DEF JobInv, Following, Decisions
<1> QED  BY <1>9, <1>10, <1>11, <1>12, <1>13, <1>14 DEF IInv

-----------------------------------------------------------------------------
(* The dispatch of a task. *)

\* A step of a handler writes at most the intent of one key.
LEMMA StepWrites ==
    ASSUME IInv, NEW key, NEW s \in {"claimed", "running", "completed", "failed"},
           SetStatus(key, s), UNCHANGED <<docs, green>>
    PROVE  /\ Grows
           /\ DocsInv'
           /\ \A k \in DOMAIN intents' :
                 intents'[k] \in {"claimed", "running", "completed", "failed"}
<1>1. Grows
  BY StatusIsSet DEF Grows
<1>2. DocsInv'
  BY <1>1, DocsKept
<1> QED  BY <1>1, <1>2, StatusTypes

LEMMA StartDispatchKeeps ==
    ASSUME IInv, StartDispatch
    PROVE  IInv'
<1>1. job \in Handlers /\ job.pc = "dispatch" /\ job # None
  BY DEF StartDispatch, Doing, IInv, TypeOK
<1>2. PICK t \in Tasks, a \in Attempts : t = job.task /\ a = job.attempt
  BY <1>1 DEF Handlers
<1>3. /\ UNCHANGED <<docs, results, clock, World, crashes>>
      /\ SetStatus(DispatchKey(t, a), "running")
      /\ job' \in Handlers /\ job'.pc = "run" /\ job'.task = t /\ job'.attempt = a
      /\ job'.decision = job.decision
  BY <1>1, <1>2, ThenIsHandler DEF StartDispatch, Steps
<1>4. job' # None
  BY <1>3, NoneAssumption
<1>5. /\ Grows /\ DocsInv'
      /\ \A k \in DOMAIN intents' :
            intents'[k] \in {"claimed", "running", "completed", "failed"}
  BY <1>3, StepWrites DEF World
<1>6. TypeOK'
  BY <1>3, <1>5 DEF IInv, TypeOK, World
<1>7. OneTask'
  BY <1>1, <1>2, <1>3, <1>5, OneTaskKept DEF World
<1>8. /\ Status(DispatchKey(t, a))' = "running"
      /\ \A u \in Tasks, b \in Attempts :
            Status(DispatchKey(u, b))' = Status(DispatchKey(u, b)) \/ (u = t /\ b = a)
  BY <1>3, StatusIsSet, KeysDiffer
<1>9. DispatchInv'
  BY <1>1, <1>2, <1>3, <1>4, <1>8
     DEF IInv, DispatchInv, OneRunPerAttempt, Ran, DispatchOpen, Doing, World
<1>10. ReviewInv'
  BY <1>3, <1>5, StatusIsSet, KeysDiffer, ReviewKept DEF World
<1>11. JobInv'
  BY <1>1, <1>2, <1>3 DEF IInv, JobInv, Following
<1> QED  BY <1>5, <1>6, <1>7, <1>9, <1>10, <1>11 DEF IInv

LEMMA RunAgentKeeps ==
    ASSUME IInv, RunAgent
    PROVE  IInv'
<1>1. job \in Handlers /\ job.pc = "run" /\ job # None
  BY DEF RunAgent, Doing, IInv, TypeOK
<1>2. PICK t \in Tasks, a \in Attempts : t = job.task /\ a = job.attempt
  BY <1>1 DEF Handlers
<1>3. UNCHANGED <<docs, results, clock, pushed, tip, green, verdicts, followUps, crashes>>
  BY DEF RunAgent
<1>4. ~Ran(t, a) /\ ~DispatchOpen(t, a)
  BY <1>1, <1>2 DEF IInv, DispatchInv, Doing
<1>5. PICK r \in Run : r = [task |-> t, attempt |-> a]
  BY DEF Run
<1>6. CASE UNCHANGED intents /\ runs' = Append(runs, r) /\ job' = Then("settle")
  <2>1. /\ job' \in Handlers /\ job'.pc = "settle" /\ job'.task = t /\ job' # None
        /\ job'.decision = job.decision
    BY <1>1, <1>2, <1>6, ThenIsHandler, NoneAssumption DEF Steps
  <2>2. runs \in Seq(Run)
    BY DEF IInv, TypeOK
  <2>3. /\ DOMAIN runs = 1 .. Len(runs) /\ Len(runs) \in Nat
        /\ DOMAIN runs' = 1 .. Len(runs) + 1
        /\ \A i \in 1 .. Len(runs) : runs'[i] = runs[i]
        /\ runs'[Len(runs) + 1] = r
        /\ runs' \in Seq(Run)
    BY <1>6, <2>2
  <2>4. Grows
    BY <1>3, <1>6 DEF Grows, Entered
  <2>5. TypeOK'
    BY <1>3, <1>6, <2>1, <2>3 DEF IInv, TypeOK
  <2>6. DocsInv'
    BY <1>3, <2>4, DocsKept
  <2>7. OneTask'
    <3>1. PICK u \in Tasks : Alone(u)
      BY <1>1 DEF IInv, OneTask
    <3>2. u = t
      BY <1>1, <1>2, <3>1 DEF Alone
    <3>3. Created(docs, u)'
      BY <1>3, <3>1 DEF Alone, Created
    <3>4. \A i \in DOMAIN runs' : runs'[i].task = u
      BY <1>5, <2>3, <3>1, <3>2 DEF Alone
    <3> QED  BY <1>3, <2>1, <3>1, <3>2, <3>3, <3>4 DEF Alone, OneTask
  <2>8. DispatchInv'
    <3>1. \A i \in DOMAIN runs : runs[i] # r
      BY <1>4, <1>5 DEF Ran
    <3>2. OneRunPerAttempt'
      BY <2>3, <3>1 DEF OneRunPerAttempt, IInv, DispatchInv
    <3>3. \A u \in Tasks, b \in Attempts :
            Ran(u, b)' => Ran(u, b) \/ (u = t /\ b = a)
      BY <1>5, <2>3 DEF Ran
    <3>4. \A u \in Tasks, b \in Attempts : DispatchOpen(u, b)' = DispatchOpen(u, b)
      BY <1>6 DEF DispatchOpen, Status
    <3> QED  BY <1>4, <2>1, <3>2, <3>3, <3>4 DEF IInv, DispatchInv, Doing
  <2>9. ReviewInv'
    BY <1>3, <1>6, <2>1, <2>4, ReviewKept DEF Status, Entered
  <2>10. JobInv'
    BY <1>1, <1>2, <2>1 DEF IInv, JobInv, Following
  <2> QED  BY <2>5, <2>6, <2>7, <2>8, <2>9, <2>10 DEF IInv
<1>7. CASE /\ SetStatus(DispatchKey(t, a), "claimed") /\ job' = None /\ UNCHANGED runs
  <2>1. /\ Grows /\ DocsInv'
        /\ \A k \in DOMAIN intents' :
              intents'[k] \in {"claimed", "running", "completed", "failed"}
    BY <1>3, <1>7, StepWrites
  <2>2. TypeOK'
    BY <1>3, <1>7, <2>1 DEF IInv, TypeOK
  <2>3. OneTask'
    BY <1>3, <1>7, <2>1, OneTaskKept
  <2>4. \A u \in Tasks, b \in Attempts :
          Status(DispatchKey(u, b))' = Status(DispatchKey(u, b)) \/ (u = t /\ b = a)
    BY <1>7, StatusIsSet, KeysDiffer
  <2>5. DispatchInv'
    BY <1>4, <1>7, <2>4
       DEF IInv, DispatchInv, OneRunPerAttempt, Ran, DispatchOpen, Doing
  <2>6. ReviewInv'
    BY <1>3, <1>7, <2>1, StatusIsSet, KeysDiffer, ReviewKept
  <2>7. JobInv'
    BY <1>7 DEF JobInv
  <2> QED  BY <2>1, <2>2, <2>3, <2>5, <2>6, <2>7 DEF IInv
<1> QED  BY <1>2, <1>5, <1>6, <1>7 DEF RunAgent

LEMMA SettleDispatchKeeps ==
    ASSUME IInv, SettleDispatch
    PROVE  IInv'
<1>1. job \in Handlers /\ job.pc = "settle" /\ job # None
  BY DEF SettleDispatch, Doing, IInv, TypeOK
<1>2. PICK t \in Tasks, a \in Attempts : t = job.task /\ a = job.attempt
  BY <1>1 DEF Handlers
<1>3. PICK s \in {"running", "completed", "failed"} :
        /\ SetStatus(DispatchKey(t, a), s)
        /\ job' = IF s = "failed" THEN None ELSE Then("record")
  BY <1>2 DEF SettleDispatch
<1>4. UNCHANGED <<docs, results, clock, World, crashes>>
  BY DEF SettleDispatch
<1>5. job' = None \/ (/\ job' \in Handlers /\ job'.pc = "record" /\ job'.task = t
                     /\ job'.decision = job.decision)
  BY <1>1, <1>2, <1>3, ThenIsHandler DEF Steps
<1>6. /\ Grows /\ DocsInv'
      /\ \A k \in DOMAIN intents' :
            intents'[k] \in {"claimed", "running", "completed", "failed"}
  BY <1>3, <1>4, StepWrites DEF World
<1>7. TypeOK'
  BY <1>4, <1>5, <1>6 DEF IInv, TypeOK, World
<1>8. OneTask'
  BY <1>1, <1>2, <1>4, <1>5, <1>6, OneTaskKept DEF World
<1>9. /\ Status(DispatchKey(t, a))' = s
      /\ \A u \in Tasks, b \in Attempts :
            Status(DispatchKey(u, b))' = Status(DispatchKey(u, b)) \/ (u = t /\ b = a)
  BY <1>3, StatusIsSet, KeysDiffer
<1>10. DispatchInv'
  BY <1>4, <1>5, <1>9
     DEF IInv, DispatchInv, OneRunPerAttempt, Ran, DispatchOpen, Doing, World
<1>11. ReviewInv'
  BY <1>3, <1>4, <1>5, <1>6, StatusIsSet, KeysDiffer, ReviewKept DEF World
<1>12. JobInv'
  BY <1>1, <1>2, <1>5 DEF IInv, JobInv, Following
<1> QED  BY <1>6, <1>7, <1>8, <1>10, <1>11, <1>12 DEF IInv

-----------------------------------------------------------------------------
(* The documents of a handler. *)

\* A step that appends a document and writes no intent.
LEMMA RecordKeeps ==
    ASSUME IInv, NEW d, NEW next, Write(d, next), job \in Handlers,
           UNCHANGED <<results, intents, clock, World, crashes>>,
           WellFormed(d),
           d.type = "ci" => /\ d.head \in green
                            /\ Has(docs, "result", d.task, d.attempt, d.head)
                            /\ Entered(GateKey(d.task, d.attempt, d.head)),
           next = None \/ (/\ next \in Handlers /\ next.task = job.task
                          /\ next.pc \notin {"dispatch", "run"}),
           ReviewInv', JobInv'
    PROVE  IInv'
<1>1. d \in Document /\ job # None
  BY NoneAssumption DEF WellFormed
<1>2. docs' = docs \/ docs' = docs \cup {d}
  BY WriteDoes
<1>3. job' = None \/ job' = next
  BY WriteDoes
<1>4. Grows
  BY <1>2 DEF Grows, World, Entered
<1>5. TypeOK'
  BY <1>1, <1>2, <1>3 DEF IInv, TypeOK, World
<1>6. DocsInv'
  BY <1>2, <1>4, DocsKept
<1>7. OneTask'
  BY <1>1, <1>3, <1>4, OneTaskKept DEF World
<1>8. DispatchInv'
  BY <1>3, DispatchKept DEF Status, World
<1> QED  BY <1>5, <1>6, <1>7, <1>8 DEF IInv

LEMMA RecordDispatchKeeps ==
    ASSUME IInv, RecordDispatch
    PROVE  IInv'
<1>1. job \in Handlers /\ job.pc = "record" /\ job # None
  BY DEF RecordDispatch, Doing, IInv, TypeOK
<1>2. /\ job.task \in Tasks /\ job.attempt \in Attempts /\ job.at + 1 \in Nat
  BY <1>1 DEF Handlers
<1>3. PICK d \in Document : /\ d = Blank("dispatched", job.task, job.at + 1, job.attempt)
                            /\ d.type = "dispatched"
  BY <1>2, BlankIsDocument DEF DocumentTypes
<1>4. Write(d, None) /\ UNCHANGED <<results, intents, clock, World, crashes>>
  BY <1>3 DEF RecordDispatch
<1>5. docs \subseteq docs' /\ job' = None
  BY <1>4, WriteDoes
<1>6. Grows
  BY <1>4, <1>5 DEF Grows, World, Entered
<1>7. ReviewInv'
  BY <1>4, <1>5, <1>6, ReviewKept DEF Status, Entered, World
<1>8. JobInv'
  BY <1>5 DEF JobInv
<1>9. WellFormed(d)
  BY <1>3 DEF WellFormed
<1> QED  BY <1>1, <1>3, <1>4, <1>7, <1>8, <1>9, RecordKeeps

LEMMA RecordResultKeeps ==
    ASSUME IInv, RecordResult
    PROVE  IInv'
<1>1. job \in Handlers /\ job.pc = "result" /\ job # None
  BY DEF RecordResult, Doing, IInv, TypeOK
<1>2. /\ job.task \in Tasks /\ job.attempt \in Attempts /\ job.at \in Nat
      /\ job.head \in Heads
  BY <1>1 DEF Handlers, IInv, JobInv
<1>3. PICK d \in Document :
        /\ d = [Blank("result", job.task, job.at, job.attempt) EXCEPT !.head = job.head]
        /\ d.type = "result"
  <2>1. PICK b \in Document :
          /\ b = Blank("result", job.task, job.at, job.attempt)
          /\ b.type = "result" /\ b.task = job.task /\ b.attempt = job.attempt
    BY <1>2, BlankIsDocument DEF DocumentTypes
  <2>2. PICK d \in Document : d = [b EXCEPT !.head = job.head]
    BY <1>2 DEF Document
  <2>3. d.type = b.type /\ d.task = b.task /\ d.attempt = b.attempt
    BY <2>2 DEF Document
  <2> QED  BY <1>2, <2>1, <2>2, <2>3 DEF Document
<1>4. Write(d, None) /\ UNCHANGED <<results, intents, clock, World, crashes>>
  BY <1>3 DEF RecordResult
<1>5. docs \subseteq docs' /\ job' = None
  BY <1>4, WriteDoes
<1>6. Grows
  BY <1>4, <1>5 DEF Grows, World, Entered
<1>7. ReviewInv'
  BY <1>4, <1>5, <1>6, ReviewKept DEF Status, Entered, World
<1>8. JobInv'
  BY <1>5 DEF JobInv
<1>9. WellFormed(d)
  BY <1>3 DEF WellFormed
<1> QED  BY <1>1, <1>3, <1>4, <1>7, <1>8, <1>9, RecordKeeps

LEMMA RecordEvidenceKeeps ==
    ASSUME IInv, RecordEvidence
    PROVE  IInv'
<1>1. job \in Handlers /\ job.pc = "evidence" /\ job # None
  BY DEF RecordEvidence, Doing, IInv, TypeOK
<1>2. PICK t \in Tasks, a \in Attempts, h \in Heads :
        t = job.task /\ a = job.attempt /\ h = job.head /\ job.at \in Nat
  BY <1>1 DEF Handlers, IInv, JobInv
<1>3. PICK d \in Document :
        /\ d = [Blank("ci", t, job.at, a) EXCEPT !.head = h]
        /\ d.type = "ci" /\ d.task = t /\ d.attempt = a /\ d.head = h
  <2>1. PICK b \in Document :
          /\ b = Blank("ci", t, job.at, a)
          /\ b.type = "ci" /\ b.task = t /\ b.attempt = a
    BY <1>2, BlankIsDocument DEF DocumentTypes
  <2>2. PICK d \in Document : d = [b EXCEPT !.head = h]
    BY <1>2 DEF Document
  <2>3. d.type = b.type /\ d.task = b.task /\ d.attempt = b.attempt
    BY <2>2 DEF Document
  <2> QED  BY <1>2, <2>1, <2>2, <2>3 DEF Document
<1>4. /\ Write(d, Then("review"))
      /\ UNCHANGED <<results, intents, clock, World, crashes>>
  BY <1>2, <1>3 DEF RecordEvidence
<1>5. PICK next \in Handlers :
        /\ next = Then("review") /\ next.pc = "review" /\ next.task = t
        /\ next.attempt = a /\ next.head = h /\ next.decision = job.decision
  BY <1>1, <1>2, ThenIsHandler DEF Steps
<1>6. docs \subseteq docs' /\ (job' = None \/ job' = next)
  BY <1>4, <1>5, WriteDoes
<1>7. ~Judged(t, a, h) /\ Entered(GateKey(t, a, h)) /\ h \in green
      /\ Has(docs, "result", t, a, h)
  BY <1>1, <1>2 DEF IInv, ReviewInv
<1>8. \A u, b, g : Has(docs, "result", u, b, g) => Has(docs, "result", u, b, g)'
  BY <1>6 DEF Has
<1>9. ReviewInv'
  <2>1. OneVerdictPerHead' /\ VerdictsAreGated'
    BY <1>4, <1>6 DEF IInv, ReviewInv, OneVerdictPerHead, VerdictsAreGated, World
  <2> QED  BY <1>4, <1>5, <1>6, <1>7, <1>8, <2>1
              DEF IInv, ReviewInv, Judged, ReviewOpen, Status, Entered, Doing, World
<1>10. JobInv'
  BY <1>1, <1>2, <1>5, <1>6 DEF IInv, JobInv, Following
<1>11. WellFormed(d)
  BY <1>3 DEF WellFormed
<1>12. Write(d, next)
  BY <1>4, <1>5
<1> QED  BY <1>1, <1>2, <1>3, <1>4, <1>5, <1>7, <1>9, <1>10, <1>11, <1>12, RecordKeeps

LEMMA RecordReviewKeeps ==
    ASSUME IInv, RecordReview
    PROVE  IInv'
<1>1. job \in Handlers /\ job.pc = "verdict" /\ job # None
  BY DEF RecordReview, Doing, IInv, TypeOK
<1>2. /\ job.task \in Tasks /\ job.attempt \in Attempts /\ job.at + 2 \in Nat
      /\ job.head \in Heads \cup {None} /\ job.decision \in Decisions \cup {None}
  BY <1>1 DEF Handlers
<1>3. PICK d \in Document :
        /\ d = [Blank("review", job.task, job.at + 2, job.attempt) EXCEPT
                  !.head = job.head, !.decision = job.decision]
        /\ d.type = "review"
  <2>1. PICK b \in Document :
          /\ b = Blank("review", job.task, job.at + 2, job.attempt)
          /\ b.type = "review" /\ b.task = job.task /\ b.attempt = job.attempt
    BY <1>2, BlankIsDocument DEF DocumentTypes
  <2>2. PICK d \in Document : d = [b EXCEPT !.head = job.head, !.decision = job.decision]
    BY <1>2 DEF Document
  <2>3. d.type = b.type /\ d.task = b.task /\ d.attempt = b.attempt
    BY <2>2 DEF Document
  <2> QED  BY <1>2, <2>1, <2>2, <2>3 DEF Document
<1>4. /\ Write(d, IF job.decision = "NEXT_TASK" THEN Then("next") ELSE None)
      /\ UNCHANGED <<results, intents, clock, World, crashes>>
  BY <1>3 DEF RecordReview
<1>5. PICK next \in Handlers \cup {None} :
        /\ next = IF job.decision = "NEXT_TASK" THEN Then("next") ELSE None
        /\ next # None => /\ next \in Handlers /\ next.pc = "next"
                          /\ next.task = job.task /\ next.decision = "NEXT_TASK"
                          /\ job.decision = "NEXT_TASK"
  BY <1>1, ThenIsHandler DEF Steps
<1>6. docs \subseteq docs' /\ (job' = None \/ job' = next)
  BY <1>4, <1>5, WriteDoes
<1>7. Grows
  BY <1>4, <1>6 DEF Grows, World, Entered
<1>8. ReviewInv'
  BY <1>4, <1>5, <1>6, <1>7, ReviewKept DEF Status, Entered, World
<1>9. JobInv'
  BY <1>1, <1>5, <1>6 DEF IInv, JobInv, Following
<1>10. WellFormed(d)
  BY <1>3 DEF WellFormed
<1>11. Write(d, next)
  BY <1>4, <1>5
<1> QED  BY <1>1, <1>3, <1>4, <1>5, <1>8, <1>9, <1>10, <1>11, RecordKeeps

LEMMA RecordNextKeeps ==
    ASSUME IInv, RecordNext
    PROVE  IInv'
<1>1. job \in Handlers /\ job.pc = "stop" /\ job # None
  BY DEF RecordNext, Doing, IInv, TypeOK
<1>2. /\ job.task \in Tasks /\ job.attempt \in Attempts /\ job.at + 4 \in Nat
      /\ job.head \in Heads \cup {None} /\ job.task + 1 \in Tasks
  BY <1>1 DEF Handlers, IInv, JobInv, Following
<1>3. PICK d \in Document :
        /\ d = [Blank("next", job.task, job.at + 4, job.attempt) EXCEPT
                  !.head = job.head, !.next = job.task + 1]
        /\ d.type = "next" /\ d.next = job.task + 1
  <2>1. PICK b \in Document :
          /\ b = Blank("next", job.task, job.at + 4, job.attempt)
          /\ b.type = "next" /\ b.task = job.task /\ b.attempt = job.attempt
    BY <1>2, BlankIsDocument DEF DocumentTypes
  <2>2. PICK d \in Document : d = [b EXCEPT !.head = job.head, !.next = job.task + 1]
    BY <1>2 DEF Document
  <2>3. d.type = b.type /\ d.task = b.task /\ d.attempt = b.attempt
    BY <2>2 DEF Document
  <2> QED  BY <1>2, <2>1, <2>2, <2>3 DEF Document
<1>4. Write(d, None) /\ UNCHANGED <<results, intents, clock, World, crashes>>
  BY <1>3 DEF RecordNext
<1>5. docs \subseteq docs' /\ job' = None
  BY <1>4, WriteDoes
<1>6. Grows
  BY <1>4, <1>5 DEF Grows, World, Entered
<1>7. ReviewInv'
  BY <1>4, <1>5, <1>6, ReviewKept DEF Status, Entered, World
<1>8. JobInv'
  BY <1>5 DEF JobInv
<1>9. WellFormed(d)
  BY <1>2, <1>3 DEF WellFormed
<1> QED  BY <1>1, <1>3, <1>4, <1>7, <1>8, <1>9, RecordKeeps

-----------------------------------------------------------------------------
(* The review of a head. *)

LEMMA StartReviewKeeps ==
    ASSUME IInv, StartReview
    PROVE  IInv'
<1>1. job \in Handlers /\ job.pc = "review" /\ job # None
  BY DEF StartReview, Doing, IInv, TypeOK
<1>2. PICK t \in Tasks, a \in Attempts, h \in Heads :
        t = job.task /\ a = job.attempt /\ h = job.head
  BY <1>1 DEF Handlers, IInv, JobInv
<1>3. /\ UNCHANGED <<docs, results, clock, World, crashes>>
      /\ SetStatus(ReviewKey(t, a, h), "running")
      /\ job' \in Handlers /\ job'.pc = "ask" /\ job'.task = t /\ job'.attempt = a
      /\ job'.head = h /\ job'.decision = job.decision
  BY <1>1, <1>2, ThenIsHandler DEF StartReview, Steps
<1>4. /\ Grows /\ DocsInv'
      /\ \A k \in DOMAIN intents' :
            intents'[k] \in {"claimed", "running", "completed", "failed"}
  BY <1>3, StepWrites DEF World
<1>5. TypeOK'
  BY <1>3, <1>4 DEF IInv, TypeOK, World
<1>6. OneTask'
  BY <1>1, <1>2, <1>3, <1>4, OneTaskKept DEF World
<1>7. DispatchInv'
  BY <1>3, StatusIsSet, KeysDiffer, DispatchKept DEF World
<1>8. /\ ~Judged(t, a, h) /\ Entered(GateKey(t, a, h)) /\ h \in green
      /\ Has(docs, "result", t, a, h)
  BY <1>1, <1>2 DEF IInv, ReviewInv
<1>9. ReviewInv'
  <2>1. OneVerdictPerHead' /\ VerdictsAreGated'
    BY <1>3 DEF IInv, ReviewInv, OneVerdictPerHead, VerdictsAreGated, World
  <2>2. /\ Status(ReviewKey(t, a, h))' = "running"
        /\ Entered(GateKey(t, a, h))'
        /\ \A u \in Tasks, b \in Attempts, g \in Heads :
              \/ u = t /\ b = a /\ g = h
              \/ /\ Status(ReviewKey(u, b, g))' = Status(ReviewKey(u, b, g))
                 /\ Entered(ReviewKey(u, b, g))' <=> Entered(ReviewKey(u, b, g))
    BY <1>3, <1>4, <1>8, StatusIsSet, KeysDiffer DEF Grows
  <2>3. \A u, b, g : Judged(u, b, g)' <=> Judged(u, b, g)
    BY <1>3 DEF Judged, World
  <2>4. /\ ~Judged(t, a, h)' /\ h \in green' /\ Has(docs, "result", t, a, h)'
        /\ ~ReviewOpen(t, a, h)'
    BY <1>3, <1>8, <2>2, <2>3 DEF World, ReviewOpen
  <2>5. \A u \in Tasks, b \in Attempts, g \in Heads :
          /\ Judged(u, b, g)' => ~ReviewOpen(u, b, g)'
          /\ Entered(ReviewKey(u, b, g))' => Entered(GateKey(u, b, g))'
    BY <1>4, <1>8, <2>2, <2>3, <2>4 DEF IInv, ReviewInv, ReviewOpen, Grows
  <2> QED  BY <1>3, <2>1, <2>2, <2>4, <2>5 DEF ReviewInv, Doing
<1>10. JobInv'
  BY <1>1, <1>2, <1>3 DEF IInv, JobInv, Following
<1> QED  BY <1>4, <1>5, <1>6, <1>7, <1>9, <1>10 DEF IInv

LEMMA AskReviewerKeeps ==
    ASSUME IInv, AskReviewer
    PROVE  IInv'
<1>1. job \in Handlers /\ job.pc = "ask" /\ job # None
  BY DEF AskReviewer, Doing, IInv, TypeOK
<1>2. PICK t \in Tasks, a \in Attempts, h \in Heads :
        t = job.task /\ a = job.attempt /\ h = job.head
  BY <1>1 DEF Handlers, IInv, JobInv
<1>3. UNCHANGED <<docs, results, clock, pushed, tip, green, runs, followUps, crashes>>
  BY DEF AskReviewer
<1>4. /\ ~Judged(t, a, h) /\ ~ReviewOpen(t, a, h) /\ h \in green
      /\ Has(docs, "result", t, a, h)
  BY <1>1, <1>2 DEF IInv, ReviewInv, Doing
<1>5. PICK v \in Verdict :
        v = [task |-> t, attempt |-> a, head |-> h, judged |-> tip[t]]
  BY DEF Verdict, IInv, TypeOK
<1>6. CASE \E d \in Decisions :
              /\ d = "NEXT_TASK" => job.task + 1 \in Tasks
              /\ verdicts' = Append(verdicts, v)
              /\ job' = [job EXCEPT !.pc = "decided", !.decision = d]
              /\ UNCHANGED intents
  <2>1. /\ verdicts' = Append(verdicts, v) /\ UNCHANGED intents
        /\ job' \in Handlers /\ job'.pc = "decided" /\ job'.task = t
        /\ job'.attempt = a /\ job'.head = h
        /\ job'.decision = "NEXT_TASK" => job'.task + 1 \in Tasks
    BY <1>1, <1>2, <1>6 DEF Handlers, Steps
  <2>2. verdicts \in Seq(Verdict)
    BY DEF IInv, TypeOK
  <2>3. /\ DOMAIN verdicts = 1 .. Len(verdicts) /\ Len(verdicts) \in Nat
        /\ DOMAIN verdicts' = 1 .. Len(verdicts) + 1
        /\ \A i \in 1 .. Len(verdicts) : verdicts'[i] = verdicts[i]
        /\ verdicts'[Len(verdicts) + 1] = v
        /\ verdicts' \in Seq(Verdict)
    BY <2>1, <2>2
  <2>4. Grows
    BY <1>3, <2>1 DEF Grows, Entered
  <2>5. TypeOK'
    BY <1>3, <2>1, <2>3 DEF IInv, TypeOK
  <2>6. DocsInv'
    BY <1>3, <2>4, DocsKept
  <2>7. OneTask'
    BY <1>1, <1>2, <1>3, <2>1, <2>4, OneTaskKept
  <2>8. DispatchInv'
    BY <1>3, <2>1, DispatchKept DEF Status
  <2>9. ReviewInv'
    <3>1. \A i \in DOMAIN verdicts :
            ~SameReview(verdicts[i], v) /\ ~SameReview(v, verdicts[i])
      BY <1>4, <1>5 DEF Judged, SameReview
    <3>2. OneVerdictPerHead'
      BY <2>3, <3>1 DEF OneVerdictPerHead, IInv, ReviewInv
    <3>3. \E d \in docs : /\ d.type = "result" /\ d.task = v.task
                          /\ d.attempt = v.attempt /\ d.head = v.head
      BY <1>4, <1>5 DEF Has
    <3>4. v.head \in green
      BY <1>4, <1>5
    <3>5. VerdictsAreGated'
      BY <1>3, <2>3, <3>3, <3>4 DEF VerdictsAreGated, IInv, ReviewInv
    <3>6. \A u \in Tasks, b \in Attempts, g \in Heads :
            Judged(u, b, g)' => Judged(u, b, g) \/ (u = t /\ b = a /\ g = h)
      BY <1>5, <2>3 DEF Judged
    <3>7. \A u \in Tasks, b \in Attempts, g \in Heads :
            /\ ReviewOpen(u, b, g)' = ReviewOpen(u, b, g)
            /\ Entered(ReviewKey(u, b, g))' = Entered(ReviewKey(u, b, g))
            /\ Entered(GateKey(u, b, g))' = Entered(GateKey(u, b, g))
      BY <2>1 DEF ReviewOpen, Status, Entered
    <3>8. \A u \in Tasks, b \in Attempts, g \in Heads :
            /\ Judged(u, b, g)' => ~ReviewOpen(u, b, g)'
            /\ Entered(ReviewKey(u, b, g))' => Entered(GateKey(u, b, g))'
      BY <1>4, <3>6, <3>7 DEF IInv, ReviewInv
    <3>9. Entered(GateKey(t, a, h))'
      BY <1>1, <1>2, <2>4 DEF IInv, ReviewInv, Grows
    <3> QED  BY <2>1, <3>2, <3>5, <3>8, <3>9 DEF ReviewInv, Doing
  <2>10. JobInv'
    BY <2>1 DEF JobInv, Following
  <2> QED  BY <2>5, <2>6, <2>7, <2>8, <2>9, <2>10 DEF IInv
<1>7. CASE SetStatus(ReviewKey(t, a, h), "claimed") /\ job' = None /\ UNCHANGED verdicts
  <2>1. /\ Grows /\ DocsInv'
        /\ \A k \in DOMAIN intents' :
              intents'[k] \in {"claimed", "running", "completed", "failed"}
    BY <1>3, <1>7, StepWrites
  <2>2. TypeOK'
    BY <1>3, <1>7, <2>1 DEF IInv, TypeOK
  <2>3. OneTask'
    BY <1>3, <1>7, <2>1, OneTaskKept
  <2>4. DispatchInv'
    BY <1>3, <1>7, StatusIsSet, KeysDiffer, DispatchKept
  <2>5. \A u \in Tasks, b \in Attempts, g \in Heads :
          \/ u = t /\ b = a /\ g = h
          \/ /\ Status(ReviewKey(u, b, g))' = Status(ReviewKey(u, b, g))
             /\ Entered(ReviewKey(u, b, g))' <=> Entered(ReviewKey(u, b, g))
    BY <1>7, StatusIsSet, KeysDiffer
  <2>6. Entered(ReviewKey(t, a, h)) \/ Status(ReviewKey(t, a, h)) = "none"
    BY DEF Entered, Status
  <2>7. Entered(GateKey(t, a, h))
    BY <1>1, <1>2 DEF IInv, ReviewInv
  <2>8. \A u \in Tasks, b \in Attempts, g \in Heads :
          /\ Judged(u, b, g)' => ~ReviewOpen(u, b, g)'
          /\ Entered(ReviewKey(u, b, g))' => Entered(GateKey(u, b, g))'
    BY <1>4, <1>7, <2>1, <2>5, <2>7 DEF IInv, ReviewInv, ReviewOpen, Judged, Grows
  <2>9. ReviewInv'
    BY <1>3, <1>7, <2>8
       DEF IInv, ReviewInv, OneVerdictPerHead, VerdictsAreGated, Doing
  <2>10. JobInv'
    BY <1>7 DEF JobInv
  <2> QED  BY <2>1, <2>2, <2>3, <2>4, <2>9, <2>10 DEF IInv
<1> QED  BY <1>2, <1>5, <1>6, <1>7 DEF AskReviewer

LEMMA CompleteReviewKeeps ==
    ASSUME IInv, CompleteReview
    PROVE  IInv'
<1> DEFINE key == ReviewKey(job.task, job.attempt, job.head)
<1>1. job \in Handlers /\ job.pc = "decided" /\ job # None
  BY DEF CompleteReview, Doing, IInv, TypeOK
<1>2. PICK k0 : k0 = key
  OBVIOUS
<1>3. /\ UNCHANGED <<docs, results, clock, World, crashes>>
      /\ SetStatus(k0, "completed")
      /\ job' \in Handlers /\ job'.pc = "verdict" /\ job'.task = job.task
      /\ job'.decision = job.decision
  BY <1>1, <1>2, ThenIsHandler DEF CompleteReview, Steps
<1>4. /\ Grows /\ DocsInv'
      /\ \A k \in DOMAIN intents' :
            intents'[k] \in {"claimed", "running", "completed", "failed"}
  BY <1>3, StepWrites DEF World
<1>5. TypeOK'
  BY <1>3, <1>4 DEF IInv, TypeOK, World
<1>6. OneTask'
  BY <1>1, <1>3, <1>4, OneTaskKept DEF World
<1>7. \A u, b : DispatchKey(u, b) # k0
  BY <1>2, KeysDiffer
<1>8. DispatchInv'
  BY <1>3, <1>7, StatusIsSet, DispatchKept DEF World
<1>9. ReviewInv'
  <2>1. OneVerdictPerHead' /\ VerdictsAreGated'
    BY <1>3 DEF IInv, ReviewInv, OneVerdictPerHead, VerdictsAreGated, World
  <2>2. /\ Status(k0)' = "completed"
        /\ \A k : k # k0 => (Entered(k)' <=> Entered(k)) /\ Status(k)' = Status(k)
    BY <1>3, StatusIsSet
  <2>3. \A t, a, h : k0 # GateKey(t, a, h)
    BY <1>2, KeysDiffer
  <2>4. ASSUME NEW t \in Tasks, NEW a \in Attempts, NEW h \in Heads
        PROVE  /\ Judged(t, a, h)' => ~ReviewOpen(t, a, h)'
               /\ Entered(ReviewKey(t, a, h))' => Entered(GateKey(t, a, h))'
    <3>1. Judged(t, a, h)' <=> Judged(t, a, h)
      BY <1>3 DEF Judged, World
    <3>2. CASE ReviewKey(t, a, h) = k0
      <4>1. t = job.task /\ a = job.attempt /\ h = job.head
        BY <1>2, <3>2 DEF ReviewKey
      <4>2. ~ReviewOpen(t, a, h)'
        BY <2>2, <3>2 DEF ReviewOpen
      <4>3. Entered(GateKey(t, a, h))'
        BY <1>1, <1>4, <4>1 DEF IInv, ReviewInv, Grows, Doing
      <4> QED  BY <4>2, <4>3
    <3>3. CASE ReviewKey(t, a, h) # k0
      BY <1>4, <2>2, <3>1, <3>3 DEF IInv, ReviewInv, ReviewOpen, Grows
    <3> QED  BY <3>2, <3>3
  <2> QED  BY <1>3, <2>1, <2>4 DEF ReviewInv, Doing
<1>10. JobInv'
  BY <1>1, <1>3 DEF IInv, JobInv, Following
<1> QED  BY <1>4, <1>5, <1>6, <1>8, <1>9, <1>10 DEF IInv

-----------------------------------------------------------------------------
(* The follow-up. *)

\* A step that writes the intent of the follow-up and nothing else.
LEMMA FollowUpKeeps ==
    ASSUME IInv, job \in Handlers,
           NEW s \in {"claimed", "running", "completed", "failed"},
           SetStatus(NextKey(job.task), s),
           UNCHANGED <<docs, results, clock, World, crashes>>,
           job' = None \/ (/\ job' \in Handlers /\ job'.task = job.task
                          /\ job'.pc \in {"create", "stop"}),
           JobInv'
    PROVE  IInv'
<1>1. PICK k0 : k0 = NextKey(job.task)
  OBVIOUS
<1>2. SetStatus(k0, s) /\ job # None
  BY <1>1, NoneAssumption
<1>3. /\ Grows /\ DocsInv'
      /\ \A k \in DOMAIN intents' :
            intents'[k] \in {"claimed", "running", "completed", "failed"}
  BY <1>2, StepWrites DEF World
<1>4. TypeOK'
  BY <1>3 DEF IInv, TypeOK, World
<1>5. OneTask'
  BY <1>2, <1>3, OneTaskKept DEF World
<1>6. \A t, a, h : DispatchKey(t, a) # k0 /\ ReviewKey(t, a, h) # k0
  BY <1>1, KeysDiffer
<1>7. DispatchInv'
  BY <1>2, <1>6, StatusIsSet, DispatchKept DEF World
<1>8. ReviewInv'
  BY <1>2, <1>3, <1>6, StatusIsSet, ReviewKept DEF World
<1> QED  BY <1>3, <1>4, <1>5, <1>7, <1>8 DEF IInv

LEMMA StartNextKeeps ==
    ASSUME IInv, StartNext
    PROVE  IInv'
<1>1. job \in Handlers /\ job.pc = "next" /\ job # None
  BY DEF StartNext, Doing, IInv, TypeOK
<1>2. /\ UNCHANGED <<docs, results, clock, World, crashes>>
      /\ SetStatus(NextKey(job.task), "running")
      /\ job' \in Handlers /\ job'.pc = "create" /\ job'.task = job.task
      /\ job'.decision = job.decision
  BY <1>1, ThenIsHandler DEF StartNext, Steps
<1>3. JobInv'
  BY <1>1, <1>2 DEF IInv, JobInv, Following
<1> QED  BY <1>1, <1>2, <1>3, FollowUpKeeps

LEMMA CreateNextKeeps ==
    ASSUME IInv, CreateNext
    PROVE  IInv'
<1>1. job \in Handlers /\ job.pc = "create" /\ job # None
  BY DEF CreateNext, Doing, IInv, TypeOK
<1>2. PICK t \in Tasks, f \in Tasks : t = job.task /\ f = t + 1
  BY <1>1 DEF Handlers, IInv, JobInv, Following
<1>3. UNCHANGED <<docs, results, clock, pushed, tip, green, runs, verdicts, crashes>>
  BY DEF CreateNext
<1>4. CASE followUps' = followUps \cup {f} /\ job' = Then("created") /\ UNCHANGED intents
  <2>1. /\ job' \in Handlers /\ job'.pc = "created" /\ job'.task = t
        /\ job'.decision = job.decision
    BY <1>1, <1>2, <1>4, ThenIsHandler DEF Steps
  <2>2. Grows
    BY <1>3, <1>4 DEF Grows, Entered
  <2>3. TypeOK'
    BY <1>3, <1>4, <2>1 DEF IInv, TypeOK
  <2>4. DocsInv'
    BY <1>3, <2>2, DocsKept
  <2>5. OneTask'
    <3>1. PICK u \in Tasks : Alone(u)
      BY <1>1 DEF IInv, OneTask
    <3>2. u = t
      BY <1>1, <1>2, <3>1 DEF Alone
    <3>3. Created(docs, u)'
      BY <1>3, <3>1 DEF Alone, Created
    <3> QED  BY <1>2, <1>3, <1>4, <2>1, <3>1, <3>2, <3>3 DEF Alone, OneTask
  <2>6. DispatchInv'
    BY <1>3, <1>4, <2>1, DispatchKept DEF Status
  <2>7. ReviewInv'
    BY <1>3, <1>4, <2>1, <2>2, ReviewKept DEF Status, Entered
  <2>8. JobInv'
    BY <1>1, <1>2, <2>1 DEF IInv, JobInv, Following
  <2> QED  BY <2>3, <2>4, <2>5, <2>6, <2>7, <2>8 DEF IInv
<1>5. CASE SetStatus(NextKey(t), "claimed") /\ job' = None /\ UNCHANGED followUps
  <2>1. JobInv'
    BY <1>5 DEF JobInv
  <2> QED  BY <1>1, <1>2, <1>3, <1>5, <2>1, FollowUpKeeps DEF World
<1> QED  BY <1>2, <1>4, <1>5 DEF CreateNext

LEMMA CompleteNextKeeps ==
    ASSUME IInv, CompleteNext
    PROVE  IInv'
<1>1. job \in Handlers /\ job.pc = "created" /\ job # None
  BY DEF CompleteNext, Doing, IInv, TypeOK
<1>2. /\ UNCHANGED <<docs, results, clock, World, crashes>>
      /\ SetStatus(NextKey(job.task), "completed")
      /\ job' \in Handlers /\ job'.pc = "stop" /\ job'.task = job.task
      /\ job'.decision = job.decision
  BY <1>1, ThenIsHandler DEF CompleteNext, Steps
<1>3. JobInv'
  BY <1>1, <1>2 DEF IInv, JobInv, Following
<1> QED  BY <1>1, <1>2, <1>3, FollowUpKeeps

-----------------------------------------------------------------------------
(* The surroundings. *)

\* What neither writes a document or an intent nor does anything for a task.
LEMMA OutsideKeeps ==
    ASSUME IInv, TypeOK', green \subseteq green', job' = job \/ job' = None,
           UNCHANGED <<docs, intents, runs, verdicts, followUps>>
    PROVE  IInv'
<1>1. Grows
  BY DEF Grows, Entered
<1>2. DocsInv'
  BY <1>1, DocsKept
<1>3. OneTask'
  BY <1>1, OneTaskKept
<1>4. DispatchInv'
  BY DEF IInv, DispatchInv, OneRunPerAttempt, Ran, DispatchOpen, Status, Doing
<1>5. ReviewInv'
  <2>1. OneVerdictPerHead' /\ VerdictsAreGated'
    BY DEF IInv, ReviewInv, OneVerdictPerHead, VerdictsAreGated
  <2> QED  BY <2>1 DEF IInv, ReviewInv, Judged, ReviewOpen, Status, Entered, Doing
<1>6. JobInv'
  BY DEF IInv, JobInv, Following
<1> QED  BY <1>2, <1>3, <1>4, <1>5, <1>6 DEF IInv

LEMMA PushKeeps ==
    ASSUME IInv, NEW h \in Heads, Push(h)
    PROVE  IInv'
<1>1. PICK i \in DOMAIN runs :
        /\ pushed' = [pushed EXCEPT ![h] = [task |-> runs[i].task, at |-> clock + 1]]
        /\ tip' = [tip EXCEPT ![runs[i].task] = h]
  BY DEF Push
<1>2. runs[i].task \in Tasks /\ clock + 1 \in Nat
  <2>1. runs \in Seq(Run) /\ clock \in Nat
    BY LimitsAssumption DEF IInv, TypeOK
  <2>2. runs[i] \in Run
    BY <2>1
  <2> QED  BY <2>1, <2>2 DEF Run
<1>3. TypeOK'
  BY <1>1, <1>2 DEF IInv, TypeOK, PushedHead, Push
<1> QED  BY <1>3, OutsideKeeps DEF Push

LEMMA ChecksPassKeeps ==
    ASSUME IInv, NEW h \in Heads, ChecksPass(h)
    PROVE  IInv'
<1>1. TypeOK'
  BY DEF IInv, TypeOK, ChecksPass
<1> QED  BY <1>1, OutsideKeeps DEF ChecksPass

LEMMA CrashKeeps ==
    ASSUME IInv, Crash
    PROVE  IInv'
<1>1. TypeOK'
  BY LimitsAssumption DEF IInv, TypeOK, Crash, World
<1> QED  BY <1>1, OutsideKeeps DEF Crash, World

LEMMA StutterKeeps ==
    ASSUME IInv, UNCHANGED vars
    PROVE  IInv'
<1>1. TypeOK'
  BY DEF IInv, TypeOK, vars
<1> QED  BY <1>1, OutsideKeeps DEF vars

-----------------------------------------------------------------------------
(* The theorems. *)

LEMMA InitHolds == Init => IInv
<1> SUFFICES ASSUME Init PROVE IInv
  OBVIOUS
<1>1. TypeOK
  BY LimitsAssumption DEF Init, TypeOK
<1>2. DocsInv
  BY FS_EmptySet DEF Init, DocsInv
<1>3. OneTask /\ JobInv
  BY DEF Init, OneTask, JobInv
<1>4. DispatchInv
  BY DEF Init, DispatchInv, OneRunPerAttempt, Ran, Doing
<1>5. ReviewInv
  BY DEF Init, ReviewInv, OneVerdictPerHead, VerdictsAreGated, Judged, Entered, Doing
<1> QED  BY <1>1, <1>2, <1>3, <1>4, <1>5 DEF IInv

LEMMA NextKeeps == IInv /\ [Next]_vars => IInv'
<1> SUFFICES ASSUME IInv, [Next]_vars PROVE IInv'
  OBVIOUS
<1>1. CASE \E t \in Issues : OpenIssue(t)
  BY <1>1, OpenIssueKeeps
<1>2. CASE \E t \in Tasks : Redispatch(t)
  BY <1>2, RedispatchKeeps
<1>3. CASE Dispatching
  BY <1>3, StartDispatchKeeps, RunAgentKeeps, SettleDispatchKeeps, RecordDispatchKeeps
     DEF Dispatching
<1>4. CASE \E h \in Heads : ReceiveResult(h) \/ OpenGate(h) \/ RetryReview(h)
  BY <1>4, ReceiveResultKeeps, OpenGateKeeps, RetryReviewKeeps
<1>5. CASE RecordResult
  BY <1>5, RecordResultKeeps
<1>6. CASE Reviewing
  BY <1>6, RecordEvidenceKeeps, StartReviewKeeps, AskReviewerKeeps, CompleteReviewKeeps,
     RecordReviewKeeps, StartNextKeeps, CreateNextKeeps, CompleteNextKeeps, RecordNextKeeps
     DEF Reviewing
<1>7. CASE \E h \in Heads : Push(h) \/ ChecksPass(h)
  BY <1>7, PushKeeps, ChecksPassKeeps
<1>8. CASE Crash
  BY <1>8, CrashKeeps
<1>9. CASE UNCHANGED vars
  BY <1>9, StutterKeeps
<1> QED  BY <1>1, <1>2, <1>3, <1>4, <1>5, <1>6, <1>7, <1>8, <1>9 DEF Next

\* What the handlers rely on holds in every reachable state: documents are well
\* formed and backed by the intents and checks they speak of, one task is worked on,
\* and no intent that can still be started has had its effect.
THEOREM Invariance == Spec => []IInv
<1> QED  BY InitHolds, NextKeeps, PTL DEF Spec

\* Documents, handlers, runs and verdicts keep their types whatever is delivered
\* and wherever a handler dies; the attempts stay within the repair limit, which
\* nothing but the reducer of the documents enforces.
THEOREM TypeCorrect == Spec => []TypeOK
<1>1. IInv => TypeOK
  BY DEF IInv
<1> QED  BY <1>1, Invariance, PTL

\* An issue that comes again, a comment or a handler that died never gives an
\* attempt of a task to the coding agent twice: a dispatch that ran is not open.
THEOREM AttemptsRunOnce == Spec => []OneRunPerAttempt
<1>1. IInv => OneRunPerAttempt
  BY DEF IInv, DispatchInv
<1> QED  BY <1>1, Invariance, PTL

\* A review that is retried after errors and crashes is never decided twice.
THEOREM HeadsAreJudgedOnce == Spec => []OneVerdictPerHead
<1>1. IInv => OneVerdictPerHead
  BY DEF IInv, ReviewInv
<1> QED  BY <1>1, Invariance, PTL

\* Old and repeated events never lead to a verdict that is recorded under a head whose
\* checks did not succeed or that the agent did not deliver for the attempt. It says
\* nothing of what the reviewer was shown: ExactHeadIsJudged is not true.
THEOREM VerdictsBehindTheGate == Spec => []VerdictsAreGated
<1>1. IInv => VerdictsAreGated
  BY DEF IInv, ReviewInv
<1> QED  BY <1>1, Invariance, PTL

\* Of all the tasks issues ask for only one is ever dispatched, so the follow-up
\* that the automation opens itself stays undone.
THEOREM FollowUpsWait == Spec => []SecondTaskWaits
<1>1. ASSUME IInv PROVE SecondTaskWaits
  <2>1. CASE runs = <<>>
    BY <2>1 DEF SecondTaskWaits
  <2>2. CASE \E t \in Tasks : Alone(t)
    <3>1. PICK t \in Tasks : Alone(t)
      BY <2>2
    <3>2. t \in Nat
      BY TasksAssumption
    <3> QED  BY <3>1, <3>2 DEF Alone, SecondTaskWaits
  <2> QED  BY <1>1, <2>1, <2>2 DEF IInv, OneTask
<1>2. IInv => SecondTaskWaits
  BY <1>1
<1> QED  BY <1>2, Invariance, PTL

-----------------------------------------------------------------------------
(* The history of one issue whose events come in order.                    *)
(*                                                                         *)
(* Every document is then later than all that were written before it, so   *)
(* the fold applies it last, to the projection the handler went by.        *)

Dispatches == {"dispatch", "run", "settle", "record"}
Reviews == {"review", "ask", "decided", "verdict"}

\* The seconds from the event to the document the handler writes next.
Offset(pc) ==
    CASE pc \in Dispatches -> 1
      [] pc \in {"result", "evidence"} -> 0
      [] pc \in Reviews -> 2
      [] OTHER -> 4

\* The state of the task that this document needs.
Awaited(pc) ==
    CASE pc \in Dispatches -> "READY_FOR_COPILOT"
      [] pc = "result" -> "COPILOT_RUNNING"
      [] pc = "evidence" -> "WAITING_FOR_CI"
      [] pc \in Reviews -> "WAITING_FOR_OPENAI_REVIEW"
      [] OTHER -> "COMPLETED"

WithHead == {"WAITING_FOR_CI", "WAITING_FOR_OPENAI_REVIEW"}

\* The projection p is one in which the handler j can go on.
Awaits(p, j) ==
    /\ ~p.stopped
    /\ InState(p, j.task, Awaited(j.pc))
    /\ p.tasks[j.task].attempt = j.attempt
    /\ Awaited(j.pc) \in WithHead => p.tasks[j.task].head = j.head

InTime(D, j) ==
    /\ j.at = Gap * clock
    /\ \A d \in D : d.at < j.at + Offset(j.pc)

\* After the stop no task waits for a document.
Settled(p) ==
    p.stopped => \A t \in Tasks : p.tasks[t] # None =>
                    p.tasks[t].state \in {"READY_FOR_COPILOT", "COMPLETED"}

RebuildInv ==
    /\ History.ok
    /\ Settled(History)
    /\ \A d \in docs : d.at < Gap * (clock + 1)
    /\ \A d \in docs : d.type = "created" => d.task \in Issues
    /\ job # None => InTime(docs, job) /\ Awaits(History, job)

\* A document that is later than all the others is applied last.
LEMMA LatestIsApplied ==
    ASSUME NEW D \in SUBSET Document, IsFiniteSet(D),
           NEW d \in Document, \A e \in D : e.at < d.at
    PROVE  Reduce(D \cup {d}) = Applied(d, Reduce(D))
<1> DEFINE E == D \cup {d}
<1>1. E \in SUBSET Document /\ IsFiniteSet(E)
  BY FS_AddElement
<1>2. \A x \in Document : x.at \in Nat
  BY DEF Document
<1>3. d \notin D /\ E \ {d} = D
  BY <1>2
<1>4. /\ \A e \in D : Before(e, d) /\ ~Before(d, e)
      /\ ~Before(d, d)
  BY <1>2, BeforeIsAnOrder DEF Before
<1>5. Latest(E) = d
  <2>1. d \in E /\ ~\E e \in E : Before(d, e)
    BY <1>4
  <2>2. \A x \in E : (~\E e \in E : Before(x, e)) => x = d
    BY <1>4
  <2> HIDE DEF E
  <2> QED  BY <2>1, <2>2 DEF Latest
<1>6. PICK f : IsFold(f, E) /\ Reduce(E) = f[E]
  BY <1>1, ReduceIsFold
<1>7. PICK g : IsFold(g, D) /\ Reduce(D) = g[D]
  BY ReduceIsFold
<1>8. f[D] = g[D]
  <2>1. D \in SUBSET E /\ E \in SUBSET E /\ D \in SUBSET D
    OBVIOUS
  <2> HIDE DEF E
  <2> QED  BY <1>1, <1>6, <1>7, <2>1, FoldsAgree
<1>9. f[E] = Folded(f, E) /\ E # {} /\ E \in SUBSET E
  BY <1>6 DEF IsFold
<1> HIDE DEF E
<1>10. f[E] = Applied(d, f[E \ {d}])
  BY <1>5, <1>9 DEF Folded
<1> QED  BY <1>3, <1>6, <1>7, <1>8, <1>10 DEF E

LEMMA Times ==
    ASSUME IInv
    PROVE  /\ clock \in Nat /\ Gap \in Nat /\ Gap > 4
           /\ Gap * clock \in Nat /\ Gap * (clock + 1) = Gap * clock + Gap
           /\ \A d \in docs : d.at \in Nat
           /\ docs \in SUBSET Document /\ IsFiniteSet(docs)
<1>1. clock \in Nat /\ Gap \in Nat /\ Gap > 4
  BY GapAssumption, LimitsAssumption DEF IInv, TypeOK
<1>2. Gap * clock \in Nat /\ Gap * (clock + 1) = Gap * clock + Gap
  BY <1>1
<1>3. docs \in SUBSET Document /\ IsFiniteSet(docs)
  BY DEF IInv, TypeOK, DocsInv
<1>4. \A d \in docs : d.at \in Nat
  BY <1>3 DEF Document
<1> QED  BY <1>1, <1>2, <1>3, <1>4

LEMMA Offsets ==
    ASSUME NEW pc
    PROVE  /\ Offset(pc) \in 0 .. 4
           /\ pc \in Dispatches =>
                Offset(pc) = 1 /\ Awaited(pc) = "READY_FOR_COPILOT"
           /\ pc = "result" => Offset(pc) = 0 /\ Awaited(pc) = "COPILOT_RUNNING"
           /\ pc = "evidence" => Offset(pc) = 0 /\ Awaited(pc) = "WAITING_FOR_CI"
           /\ pc \in Reviews =>
                Offset(pc) = 2 /\ Awaited(pc) = "WAITING_FOR_OPENAI_REVIEW"
           /\ pc \in Following => Offset(pc) = 4 /\ Awaited(pc) = "COMPLETED"
BY DEF Offset, Awaited, Dispatches, Reviews, Following

\* The next event is one Gap after the last.
LEMMA StampsInOrder ==
    ASSUME IInv, ~Delayed, NEW since \in Nat, NEW at \in Stamps(since)
    PROVE  at = Gap * (clock + 1)
<1>1. PICK c \in clock + 1 .. clock + 1 : at = Gap * c
  BY DEF Stamps
<1>2. c = clock + 1
  BY <1>1, Times
<1> QED  BY <1>1, <1>2

\* In a history that is not stopped the one task there is was created first.
LEMMA OnlyFirst ==
    ASSUME IInv, RebuildInv, NEW t \in Tasks, History.tasks[t] # None,
           ~History.stopped
    PROVE  /\ t = History.first /\ History.tasks[t] \in TaskProjection
           /\ History \in Projection
           /\ \A u \in Tasks : u # t => History.tasks[u] = None
<1>1. History \in Projection /\ Told(History, docs)
  BY HistoryIsSound DEF Sound, RebuildInv
<1>2. \A u \in Tasks : History.tasks[u] # None => u = History.first
  BY <1>1 DEF Told, TaskTold
<1> QED  BY <1>1, <1>2 DEF Projection

\* Steps that write no document and, if they are steps of a handler, leave it
\* with the same document to write.
LEMMA HandlerGoesOn ==
    ASSUME IInv, RebuildInv, UNCHANGED <<docs, clock>>,
           job' # None =>
               /\ job # None
               /\ job'.at = job.at /\ job'.task = job.task
               /\ job'.attempt = job.attempt /\ job'.head = job.head
               /\ Offset(job'.pc) = Offset(job.pc)
               /\ Awaited(job'.pc) = Awaited(job.pc)
    PROVE  RebuildInv'
<1>1. History' = History
  BY DEF History
<1>2. job' # None => InTime(docs, job)'
  BY DEF RebuildInv, InTime
<1>3. job' # None => Awaits(History', job')
  BY <1>1 DEF RebuildInv, Awaits, InState
<1> QED  BY <1>1, <1>2, <1>3 DEF RebuildInv

\* Events that start a handler for a document a task waits for.
LEMMA EventRebuilds ==
    ASSUME IInv, RebuildInv, ~Delayed, Deliver, UNCHANGED docs,
           NEW pc \in Steps, NEW t \in Tasks, NEW a \in Attempts,
           NEW h \in Heads \cup {None}, NEW since \in Nat, NEW at \in Stamps(since),
           job' = Handler(pc, t, a, at, h),
           ~History.stopped, InState(History, t, Awaited(pc)),
           a = History.tasks[t].attempt,
           Awaited(pc) \in WithHead => History.tasks[t].head = h
    PROVE  RebuildInv'
<1>1. History' = History /\ clock' = clock + 1
  BY DEF History, Deliver
<1>2. at = Gap * clock' /\ at \in Nat
  BY <1>1, StampsInOrder, StampsAreTimes
<1>3. /\ job'.pc = pc /\ job'.task = t /\ job'.attempt = a /\ job'.head = h
      /\ job'.at = at
  BY <1>2, HandlerIsHandler DEF Handler
<1>4. clock' \in Nat /\ Gap \in Nat /\ Gap > 4 /\ Gap * (clock' + 1) = at + Gap
  BY <1>1, <1>2, Times
<1>5. \A d \in docs : d.at \in Nat /\ d.at < at
  BY <1>1, <1>2, Times DEF RebuildInv
<1>6. InTime(docs, job)'
  <2>1. Offset(pc) \in 0 .. 4
    BY Offsets
  <2> QED  BY <1>2, <1>3, <1>5, <2>1 DEF InTime
<1>7. Awaits(History', job')
  BY <1>1, <1>3 DEF Awaits, InState
<1>8. \A d \in docs' : d.at < Gap * (clock' + 1)
  BY <1>2, <1>4, <1>5
<1> QED  BY <1>1, <1>6, <1>7, <1>8 DEF RebuildInv

LEMMA RedispatchRebuilds ==
    ASSUME IInv, RebuildInv, ~Delayed, NEW t \in Tasks, Redispatch(t)
    PROVE  RebuildInv'
<1>1. /\ Deliver /\ UNCHANGED docs /\ ~History.stopped
      /\ InState(History, t, "READY_FOR_COPILOT")
      /\ \E at \in Stamps(1) :
            job' = Handler("dispatch", t, History.tasks[t].attempt, at, None)
  BY DEF Redispatch, Accepting
<1>2. History.tasks[t].attempt \in Attempts
  BY <1>1, OnlyFirst DEF TaskProjection, InState
<1>3. Awaited("dispatch") = "READY_FOR_COPILOT" /\ "dispatch" \in Steps
  BY Offsets DEF Dispatches, Steps
<1> QED  BY <1>1, <1>2, <1>3, EventRebuilds DEF WithHead

LEMMA ReceiveResultRebuilds ==
    ASSUME IInv, RebuildInv, ~Delayed, NEW h \in Heads, ReceiveResult(h)
    PROVE  RebuildInv'
<1>1. PICK t \in Tasks : t = pushed[h].task /\ pushed[h].at \in Nat
  BY PushedTask DEF ReceiveResult
<1>2. /\ Deliver /\ UNCHANGED docs /\ ~History.stopped
      /\ InState(History, t, "COPILOT_RUNNING")
      /\ \E at \in Stamps(pushed[h].at) :
            job' = Handler("result", t, History.tasks[t].attempt, at, h)
  BY <1>1 DEF ReceiveResult, Accepting
<1>3. History.tasks[t].attempt \in Attempts
  BY <1>2, OnlyFirst DEF TaskProjection, InState
<1>4. Awaited("result") = "COPILOT_RUNNING" /\ "result" \in Steps
  BY Offsets DEF Dispatches, Steps
<1> QED  BY <1>1, <1>2, <1>3, <1>4, EventRebuilds DEF WithHead

LEMMA OpenGateRebuilds ==
    ASSUME IInv, RebuildInv, ~Delayed, NEW h \in Heads, OpenGate(h)
    PROVE  RebuildInv'
<1>1. PICK t \in Tasks : t = pushed[h].task /\ pushed[h].at \in Nat
  BY PushedTask DEF OpenGate
<1>2. /\ Deliver /\ UNCHANGED docs /\ ~History.stopped
      /\ InState(History, t, "WAITING_FOR_CI") /\ History.tasks[t].head = h
      /\ \E at \in Stamps(pushed[h].at) :
            job' = Handler("evidence", t, History.tasks[t].attempt, at, h)
  BY <1>1 DEF OpenGate, Accepting, GateOpens
<1>3. History.tasks[t].attempt \in Attempts
  BY <1>2, OnlyFirst DEF TaskProjection, InState
<1>4. Awaited("evidence") = "WAITING_FOR_CI" /\ "evidence" \in Steps
  BY Offsets DEF Dispatches, Steps
<1> QED  BY <1>1, <1>2, <1>3, <1>4, EventRebuilds

\* The gate of a retried review does not look at the stop; that a task waits for
\* its review says there was none.
LEMMA RetryReviewRebuilds ==
    ASSUME IInv, RebuildInv, ~Delayed, NEW h \in Heads, RetryReview(h)
    PROVE  RebuildInv'
<1>1. PICK t \in Tasks : t = pushed[h].task /\ pushed[h].at \in Nat
  BY PushedTask DEF RetryReview
<1>2. /\ Deliver /\ UNCHANGED docs
      /\ InState(History, t, "WAITING_FOR_OPENAI_REVIEW") /\ History.tasks[t].head = h
      /\ \E at \in Stamps(pushed[h].at) :
            job' = Handler("review", t, History.tasks[t].attempt, at, h)
  BY <1>1 DEF RetryReview
<1>3. ~History.stopped
  BY <1>2 DEF RebuildInv, Settled, InState
<1>4. History.tasks[t].attempt \in Attempts
  BY <1>2, <1>3, OnlyFirst DEF TaskProjection, InState
<1>5. Awaited("review") = "WAITING_FOR_OPENAI_REVIEW" /\ "review" \in Steps
  BY Offsets DEF Reviews, Steps
<1> QED  BY <1>1, <1>2, <1>3, <1>4, <1>5, EventRebuilds

\* The one issue there is finds no history but its own, so the first event of it
\* creates the first task.
LEMMA OpenIssueRebuilds ==
    ASSUME IInv, RebuildInv, ~Delayed, \A i, j \in Issues : i = j,
           NEW t \in Issues, OpenIssue(t)
    PROVE  RebuildInv'
<1>1. PICK at \in Stamps(1) :
        LET now == docs \cup {Blank("created", t, at, 1)} IN
        /\ docs' = now
        /\ job' = IF Reduce(now).ok THEN Handler("dispatch", t, 1, at, None) ELSE None
  BY DEF OpenIssue
<1>2. /\ t \in Tasks /\ at \in Nat /\ at = Gap * (clock + 1) /\ 1 \in Attempts
      /\ clock' = clock + 1 /\ History.ok /\ ~History.stopped /\ History.tasks[t] = None
  BY IssuesAssumption, RepairsAssumption, StampsAreTimes, StampsInOrder
     DEF OpenIssue, Deliver, Accepting, Attempts
<1>3. PICK d \in Document :
        /\ d = Blank("created", t, at, 1)
        /\ d.type = "created" /\ d.task = t /\ d.attempt = 1 /\ d.at = at
  BY <1>2, BlankIsDocument DEF DocumentTypes
<1>4. docs' = docs \cup {d} /\ History' = Reduce(docs \cup {d})
  BY <1>1, <1>3 DEF History
<1>5. clock' \in Nat /\ Gap \in Nat /\ Gap > 4 /\ Gap * (clock' + 1) = at + Gap
  BY <1>2, Times
<1>6. \A e \in docs : e.at \in Nat /\ e.at < d.at
  BY <1>2, <1>3, Times DEF RebuildInv
<1>7. History' = Applied(d, History)
  BY <1>4, <1>6, Times, LatestIsApplied DEF History
<1>8. History \in Projection /\ Told(History, docs)
  BY HistoryIsSound DEF Sound, RebuildInv
<1>9. History.first = None
  <2>1. SUFFICES ASSUME History.first # None PROVE FALSE
    OBVIOUS
  <2>2. Created(docs, History.first) /\ History.tasks[History.first] # None
    BY <1>8, <2>1 DEF Told
  <2>3. History.first \in Issues
    BY <2>2 DEF Created, RebuildInv
  <2> QED  BY <1>2, <2>2, <2>3
<1>10. Fits(History, d)
  BY <1>2, <1>3, <1>9 DEF Fits
<1>11. History' = [History EXCEPT !.tasks[t] = NewTask(1), !.first = t]
  BY <1>2, <1>3, <1>7, <1>10 DEF Applied
<1>12. /\ History'.ok /\ ~History'.stopped
       /\ History'.tasks[t] = NewTask(1)
  BY <1>2, <1>8, <1>11 DEF Projection
<1>13. /\ job'.pc = "dispatch" /\ job'.task = t /\ job'.attempt = 1 /\ job'.at = at
  <2>1. job' = Handler("dispatch", t, 1, at, None)
    BY <1>1, <1>3, <1>4, <1>12
  <2> QED  BY <2>1 DEF Handler
<1>14. Awaited("dispatch") = "READY_FOR_COPILOT" /\ Offset("dispatch") = 1
  BY Offsets DEF Dispatches
<1>15. InTime(docs, job)'
  BY <1>2, <1>3, <1>4, <1>6, <1>13, <1>14 DEF InTime
<1>16. Awaits(History', job')
  BY <1>12, <1>13, <1>14, NewTaskIsTask DEF Awaits, InState, WithHead, NewTask
<1>17. \A e \in docs' : e.at < Gap * (clock' + 1)
  BY <1>2, <1>3, <1>4, <1>5, <1>6
<1> QED  BY <1>3, <1>4, <1>12, <1>15, <1>16, <1>17 DEF RebuildInv, Settled

\* A handler appends the document its task waits for.
LEMMA RecordRebuilds ==
    ASSUME IInv, RebuildInv, job # None, UNCHANGED clock,
           NEW d \in Document, NEW next, Write(d, next),
           d.type \in {"dispatched", "result", "ci", "review"},
           d.task = job.task, d.attempt = job.attempt,
           d.at = job.at + Offset(job.pc), StateFor(d.type) = Awaited(job.pc),
           d.type \in {"ci", "review"} => d.head = job.head,
           next # None =>
               LET moved == Moved(History.tasks[job.task], d) IN
               /\ next.at = job.at /\ next.task = job.task
               /\ Offset(next.pc) > Offset(job.pc)
               /\ moved.state = Awaited(next.pc) /\ moved.attempt = next.attempt
               /\ Awaited(next.pc) \in WithHead => moved.head = next.head
    PROVE  RebuildInv'
<1>1. CASE docs' = docs /\ job' = None
  BY <1>1, HandlerGoesOn
<1>2. CASE docs' = docs \cup {d} /\ job' = next
  <2> DEFINE t == job.task
             task == History.tasks[t]
             moved == Moved(task, d)
  <2>1. job \in Handlers /\ t \in Tasks /\ job.at \in Nat
    BY DEF IInv, TypeOK, Handlers
  <2>2. /\ job.at = Gap * clock /\ Awaits(History, job)
        /\ \A e \in docs : e.at < d.at
    BY DEF RebuildInv, InTime
  <2>3. /\ ~History.stopped /\ task # None /\ task.attempt = job.attempt
        /\ task.state = StateFor(d.type)
        /\ d.type \in {"ci", "review"} => task.head = job.head
    <3>1. d.type \in {"ci", "review"} => StateFor(d.type) \in WithHead
      BY DEF StateFor, WithHead
    <3> QED  BY <2>2, <3>1 DEF Awaits, InState
  <2>4. FitsTask(task, d) /\ Fits(History, d)
    BY <2>3 DEF FitsTask, Fits
  <2>5. /\ t = History.first /\ task \in TaskProjection /\ History \in Projection
        /\ task.attempt = task.repairs + 1
    <3>1. TaskTold(History, docs, t)
      BY <2>1, <2>3, HistoryIsSound DEF Sound, Told, RebuildInv
    <3> QED  BY <2>1, <2>3, <3>1, OnlyFirst DEF TaskTold
  <2>6. moved \in TaskProjection
    BY <2>4, <2>5, MovedIsTold DEF WellFormed
  <2> HIDE DEF moved
  <2>7. History' = Applied(d, History)
    BY <1>2, <2>2, Times, LatestIsApplied DEF History
  <2>8. History' = [History EXCEPT !.tasks[t] = moved]
    <3>1. d.type \notin {"created", "next"} /\ History.ok
      BY DEF RebuildInv
    <3> QED  BY <2>4, <2>7, <3>1 DEF Applied, moved
  <2>9. History'.ok /\ ~History'.stopped /\ History'.tasks[t] = moved
    BY <2>1, <2>3, <2>5, <2>8 DEF Projection, RebuildInv
  <2>10. \A e \in docs' : e.at < Gap * (clock' + 1)
    <3>1. Offset(job.pc) \in 0 .. 4
      BY Offsets
    <3>2. d.at < Gap * (clock + 1)
      BY <2>1, <2>2, <3>1, Times
    <3> QED  BY <1>2, <3>2 DEF RebuildInv
  <2>11. ASSUME next # None PROVE InTime(docs, job)' /\ Awaits(History', job')
    <3>1. Offset(next.pc) \in 0 .. 4 /\ Offset(job.pc) \in 0 .. 4
      BY Offsets
    <3>2. \A e \in docs : e.at \in Nat
      BY Times
    <3>3. InTime(docs, job)'
      BY <1>2, <2>1, <2>2, <2>11, <3>1, <3>2 DEF InTime
    <3>4. Awaits(History', job')
      BY <1>2, <2>6, <2>9, <2>11, NothingAssumption DEF Awaits, InState, moved
    <3> QED  BY <3>3, <3>4
  <2> QED  BY <1>2, <2>9, <2>10, <2>11 DEF RebuildInv, Settled
<1> QED  BY <1>1, <1>2, WriteDoes

LEMMA RecordDispatchRebuilds ==
    ASSUME IInv, RebuildInv, RecordDispatch
    PROVE  RebuildInv'
<1>1. job \in Handlers /\ job.pc = "record" /\ job # None
  BY DEF RecordDispatch, Doing, IInv, TypeOK
<1>2. job.task \in Tasks /\ job.attempt \in Attempts /\ job.at + 1 \in Nat
  BY <1>1 DEF Handlers
<1>3. PICK d \in Document : /\ d = Blank("dispatched", job.task, job.at + 1, job.attempt)
                            /\ d.type = "dispatched" /\ d.task = job.task
                            /\ d.attempt = job.attempt /\ d.at = job.at + 1
  BY <1>2, BlankIsDocument DEF DocumentTypes
<1>4. Write(d, None) /\ UNCHANGED clock
  BY <1>3 DEF RecordDispatch
<1>5. Offset(job.pc) = 1 /\ StateFor(d.type) = Awaited(job.pc)
  BY <1>1, <1>3, Offsets DEF Dispatches, StateFor
<1> QED  BY <1>1, <1>3, <1>4, <1>5, RecordRebuilds

LEMMA RecordResultRebuilds ==
    ASSUME IInv, RebuildInv, RecordResult
    PROVE  RebuildInv'
<1>1. job \in Handlers /\ job.pc = "result" /\ job # None
  BY DEF RecordResult, Doing, IInv, TypeOK
<1>2. /\ job.task \in Tasks /\ job.attempt \in Attempts /\ job.at \in Nat
      /\ job.head \in Heads \cup {None}
  BY <1>1 DEF Handlers
<1>3. PICK d \in Document :
        /\ d = [Blank("result", job.task, job.at, job.attempt) EXCEPT !.head = job.head]
        /\ d.type = "result" /\ d.task = job.task /\ d.attempt = job.attempt
        /\ d.at = job.at
  <2>1. PICK b \in Document :
          /\ b = Blank("result", job.task, job.at, job.attempt)
          /\ b.type = "result" /\ b.task = job.task /\ b.attempt = job.attempt
          /\ b.at = job.at
    BY <1>2, BlankIsDocument DEF DocumentTypes
  <2>2. [b EXCEPT !.head = job.head] \in Document
    BY <1>2 DEF Document
  <2> QED  BY <2>1, <2>2 DEF Document
<1>4. Write(d, None) /\ UNCHANGED clock
  BY <1>3 DEF RecordResult
<1>5. Offset(job.pc) = 0 /\ StateFor(d.type) = Awaited(job.pc)
  BY <1>1, <1>3, Offsets DEF StateFor
<1>6. d.at = job.at + Offset(job.pc)
  BY <1>2, <1>3, <1>5
<1> QED  BY <1>1, <1>3, <1>4, <1>5, <1>6, RecordRebuilds

LEMMA RecordEvidenceRebuilds ==
    ASSUME IInv, RebuildInv, RecordEvidence
    PROVE  RebuildInv'
<1>1. job \in Handlers /\ job.pc = "evidence" /\ job # None
  BY DEF RecordEvidence, Doing, IInv, TypeOK
<1>2. /\ job.task \in Tasks /\ job.attempt \in Attempts /\ job.at \in Nat
      /\ job.head \in Heads \cup {None}
  BY <1>1 DEF Handlers
<1>3. PICK d \in Document :
        /\ d = [Blank("ci", job.task, job.at, job.attempt) EXCEPT !.head = job.head]
        /\ d.type = "ci" /\ d.task = job.task /\ d.attempt = job.attempt
        /\ d.at = job.at /\ d.head = job.head
  <2>1. PICK b \in Document :
          /\ b = Blank("ci", job.task, job.at, job.attempt)
          /\ b.type = "ci" /\ b.task = job.task /\ b.attempt = job.attempt
          /\ b.at = job.at
    BY <1>2, BlankIsDocument DEF DocumentTypes
  <2>2. [b EXCEPT !.head = job.head] \in Document
    BY <1>2 DEF Document
  <2> QED  BY <2>1, <2>2 DEF Document
<1>4. Write(d, Then("review")) /\ UNCHANGED clock
  BY <1>3 DEF RecordEvidence
<1>5. Offset(job.pc) = 0 /\ StateFor(d.type) = Awaited(job.pc)
  BY <1>1, <1>3, Offsets DEF StateFor
<1>6. d.at = job.at + Offset(job.pc)
  BY <1>2, <1>3, <1>5
<1>7. PICK next \in Handlers :
        /\ next = Then("review") /\ next.pc = "review" /\ next.task = job.task
        /\ next.attempt = job.attempt /\ next.head = job.head /\ next.at = job.at
  BY <1>1, ThenIsHandler DEF Steps
<1>8. Offset(next.pc) = 2 /\ Awaited(next.pc) = "WAITING_FOR_OPENAI_REVIEW"
  BY <1>7, Offsets DEF Reviews
<1> DEFINE task == History.tasks[job.task]
<1>9. task \in TaskProjection /\ task.attempt = job.attempt /\ task.head = job.head
  <2>1. Awaited(job.pc) = "WAITING_FOR_CI"
    BY <1>1, Offsets
  <2>2. Awaits(History, job)
    BY <1>1 DEF RebuildInv
  <2> QED  BY <1>2, <2>1, <2>2, OnlyFirst DEF Awaits, InState, WithHead
<1>10. /\ Moved(task, d).state = "WAITING_FOR_OPENAI_REVIEW"
       /\ Moved(task, d).attempt = job.attempt /\ Moved(task, d).head = job.head
  <2>1. Moved(task, d) = [task EXCEPT !.state = "WAITING_FOR_OPENAI_REVIEW"]
    BY <1>3 DEF Moved
  <2> HIDE DEF task
  <2> QED  BY <1>9, <2>1 DEF TaskProjection
<1>11. Write(d, next) /\ Offset(next.pc) > Offset(job.pc)
  BY <1>4, <1>5, <1>7, <1>8
<1> QED  BY <1>1, <1>3, <1>4, <1>5, <1>6, <1>7, <1>8, <1>10, <1>11, RecordRebuilds

LEMMA RecordReviewRebuilds ==
    ASSUME IInv, RebuildInv, RecordReview
    PROVE  RebuildInv'
<1>1. job \in Handlers /\ job.pc = "verdict" /\ job # None
  BY DEF RecordReview, Doing, IInv, TypeOK
<1>2. /\ job.task \in Tasks /\ job.attempt \in Attempts /\ job.at + 2 \in Nat
      /\ job.head \in Heads \cup {None} /\ job.decision \in Decisions \cup {None}
  BY <1>1 DEF Handlers
<1>3. PICK d \in Document :
        /\ d = [Blank("review", job.task, job.at + 2, job.attempt) EXCEPT
                  !.head = job.head, !.decision = job.decision]
        /\ d.type = "review" /\ d.task = job.task /\ d.attempt = job.attempt
        /\ d.at = job.at + 2 /\ d.head = job.head /\ d.decision = job.decision
  <2>1. PICK b \in Document :
          /\ b = Blank("review", job.task, job.at + 2, job.attempt)
          /\ b.type = "review" /\ b.task = job.task /\ b.attempt = job.attempt
          /\ b.at = job.at + 2
    BY <1>2, BlankIsDocument DEF DocumentTypes
  <2>2. [b EXCEPT !.head = job.head, !.decision = job.decision] \in Document
    BY <1>2 DEF Document
  <2> QED  BY <2>1, <2>2 DEF Document
<1>4. /\ Write(d, IF job.decision = "NEXT_TASK" THEN Then("next") ELSE None)
      /\ UNCHANGED clock
  BY <1>3 DEF RecordReview
<1>5. Offset(job.pc) = 2 /\ StateFor(d.type) = Awaited(job.pc)
  BY <1>1, <1>3, Offsets DEF StateFor, Reviews
<1>6. PICK next \in Handlers \cup {None} :
        /\ next = IF job.decision = "NEXT_TASK" THEN Then("next") ELSE None
        /\ next # None => /\ next.pc = "next" /\ next.task = job.task
                          /\ next.attempt = job.attempt /\ next.at = job.at
                          /\ job.decision = "NEXT_TASK"
  BY <1>1, ThenIsHandler DEF Steps
<1>7. next # None => Offset(next.pc) = 4 /\ Awaited(next.pc) = "COMPLETED"
  BY <1>6, Offsets DEF Following
<1> DEFINE task == History.tasks[job.task]
<1>8. task \in TaskProjection /\ task.attempt = job.attempt
  <2>1. Awaits(History, job)
    BY <1>1 DEF RebuildInv
  <2> QED  BY <1>2, <2>1, OnlyFirst DEF Awaits, InState
<1>9. next # None => /\ Moved(task, d).state = "COMPLETED"
                     /\ Moved(task, d).attempt = job.attempt
  <2>1. SUFFICES ASSUME next # None
                 PROVE  /\ Moved(task, d).state = "COMPLETED"
                        /\ Moved(task, d).attempt = job.attempt
    OBVIOUS
  <2>2. Moved(task, d) = [task EXCEPT !.state = "COMPLETED"]
    BY <1>3, <1>6, <2>1 DEF Moved, Reviewed
  <2> HIDE DEF task
  <2> QED  BY <1>8, <2>2 DEF TaskProjection
<1>10. Write(d, next)
  BY <1>4, <1>6
<1>11. next # None =>
          /\ next.at = job.at /\ next.task = job.task /\ Offset(next.pc) > Offset(job.pc)
          /\ Moved(task, d).state = Awaited(next.pc)
          /\ Moved(task, d).attempt = next.attempt /\ Awaited(next.pc) \notin WithHead
  BY <1>5, <1>6, <1>7, <1>9 DEF WithHead
<1>12. d.at = job.at + Offset(job.pc) /\ StateFor(d.type) = Awaited(job.pc)
  BY <1>3, <1>5
<1> QED  BY <1>1, <1>3, <1>4, <1>10, <1>11, <1>12, RecordRebuilds

\* The follow-up is a new task, and the stop comes with it.
LEMMA RecordNextRebuilds ==
    ASSUME IInv, RebuildInv, RecordNext
    PROVE  RebuildInv'
<1>1. job \in Handlers /\ job.pc = "stop" /\ job # None
  BY DEF RecordNext, Doing, IInv, TypeOK
<1>2. PICK t \in Tasks, u \in Tasks :
        /\ t = job.task /\ u = t + 1 /\ u # t
        /\ job.attempt \in Attempts /\ job.at \in Nat /\ job.head \in Heads \cup {None}
  <2>1. /\ job.task \in Tasks /\ job.task \in Nat
        /\ job.attempt \in Attempts /\ job.at \in Nat /\ job.head \in Heads \cup {None}
    BY <1>1, TasksAssumption DEF Handlers
  <2>2. job.task + 1 \in Tasks
    BY <1>1 DEF IInv, JobInv, Following
  <2> QED  BY <2>1, <2>2
<1>3. PICK d \in Document :
        /\ d = [Blank("next", t, job.at + 4, job.attempt) EXCEPT
                  !.head = job.head, !.next = u]
        /\ d.type = "next" /\ d.task = t /\ d.at = job.at + 4 /\ d.next = u
  <2>1. PICK b \in Document :
          /\ b = Blank("next", t, job.at + 4, job.attempt)
          /\ b.type = "next" /\ b.task = t /\ b.at = job.at + 4
    BY <1>2, BlankIsDocument DEF DocumentTypes
  <2>2. [b EXCEPT !.head = job.head, !.next = u] \in Document
    BY <1>2 DEF Document
  <2> QED  BY <2>1, <2>2 DEF Document
<1>4. Write(d, None) /\ UNCHANGED clock
  BY <1>2, <1>3 DEF RecordNext
<1>5. CASE docs' = docs /\ job' = None
  BY <1>4, <1>5, HandlerGoesOn
<1>6. CASE docs' = docs \cup {d} /\ job' = None
  <2>1. Offset(job.pc) = 4 /\ Awaited(job.pc) = "COMPLETED"
    BY <1>1, Offsets DEF Following
  <2>2. /\ job.at = Gap * clock /\ \A e \in docs : e.at < d.at
        /\ ~History.stopped /\ History.tasks[t] # None
        /\ History.tasks[t].state = "COMPLETED" /\ History.ok
    BY <1>1, <1>2, <1>3, <2>1 DEF RebuildInv, InTime, Awaits, InState
  <2>3. /\ t = History.first /\ History \in Projection
        /\ \A v \in Tasks : v # t => History.tasks[v] = None
    BY <2>2, OnlyFirst
  <2>4. Fits(History, d)
    BY <1>2, <1>3, <2>2, <2>3 DEF Fits, FitsTask, StateFor
  <2>5. History' = Applied(d, History)
    BY <1>6, <2>2, Times, LatestIsApplied DEF History
  <2>6. History' = [History EXCEPT !.tasks[u] = NewTask(1), !.stopped = TRUE]
    BY <1>3, <2>2, <2>4, <2>5 DEF Applied
  <2>7. /\ History'.ok
        /\ \A v \in Tasks : History'.tasks[v] = IF v = u THEN NewTask(1) ELSE History.tasks[v]
    BY <2>2, <2>3, <2>6 DEF Projection
  <2>8. Settled(History')
    BY <2>2, <2>3, <2>7, NewTaskIsTask DEF Settled
  <2>9. d.at < Gap * (clock' + 1)
    BY <1>2, <1>3, <1>4, <2>2, Times
  <2> QED  BY <1>3, <1>4, <1>6, <2>7, <2>8, <2>9 DEF RebuildInv
<1> QED  BY <1>4, <1>5, <1>6, WriteDoes

\* The handler goes on with the same event, at one of the steps of group.
SameWork(group) ==
    /\ job'.at = job.at /\ job'.task = job.task
    /\ job'.attempt = job.attempt /\ job'.head = job.head
    /\ job'.pc \in group

\* Steps of a handler between two documents.
LEMMA HandlingRebuilds ==
    ASSUME IInv, RebuildInv, UNCHANGED <<docs, clock>>,
           NEW group \in {Dispatches, Reviews, Following}, job # None, job.pc \in group,
           job' # None => SameWork(group)
    PROVE  RebuildInv'
<1>1. ASSUME job' # None
      PROVE  Offset(job'.pc) = Offset(job.pc) /\ Awaited(job'.pc) = Awaited(job.pc)
  <2>1. job'.pc \in group
    BY <1>1 DEF SameWork
  <2> QED  BY <2>1, Offsets
<1> QED  BY <1>1, HandlerGoesOn DEF SameWork

LEMMA DispatchingRebuilds ==
    ASSUME IInv, RebuildInv, StartDispatch \/ RunAgent \/ SettleDispatch
    PROVE  RebuildInv'
<1>1. UNCHANGED <<docs, clock>> /\ job # None /\ job.pc \in Dispatches
  BY DEF StartDispatch, RunAgent, SettleDispatch, Doing, Dispatches
<1>2. job' # None => \E pc \in Dispatches : job' = Then(pc)
  BY DEF StartDispatch, RunAgent, SettleDispatch, Dispatches
<1>3. job \in Handlers
  BY <1>1 DEF IInv, TypeOK
<1>4. job' # None => SameWork(Dispatches)
  BY <1>2, <1>3, ThenIsHandler DEF SameWork, Dispatches, Steps
<1> QED  BY <1>1, <1>4, HandlingRebuilds

LEMMA ReviewingRebuilds ==
    ASSUME IInv, RebuildInv, StartReview \/ CompleteReview
    PROVE  RebuildInv'
<1>1. UNCHANGED <<docs, clock>> /\ job # None /\ job.pc \in Reviews
  BY DEF StartReview, CompleteReview, Doing, Reviews
<1>2. \E pc \in Reviews : job' = Then(pc)
  BY DEF StartReview, CompleteReview, Reviews
<1>3. job \in Handlers
  BY <1>1 DEF IInv, TypeOK
<1>4. SameWork(Reviews)
  BY <1>2, <1>3, ThenIsHandler DEF SameWork, Reviews, Steps
<1> QED  BY <1>1, <1>4, HandlingRebuilds

LEMMA AskReviewerRebuilds ==
    ASSUME IInv, RebuildInv, AskReviewer
    PROVE  RebuildInv'
<1>1. job \in Handlers /\ job.pc = "ask" /\ job # None
  BY DEF AskReviewer, Doing, IInv, TypeOK
<1>2. UNCHANGED <<docs, clock>>
  BY DEF AskReviewer
<1>3. ASSUME NEW d \in Decisions, job' = [job EXCEPT !.pc = "decided", !.decision = d]
      PROVE  SameWork(Reviews)
  BY <1>1, <1>3 DEF SameWork, Reviews, Handlers
<1>4. job' # None => SameWork(Reviews)
  BY <1>3 DEF AskReviewer
<1>5. job.pc \in Reviews
  BY <1>1 DEF Reviews
<1> QED  BY <1>1, <1>2, <1>4, <1>5, HandlingRebuilds

LEMMA FollowingRebuilds ==
    ASSUME IInv, RebuildInv, StartNext \/ CreateNext \/ CompleteNext
    PROVE  RebuildInv'
<1>1. UNCHANGED <<docs, clock>> /\ job # None /\ job.pc \in Following
  BY DEF StartNext, CreateNext, CompleteNext, Doing, Following
<1>2. job' # None => \E pc \in Following : job' = Then(pc)
  BY DEF StartNext, CreateNext, CompleteNext, Following
<1>3. job \in Handlers
  BY <1>1 DEF IInv, TypeOK
<1>4. job' # None => SameWork(Following)
  BY <1>2, <1>3, ThenIsHandler DEF SameWork, Following, Steps
<1> QED  BY <1>1, <1>4, HandlingRebuilds

\* Steps of the surroundings, and a handler that dies.
LEMMA OutsideRebuilds ==
    ASSUME IInv, RebuildInv,
           \/ \E h \in Heads : Push(h) \/ ChecksPass(h)
           \/ Crash
           \/ UNCHANGED vars
    PROVE  RebuildInv'
<1>1. UNCHANGED <<docs, clock>> /\ (job' = job \/ job' = None)
  BY DEF Push, ChecksPass, Crash, vars
<1> QED  BY <1>1, HandlerGoesOn

LEMMA InitRebuilds == Init => RebuildInv
<1> SUFFICES ASSUME Init PROVE RebuildInv
  OBVIOUS
<1>1. docs = {} /\ job = None
  BY DEF Init
<1>2. History = NoHistory
  <2>1. {} \in SUBSET Document /\ IsFiniteSet({})
    BY FS_EmptySet
  <2>2. PICK f : IsFold(f, {}) /\ Reduce({}) = f[{}]
    BY <2>1, ReduceIsFold
  <2>3. f[{}] = Folded(f, {})
    BY <2>2 DEF IsFold
  <2> QED  BY <1>1, <2>2, <2>3 DEF History, Folded
<1> QED  BY <1>1, <1>2 DEF RebuildInv, NoHistory, Settled

LEMMA NextRebuilds ==
    ASSUME ~Delayed, \A i, j \in Issues : i = j
    PROVE  IInv /\ RebuildInv /\ [Next]_vars => RebuildInv'
<1> SUFFICES ASSUME IInv, RebuildInv, [Next]_vars PROVE RebuildInv'
  OBVIOUS
<1>1. CASE \E t \in Issues : OpenIssue(t)
  BY <1>1, OpenIssueRebuilds
<1>2. CASE \E t \in Tasks : Redispatch(t)
  BY <1>2, RedispatchRebuilds
<1>3. CASE Dispatching
  BY <1>3, DispatchingRebuilds, RecordDispatchRebuilds DEF Dispatching
<1>4. CASE \E h \in Heads : ReceiveResult(h) \/ OpenGate(h) \/ RetryReview(h)
  BY <1>4, ReceiveResultRebuilds, OpenGateRebuilds, RetryReviewRebuilds
<1>5. CASE RecordResult
  BY <1>5, RecordResultRebuilds
<1>6. CASE Reviewing
  BY <1>6, ReviewingRebuilds, AskReviewerRebuilds, FollowingRebuilds,
     RecordEvidenceRebuilds, RecordReviewRebuilds, RecordNextRebuilds DEF Reviewing
<1>7. CASE (\E h \in Heads : Push(h) \/ ChecksPass(h)) \/ Crash \/ UNCHANGED vars
  BY <1>7, OutsideRebuilds
<1> QED  BY <1>1, <1>2, <1>3, <1>4, <1>5, <1>6, <1>7 DEF Next

\* If one issue is open and its events are handled in the order they happened in,
\* then the documents on the branch can be reduced after every step: each is written
\* only while the projection is in the state that document needs, handlers that died
\* left nothing a later document could not follow, and no document sorts before one
\* that was written earlier.  With a second issue the same is false.
THEOREM HistoryAlwaysRebuilds ==
    ASSUME ~Delayed, \A i, j \in Issues : i = j
    PROVE  Spec => []HistoryRebuilds
<1>1. IInv /\ RebuildInv /\ [Next]_vars => RebuildInv'
  BY NextRebuilds
<1>2. RebuildInv => HistoryRebuilds
  BY DEF RebuildInv, HistoryRebuilds
<1> QED  BY <1>1, <1>2, InitRebuilds, Invariance, PTL DEF Spec
=============================================================================

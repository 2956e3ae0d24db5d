------------------------ MODULE CodingAgentsTheorems ------------------------
(***************************************************************************)
(* What is proved about the coding agents for every number of tasks,       *)
(* attempts, follow-ups and faults.                                        *)
(***************************************************************************)
EXTENDS CodingAgents, FiniteSetTheorems, TLAPS

-----------------------------------------------------------------------------
(* The inductive invariant. *)

Steps == {"claimed", "find", "create", "assign", "findPull", "code", "check",
          "reconcile", "done", "stopped", "unknown"}
Callers == [pc : Steps, ref : Nat, by : {"nobody", "run", "reconcile"}]

Typed ==
    /\ agent \in {"copilot", "cline"}
    /\ issues \in Seq(Issue) /\ pulls \in Seq(Pull)
    /\ job \in [Intents -> Callers]
    /\ process \in [Intents -> BOOLEAN]
    /\ unserved \in [Intents -> Nat] /\ servedLate \in [Intents -> Nat]
    /\ lateAssign \subseteq DOMAIN issues
    /\ faults \in Nat

\* Nobody is assigned to a follow-up, and a pull request that names a dispatch is on
\* the branch of its task.
GithubInv ==
    /\ \A n \in DOMAIN issues : issues[n].assigned => issues[n].marker \in Dispatches
    /\ \A n \in lateAssign : issues[n].marker \in Dispatches
    /\ \A n \in DOMAIN pulls, i \in Dispatches :
          pulls[n].marker = i => pulls[n].branch = i[1]

OnCline(i) == agent = "cline" /\ i \in Dispatches

Real(i) ==
    IF OnCline(i)
    THEN /\ job[i].ref \in DOMAIN pulls /\ pulls[job[i].ref].branch = i[1]
         /\ \A j \in Dispatches : pulls[job[i].ref].marker = j => j[2] <= i[2]
         /\ job[i].by = "reconcile" => pulls[job[i].ref].marker = i
    ELSE /\ job[i].ref \in DOMAIN issues /\ issues[job[i].ref].marker = i
         /\ i \in Dispatches /\ job[i].by = "run" => issues[job[i].ref].assigned

\* Each caller is where its agent works, what it holds is its own, and a process
\* that outlives the call has left its pull request if the call is done.
Located(i) ==
    /\ job[i].pc \in {"find", "create", "assign"} => ~OnCline(i)
    /\ job[i].pc \in {"findPull", "code", "check"} => OnCline(i)
    /\ job[i].pc \in {"assign", "reconcile"} => i \in Dispatches
    /\ At(i, "assign") => /\ job[i].ref \in DOMAIN issues
                          /\ issues[job[i].ref].marker = i
    /\ process[i] => /\ OnCline(i)
                     /\ job[i].pc \in {"code", "stopped", "unknown", "done"}
                     /\ At(i, "done") => FoundByBranch(i) # {}
    /\ At(i, "done") => Real(i)

\* A caller that is about to create an issue only knows of none if there is none but
\* those that were served late.
Once(i) ==
    /\ Cardinality(Found(i)) <= 1 + servedLate[i]
    /\ At(i, "create") => Cardinality(Found(i)) <= servedLate[i]

Begun(i) ==
    ~At(i, "claimed") \/ Found(i) # {} \/ FoundByMarker(i) # {} \/ unserved[i] > 0

\* All attempts before one that left a trace are done.
Ordered(i) ==
    i \in Dispatches /\ Begun(i) => \A k \in 1 .. i[2] - 1 : At(<<i[1], k>>, "done")

Exclusive ==
    \A i, j \in Dispatches : i[1] = j[1] /\ process[i] /\ process[j] => i = j

Good(i) == Located(i) /\ Once(i) /\ Ordered(i)

IInv ==
    /\ Typed
    /\ GithubInv
    /\ \A i \in Intents : Good(i)
    /\ Exclusive

-----------------------------------------------------------------------------
(* Dispatches and what is found. *)

LEMMA DispatchIs ==
    ASSUME NEW i \in Dispatches
    PROVE  /\ i = <<i[1], i[2]>> /\ i[1] \in Branches /\ i[2] \in 1 .. MaxAttempt
           /\ i[2] \in Nat
           /\ i # <<>>
           /\ \A k \in 1 .. i[2] - 1 : <<i[1], k>> \in Dispatches
<1>1. i = <<i[1], i[2]>> /\ i[1] \in Branches /\ i[2] \in 1 .. MaxAttempt
  BY DEF Dispatches
<1>2. MaxAttempt \in Nat
  BY AgentsAssumption
<1>3. i # <<>>
  <2>1. Len(<<i[1], i[2]>>) = 2 /\ Len(<<>>) = 0
    OBVIOUS
  <2> QED  BY <1>1, <2>1
<1>4. \A k \in 1 .. i[2] - 1 : k \in 1 .. MaxAttempt
  BY <1>1, <1>2
<1> QED  BY <1>1, <1>2, <1>3, <1>4 DEF Dispatches

LEMMA FoundIsFinite ==
    ASSUME Typed, NEW i
    PROVE  IsFiniteSet(Found(i)) /\ Cardinality(Found(i)) \in Nat
<1>1. DOMAIN issues = 1 .. Len(issues) /\ Len(issues) \in Nat
  BY DEF Typed
<1>2. Found(i) \subseteq 1 .. Len(issues) /\ IsFiniteSet(1 .. Len(issues))
  BY <1>1, FS_Interval DEF Found
<1> QED  BY <1>2, FS_Subset, FS_CardinalityType

\* Every step of GitHub adds to what was there.
Grows ==
    /\ agent' = agent
    /\ DOMAIN issues \subseteq DOMAIN issues'
    /\ \A n \in DOMAIN issues : /\ issues'[n].marker = issues[n].marker
                                /\ issues[n].assigned => issues'[n].assigned
    /\ DOMAIN pulls \subseteq DOMAIN pulls'
    /\ \A n \in DOMAIN pulls : pulls'[n] = pulls[n]
    /\ \A i \in Intents : At(i, "done") => job'[i] = job[i]

\* What concerns an intent is as it was.
Same(i) ==
    /\ job'[i] = job[i]
    /\ process'[i] => process[i]
    /\ Found(i)' = Found(i) /\ servedLate'[i] = servedLate[i]
    /\ unserved'[i] = unserved[i]
    /\ i \in Dispatches => FoundByMarker(i)' = FoundByMarker(i)

LEMMA DoneStaysReal ==
    ASSUME Grows, NEW i \in Intents, job'[i] = job[i], Real(i)
    PROVE  Real(i)'
BY DEF Grows, Real, OnCline

LEMMA BranchStaysFound ==
    ASSUME Grows, NEW i, FoundByBranch(i) # {}
    PROVE  FoundByBranch(i)' # {}
BY DEF Grows, FoundByBranch

LEMMA EarlierStayDone ==
    ASSUME Grows, NEW i \in Dispatches, \A k \in 1 .. i[2] - 1 : At(<<i[1], k>>, "done")
    PROVE  \A k \in 1 .. i[2] - 1 : At(<<i[1], k>>, "done")'
<1>1. \A k \in 1 .. i[2] - 1 : <<i[1], k>> \in Intents
  BY DispatchIs DEF Intents
<1> QED  BY <1>1 DEF Grows, At

LEMMA SameIsGood ==
    ASSUME IInv, Grows, NEW i \in Intents, Same(i)
    PROVE  Good(i)'
<1>1. Located(i)'
  <2>1. At(i, "done") => Real(i)'
    BY DoneStaysReal DEF IInv, Good, Located, Same
  <2>2. FoundByBranch(i) # {} => FoundByBranch(i)' # {}
    BY BranchStaysFound
  <2>3. job'[i] = job[i] /\ OnCline(i)' = OnCline(i) /\ (process'[i] => process[i])
    BY DEF Same, Grows, OnCline
  <2>4. At(i, "assign") => job'[i].ref \in DOMAIN issues' /\ issues'[job'[i].ref].marker = i
    BY <2>3 DEF IInv, Good, Located, Grows
  <2> QED  BY <2>1, <2>2, <2>3, <2>4 DEF IInv, Good, Located, At
<1>2. Once(i)'
  BY DEF IInv, Good, Once, Same, At
<1>3. Ordered(i)'
  <2>1. SUFFICES ASSUME i \in Dispatches, Begun(i)'
                 PROVE  \A k \in 1 .. i[2] - 1 : At(<<i[1], k>>, "done")'
    BY DEF Ordered
  <2>2. Begun(i)
    BY <2>1 DEF Begun, Same, At
  <2> QED  BY <2>1, <2>2, EarlierStayDone DEF IInv, Good, Ordered
<1> QED  BY <1>1, <1>2, <1>3 DEF Good

\* What has to be shown of a step.
LEMMA StepKeeps ==
    ASSUME IInv, Typed', Grows, GithubInv', Exclusive',
           \A i \in Intents : Same(i) \/ Good(i)'
    PROVE  IInv'
BY SameIsGood DEF IInv

LEMMA ExclusiveKept ==
    ASSUME IInv, \A i \in Dispatches : process'[i] => process[i]
    PROVE  Exclusive'
BY DEF IInv, Exclusive

-----------------------------------------------------------------------------
(* What a request does to GitHub. *)

LEMMA NewIssueDoes ==
    ASSUME Typed, NEW i \in Intents, issues' = NewIssue(i)
    PROVE  /\ issues' \in Seq(Issue) /\ DOMAIN issues \subseteq DOMAIN issues'
           /\ \A n \in DOMAIN issues : issues'[n] = issues[n]
           /\ \A n \in DOMAIN issues' : n \in DOMAIN issues \/ ~issues'[n].assigned
           /\ Len(issues) + 1 \in DOMAIN issues' /\ Len(issues) + 1 \in Nat
           /\ issues'[Len(issues) + 1].marker = i
           /\ ~issues'[Len(issues) + 1].assigned
           /\ \A j \in Intents : j # i => Found(j)' = Found(j)
           /\ Cardinality(Found(i)') = Cardinality(Found(i)) + 1
<1> DEFINE new == [marker |-> i, assigned |-> FALSE, open |-> TRUE]
<1>1. issues \in Seq(Issue) /\ new \in Issue /\ issues' = Append(issues, new)
  BY DEF Typed, Issue, NewIssue
<1>2. new.marker = i /\ ~new.assigned
  OBVIOUS
<1> HIDE DEF new
<1>3. PICK m \in Nat : m = Len(issues)
  BY <1>1
<1>4. /\ issues' \in Seq(Issue) /\ DOMAIN issues = 1 .. m /\ DOMAIN issues' = 1 .. m + 1
      /\ \A n \in 1 .. m : issues'[n] = issues[n]
      /\ issues'[m + 1] = new
  BY <1>1, <1>3
<1>5. \A j \in Intents : j # i => Found(j)' = Found(j)
  BY <1>2, <1>4 DEF Found
<1>6. Found(i)' = Found(i) \cup {m + 1} /\ m + 1 \notin Found(i)
  BY <1>2, <1>4 DEF Found
<1>7. Cardinality(Found(i)') = Cardinality(Found(i)) + 1
  BY <1>6, FoundIsFinite, FS_AddElement
<1> QED  BY <1>2, <1>3, <1>4, <1>5, <1>7

LEMMA AssignedDoes ==
    ASSUME Typed, NEW n \in DOMAIN issues, issues' = AssignedTo(n)
    PROVE  /\ issues' \in Seq(Issue) /\ DOMAIN issues' = DOMAIN issues
           /\ \A m \in DOMAIN issues : /\ issues'[m].marker = issues[m].marker
                                       /\ issues[m].assigned => issues'[m].assigned
                                       /\ m # n => issues'[m] = issues[m]
           /\ issues'[n].assigned
           /\ \A j : Found(j)' = Found(j)
<1>1. issues \in Seq(Issue)
  BY DEF Typed
<1>2. PICK old \in Issue : old = issues[n]
  BY <1>1
<1>3. PICK new \in Issue : /\ new = [issues[n] EXCEPT !.assigned = TRUE]
                           /\ new.marker = issues[n].marker /\ new.assigned
  <2>1. PICK new \in Issue : new = [old EXCEPT !.assigned = TRUE]
    BY DEF Issue
  <2> QED  BY <1>2, <2>1 DEF Issue
<1>4. issues' = [issues EXCEPT ![n] = new]
  BY <1>3 DEF AssignedTo
<1>5. issues' \in Seq(Issue) /\ DOMAIN issues' = DOMAIN issues
  BY <1>1, <1>4
<1>6. /\ \A m \in DOMAIN issues : m # n => issues'[m] = issues[m]
      /\ issues'[n] = new
  BY <1>1, <1>4
<1>7. \A m \in DOMAIN issues : issues'[m].marker = issues[m].marker
  BY <1>3, <1>6
<1>8. \A j : Found(j)' = Found(j)
  BY <1>5, <1>7 DEF Found
<1> QED  BY <1>3, <1>5, <1>6, <1>7, <1>8

ClosedIn(n) == [issues EXCEPT ![n].open = FALSE]

LEMMA ClosedDoes ==
    ASSUME Typed, NEW n \in DOMAIN issues, issues' = ClosedIn(n)
    PROVE  /\ issues' \in Seq(Issue) /\ DOMAIN issues' = DOMAIN issues
           /\ \A m \in DOMAIN issues : /\ issues'[m].marker = issues[m].marker
                                       /\ issues'[m].assigned = issues[m].assigned
           /\ \A j : Found(j)' = Found(j)
<1>1. issues \in Seq(Issue)
  BY DEF Typed
<1>2. PICK old \in Issue : old = issues[n]
  BY <1>1
<1>3. PICK new \in Issue : /\ new = [issues[n] EXCEPT !.open = FALSE]
                           /\ new.marker = issues[n].marker
                           /\ new.assigned = issues[n].assigned
  <2>1. PICK new \in Issue : new = [old EXCEPT !.open = FALSE]
    BY DEF Issue
  <2> QED  BY <1>2, <2>1 DEF Issue
<1>4. issues' = [issues EXCEPT ![n] = new]
  BY <1>3 DEF ClosedIn
<1>5. issues' \in Seq(Issue) /\ DOMAIN issues' = DOMAIN issues
  BY <1>1, <1>4
<1>6. \A m \in DOMAIN issues : /\ issues'[m].marker = issues[m].marker
                               /\ issues'[m].assigned = issues[m].assigned
  BY <1>1, <1>3, <1>4
<1>7. \A j : Found(j)' = Found(j)
  BY <1>5, <1>6 DEF Found
<1> QED  BY <1>5, <1>6, <1>7

\* A request of i that is under way, or was, adds to GitHub what i asks for.
GithubGrows(i) ==
    /\ issues' \in Seq(Issue) /\ DOMAIN issues \subseteq DOMAIN issues'
    /\ \A n \in DOMAIN issues : /\ issues'[n].marker = issues[n].marker
                                /\ issues[n].assigned => issues'[n].assigned
    /\ \A n \in DOMAIN issues' : issues'[n].assigned => issues'[n].marker \in Dispatches
    /\ \A j \in Intents : j # i => Found(j)' = Found(j)

LEMMA RequestLostDoes ==
    ASSUME IInv, NEW i \in Intents, RequestLost(i)
    PROVE  /\ GithubGrows(i)
           /\ Cardinality(Found(i)') <= 1 + servedLate[i]
           /\ servedLate' = servedLate
           /\ unserved' \in [Intents -> Nat]
           /\ \A j \in Intents : j # i => unserved'[j] = unserved[j]
           /\ lateAssign' \subseteq DOMAIN issues'
           /\ \A n \in lateAssign' : issues'[n].marker \in Dispatches
<1>1. /\ Typed /\ Good(i) /\ GithubInv
      /\ unserved \in [Intents -> Nat] /\ servedLate[i] \in Nat
      /\ lateAssign \subseteq DOMAIN issues /\ issues \in Seq(Issue)
  BY DEF IInv, Typed
<1>2. At(i, "assign") => /\ job[i].ref \in DOMAIN issues
                         /\ issues[job[i].ref].marker \in Dispatches
  BY <1>1 DEF Good, Located, At
<1>3. Cardinality(Found(i)) <= 1 + servedLate[i] /\ Cardinality(Found(i)) \in Nat
  BY <1>1, FoundIsFinite DEF Good, Once
<1>4. CASE UNCHANGED <<issues, late>>
  BY <1>1, <1>3, <1>4 DEF late, GithubGrows, GithubInv, Found
<1>5. CASE At(i, "create") /\ issues' = NewIssue(i) /\ UNCHANGED late
  <2>1. Cardinality(Found(i)) <= servedLate[i]
    BY <1>1, <1>5 DEF Good, Once
  <2>2. Cardinality(Found(i)') <= 1 + servedLate[i]
    BY <1>1, <1>3, <1>5, <2>1, NewIssueDoes
  <2>3. GithubGrows(i)
    BY <1>1, <1>5, NewIssueDoes DEF GithubGrows, GithubInv
  <2> QED  BY <1>1, <1>5, <2>2, <2>3 DEF late, GithubGrows, GithubInv
<1>6. CASE /\ unserved' = [unserved EXCEPT ![i] = @ + 1]
           /\ UNCHANGED <<issues, lateAssign, servedLate>>
  BY <1>1, <1>3, <1>6 DEF GithubGrows, GithubInv, Found
<1>7. CASE At(i, "assign") /\ issues' = AssignedTo(job[i].ref) /\ UNCHANGED late
  <2>1. PICK n \in DOMAIN issues : n = job[i].ref
    BY <1>2, <1>7
  <2>2. issues' = AssignedTo(n) /\ issues[n].marker \in Dispatches
    BY <1>2, <1>7, <2>1
  <2>3. GithubGrows(i) /\ Found(i)' = Found(i)
    BY <1>1, <2>2, AssignedDoes DEF GithubGrows, GithubInv
  <2> QED  BY <1>1, <1>3, <1>7, <2>3 DEF late, GithubGrows, GithubInv
<1>8. CASE /\ At(i, "assign") /\ lateAssign' = lateAssign \cup {job[i].ref}
           /\ UNCHANGED <<issues, unserved, servedLate>>
  BY <1>1, <1>2, <1>3, <1>8 DEF GithubGrows, GithubInv, Found
<1> QED  BY <1>4, <1>5, <1>6, <1>7, <1>8 DEF RequestLost

-----------------------------------------------------------------------------
(* What a step does to its caller. *)

LEMMA GoesToDoes ==
    ASSUME Typed, NEW i \in Intents, NEW pc \in Steps, GoesTo(i, pc)
    PROVE  \E new \in Callers : /\ job' = [job EXCEPT ![i] = new] /\ new.pc = pc
                                /\ new.ref = job[i].ref /\ new.by = job[i].by
<1>1. PICK old \in Callers : old = job[i]
  BY DEF Typed
<1>2. PICK new \in Callers : new = [old EXCEPT !.pc = pc]
  BY DEF Callers
<1>3. new.pc = pc /\ new.ref = old.ref /\ new.by = old.by
  BY <1>2 DEF Callers
<1> QED  BY <1>1, <1>2, <1>3 DEF GoesTo

LEMMA HoldsDoes ==
    ASSUME Typed, NEW i \in Intents, NEW pc \in Steps, NEW n \in Nat, Holds(i, pc, n)
    PROVE  \E new \in Callers : /\ job' = [job EXCEPT ![i] = new]
                                /\ new.pc = pc /\ new.ref = n
<1>1. PICK old \in Callers : old = job[i]
  BY DEF Typed
<1>2. PICK new \in Callers : new = [old EXCEPT !.pc = pc, !.ref = n]
  BY DEF Callers
<1>3. new.pc = pc /\ new.ref = n
  BY <1>2 DEF Callers
<1>4. job' = [job EXCEPT ![i] = new]
  <2>1. PICK mid \in Callers : mid = [old EXCEPT !.pc = pc]
    BY DEF Callers
  <2>2. new = [mid EXCEPT !.ref = n]
    BY <1>2, <2>1 DEF Callers
  <2>3. PICK f \in [Intents -> Callers] : f = [job EXCEPT ![i] = mid]
    BY DEF Typed
  <2>4. job' = [f EXCEPT ![i].ref = n]
    BY <1>1, <2>1, <2>3 DEF Holds
  <2>5. f[i] = mid
    BY <2>3 DEF Typed
  <2>6. job' = [f EXCEPT ![i] = new]
    BY <2>2, <2>4, <2>5
  <2> QED  BY <2>3, <2>6 DEF Typed
<1> QED  BY <1>2, <1>3, <1>4

LEMMA AcceptedDoes ==
    ASSUME NEW i \in Intents, NEW n \in Nat, NEW by \in {"run", "reconcile"},
           Accepted(i, n, by)
    PROVE  \E new \in Callers : /\ job' = [job EXCEPT ![i] = new] /\ new.pc = "done"
                                /\ new.ref = n /\ new.by = by
<1>1. PICK new \in Callers : new = [pc |-> "done", ref |-> n, by |-> by]
  BY DEF Callers, Steps
<1>2. job' = [job EXCEPT ![i] = new]
  BY <1>1 DEF Accepted
<1>3. new.pc = "done" /\ new.ref = n /\ new.by = by
  BY <1>1
<1> QED  BY <1>1, <1>2, <1>3

\* Attempts before one that has begun are done.
LEMMA EarlierDone ==
    ASSUME IInv, NEW i \in Intents, Begun(i), i \in Dispatches
    PROVE  \A k \in 1 .. i[2] - 1 : At(<<i[1], k>>, "done")
BY DEF IInv, Good, Ordered

\* A step of i that makes no request that GitHub serves.
LEMMA QuietKeeps ==
    ASSUME IInv, NEW i \in Intents, NEW new \in Callers, job' = [job EXCEPT ![i] = new],
           ~At(i, "done"), UNCHANGED <<agent, github, late>>, faults' \in Nat,
           process' \in [Intents -> BOOLEAN], Exclusive',
           \A j \in Intents : j # i => (process'[j] => process[j]),
           Located(i)',
           new.pc = "create" => Found(i) = {},
           i \in Dispatches => \A k \in 1 .. i[2] - 1 : At(<<i[1], k>>, "done")
    PROVE  IInv'
<1>1. job' \in [Intents -> Callers] /\ job'[i] = new
      /\ \A j \in Intents : j # i => job'[j] = job[j]
  BY DEF IInv, Typed
<1>2. Typed'
  BY <1>1 DEF IInv, Typed, github, late
<1>3. Grows
  BY <1>1 DEF Grows, github, At
<1>4. GithubInv'
  BY DEF IInv, GithubInv, github, late
<1>5. \A j \in Intents : j # i => Same(j)
  BY <1>1 DEF Same, Found, FoundByMarker, github, late
<1>6. Once(i)'
  <2>1. /\ Found(i)' = Found(i) /\ servedLate' = servedLate
        /\ servedLate[i] \in Nat
    BY DEF Found, github, late, IInv, Typed
  <2>2. Found(i) = {} => Cardinality(Found(i)) = 0
    BY FS_EmptySet
  <2> QED  BY <1>1, <2>1, <2>2 DEF IInv, Good, Once, At
<1>7. Ordered(i)'
  BY <1>3, EarlierStayDone DEF Ordered
<1> QED  BY <1>2, <1>3, <1>4, <1>5, <1>6, <1>7, StepKeeps DEF Good

-----------------------------------------------------------------------------
(* create_or_update_task. *)

\* An intent that is not yet done and called has no process, or an earlier call left it.
LEMMA ProcessAt ==
    ASSUME IInv, NEW i \in Intents,
           job[i].pc \notin {"code", "stopped", "unknown", "done"}
    PROVE  ~process[i]
BY DEF IInv, Good, Located

LEMMA CallKeeps ==
    ASSUME IInv, NEW i \in Intents, Call(i)
    PROVE  IInv'
<1> DEFINE pc == IF agent = "cline" /\ i \in Dispatches THEN "findPull" ELSE "find"
<1>1. /\ Typed /\ At(i, "claimed") /\ ~At(i, "done")
      /\ GoesTo(i, pc) /\ UNCHANGED <<agent, github, process, late, faults>>
  BY DEF Call, IInv, At
<1>2. PICK new \in Callers : job' = [job EXCEPT ![i] = new] /\ new.pc = pc
  BY <1>1, GoesToDoes DEF Steps
<1>3. job'[i] = new
  BY <1>1, <1>2 DEF Typed
<1>4. ~process[i]
  BY <1>1, ProcessAt DEF At
<1>5. Located(i)'
  BY <1>1, <1>2, <1>3, <1>4 DEF Located, OnCline, At
<1>6. ASSUME i \in Dispatches, NEW k \in 1 .. i[2] - 1
      PROVE  At(<<i[1], k>>, "done")
  <2>1. i[2] \in Nat /\ i[2] > 1 /\ i[2] - 1 \in 1 .. i[2] - 1
    BY <1>6, DispatchIs
  <2>2. PICK p \in Dispatches : p = <<i[1], i[2] - 1>>
    BY <1>6, <2>1, DispatchIs
  <2>3. At(p, "done")
    BY <1>6, <2>1, <2>2 DEF Call
  <2>4. CASE k = i[2] - 1
    BY <2>2, <2>3, <2>4
  <2>5. CASE k # i[2] - 1
    <3>1. k \in 1 .. p[2] - 1 /\ p[1] = i[1]
      BY <1>6, <2>1, <2>2, <2>5
    <3>2. p \in Intents /\ Begun(p)
      BY <2>3 DEF Begun, At, Intents
    <3>3. At(<<p[1], k>>, "done")
      BY <3>1, <3>2, EarlierDone
    <3> QED  BY <3>1, <3>3
  <2> QED  BY <2>4, <2>5
<1>7. Exclusive'
  BY <1>1, ExclusiveKept
<1>8. faults' \in Nat /\ process' \in [Intents -> BOOLEAN]
  BY <1>1 DEF Typed
<1>9. new.pc # "create"
  BY <1>2
<1>10. \A j \in Intents : j # i => (process'[j] => process[j])
  BY <1>1
<1> QED  BY <1>1, <1>2, <1>5, <1>6, <1>7, <1>8, <1>9, <1>10, QuietKeeps

\* No later attempt has a pull request while this one is not done.
LEMMA NoLaterPull ==
    ASSUME IInv, NEW i \in Dispatches, ~At(i, "done"), NEW n \in DOMAIN pulls,
           pulls[n].branch = i[1], NEW j \in Dispatches, pulls[n].marker = j
    PROVE  j[2] <= i[2]
<1>1. j[1] = i[1]
  BY DEF IInv, GithubInv
<1>2. i[2] \in Nat /\ i[2] >= 1 /\ j[2] \in Nat /\ i = <<i[1], i[2]>>
  <2>1. MaxAttempt \in Nat
    BY AgentsAssumption
  <2> QED  BY <2>1, DispatchIs
<1>3. j \in Intents /\ Begun(j)
  BY DEF Intents, Begun, FoundByMarker
<1>4. ASSUME j[2] > i[2] PROVE FALSE
  <2>1. i[2] \in 1 .. j[2] - 1
    BY <1>2, <1>4
  <2>2. At(<<j[1], i[2]>>, "done")
    BY <1>3, <2>1, EarlierDone
  <2> QED  BY <1>1, <1>2, <2>2
<1> QED  BY <1>2, <1>4

\* A step of i that takes a run for the intent.
LEMMA AcceptKeeps ==
    ASSUME IInv, NEW i \in Intents, NEW n \in Nat, NEW by \in {"run", "reconcile"},
           Accepted(i, n, by), UNCHANGED <<agent, github, process, late, faults>>,
           ~At(i, "done"), Begun(i),
           process[i] => FoundByBranch(i) # {},
           IF OnCline(i)
           THEN /\ n \in DOMAIN pulls /\ pulls[n].branch = i[1]
                /\ by = "reconcile" => pulls[n].marker = i
           ELSE /\ n \in DOMAIN issues /\ issues[n].marker = i
                /\ i \in Dispatches /\ by = "run" => issues[n].assigned
    PROVE  IInv'
<1>1. PICK new \in Callers : /\ job' = [job EXCEPT ![i] = new] /\ new.pc = "done"
                             /\ new.ref = n /\ new.by = by
  BY AcceptedDoes
<1>2. Typed /\ job'[i] = new
  BY <1>1 DEF Typed, IInv
<1>3. Real(i)'
  <2>1. CASE OnCline(i)
    <3>1. \A j \in Dispatches : pulls[n].marker = j => j[2] <= i[2]
      BY <2>1, NoLaterPull DEF OnCline
    <3> QED  BY <1>1, <1>2, <2>1, <3>1 DEF Real, OnCline, github
  <2>2. CASE ~OnCline(i)
    BY <1>1, <1>2, <2>2 DEF Real, OnCline, github
  <2> QED  BY <2>1, <2>2
<1>4. Located(i)'
  BY <1>1, <1>2, <1>3 DEF Located, OnCline, At, IInv, Good, FoundByBranch, github
<1>5. Exclusive'
  BY ExclusiveKept
<1>6. faults' \in Nat /\ process' \in [Intents -> BOOLEAN]
  BY <1>2 DEF Typed
<1> QED  BY <1>1, <1>4, <1>5, <1>6, EarlierDone, QuietKeeps

LEMMA FindKeeps ==
    ASSUME IInv, NEW i \in Intents, Find(i)
    PROVE  IInv'
<1>1. /\ Typed /\ job[i].pc = "find" /\ ~At(i, "done") /\ Begun(i)
      /\ UNCHANGED <<agent, github, process, late, faults>>
  BY DEF Find, IInv, At, Begun
<1>2. ~process[i] /\ ~OnCline(i)
  BY <1>1, ProcessAt DEF IInv, Good, Located
<1>3. ASSUME NEW new \in Callers, job' = [job EXCEPT ![i] = new],
             new.pc \in {"create", "assign"},
             new.pc = "create" => Found(i) = {},
             new.pc = "assign" => /\ i \in Dispatches /\ new.ref \in DOMAIN issues
                                  /\ issues[new.ref].marker = i
      PROVE  IInv'
  <2>1. job'[i] = new
    BY <1>1, <1>3 DEF Typed
  <2>2. Located(i)'
    BY <1>1, <1>2, <1>3, <2>1 DEF Located, OnCline, At, github
  <2>3. Exclusive'
    BY <1>1, ExclusiveKept
  <2>4. faults' \in Nat /\ process' \in [Intents -> BOOLEAN]
    BY <1>1 DEF Typed
  <2> QED  BY <1>1, <1>3, <2>2, <2>3, <2>4, EarlierDone, QuietKeeps
<1>4. CASE Found(i) = {} /\ GoesTo(i, "create")
  <2>1. PICK new \in Callers : job' = [job EXCEPT ![i] = new] /\ new.pc = "create"
    BY <1>1, <1>4, GoesToDoes DEF Steps
  <2> QED  BY <1>3, <1>4, <2>1
<1>5. CASE \E n \in Found(i) : IF MustAssign(i, n) THEN Holds(i, "assign", n)
                                ELSE Accepted(i, n, "run")
  <2>1. PICK n \in Found(i) : IF MustAssign(i, n) THEN Holds(i, "assign", n)
                              ELSE Accepted(i, n, "run")
    BY <1>5
  <2>2. n \in DOMAIN issues /\ n \in Nat /\ issues[n].marker = i
    BY <1>1, <2>1 DEF Found, Typed
  <2>3. CASE MustAssign(i, n)
    <3>1. PICK new \in Callers : /\ job' = [job EXCEPT ![i] = new]
                                 /\ new.pc = "assign" /\ new.ref = n
      BY <1>1, <2>1, <2>2, <2>3, HoldsDoes DEF Steps
    <3> QED  BY <1>3, <2>2, <2>3, <3>1 DEF MustAssign
  <2>4. CASE ~MustAssign(i, n)
    BY <1>1, <1>2, <2>1, <2>2, <2>4, AcceptKeeps DEF MustAssign
  <2> QED  BY <2>3, <2>4
<1> QED  BY <1>4, <1>5 DEF Find

LEMMA CreateKeeps ==
    ASSUME IInv, NEW i \in Intents, Create(i)
    PROVE  IInv'
<1>1. /\ Typed /\ job[i].pc = "create" /\ ~At(i, "done") /\ Begun(i) /\ GithubInv
      /\ issues' = NewIssue(i) /\ UNCHANGED <<agent, pulls, process, late, faults>>
  BY DEF Create, IInv, At, Begun
<1>2. ~process[i] /\ ~OnCline(i)
  BY <1>1, ProcessAt DEF IInv, Good, Located
<1>3. PICK n \in Nat : n = Len(issues) + 1
  BY <1>1, NewIssueDoes
<1>4. /\ issues' \in Seq(Issue) /\ DOMAIN issues \subseteq DOMAIN issues'
      /\ \A m \in DOMAIN issues : issues'[m] = issues[m]
      /\ \A m \in DOMAIN issues' : m \in DOMAIN issues \/ ~issues'[m].assigned
      /\ n \in DOMAIN issues' /\ issues'[n].marker = i
      /\ \A j \in Intents : j # i => Found(j)' = Found(j)
      /\ Cardinality(Found(i)') = Cardinality(Found(i)) + 1
  BY <1>1, <1>3, NewIssueDoes
<1>5. IF i \in Dispatches THEN Holds(i, "assign", n) ELSE Accepted(i, n, "run")
  BY <1>3 DEF Create
<1>6. PICK new \in Callers : /\ job' = [job EXCEPT ![i] = new] /\ new.ref = n
                             /\ new.pc = IF i \in Dispatches THEN "assign" ELSE "done"
  <2>1. CASE i \in Dispatches
    BY <1>1, <1>5, <2>1, HoldsDoes DEF Steps
  <2>2. CASE i \notin Dispatches
    BY <1>5, <2>2, AcceptedDoes
  <2> QED  BY <2>1, <2>2
<1>7. /\ job' \in [Intents -> Callers] /\ job'[i] = new
      /\ \A j \in Intents : j # i => job'[j] = job[j]
  BY <1>1, <1>6 DEF Typed
<1>8. Typed'
  BY <1>1, <1>4, <1>7 DEF Typed, late
<1>9. Grows
  BY <1>1, <1>4, <1>7 DEF Grows, At
<1>10. GithubInv'
  BY <1>1, <1>4 DEF GithubInv, late, Typed
<1>11. Exclusive'
  BY <1>1, ExclusiveKept
<1>12. \A j \in Intents : j # i => Same(j)
  BY <1>1, <1>4, <1>7 DEF Same, FoundByMarker, late
<1>13. Located(i)'
  BY <1>1, <1>2, <1>4, <1>6, <1>7 DEF Located, OnCline, At, Real
<1>14. Once(i)'
  <2>1. Cardinality(Found(i)) <= servedLate[i] /\ Cardinality(Found(i)) \in Nat
    BY <1>1, FoundIsFinite DEF IInv, Good, Once, At
  <2> QED  BY <1>1, <1>4, <1>6, <1>7, <2>1 DEF Once, At, late, Typed
<1>15. Ordered(i)'
  BY <1>1, <1>9, EarlierDone, EarlierStayDone DEF Ordered
<1> QED  BY <1>8, <1>9, <1>10, <1>11, <1>12, <1>13, <1>14, <1>15, StepKeeps DEF Good

LEMMA AssignKeeps ==
    ASSUME IInv, NEW i \in Intents, Assign(i)
    PROVE  IInv'
<1>1. /\ Typed /\ job[i].pc = "assign" /\ ~At(i, "done") /\ Begun(i) /\ GithubInv
      /\ UNCHANGED <<agent, pulls, process, late, faults>>
  BY DEF Assign, IInv, At, Begun
<1>2. ~process[i] /\ ~OnCline(i) /\ i \in Dispatches
  BY <1>1, ProcessAt DEF IInv, Good, Located
<1>3. PICK n \in DOMAIN issues : n = job[i].ref /\ issues[n].marker = i
  BY <1>1 DEF IInv, Good, Located, At
<1>4. issues' = AssignedTo(n) /\ Accepted(i, n, "run") /\ n \in Nat
  BY <1>1, <1>3 DEF Assign, Typed
<1>5. /\ issues' \in Seq(Issue) /\ DOMAIN issues' = DOMAIN issues
      /\ \A m \in DOMAIN issues : /\ issues'[m].marker = issues[m].marker
                                  /\ issues[m].assigned => issues'[m].assigned
                                  /\ m # n => issues'[m] = issues[m]
      /\ issues'[n].assigned
      /\ \A j : Found(j)' = Found(j)
  BY <1>1, <1>4, AssignedDoes
<1>6. PICK new \in Callers : /\ job' = [job EXCEPT ![i] = new] /\ new.ref = n
                             /\ new.pc = "done" /\ new.by = "run"
  BY <1>4, AcceptedDoes
<1>7. /\ job' \in [Intents -> Callers] /\ job'[i] = new
      /\ \A j \in Intents : j # i => job'[j] = job[j]
  BY <1>1, <1>6 DEF Typed
<1>8. Typed'
  BY <1>1, <1>5, <1>7 DEF Typed, late
<1>9. Grows
  BY <1>1, <1>5, <1>7 DEF Grows, At
<1>10. GithubInv'
  BY <1>1, <1>2, <1>3, <1>5 DEF GithubInv, late, Typed
<1>11. Exclusive'
  BY <1>1, ExclusiveKept
<1>12. \A j \in Intents : j # i => Same(j)
  BY <1>1, <1>5, <1>7 DEF Same, FoundByMarker, late
<1>13. Located(i)'
  BY <1>1, <1>2, <1>3, <1>5, <1>6, <1>7 DEF Located, OnCline, At, Real
<1>14. Once(i)'
  BY <1>1, <1>5, <1>6, <1>7 DEF IInv, Good, Once, At, late
<1>15. Ordered(i)'
  BY <1>1, <1>9, EarlierDone, EarlierStayDone DEF Ordered
<1> QED  BY <1>8, <1>9, <1>10, <1>11, <1>12, <1>13, <1>14, <1>15, StepKeeps DEF Good

-----------------------------------------------------------------------------
(* run of Cline. *)

\* If no pull request is on the branch of an attempt that is about to start its
\* process, no other attempt has a process.
LEMMA NobodyElseWorks ==
    ASSUME IInv, NEW i \in Dispatches, At(i, "findPull"), FoundByBranch(i) = {},
           NEW j \in Dispatches, j[1] = i[1], process[j]
    PROVE  FALSE
<1>1. i \in Intents /\ j \in Intents
  BY DEF Intents
<1>2. Located(i) /\ Located(j) /\ Begun(i) /\ Begun(j)
  BY <1>1 DEF IInv, Good, Located, Begun, At
<1>3. /\ i = <<i[1], i[2]>> /\ j = <<j[1], j[2]>>
      /\ i[2] \in 1 .. MaxAttempt /\ j[2] \in 1 .. MaxAttempt /\ MaxAttempt \in Nat
  BY DispatchIs, AgentsAssumption
<1>4. CASE j[2] = i[2]
  <2>1. j = i
    BY <1>3, <1>4
  <2> QED  BY <1>2, <2>1 DEF Located, At
<1>5. CASE j[2] < i[2]
  <2>1. j[2] \in 1 .. i[2] - 1
    BY <1>3, <1>5
  <2>2. At(<<i[1], j[2]>>, "done")
    BY <1>1, <1>2, <2>1, EarlierDone
  <2>3. At(j, "done")
    BY <1>3, <2>2
  <2>4. FoundByBranch(j) # {}
    BY <1>2, <2>3 DEF Located
  <2> QED  BY <2>4 DEF FoundByBranch
<1>6. CASE i[2] < j[2]
  <2>1. i[2] \in 1 .. j[2] - 1
    BY <1>3, <1>6
  <2>2. At(<<j[1], i[2]>>, "done")
    BY <1>1, <1>2, <2>1, EarlierDone
  <2>3. At(i, "done")
    BY <1>3, <2>2
  <2> QED  BY <2>3 DEF At
<1> QED  BY <1>3, <1>4, <1>5, <1>6

LEMMA FindPullKeeps ==
    ASSUME IInv, NEW i \in Intents, FindPull(i)
    PROVE  IInv'
<1>1. /\ Typed /\ job[i].pc = "findPull" /\ At(i, "findPull") /\ ~At(i, "done")
      /\ Begun(i) /\ UNCHANGED <<agent, github, late, faults>>
  BY DEF FindPull, IInv, At, Begun
<1>2. ~process[i] /\ OnCline(i)
  BY <1>1, ProcessAt DEF IInv, Good, Located
<1>3. CASE FoundByBranch(i) # {}
  <2>1. PICK n \in FoundByBranch(i) : Accepted(i, n, "run") /\ UNCHANGED process
    BY <1>3 DEF FindPull
  <2>2. n \in DOMAIN pulls /\ n \in Nat /\ pulls[n].branch = i[1]
    BY <1>1, <2>1 DEF FoundByBranch, Typed
  <2> QED  BY <1>1, <1>2, <2>1, <2>2, AcceptKeeps
<1>4. CASE FoundByBranch(i) = {}
  <2>1. GoesTo(i, "code") /\ process' = [process EXCEPT ![i] = TRUE]
    BY <1>4 DEF FindPull
  <2>2. PICK new \in Callers : job' = [job EXCEPT ![i] = new] /\ new.pc = "code"
    BY <1>1, <2>1, GoesToDoes DEF Steps
  <2>3. /\ job'[i] = new /\ process' \in [Intents -> BOOLEAN] /\ faults' \in Nat
        /\ \A j \in Intents : j # i => process'[j] = process[j]
    BY <1>1, <2>1, <2>2 DEF Typed
  <2>4. Located(i)'
    BY <1>1, <1>2, <2>2, <2>3 DEF Located, OnCline, At
  <2>5. Exclusive'
    <3>1. i \in Dispatches
      BY <1>2 DEF OnCline
    <3>2. \A j \in Dispatches : j \in Intents
      BY DEF Intents
    <3>3. \A j \in Dispatches : j[1] = i[1] => ~process[j]
      BY <1>1, <1>4, <3>1, NobodyElseWorks
    <3> QED  BY <2>3, <3>1, <3>2, <3>3 DEF IInv, Exclusive
  <2>6. new.pc # "create"
    BY <2>2
  <2>7. \A j \in Intents : j # i => (process'[j] => process[j])
    BY <2>3
  <2> QED  BY <1>1, <2>2, <2>3, <2>4, <2>5, <2>6, <2>7, EarlierDone, QuietKeeps
<1> QED  BY <1>3, <1>4

LEMMA OpenPullKeeps ==
    ASSUME IInv, NEW i \in Dispatches, NEW marker \in {i, <<>>}, OpenPull(i, marker)
    PROVE  IInv'
<1>1. /\ Typed /\ process[i] /\ i \in Intents /\ GithubInv /\ Good(i)
      /\ UNCHANGED <<agent, issues, job, process, late, faults>>
  BY DEF OpenPull, IInv, Intents
<1>2. PICK new \in Pull : new.branch = i[1] /\ new.marker = marker
                          /\ pulls' = Append(pulls, new)
  BY DispatchIs DEF OpenPull, Pull
<1>3. PICK m \in Nat : m = Len(pulls)
  BY <1>1 DEF Typed
<1>4. /\ pulls' \in Seq(Pull) /\ DOMAIN pulls = 1 .. m /\ DOMAIN pulls' = 1 .. m + 1
      /\ \A n \in 1 .. m : pulls'[n] = pulls[n]
      /\ pulls'[m + 1] = new
  BY <1>1, <1>2, <1>3 DEF Typed
<1>5. \A j \in Dispatches : j # i => marker # j
  BY DispatchIs
<1>6. Typed'
  BY <1>1, <1>4 DEF Typed, late
<1>7. Grows
  BY <1>1, <1>4 DEF Grows
<1>8. GithubInv'
  BY <1>1, <1>2, <1>4, <1>5 DEF GithubInv, late
<1>9. Exclusive'
  BY <1>1, ExclusiveKept
<1>10. \A j \in Intents : j # i => Same(j)
  BY <1>1, <1>2, <1>4, <1>5 DEF Same, Found, FoundByMarker, late
<1>11. At(i, "done") => Real(i)'
  BY <1>1, <1>7, DoneStaysReal DEF Good, Located
<1>12. FoundByBranch(i) # {} => FoundByBranch(i)' # {}
  BY <1>7, BranchStaysFound
<1>13. Located(i)'
  BY <1>1, <1>11, <1>12 DEF Located, OnCline, At, Good
<1>14. Once(i)'
  BY <1>1 DEF Once, Found, At, Good, late
<1>15. Begun(i)
  BY <1>1 DEF Good, Located, Begun, At
<1>16. Ordered(i)'
  BY <1>1, <1>7, <1>15, EarlierDone, EarlierStayDone DEF Ordered
<1> QED  BY <1>6, <1>7, <1>8, <1>9, <1>10, <1>13, <1>14, <1>16, StepKeeps DEF Good

LEMMA ExitKeeps ==
    ASSUME IInv, NEW i \in Intents, Exit(i)
    PROVE  IInv'
<1>1. /\ Typed /\ job[i].pc = "code" /\ ~At(i, "done") /\ Begun(i)
      /\ process' = [process EXCEPT ![i] = FALSE] /\ GoesTo(i, "check")
      /\ UNCHANGED <<agent, github, late, faults>>
  BY DEF Exit, IInv, At, Begun
<1>2. PICK new \in Callers : job' = [job EXCEPT ![i] = new] /\ new.pc = "check"
  BY <1>1, GoesToDoes DEF Steps
<1>3. /\ job'[i] = new /\ process' \in [Intents -> BOOLEAN] /\ faults' \in Nat
      /\ \A j \in Intents : process'[j] => process[j]
      /\ ~process'[i]
  BY <1>1, <1>2 DEF Typed
<1>4. OnCline(i)
  BY <1>1 DEF IInv, Good, Located
<1>5. Located(i)'
  BY <1>1, <1>2, <1>3, <1>4 DEF Located, OnCline, At
<1>6. Exclusive'
  BY <1>3, ExclusiveKept DEF Intents
<1>7. new.pc # "create"
  BY <1>2
<1> QED  BY <1>1, <1>2, <1>3, <1>5, <1>6, <1>7, EarlierDone, QuietKeeps

\* A step of i that only moves its caller, past the places where its agent works.
LEMMA LeaveKeeps ==
    ASSUME IInv, NEW i \in Intents, NEW pc \in {"reconcile", "claimed", "unknown"},
           GoesTo(i, pc), UNCHANGED <<agent, github, process, late, faults>>,
           ~At(i, "done"), Begun(i),
           pc = "reconcile" => i \in Dispatches,
           process[i] => pc = "unknown"
    PROVE  IInv'
<1>1. Typed /\ pc \in Steps
  BY DEF IInv, Steps
<1>2. PICK new \in Callers : job' = [job EXCEPT ![i] = new] /\ new.pc = pc
  BY <1>1, GoesToDoes
<1>3. job'[i] = new /\ process' \in [Intents -> BOOLEAN] /\ faults' \in Nat
  BY <1>1, <1>2 DEF Typed
<1>4. process[i] => OnCline(i)
  BY DEF IInv, Good, Located
<1>5. Located(i)'
  BY <1>2, <1>3, <1>4 DEF Located, OnCline, At
<1>6. Exclusive'
  BY ExclusiveKept
<1>7. new.pc # "create"
  BY <1>2
<1> QED  BY <1>2, <1>3, <1>5, <1>6, <1>7, EarlierDone, QuietKeeps

LEMMA CheckKeeps ==
    ASSUME IInv, NEW i \in Intents, Check(i)
    PROVE  IInv'
<1>1. /\ Typed /\ job[i].pc = "check" /\ ~At(i, "done") /\ Begun(i)
      /\ UNCHANGED <<agent, github, process, late, faults>>
  BY DEF Check, IInv, At, Begun
<1>2. ~process[i] /\ OnCline(i)
  BY <1>1, ProcessAt DEF IInv, Good, Located
<1>3. CASE FoundByBranch(i) = {}
  BY <1>1, <1>2, <1>3, LeaveKeeps DEF Check, OnCline
<1>4. CASE FoundByBranch(i) # {}
  <2>1. PICK n \in FoundByBranch(i) : Accepted(i, n, "run")
    BY <1>4 DEF Check
  <2>2. n \in DOMAIN pulls /\ n \in Nat /\ pulls[n].branch = i[1]
    BY <1>1, <2>1 DEF FoundByBranch, Typed
  <2> QED  BY <1>1, <1>2, <2>1, <2>2, AcceptKeeps
<1> QED  BY <1>3, <1>4

LEMMA OrphanExitKeeps ==
    ASSUME IInv, NEW i \in Intents, OrphanExit(i)
    PROVE  IInv'
<1>1. /\ Typed /\ Good(i) /\ GithubInv /\ process' = [process EXCEPT ![i] = FALSE]
      /\ UNCHANGED <<agent, github, job, late, faults>>
  BY DEF OrphanExit, IInv
<1>2. /\ process' \in [Intents -> BOOLEAN]
      /\ \A j \in Intents : process'[j] => process[j]
  BY <1>1 DEF Typed
<1>3. Typed' /\ Grows /\ GithubInv'
  BY <1>1, <1>2 DEF Typed, Grows, GithubInv, github, late
<1>4. Exclusive'
  BY <1>2, ExclusiveKept DEF Intents
<1>5. \A j \in Intents : Same(j)
  BY <1>1, <1>2 DEF Same, Found, FoundByMarker, github, late
<1> QED  BY <1>3, <1>4, <1>5, StepKeeps

-----------------------------------------------------------------------------
(* Errors and recovery. *)

\* What is found for a dispatch is its own run.
LEMMA ReconciledIsReal ==
    ASSUME IInv, NEW i \in Dispatches, NEW n \in Reconciled(i)
    PROVE  /\ n \in Nat
           /\ IF OnCline(i) THEN /\ n \in DOMAIN pulls /\ pulls[n].branch = i[1]
                                 /\ pulls[n].marker = i
              ELSE n \in DOMAIN issues /\ issues[n].marker = i
           /\ process[i] => FoundByBranch(i) # {}
           /\ Begun(i)
<1>1. Typed /\ GithubInv /\ Located(i)
  BY DEF IInv, Good, Intents
<1>2. CASE agent = "copilot"
  <2>1. ~OnCline(i) /\ n \in Found(i) /\ ~process[i]
    BY <1>1, <1>2 DEF OnCline, Reconciled, Located
  <2> QED  BY <1>1, <2>1 DEF Found, Typed, Begun
<1>3. CASE agent # "copilot"
  <2>1. OnCline(i) /\ n \in FoundByMarker(i)
    BY <1>1, <1>3 DEF OnCline, Reconciled, Typed
  <2>2. n \in DOMAIN pulls /\ pulls[n].marker = i
    BY <2>1 DEF FoundByMarker
  <2>3. n \in Nat
    BY <1>1, <2>2 DEF Typed
  <2>4. pulls[n].branch = i[1]
    BY <1>1, <2>2 DEF GithubInv
  <2> QED  BY <2>1, <2>2, <2>3, <2>4 DEF FoundByBranch, Begun
<1> QED  BY <1>2, <1>3

LEMMA ReconcileKeeps ==
    ASSUME IInv, NEW i \in Intents, Reconcile(i)
    PROVE  IInv'
<1>1. /\ job[i].pc = "reconcile" /\ ~At(i, "done") /\ Begun(i)
      /\ UNCHANGED <<agent, github, process, late, faults>>
  BY DEF Reconcile, At, Begun
<1>2. ~process[i] /\ i \in Dispatches
  BY <1>1, ProcessAt DEF IInv, Good, Located
<1>3. CASE Reconciled(i) = {}
  BY <1>1, <1>2, <1>3, LeaveKeeps DEF Reconcile
<1>4. CASE Reconciled(i) # {}
  <2>1. PICK n \in Reconciled(i) : Accepted(i, n, "reconcile")
    BY <1>4 DEF Reconcile
  <2> QED  BY <1>1, <1>2, <2>1, ReconciledIsReal, AcceptKeeps
<1> QED  BY <1>3, <1>4

LEMMA RecoverKeeps ==
    ASSUME IInv, NEW i \in Intents, Recover(i)
    PROVE  IInv'
<1>1. /\ i \in Dispatches /\ ~At(i, "done")
      /\ UNCHANGED <<agent, github, process, late, faults>>
  BY DEF Recover, At
<1>2. CASE \E n \in Reconciled(i) : Accepted(i, n, "reconcile")
  <2>1. PICK n \in Reconciled(i) : Accepted(i, n, "reconcile")
    BY <1>2
  <2> QED  BY <1>1, <2>1, ReconciledIsReal, AcceptKeeps
<1>3. CASE At(i, "stopped") /\ GoesTo(i, "unknown")
  BY <1>1, <1>3, LeaveKeeps DEF Begun, At
<1> QED  BY <1>2, <1>3 DEF Recover

\* A step of i whose request is lost.
LEMMA LostKeeps ==
    ASSUME IInv, NEW i \in Intents, NEW pc \in {"reconcile", "claimed", "stopped"},
           GoesTo(i, pc), RequestLost(i), Fault,
           ~At(i, "done"), Begun(i),
           pc = "reconcile" => i \in Dispatches,
           process' \in [Intents -> BOOLEAN],
           \A j \in Intents : process'[j] => process[j],
           process'[i] => pc = "stopped"
    PROVE  IInv'
<1>1. Typed /\ GithubInv /\ Good(i) /\ pc \in Steps /\ UNCHANGED <<agent, pulls>>
  BY DEF IInv, Steps, Fault
<1>2. PICK new \in Callers : job' = [job EXCEPT ![i] = new] /\ new.pc = pc
  BY <1>1, GoesToDoes
<1>3. /\ job' \in [Intents -> Callers] /\ job'[i] = new
      /\ \A j \in Intents : j # i => job'[j] = job[j]
  BY <1>1, <1>2 DEF Typed
<1>4. /\ GithubGrows(i)
      /\ Cardinality(Found(i)') <= 1 + servedLate[i]
      /\ servedLate' = servedLate
      /\ unserved' \in [Intents -> Nat]
      /\ \A j \in Intents : j # i => unserved'[j] = unserved[j]
      /\ lateAssign' \subseteq DOMAIN issues'
      /\ \A n \in lateAssign' : issues'[n].marker \in Dispatches
  BY RequestLostDoes
<1>5. faults' \in Nat
  BY <1>1 DEF Fault, Typed
<1>6. Typed'
  BY <1>1, <1>3, <1>4, <1>5 DEF Typed, GithubGrows
<1>7. Grows
  BY <1>1, <1>3, <1>4 DEF Grows, GithubGrows, At
<1>8. GithubInv'
  BY <1>1, <1>4 DEF GithubInv, GithubGrows
<1>9. Exclusive'
  BY ExclusiveKept DEF Intents
<1>10. \A j \in Intents : j # i => Same(j)
  BY <1>1, <1>3, <1>4 DEF Same, FoundByMarker, GithubGrows
<1>11. process[i] => OnCline(i)
  BY <1>1 DEF Good, Located
<1>12. Located(i)'
  BY <1>1, <1>2, <1>3, <1>11 DEF Located, OnCline, At
<1>13. Once(i)'
  BY <1>2, <1>3, <1>4 DEF Once, At
<1>14. Ordered(i)'
  BY <1>7, EarlierDone, EarlierStayDone DEF Ordered
<1> QED  BY <1>6, <1>7, <1>8, <1>9, <1>10, <1>12, <1>13, <1>14, StepKeeps DEF Good

LEMMA FailKeeps ==
    ASSUME IInv, NEW i \in Intents, Fail(i)
    PROVE  IInv'
<1>1. /\ process' = [process EXCEPT ![i] = FALSE] /\ RequestLost(i) /\ Fault
      /\ ~At(i, "done") /\ Begun(i)
      /\ GoesTo(i, IF i \in Dispatches THEN "reconcile" ELSE "claimed")
  BY DEF Fail, At, Begun
<1>2. /\ process' \in [Intents -> BOOLEAN] /\ ~process'[i]
      /\ \A j \in Intents : process'[j] => process[j]
  BY <1>1 DEF IInv, Typed
<1>3. CASE i \in Dispatches
  BY <1>1, <1>2, <1>3, LostKeeps
<1>4. CASE i \notin Dispatches
  BY <1>1, <1>2, <1>4, LostKeeps
<1> QED  BY <1>3, <1>4

LEMMA CrashKeeps ==
    ASSUME IInv, NEW i \in Intents, Crash(i)
    PROVE  IInv'
<1>1. /\ RequestLost(i) /\ Fault /\ ~At(i, "done") /\ Begun(i)
      /\ GoesTo(i, "stopped") /\ UNCHANGED process
  BY DEF Crash, At, Begun
<1>2. process' \in [Intents -> BOOLEAN]
  BY <1>1 DEF IInv, Typed
<1> QED  BY <1>1, <1>2, LostKeeps

-----------------------------------------------------------------------------
(* GitHub. *)

LEMMA ServeCreationKeeps ==
    ASSUME IInv, NEW i \in Intents, ServeCreation(i)
    PROVE  IInv'
<1>1. /\ Typed /\ GithubInv /\ Good(i) /\ issues' = NewIssue(i) /\ unserved[i] > 0
      /\ unserved' = [unserved EXCEPT ![i] = @ - 1]
      /\ servedLate' = [servedLate EXCEPT ![i] = @ + 1]
      /\ UNCHANGED <<agent, pulls, job, process, lateAssign, faults>>
  BY DEF ServeCreation, IInv
<1>2. /\ issues' \in Seq(Issue) /\ DOMAIN issues \subseteq DOMAIN issues'
      /\ \A m \in DOMAIN issues : issues'[m] = issues[m]
      /\ \A m \in DOMAIN issues' : m \in DOMAIN issues \/ ~issues'[m].assigned
      /\ \A j \in Intents : j # i => Found(j)' = Found(j)
      /\ Cardinality(Found(i)') = Cardinality(Found(i)) + 1
  BY <1>1, NewIssueDoes
<1>3. /\ unserved' \in [Intents -> Nat] /\ servedLate' \in [Intents -> Nat]
      /\ servedLate'[i] = servedLate[i] + 1 /\ servedLate[i] \in Nat
      /\ \A j \in Intents : j # i => /\ unserved'[j] = unserved[j]
                                     /\ servedLate'[j] = servedLate[j]
  BY <1>1 DEF Typed
<1>4. Typed'
  BY <1>1, <1>2, <1>3 DEF Typed
<1>5. Grows
  BY <1>1, <1>2 DEF Grows
<1>6. GithubInv'
  BY <1>1, <1>2 DEF GithubInv, Typed
<1>7. Exclusive'
  BY <1>1, ExclusiveKept
<1>8. \A j \in Intents : j # i => Same(j)
  BY <1>1, <1>2, <1>3 DEF Same, FoundByMarker
<1>9. At(i, "done") => Real(i)'
  BY <1>1, <1>5, DoneStaysReal DEF Good, Located
<1>10. Located(i)'
  BY <1>1, <1>2, <1>9 DEF Good, Located, OnCline, At, FoundByBranch
<1>11. Once(i)'
  <2>1. Cardinality(Found(i)) \in Nat
    BY <1>1, FoundIsFinite
  <2> QED  BY <1>1, <1>2, <1>3, <2>1 DEF Good, Once, At
<1>12. Begun(i)
  BY <1>1 DEF Begun
<1>13. Ordered(i)'
  BY <1>5, <1>12, EarlierDone, EarlierStayDone DEF Ordered
<1> QED  BY <1>4, <1>5, <1>6, <1>7, <1>8, <1>10, <1>11, <1>13, StepKeeps DEF Good

\* A step that changes an issue and creates none.
LEMMA IssueKeeps ==
    ASSUME IInv, issues' \in Seq(Issue), DOMAIN issues' = DOMAIN issues,
           \A m \in DOMAIN issues : /\ issues'[m].marker = issues[m].marker
                                    /\ issues[m].assigned => issues'[m].assigned,
           \A m \in DOMAIN issues :
               issues'[m].assigned => issues[m].assigned \/ issues[m].marker \in Dispatches,
           \A j : Found(j)' = Found(j), lateAssign' \subseteq lateAssign,
           UNCHANGED <<agent, pulls, job, process, unserved, servedLate, faults>>
    PROVE  IInv'
<1>1. Typed'
  BY DEF IInv, Typed
<1>2. Grows
  <2>1. agent' = agent /\ pulls' = pulls /\ job' = job
    OBVIOUS
  <2>2. \A n \in DOMAIN issues : /\ issues'[n].marker = issues[n].marker
                                 /\ issues[n].assigned => issues'[n].assigned
    OBVIOUS
  <2>3. DOMAIN issues \subseteq DOMAIN issues'
    OBVIOUS
  <2> QED  BY <2>1, <2>2, <2>3 DEF Grows
<1>3. GithubInv'
  <2>1. lateAssign' \subseteq DOMAIN issues
    BY DEF IInv, Typed
  <2> QED  BY <2>1, Zenon DEF IInv, GithubInv
<1>4. Exclusive'
  BY ExclusiveKept
<1>5. \A j \in Intents : Same(j)
  BY DEF Same, FoundByMarker
<1> QED  BY <1>1, <1>2, <1>3, <1>4, <1>5, StepKeeps

LEMMA ServeAssignmentKeeps ==
    ASSUME IInv, NEW n \in DOMAIN issues, ServeAssignment(n)
    PROVE  IInv'
<1>1. /\ Typed /\ issues' = AssignedTo(n) /\ lateAssign' \subseteq lateAssign
      /\ UNCHANGED <<agent, pulls, job, process, unserved, servedLate, faults>>
      /\ issues[n].marker \in Dispatches
  BY DEF ServeAssignment, IInv, GithubInv
<1>2. /\ issues' \in Seq(Issue) /\ DOMAIN issues' = DOMAIN issues
      /\ \A m \in DOMAIN issues : /\ issues'[m].marker = issues[m].marker
                                  /\ issues[m].assigned => issues'[m].assigned
                                  /\ m # n => issues'[m] = issues[m]
      /\ \A j : Found(j)' = Found(j)
  BY <1>1, AssignedDoes
<1>3. \A m \in DOMAIN issues :
        issues'[m].assigned => issues[m].assigned \/ issues[m].marker \in Dispatches
  BY <1>1, <1>2
<1> QED  BY <1>1, <1>2, <1>3, IssueKeeps

LEMMA CloseKeeps ==
    ASSUME IInv, NEW n \in DOMAIN issues, Close(n)
    PROVE  IInv'
<1>1. /\ Typed /\ issues' = ClosedIn(n) /\ lateAssign' = lateAssign
      /\ UNCHANGED <<agent, pulls, job, process, unserved, servedLate, faults>>
  BY DEF Close, IInv, late, ClosedIn
<1>2. /\ issues' \in Seq(Issue) /\ DOMAIN issues' = DOMAIN issues
      /\ \A m \in DOMAIN issues : /\ issues'[m].marker = issues[m].marker
                                  /\ issues'[m].assigned = issues[m].assigned
      /\ \A j : Found(j)' = Found(j)
  BY <1>1, ClosedDoes
<1> QED  BY <1>1, <1>2, IssueKeeps

-----------------------------------------------------------------------------
(* The theorems. *)

LEMMA InitHolds == Init => IInv
<1> SUFFICES ASSUME Init PROVE IInv
  OBVIOUS
<1>1. Waiting \in Callers /\ Waiting.pc = "claimed"
  BY DEF Waiting, Callers, Steps
<1>2. /\ \A i \in Intents : job[i].pc = "claimed" /\ ~process[i] /\ unserved[i] = 0
      /\ \A i \in Intents : servedLate[i] = 0
      /\ DOMAIN issues = {} /\ DOMAIN pulls = {} /\ lateAssign = {}
  BY <1>1 DEF Init
<1>3. Typed
  BY <1>1, AgentsAssumption DEF Init, Typed
<1>4. GithubInv /\ Exclusive
  BY <1>2 DEF GithubInv, Exclusive, Intents
<1>5. ASSUME NEW i \in Intents PROVE Good(i)
  <2>1. Found(i) = {} /\ FoundByMarker(i) = {}
    BY <1>2 DEF Found, FoundByMarker
  <2>2. Cardinality(Found(i)) = 0
    BY <2>1, FS_EmptySet
  <2> QED  BY <1>2, <2>1, <2>2 DEF Good, Located, Once, Ordered, Begun, At
<1> QED  BY <1>3, <1>4, <1>5 DEF IInv

LEMMA NextKeeps == IInv /\ [Next]_vars => IInv'
<1> SUFFICES ASSUME IInv, [Next]_vars PROVE IInv'
  OBVIOUS
<1>1. ASSUME NEW i \in Intents,
             \/ Call(i) \/ Find(i) \/ Create(i) \/ Assign(i)
             \/ FindPull(i) \/ Exit(i) \/ Check(i) \/ OrphanExit(i)
             \/ Fail(i) \/ Reconcile(i) \/ Crash(i) \/ Recover(i)
             \/ ServeCreation(i)
      PROVE  IInv'
  BY <1>1, CallKeeps, FindKeeps, CreateKeeps, AssignKeeps, FindPullKeeps, ExitKeeps,
     CheckKeeps, OrphanExitKeeps, FailKeeps, ReconcileKeeps, CrashKeeps, RecoverKeeps,
     ServeCreationKeeps
<1>2. CASE \E i \in Dispatches : \E marker \in {i, <<>>} : OpenPull(i, marker)
  BY <1>2, OpenPullKeeps
<1>3. CASE \E n \in DOMAIN issues : ServeAssignment(n) \/ Close(n)
  BY <1>3, ServeAssignmentKeeps, CloseKeeps
<1>4. CASE UNCHANGED vars
  <2>1. \A j : Found(j)' = Found(j)
    BY <1>4 DEF Found, vars
  <2> QED  BY <1>4, <2>1, IssueKeeps DEF vars, IInv, Typed
<1> QED  BY <1>1, <1>2, <1>3, <1>4 DEF Next

\* What a caller relies on between its requests holds in every reachable state: what
\* it holds is its own, no attempt begins before those before it are done, and an
\* intent without an issue of its own has only issues that were served late.
THEOREM Invariance == Spec => []IInv
<1> QED  BY InitHolds, NextKeeps, PTL DEF Spec

\* However many requests fail, are served late or are repeated by another caller, an
\* intent has one issue and one more for each creation served after it was given up,
\* and no two processes of Cline work on a task.
THEOREM CreatedOnce == Spec => []NothingTwice
<1>1. IInv => NothingTwice
  BY DEF IInv, Good, Once, Found, Exclusive, NothingTwice
<1> QED  BY <1>1, Invariance, PTL

\* After any crashes, the run of a done intent is an issue of its own, assigned if run
\* returned it, or for Cline a pull request of its task's branch: the intent's own if
\* reconcile found it, and never that of a later attempt.
THEOREM RunsAreReal == Spec => []AcceptedRunsAreReal
<1>1. ASSUME IInv PROVE AcceptedRunsAreReal
  <2>1. \A i \in Intents : At(i, "done") => Real(i)
    BY <1>1 DEF IInv, Good, Located
  <2>2. Dispatches \cap Followups = {}
    BY AgentsAssumption
  <2>3. ASSUME NEW i \in Intents, At(i, "done"), OnCline(i)
        PROVE  \A j \in Dispatches :
                   pulls[job[i].ref].marker = j => j[1] = i[1] /\ j[2] <= i[2]
    BY <1>1, <2>1, <2>3 DEF IInv, GithubInv, Real
  <2> QED  BY <1>1, <2>1, <2>2, <2>3 DEF IInv, GithubInv, Real, OnCline, AcceptedRunsAreReal
<1>2. IInv => AcceptedRunsAreReal
  BY <1>1
<1> QED  BY <1>2, Invariance, PTL
=============================================================================

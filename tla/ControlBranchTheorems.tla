----------------------- MODULE ControlBranchTheorems ------------------------
(***************************************************************************)
(* The type invariant of the control branch and its four properties,       *)
(* proved for any runs, keys, documents and bounds.                        *)
(*                                                                         *)
(* The argument: while a run syncs, its log is a part of the branch's and  *)
(* one line nobody else has (Pending), so the merge appends that line      *)
(* (MergeAppends) and asks for a commit that adds to the branch            *)
(* (PushAsks).  If the branch has moved, the request can no longer be a    *)
(* fast-forward (GoodRequest), and the run is where it was.                *)
(*                                                                         *)
(* As long as nothing overlaps, more is true (Sequential): at most one run *)
(* is active, its checkout is the branch's commit and its own write, so it *)
(* numbers its record after counting all the records there are.            *)
(***************************************************************************)
EXTENDS ControlBranch, FiniteSetTheorems, WellFoundedInduction, TLAPS

-----------------------------------------------------------------------------
(* Sequences and their merge. *)

LEMMA HasMinimum ==
    ASSUME NEW T \in SUBSET Nat, T # {}
    PROVE  \E k \in T : \A j \in T : k <= j
<1> DEFINE Less == OpToRel(<, Nat)
<1>1. PICK k \in T : \A j \in T : <<j, k>> \notin Less
  <2>1. IsWellFoundedOn(Less, Nat)
    BY NatLessThanWellFounded
  <2> HIDE DEF Less
  <2> QED  BY <2>1, WFMin
<1>2. ASSUME NEW j \in T PROVE k <= j
  <2>1. j \in Nat /\ k \in Nat /\ <<j, k>> \notin Less
    BY <1>1
  <2>2. j < k => <<j, k>> \in Less
    BY <2>1 DEF OpToRel
  <2> HIDE DEF Less
  <2> QED  BY <2>1, <2>2
<1> QED  BY <1>2

LEMMA HasMaximum ==
    ASSUME NEW n \in Nat, NEW T \in SUBSET (1 .. n), T # {}
    PROVE  \E k \in T : \A j \in T : j <= k
<1> DEFINE D == {n - k : k \in T}
<1>1. D \in SUBSET Nat /\ D # {}
  <2>1. \A k \in T : k \in 1 .. n
    OBVIOUS
  <2>2. \A k \in 1 .. n : n - k \in Nat
    OBVIOUS
  <2>3. \A d \in D : d \in Nat
    BY <2>1, <2>2
  <2>4. PICK k \in T : TRUE
    OBVIOUS
  <2>5. n - k \in D
    OBVIOUS
  <2> QED  BY <2>3, <2>5
<1>2. PICK d \in D : \A e \in D : d <= e
  <2> HIDE DEF D
  <2> QED  BY <1>1, HasMinimum
<1>3. PICK k \in T : d = n - k
  OBVIOUS
<1>4. ASSUME NEW j \in T PROVE j <= k
  <2>1. d <= n - j
    BY <1>2
  <2> QED  BY <1>3, <2>1
<1> QED  BY <1>4

LEMMA PrefixOfConcat ==
    ASSUME NEW S, NEW s \in Seq(S), NEW t \in Seq(S)
    PROVE  IsPrefix(s, s \o t)
BY DEF IsPrefix

LEMMA PrefixTransitive ==
    ASSUME NEW S, NEW s \in Seq(S), NEW t \in Seq(S), NEW u \in Seq(S),
           IsPrefix(s, t), IsPrefix(t, u)
    PROVE  IsPrefix(s, u)
BY DEF IsPrefix

LEMMA PrefixReflexive ==
    ASSUME NEW S, NEW s \in Seq(S)
    PROVE  IsPrefix(s, s)
BY DEF IsPrefix

\* What a prefix shares with the sequence.
LEMMA PrefixAgrees ==
    ASSUME NEW S, NEW s \in Seq(S), NEW t \in Seq(S), IsPrefix(s, t)
    PROVE  /\ Len(s) <= Len(t)
           /\ \A k \in 1 .. Len(s) : s[k] = t[k]
           /\ ToSet(s) \subseteq ToSet(t)
<1>1. Len(s) <= Len(t)
  BY DEF IsPrefix
<1>2. ASSUME NEW k \in 1 .. Len(s) PROVE s[k] = t[k]
  <2>1. SubSeq(s, 1, Len(s))[k] = SubSeq(t, 1, Len(s))[k]
    BY DEF IsPrefix
  <2> QED  BY <1>1, <2>1
<1>3. ToSet(s) \subseteq ToSet(t)
  BY <1>1, <1>2 DEF ToSet
<1> QED  BY <1>1, <1>2, <1>3

LEMMA AppendIsConcat ==
    ASSUME NEW S, NEW s \in Seq(S), NEW x \in S
    PROVE  /\ Append(s, x) \in Seq(S)
           /\ Append(s, x) = s \o <<x>>
OBVIOUS

LEMMA SetOfAppend ==
    ASSUME NEW S, NEW s \in Seq(S), NEW x \in S
    PROVE  ToSet(Append(s, x)) = ToSet(s) \cup {x}
<1>1. ASSUME NEW y \in ToSet(Append(s, x)) PROVE y \in ToSet(s) \cup {x}
  BY DEF ToSet
<1>2. ASSUME NEW y \in ToSet(s) PROVE y \in ToSet(Append(s, x))
  BY DEF ToSet
<1>3. x \in ToSet(Append(s, x))
  <2>1. Append(s, x)[Len(s) + 1] = x /\ Len(s) + 1 \in DOMAIN Append(s, x)
    OBVIOUS
  <2> QED  BY <2>1 DEF ToSet
<1> QED  BY <1>1, <1>2, <1>3

\* A checkout that has one line more than a prefix of the branch: that line is
\* what the branch is missing.
LEMMA MissingIsTheLastLine ==
    ASSUME NEW S, NEW remote \in Seq(S), NEW front \in Seq(S), NEW line \in S,
           IsPrefix(front, remote), line \notin ToSet(remote)
    PROVE  Missing(remote, Append(front, line)) = <<line>>
<1> DEFINE local == Append(front, line)
           n == Len(front) + 1
           Step(f, k) == IF k = 0 THEN <<>>
                         ELSE IF local[k] \in ToSet(remote) THEN f[k - 1]
                         ELSE Append(f[k - 1], local[k])
           upTo == CHOOSE f : f = [k \in 0 .. Len(local) |-> Step(f, k)]
<1>1. /\ Len(local) = n /\ n \in Nat \ {0} /\ local[n] = line
      /\ \A k \in 1 .. n - 1 : local[k] = front[k]
  OBVIOUS
<1>2. \A k \in 1 .. n - 1 : local[k] \in ToSet(remote)
  <2>1. \A k \in 1 .. Len(front) : front[k] \in ToSet(front)
    BY DEF ToSet
  <2>2. ToSet(front) \subseteq ToSet(remote)
    BY PrefixAgrees
  <2> QED  BY <1>1, <2>1, <2>2
<1>3. upTo = [k \in 0 .. n |-> Step(upTo, k)]
  <2> DEFINE g == [k \in 0 .. n |-> IF k = n THEN <<line>> ELSE <<>>]
  <2>1. ASSUME NEW k \in 0 .. n PROVE g[k] = Step(g, k)
    <3>1. CASE k = 0
      BY <1>1, <3>1
    <3>2. CASE k \in 1 .. n - 1
      BY <1>1, <1>2, <3>2
    <3>3. CASE k = n
      <4>1. Step(g, k) = Append(g[k - 1], local[k])
        BY <1>1, <3>3
      <4>2. g[k - 1] = <<>>
        BY <1>1, <3>3
      <4> QED  BY <1>1, <3>3, <4>1, <4>2
    <3> QED  BY <1>1, <3>1, <3>2, <3>3
  <2>2. g = [k \in 0 .. n |-> Step(g, k)]
    BY <2>1
  <2>3. g = [k \in 0 .. Len(local) |-> Step(g, k)]
    BY <2>2, <1>1
  <2> HIDE DEF g, Step
  <2>4. upTo = [k \in 0 .. Len(local) |-> Step(upTo, k)]
    BY <2>3
  <2> QED  BY <2>4, <1>1
<1> HIDE DEF upTo
<1>4. \A k \in 0 .. n - 1 : upTo[k] = <<>>
  <2> DEFINE Wrong == {k \in 0 .. n - 1 : upTo[k] # <<>>}
  <2>1. SUFFICES ASSUME Wrong # {} PROVE FALSE
    OBVIOUS
  <2>2. PICK k \in Wrong : \A j \in Wrong : k <= j
    <3>1. Wrong \in SUBSET Nat
      BY <1>1
    <3> HIDE DEF Wrong
    <3> QED  BY <2>1, <3>1, HasMinimum
  <2>3. k # 0
    BY <1>3, <1>1, <2>2
  <2>4. k - 1 \in 0 .. n - 1 /\ k - 1 \notin Wrong /\ k \in 1 .. n - 1
    BY <1>1, <2>2, <2>3
  <2>5. upTo[k - 1] = <<>>
    BY <2>4
  <2>6. upTo[k] = upTo[k - 1]
    BY <1>1, <1>2, <1>3, <2>3, <2>4
  <2> QED  BY <2>2, <2>5, <2>6
<1>5. upTo[n] = Append(upTo[n - 1], line)
  <2>1. n \in 0 .. n /\ n # 0
    BY <1>1
  <2>2. upTo[n] = Step(upTo, n)
    <3> HIDE DEF Step
    <3> QED  BY <1>3, <2>1
  <2> QED  BY <1>1, <2>1, <2>2
<1>6. upTo[n] = <<line>>
  <2>1. upTo[n - 1] = <<>>
    BY <1>1, <1>4
  <2>2. Append(<<>>, line) = <<line>>
    OBVIOUS
  <2> QED  BY <1>5, <2>1, <2>2
<1>7. Missing(remote, local) = upTo[Len(local)]
  BY DEF Missing, upTo
<1> QED  BY <1>1, <1>6, <1>7

LEMMA MergeAppends ==
    ASSUME NEW S, NEW remote \in Seq(S), NEW front \in Seq(S), NEW line \in S,
           IsPrefix(front, remote), line \notin ToSet(remote)
    PROVE  Merge(remote, Append(front, line)) = Append(remote, line)
<1>1. Missing(remote, Append(front, line)) = <<line>>
  BY MissingIsTheLastLine
<1>2. Append(remote, line) = remote \o <<line>>
  BY AppendIsConcat
<1> QED  BY <1>1, <1>2 DEF Merge

-----------------------------------------------------------------------------
(* The inductive invariant. *)

\* Every line of the log comes after those its run had read, and but once.
Causal(lines, pairs) ==
    \A k \in DOMAIN lines :
        /\ \A j \in 1 .. k - 1 : lines[j] # lines[k]
        /\ \A p \in pairs : p[2] = lines[k] => \E j \in 1 .. k - 1 : lines[j] = p[1]

Written(line) == line.at <= writes

\* A log the branch has or may get.
GoodLog(lines) ==
    /\ Causal(lines, readBy)
    /\ \A l \in ToSet(lines) : Written(l)

\* A commit the branch may be moved to: only one that adds to where it points can
\* still win.
GoodRequest(r) ==
    request[r] # None =>
        /\ branch # None
        /\ request[r].number <= branch.number + 1
        /\ FastForward(request[r]) => /\ IsPrefix(branch.log, request[r].log)
                                      /\ branch.files \subseteq request[r].files
        /\ GoodLog(request[r].log)

\* The line a run is about to get on the branch: nobody else can have put it there,
\* and what the run had read is there.
NewLine(r, line) ==
    /\ line.by = r
    /\ Written(line)
    /\ line \notin ToSet(Tip.log)
    /\ \A s \in Runs \ {r} : request[s] # None => line \notin ToSet(request[s].log)

ReadBefore(front, line) == \A p \in readBy : p[2] = line => p[1] \in ToSet(front)

\* The run's log is a part of the branch's and one new line.
Pending(r) ==
    \E front \in Seq(Line), line \in Line :
        /\ log[r] = Append(front, line)
        /\ IsPrefix(front, Tip.log)
        /\ NewLine(r, line)
        /\ ReadBefore(front, line)

Syncing(r) == job[r].pc \in {"sync", "sent"}

GoodRun(r) ==
    /\ job[r].pc \in {"new", "ready", "sync"} => request[r] = None
    /\ job[r].pc = "sync" => job[r].tries < MaxAttempts
    /\ job[r].pc = "ready" => IsPrefix(log[r], Tip.log) /\ files[r] \subseteq Tip.files
    /\ Syncing(r) /\ job[r].doc = None => Pending(r) /\ files[r] \subseteq Tip.files
    /\ Syncing(r) /\ job[r].doc # None =>
         IsPrefix(log[r], Tip.log) /\ files[r] \subseteq Tip.files \cup {job[r].doc}
    /\ job[r].pc = "sent" =>
         IsPrefix(log[r], request[r].log) /\ files[r] \subseteq request[r].files

IInv ==
    /\ TypeOK
    /\ GoodLog(Tip.log)
    /\ \A p \in readBy : Written(p[2])
    /\ \A r \in Runs : GoodRequest(r)
    /\ \A r \in Runs : GoodRun(r)

-----------------------------------------------------------------------------
(* Facts about commits and logs. *)

LEMMA TipIsCommit ==
    ASSUME TypeOK
    PROVE  Tip \in Commit /\ Tip.log \in Seq(Line) /\ Tip.files \in SUBSET Docs
<1>1. BaseCommit \in Commit
  BY DEF BaseCommit, Commit
<1>2. Tip \in Commit
  BY <1>1 DEF Tip, TypeOK
<1> QED  BY <1>2 DEF Commit

LEMMA RequestIsCommit ==
    ASSUME TypeOK, NEW r \in Runs, request[r] # None
    PROVE  /\ request[r] \in Commit
           /\ request[r].number \in Nat
           /\ request[r].log \in Seq(Line)
           /\ request[r].files \in SUBSET Docs
BY DEF TypeOK, Commit

\* New lines leave what is known of older ones.
LEMMA OldLogsStay ==
    ASSUME IInv, NEW lines \in Seq(Line), GoodLog(lines),
           writes' = writes \/ writes' = writes + 1,
           \A p \in readBy' : p \in readBy \/ ~Written(p[2])
    PROVE  GoodLog(lines)'
<1>1. writes \in Nat
  BY BoundsAssumption DEF IInv, TypeOK
<1>2. ASSUME NEW l \in ToSet(lines) PROVE Written(l)'
  <2>1. l \in Line /\ Written(l)
    BY DEF GoodLog, ToSet
  <2> QED  BY <1>1, <2>1, BoundsAssumption DEF Written, Line
<1>3. \A k \in DOMAIN lines : lines[k] \in ToSet(lines)
  BY DEF ToSet
<1>4. \A k \in DOMAIN lines, p \in readBy' : p[2] = lines[k] => p \in readBy
  BY <1>3 DEF GoodLog
<1>5. Causal(lines, readBy')
  BY <1>4 DEF GoodLog, Causal
<1> QED  BY <1>2, <1>5 DEF GoodLog

LEMMA CausalAppend ==
    ASSUME NEW lines \in Seq(Line), NEW line \in Line, NEW pairs,
           Causal(lines, pairs), line \notin ToSet(lines),
           \A p \in pairs : p[2] = line => p[1] \in ToSet(lines)
    PROVE  Causal(Append(lines, line), pairs)
<1> DEFINE n == Len(lines) + 1
           longer == Append(lines, line)
<1>1. /\ n \in Nat /\ DOMAIN longer = 1 .. n /\ longer[n] = line
      /\ DOMAIN lines = 1 .. n - 1
      /\ \A k \in 1 .. n - 1 : longer[k] = lines[k]
  OBVIOUS
<1>2. \A x : x \in ToSet(lines) <=> \E j \in 1 .. n - 1 : lines[j] = x
  BY <1>1 DEF ToSet
<1> HIDE DEF n, longer
<1>3. ASSUME NEW k \in 1 .. n
      PROVE  /\ \A j \in 1 .. k - 1 : longer[j] # longer[k]
             /\ \A p \in pairs : p[2] = longer[k] => \E j \in 1 .. k - 1 : longer[j] = p[1]
  <2>1. CASE k = n
    BY <1>1, <1>2, <2>1
  <2>2. CASE k # n
    <3>1. k \in 1 .. n - 1 /\ \A j \in 1 .. k - 1 : j \in 1 .. n - 1
      BY <1>1, <2>2
    <3>2. longer[k] = lines[k] /\ \A j \in 1 .. k - 1 : longer[j] = lines[j]
      BY <1>1, <3>1
    <3>3. /\ \A j \in 1 .. k - 1 : lines[j] # lines[k]
          /\ \A p \in pairs : p[2] = lines[k] => \E j \in 1 .. k - 1 : lines[j] = p[1]
      BY <1>1, <3>1 DEF Causal
    <3>4. \A j \in 1 .. k - 1 : longer[j] # longer[k]
      BY <3>2, <3>3
    <3>5. \A p \in pairs : p[2] = longer[k] => \E j \in 1 .. k - 1 : longer[j] = p[1]
      BY <3>2, <3>3
    <3> QED  BY <3>4, <3>5
  <2> QED  BY <2>1, <2>2
<1> QED  BY <1>1, <1>3 DEF Causal, longer

-----------------------------------------------------------------------------
(* Steps that leave the branch and the requests alone. *)

\* The run moves on, and may have written a line that is new.
OnlyMoves(r) ==
    /\ UNCHANGED <<branch, request>>
    /\ writes' = writes \/ writes' = writes + 1
    /\ readBy \subseteq readBy'
    /\ \A p \in readBy' : p \in readBy \/ (~Written(p[2]) /\ p[2].by = r /\ Written(p[2])')
    /\ \A s \in Runs \ {r} : log'[s] = log[s] /\ files'[s] = files[s] /\ job'[s] = job[s]

LEMMA LogsStay ==
    ASSUME IInv, NEW r \in Runs, OnlyMoves(r)
    PROVE  \A lines \in Seq(Line) : GoodLog(lines) =>
               /\ Causal(lines, readBy')
               /\ \A l \in ToSet(lines) : l.at <= writes'
<1>1. ASSUME NEW lines \in Seq(Line), GoodLog(lines)
      PROVE  GoodLog(lines)'
  BY <1>1, OldLogsStay DEF OnlyMoves
<1> QED  BY <1>1 DEF GoodLog, Written

LEMMA OthersStay ==
    ASSUME IInv, NEW r \in Runs, OnlyMoves(r), NEW s \in Runs \ {r}
    PROVE  GoodRun(s)'
<1>1. GoodRun(s) /\ Tip' = Tip /\ request' = request
  BY DEF IInv, OnlyMoves, Tip
<1>2. log'[s] = log[s] /\ files'[s] = files[s] /\ job'[s] = job[s]
  BY DEF OnlyMoves
<1>3. ASSUME Pending(s) PROVE Pending(s)'
  <2>1. PICK front \in Seq(Line), line \in Line :
          /\ log[s] = Append(front, line)
          /\ IsPrefix(front, Tip.log)
          /\ NewLine(s, line)
          /\ ReadBefore(front, line)
    BY <1>3 DEF Pending
  <2>2. Written(line)'
    <3>1. line.at \in Nat /\ writes \in Nat /\ line.at <= writes
      BY <2>1, BoundsAssumption DEF NewLine, Written, IInv, TypeOK, Line
    <3>2. writes' = writes \/ writes' = writes + 1
      BY DEF OnlyMoves
    <3> QED  BY <3>1, <3>2 DEF Written
  <2>3. NewLine(s, line)'
    BY <1>1, <2>1, <2>2 DEF NewLine
  <2>4. ReadBefore(front, line)'
    <3>1. ASSUME NEW p \in readBy', p[2] = line PROVE p \in readBy
      BY <2>1, <3>1 DEF OnlyMoves, NewLine
    <3> QED  BY <2>1, <3>1 DEF ReadBefore
  <2> QED  BY <1>1, <1>2, <2>1, <2>3, <2>4 DEF Pending
<1> QED  BY <1>1, <1>2, <1>3 DEF GoodRun, Syncing

LEMMA MoveKeeps ==
    ASSUME IInv, NEW r \in Runs, OnlyMoves(r), TypeOK', GoodRun(r)'
    PROVE  IInv'
<1>1. Tip' = Tip /\ request' = request /\ branch' = branch
  BY DEF OnlyMoves, Tip
<1>2. GoodLog(Tip.log)'
  <2>1. Tip.log \in Seq(Line) /\ GoodLog(Tip.log)
    BY TipIsCommit DEF IInv
  <2> QED  BY <1>1, <2>1, LogsStay DEF GoodLog, Written
<1>3. \A p \in readBy' : Written(p[2])'
  <2>1. \A p \in readBy : p[2] \in Line /\ Written(p[2])
    BY DEF IInv, TypeOK
  <2>2. writes \in Nat /\ (writes' = writes \/ writes' = writes + 1)
    BY BoundsAssumption DEF OnlyMoves, IInv, TypeOK
  <2>3. \A p \in readBy : p[2].at \in Nat /\ p[2].at <= writes
    BY <2>1, BoundsAssumption DEF Written, Line
  <2>4. \A p \in readBy : p[2].at <= writes'
    BY <2>2, <2>3
  <2> QED  BY <2>4 DEF OnlyMoves, Written
<1>4. ASSUME NEW s \in Runs PROVE GoodRequest(s)'
  <2>1. GoodRequest(s)
    BY DEF IInv
  <2>2. request[s] # None => request[s].log \in Seq(Line)
    BY RequestIsCommit DEF IInv
  <2>3. request[s] # None => GoodLog(request[s].log)'
    BY <1>1, <2>1, <2>2, LogsStay DEF GoodRequest, GoodLog, Written
  <2> QED  BY <1>1, <2>1, <2>3 DEF GoodRequest, FastForward
<1>5. ASSUME NEW s \in Runs PROVE GoodRun(s)'
  BY OthersStay
<1> QED  BY <1>2, <1>3, <1>4, <1>5 DEF IInv

LEMMA StartKeeps ==
    ASSUME IInv, NEW r \in Runs, Start(r)
    PROVE  IInv'
<1>1. Hydrated = Tip /\ Tip.log \in Seq(Line) /\ Tip.files \in SUBSET Docs
  BY TipIsCommit DEF Hydrated, Tip, IInv
<1>2. TypeOK'
  BY <1>1 DEF IInv, TypeOK, Start
<1>3. OnlyMoves(r)
  BY DEF OnlyMoves, Start, IInv, TypeOK
<1>4. /\ job'[r].pc = "ready" /\ log'[r] = Tip.log /\ files'[r] = Tip.files
      /\ request'[r] = request[r] /\ Tip' = Tip /\ request[r] = None
  BY <1>1 DEF Start, IInv, TypeOK, GoodRun, Tip
<1>5. IsPrefix(Tip.log, Tip.log)
  BY <1>1, PrefixReflexive
<1>6. GoodRun(r)'
  BY <1>4, <1>5 DEF GoodRun, Syncing
<1> QED  BY <1>2, <1>3, <1>6, MoveKeeps

LEMMA StopKeeps ==
    ASSUME IInv, NEW r \in Runs, Stop(r)
    PROVE  IInv'
<1>1. TypeOK'
  BY BoundsAssumption DEF IInv, TypeOK, Stop, NoJob
<1>2. OnlyMoves(r)
  BY DEF OnlyMoves, Stop, IInv, TypeOK
<1>3. job'[r].pc = "ended"
  BY DEF Stop, IInv, TypeOK, NoJob
<1>4. GoodRun(r)'
  BY <1>3 DEF GoodRun, Syncing
<1> QED  BY <1>1, <1>2, <1>4, MoveKeeps

LEMMA SaveKeeps ==
    ASSUME IInv, NEW r \in Runs, NEW d \in Docs, Save(r, d)
    PROVE  IInv'
<1>1. TypeOK'
  BY BoundsAssumption DEF IInv, TypeOK, Save, Writing
<1>2. OnlyMoves(r)
  BY DEF OnlyMoves, Save, Writing, IInv, TypeOK
<1>3. /\ job'[r] = [pc |-> "sync", doc |-> d, tries |-> 0]
      /\ log'[r] = log[r] /\ files'[r] = files[r] \cup {d}
      /\ request'[r] = request[r] /\ Tip' = Tip
  BY DEF Save, Writing, IInv, TypeOK, Tip
<1>4. /\ request[r] = None
      /\ IsPrefix(log[r], Tip.log) /\ files[r] \subseteq Tip.files
  BY DEF Save, Writing, IInv, GoodRun
<1>5. d # None
  BY NoneAssumption
<1>6. GoodRun(r)'
  BY <1>3, <1>4, <1>5, BoundsAssumption DEF GoodRun, Syncing
<1> QED  BY <1>1, <1>2, <1>6, MoveKeeps

LEMMA AppendKeeps ==
    ASSUME IInv, NEW r \in Runs, NEW i \in Intent, NEW v \in 1 .. MaxVersion,
           AppendRecord(r, i, v)
    PROVE  IInv'
<1>1. /\ writes \in Nat /\ writes + 1 \in 1 .. MaxWrites
      /\ log[r] \in Seq(Line)
  BY BoundsAssumption DEF AppendRecord, Writing, IInv, TypeOK
<1>2. PICK line \in Line :
          line = [intent |-> i, version |-> v, by |-> r, at |-> writes + 1]
  BY <1>1 DEF Line
<1>3. /\ job' = [job EXCEPT ![r] = [pc |-> "sync", doc |-> None, tries |-> 0]]
      /\ log' = [log EXCEPT ![r] = Append(@, line)]
      /\ readBy' = readBy \cup {<<l, line>> : l \in ToSet(log[r])}
      /\ writes' = writes + 1
      /\ UNCHANGED <<branch, request, files, overlap>>
      /\ job[r].pc = "ready"
  BY <1>2 DEF AppendRecord, Writing
<1>4. line.by = r /\ ~Written(line) /\ line.at <= writes'
  BY <1>1, <1>2, <1>3 DEF Written
<1>5. ToSet(log[r]) \subseteq Line /\ Append(log[r], line) \in Seq(Line)
  BY <1>1 DEF ToSet
<1>6. TypeOK'
  BY <1>1, <1>3, <1>5, BoundsAssumption DEF IInv, TypeOK
<1>7. OnlyMoves(r)
  <2>1. \A p \in readBy' : p \in readBy \/ p[2] = line
    BY <1>3
  <2>2. \A s \in Runs \ {r} : log'[s] = log[s] /\ files'[s] = files[s] /\ job'[s] = job[s]
    BY <1>3 DEF IInv, TypeOK
  <2> QED  BY <1>3, <1>4, <2>1, <2>2 DEF OnlyMoves, Written
<1>8. /\ request[r] = None
      /\ IsPrefix(log[r], Tip.log) /\ files[r] \subseteq Tip.files
  BY <1>3 DEF IInv, GoodRun
<1>9. Tip' = Tip
  BY <1>3 DEF Tip
<1>10. NewLine(r, line)'
  <2>1. line \notin ToSet(Tip.log)
    BY <1>4 DEF IInv, GoodLog
  <2>2. \A s \in Runs : request[s] # None => line \notin ToSet(request[s].log)
    BY <1>4 DEF IInv, GoodRequest, GoodLog
  <2> QED  BY <1>3, <1>4, <1>9, <2>1, <2>2 DEF NewLine, Written
<1>11. PICK front \in Seq(Line) : front = log[r]
  BY <1>1
<1>12. Pending(r)'
  <2>1. ReadBefore(front, line)'
    <3>1. ASSUME NEW p \in readBy', p[2] = line PROVE p[1] \in ToSet(front)
      <4>1. p \notin readBy
        BY <1>4, <3>1 DEF IInv
      <4> QED  BY <1>3, <1>11, <4>1
    <3> QED  BY <3>1 DEF ReadBefore
  <2>2. log'[r] = Append(front, line) /\ IsPrefix(front, Tip'.log)
    BY <1>3, <1>8, <1>9, <1>11 DEF IInv, TypeOK
  <2> QED  BY <1>10, <2>1, <2>2 DEF Pending
<1>13. GoodRun(r)'
  <2>1. /\ job'[r] = [pc |-> "sync", doc |-> None, tries |-> 0]
        /\ files'[r] = files[r] /\ request'[r] = None
    BY <1>3, <1>8 DEF IInv, TypeOK
  <2> QED  BY <1>8, <1>9, <1>12, <2>1, BoundsAssumption DEF GoodRun, Syncing
<1> QED  BY <1>6, <1>7, <1>13, MoveKeeps

LEMMA ClaimKeeps ==
    ASSUME IInv, NEW r \in Runs, NEW k \in Keys, Claim(r, k)
    PROVE  IInv'
<1>1. [key |-> k, by |-> r] \in Intent /\ 1 \in 1 .. MaxVersion
  BY BoundsAssumption DEF Intent
<1>2. AppendRecord(r, [key |-> k, by |-> r], 1)
  BY DEF Claim
<1> QED  BY <1>1, <1>2, AppendKeeps

LEMMA LastIsLine ==
    ASSUME NEW lines \in Seq(Line), NEW i \in Intent,
           \E l \in ToSet(lines) : l.intent = i
    PROVE  LastRecord(lines, i) \in Line
<1> DEFINE at == {k \in DOMAIN lines : lines[k].intent = i}
<1>1. PICK k \in at : \A j \in at : j <= k
  <2>1. at \in SUBSET (1 .. Len(lines)) /\ Len(lines) \in Nat
    OBVIOUS
  <2>2. at # {}
    BY DEF ToSet
  <2> HIDE DEF at
  <2> QED  BY <2>1, <2>2, HasMaximum
<1>2. (CHOOSE m \in at : \A j \in at : j <= m) \in at
  <2> HIDE DEF at
  <2> QED  BY <1>1
<1>3. LastRecord(lines, i) = lines[CHOOSE m \in at : \A j \in at : j <= m]
  BY DEF LastRecord
<1>4. \A m \in at : lines[m] \in Line
  OBVIOUS
<1> HIDE DEF at
<1> QED  BY <1>2, <1>3, <1>4

LEMMA TransitionKeeps ==
    ASSUME IInv, NEW r \in Runs, NEW i \in Intent, Transition(r, i)
    PROVE  IInv'
<1> DEFINE v == LastRecord(log[r], i).version
<1>1. log[r] \in Seq(Line)
  BY DEF IInv, TypeOK
<1>2. v \in 1 .. MaxVersion
  <2>1. LastRecord(log[r], i) \in Line
    BY <1>1, LastIsLine DEF Transition
  <2> QED  BY <2>1 DEF Line
<1>3. v < MaxVersion /\ AppendRecord(r, i, v + 1)
  BY DEF Transition
<1> HIDE DEF v
<1>4. v + 1 \in 1 .. MaxVersion
  BY <1>2, <1>3, BoundsAssumption
<1> QED  BY <1>3, <1>4, AppendKeeps

-----------------------------------------------------------------------------
(* Steps on the branch and its requests. *)

LEMMA CreateBranchKeeps ==
    ASSUME IInv, NEW r \in Runs, CreateBranch(r)
    PROVE  IInv'
<1>1. Tip' = Tip
  BY DEF CreateBranch, Tip
<1>2. UNCHANGED <<log, files, job, request, readBy, writes, overlap>>
  BY DEF CreateBranch
<1>3. TypeOK'
  <2>1. BaseCommit \in Commit
    BY DEF BaseCommit, Commit
  <2> QED  BY <2>1 DEF IInv, TypeOK, CreateBranch
<1>4. GoodLog(Tip.log)' /\ \A p \in readBy' : Written(p[2])'
  BY <1>1, <1>2 DEF IInv, GoodLog, Written
<1>5. \A s \in Runs : request[s] = None
  BY DEF IInv, GoodRequest, CreateBranch
<1>6. \A s \in Runs : GoodRequest(s)'
  BY <1>2, <1>5 DEF GoodRequest
<1>7. ASSUME NEW s \in Runs PROVE GoodRun(s)'
  <2>1. Pending(s) => Pending(s)'
    BY <1>1, <1>2 DEF Pending, NewLine, ReadBefore, Written
  <2> QED  BY <1>1, <1>2, <2>1 DEF IInv, GoodRun, Syncing
<1> QED  BY <1>3, <1>4, <1>6, <1>7 DEF IInv

LEMMA NewLogIsCommit ==
    ASSUME NEW c \in Commit, NEW lines \in Seq(Line)
    PROVE  [c EXCEPT !.log = lines, !.number = @ + 1] \in Commit
<1> DEFINE P == Nat \ {0}
           L == Seq(Line)
           C == [number : P, log : L, files : SUBSET Docs]
<1>1. c \in C /\ lines \in L /\ c.number + 1 \in P
  BY DEF Commit
<1> HIDE DEF P, L
<1>2. PICK d \in C : d = [c EXCEPT !.log = lines]
  BY <1>1
<1>3. [c EXCEPT !.log = lines, !.number = @ + 1] = [d EXCEPT !.number = c.number + 1]
  BY <1>1, <1>2
<1>4. [d EXCEPT !.number = c.number + 1] \in C
  BY <1>1
<1> QED  BY <1>3, <1>4 DEF Commit, P, L

LEMMA NewFilesAreCommit ==
    ASSUME NEW c \in Commit, NEW docs \in SUBSET Docs
    PROVE  [c EXCEPT !.files = docs, !.number = @ + 1] \in Commit
<1> DEFINE P == Nat \ {0}
           L == Seq(Line)
           F == SUBSET Docs
           C == [number : P, log : L, files : F]
<1>1. c \in C /\ docs \in F /\ c.number + 1 \in P
  BY DEF Commit
<1> HIDE DEF P, L, F
<1>2. PICK d \in C : d = [c EXCEPT !.files = docs]
  BY <1>1
<1>3. [c EXCEPT !.files = docs, !.number = @ + 1] = [d EXCEPT !.number = c.number + 1]
  BY <1>1, <1>2
<1>4. [d EXCEPT !.number = c.number + 1] \in C
  BY <1>1
<1> QED  BY <1>3, <1>4 DEF Commit, P, L, F

\* The commit a run asks for adds its line or its document to the branch.
LEMMA PushAsks ==
    ASSUME IInv, NEW r \in Runs, Push(r)
    PROVE  \E new \in Commit :
             /\ request' = [request EXCEPT ![r] = new]
             /\ log'[r] \in Seq(Line)
             /\ log' = [log EXCEPT ![r] = log'[r]]
             /\ new.number = branch.number + 1
             /\ IsPrefix(Tip.log, new.log) /\ Tip.files \subseteq new.files
             /\ IsPrefix(log'[r], new.log) /\ files[r] \subseteq new.files
             /\ GoodLog(new.log)
             /\ \A x \in ToSet(new.log) : x \in ToSet(Tip.log) \/ x.by = r
             /\ job[r].doc = None =>
                  /\ Pending(r)'
                  /\ log'[r] = new.log /\ new.files = Tip.files
                  /\ \E front \in Seq(Line), line \in Line :
                       /\ log[r] = Append(front, line) /\ IsPrefix(front, Tip.log)
                       /\ new.log = Append(Tip.log, line)
             /\ job[r].doc # None =>
                  /\ log'[r] = log[r] /\ new.log = Tip.log
                  /\ new.files = Tip.files \cup {job[r].doc}
<1>1. /\ job[r].pc = "sync" /\ branch # None /\ Tip = branch
      /\ log[r] \in Seq(Line)
  BY DEF Push, Tip, IInv, TypeOK
<1>2. /\ branch \in Commit /\ branch.log \in Seq(Line) /\ branch.number \in Nat
      /\ branch.files \in SUBSET Docs
      /\ Tip.log = branch.log /\ Tip.files = branch.files
  BY <1>1 DEF IInv, TypeOK, Commit
<1>3. GoodLog(branch.log)
  BY <1>1 DEF IInv
<1>4. CASE job[r].doc = None
  <2>1. PICK front \in Seq(Line), line \in Line :
          /\ log[r] = Append(front, line)
          /\ IsPrefix(front, branch.log)
          /\ NewLine(r, line)
          /\ ReadBefore(front, line)
    BY <1>1, <1>4 DEF IInv, GoodRun, Syncing, Pending
  <2>2. line \notin ToSet(branch.log) /\ line.by = r /\ Written(line)
    BY <1>1, <2>1 DEF NewLine
  <2>17. PICK old \in Seq(Line) : old = branch.log
    BY <1>2
  <2>18. Append(old, line) \in Seq(Line)
    BY AppendIsConcat
  <2>3. PICK merged \in Seq(Line) : merged = Append(old, line)
    BY <2>18
  <2>4. Merge(branch.log, log[r]) = merged
    BY <2>1, <2>2, <2>3, <2>17, MergeAppends
  <2>5. PICK new \in Commit :
          new = [branch EXCEPT !.log = merged, !.number = @ + 1]
    BY <1>2, NewLogIsCommit
  <2>6. request' = [request EXCEPT ![r] = new]
    BY <1>4, <2>4, <2>5 DEF Push
  <2>7. log' = [log EXCEPT ![r] = merged]
    BY <1>4, <2>4 DEF Push
  <2>8. /\ new.log = merged /\ new.number = branch.number + 1
        /\ new.files = branch.files
    BY <1>2, <2>5 DEF Commit
  <2>9. IsPrefix(old, merged) /\ IsPrefix(merged, merged)
    <3>1. <<line>> \in Seq(Line) /\ merged = old \o <<line>>
      BY <2>3, AppendIsConcat
    <3> QED  BY <3>1, PrefixOfConcat, PrefixReflexive
  <2>10. ToSet(merged) = ToSet(old) \cup {line}
    <3>1. ToSet(Append(old, line)) = ToSet(old) \cup {line}
      BY SetOfAppend
    <3> QED  BY <2>3, <3>1
  <2>11. \A p \in readBy : p[2] = line => p[1] \in ToSet(branch.log)
    BY <1>2, <2>1, PrefixAgrees DEF ReadBefore
  <2>12. GoodLog(merged)
    <3>1. Causal(merged, readBy)
      BY <1>3, <2>2, <2>3, <2>11, <2>17, CausalAppend DEF GoodLog
    <3> QED  BY <1>3, <2>2, <2>10, <2>17, <3>1 DEF GoodLog
  <2>13. log'[r] = merged
    BY <2>7 DEF IInv, TypeOK
  <2>14. UNCHANGED <<branch, files, readBy, writes>>
    BY DEF Push
  <2>15. Pending(r)'
    <3>1. Tip' = Tip
      BY <2>14 DEF Tip
    <3>2. \A s \in Runs \ {r} : request'[s] = request[s]
      BY <2>6 DEF IInv, TypeOK
    <3>3. NewLine(r, line)'
      BY <2>1, <2>14, <3>1, <3>2 DEF NewLine, Written
    <3>4. ReadBefore(branch.log, line)'
      BY <2>11, <2>14 DEF ReadBefore
    <3>5. log'[r] = Append(old, line) /\ IsPrefix(old, Tip'.log)
      BY <1>2, <2>3, <2>13, <2>17, <3>1, PrefixReflexive
    <3>6. ReadBefore(old, line)'
      BY <2>17, <3>4, <2>14 DEF ReadBefore
    <3> QED  BY <3>3, <3>5, <3>6 DEF Pending
  <2>16. files[r] \subseteq new.files
    BY <1>1, <1>2, <1>4, <2>8 DEF IInv, GoodRun, Syncing
  <2>19. \A x \in ToSet(new.log) : x \in ToSet(Tip.log) \/ x.by = r
    BY <1>2, <2>2, <2>8, <2>10, <2>17
  <2>20. /\ log[r] = Append(front, line) /\ IsPrefix(front, Tip.log)
         /\ new.log = Append(Tip.log, line)
         /\ log'[r] = new.log /\ new.files = Tip.files
    BY <1>1, <1>2, <2>1, <2>3, <2>8, <2>13, <2>17
  <2> WITNESS new \in Commit
  <2> QED  BY <1>2, <1>4, <2>6, <2>7, <2>8, <2>9, <2>12, <2>13, <2>15, <2>16, <2>17, <2>19, <2>20
<1>5. CASE job[r].doc # None
  <2>1. PICK doc \in Docs : doc = job[r].doc
    BY <1>5 DEF IInv, TypeOK
  <2>2. PICK new \in Commit :
          new = [branch EXCEPT !.files = {e \in @ : e.path # doc.path} \cup {doc},
                               !.number = @ + 1]
    <3> DEFINE newFiles == {e \in branch.files : e.path # doc.path} \cup {doc}
    <3>1. newFiles \in SUBSET Docs
      BY <1>2
    <3> HIDE DEF newFiles
    <3>2. [branch EXCEPT !.files = newFiles, !.number = @ + 1] \in Commit
      BY <1>2, <3>1, NewFilesAreCommit
    <3> QED  BY <3>2 DEF newFiles
  <2>3. /\ request' = [request EXCEPT ![r] = new] /\ log' = log /\ ~Conflict(doc)
    BY <1>5, <2>1, <2>2 DEF Push
  <2>4. /\ new.log = branch.log /\ new.number = branch.number + 1
        /\ new.files = {e \in branch.files : e.path # doc.path} \cup {doc}
    BY <1>2, <2>2 DEF Commit
  <2>5. new.files = branch.files \cup {doc}
    BY <2>3, <2>4 DEF Conflict
  <2>6. IsPrefix(log[r], branch.log) /\ files[r] \subseteq branch.files \cup {doc}
    BY <1>1, <1>2, <1>5, <2>1 DEF IInv, GoodRun, Syncing
  <2>7. IsPrefix(branch.log, branch.log)
    BY <1>2, PrefixReflexive
  <2>8. log'[r] = log[r] /\ log' = [log EXCEPT ![r] = log'[r]]
    BY <2>3 DEF IInv, TypeOK
  <2> WITNESS new \in Commit
  <2> QED  BY <1>1, <1>2, <1>3, <1>5, <2>1, <2>3, <2>4, <2>5, <2>6, <2>7, <2>8
<1> QED  BY <1>4, <1>5

LEMMA PushKeeps ==
    ASSUME IInv, NEW r \in Runs, Push(r)
    PROVE  IInv'
<1>1. PICK new \in Commit :
        /\ request' = [request EXCEPT ![r] = new]
        /\ log'[r] \in Seq(Line)
        /\ log' = [log EXCEPT ![r] = log'[r]]
        /\ new.number = branch.number + 1
        /\ IsPrefix(Tip.log, new.log) /\ Tip.files \subseteq new.files
        /\ IsPrefix(log'[r], new.log) /\ files[r] \subseteq new.files
        /\ GoodLog(new.log)
        /\ \A x \in ToSet(new.log) : x \in ToSet(Tip.log) \/ x.by = r
        /\ job[r].doc = None => Pending(r)'
        /\ job[r].doc # None => log'[r] = log[r]
  BY PushAsks
<1>2. /\ UNCHANGED <<branch, files, readBy, writes, overlap>>
      /\ Tip' = Tip /\ Tip = branch /\ branch # None
  BY DEF Push, Tip
<1>3. /\ job[r].pc = "sync" /\ job[r].tries < MaxAttempts
      /\ job[r].doc \in Docs \cup {None} /\ job[r].tries \in 0 .. MaxAttempts
      /\ job' = [job EXCEPT ![r].pc = "sent", ![r].tries = @ + 1]
  BY DEF IInv, GoodRun, TypeOK, Push
<1>4. /\ job'[r].pc = "sent" /\ job'[r].doc = job[r].doc
      /\ job'[r].tries = job[r].tries + 1
      /\ request'[r] = new /\ files'[r] = files[r]
      /\ \A s \in Runs \ {r} :
            job'[s] = job[s] /\ log'[s] = log[s] /\ request'[s] = request[s]
  BY <1>1, <1>2, <1>3 DEF IInv, TypeOK
<1>5. new # None
  BY NoneAssumption
<1>6. TypeOK'
  <2>1. job[r].tries + 1 \in 0 .. MaxAttempts
    BY <1>3, BoundsAssumption
  <2>2. job' \in [Runs -> [pc : {"new", "ready", "sync", "sent", "failed", "ended"},
                           doc : Docs \cup {None}, tries : 0 .. MaxAttempts]]
    BY <1>3, <2>1 DEF IInv, TypeOK
  <2>3. log' \in [Runs -> Seq(Line)]
    <3>1. PICK l \in Seq(Line) : l = log'[r]
      BY <1>1
    <3>2. log' = [log EXCEPT ![r] = l]
      BY <1>1, <3>1
    <3> QED  BY <3>2 DEF IInv, TypeOK
  <2>4. request' \in [Runs -> Commit \cup {None}]
    BY <1>1 DEF IInv, TypeOK
  <2>5. \A s \in Runs : job'[s].pc = "sent" => request'[s] # None
    BY <1>4, <1>5 DEF IInv, TypeOK
  <2> QED  BY <1>2, <2>2, <2>3, <2>4, <2>5 DEF IInv, TypeOK
<1>7. GoodLog(Tip.log)' /\ \A p \in readBy' : Written(p[2])'
  BY <1>2 DEF IInv, GoodLog, Written
<1>8. ASSUME NEW s \in Runs PROVE GoodRequest(s)'
  <2>1. CASE s = r
    <3>1. GoodLog(new.log)'
      BY <1>1, <1>2 DEF GoodLog, Written
    <3>2. new.number \in Nat /\ branch.number \in Nat
      BY <1>2 DEF Commit, IInv, TypeOK
    <3> QED  BY <1>1, <1>2, <1>4, <2>1, <3>1, <3>2 DEF GoodRequest, FastForward, GoodLog, Written
  <2>2. CASE s # r
    BY <1>2, <1>4, <2>2 DEF IInv, GoodRequest, FastForward, GoodLog, Written
  <2> QED  BY <2>1, <2>2
<1>9. ASSUME NEW s \in Runs PROVE GoodRun(s)'
  <2>1. CASE s = r
    <3>1. files[r] \subseteq Tip.files \/ job[r].doc # None
      BY <1>3 DEF IInv, GoodRun, Syncing
    <3>2. job[r].doc # None =>
            /\ IsPrefix(log'[r], Tip.log)
            /\ files[r] \subseteq Tip.files \cup {job[r].doc}
      BY <1>1, <1>3 DEF IInv, GoodRun, Syncing
    <3> QED  BY <1>1, <1>2, <1>4, <2>1, <3>1, <3>2 DEF GoodRun, Syncing
  <2>2. CASE s # r
    <3>1. Pending(s) => Pending(s)'
      <4>1. SUFFICES ASSUME Pending(s) PROVE Pending(s)'
        OBVIOUS
      <4>2. PICK front \in Seq(Line), line \in Line :
              /\ log[s] = Append(front, line)
              /\ IsPrefix(front, Tip.log)
              /\ NewLine(s, line)
              /\ ReadBefore(front, line)
        BY <4>1 DEF Pending
      <4>3. line \notin ToSet(new.log)
        BY <1>1, <2>2, <4>2 DEF NewLine
      <4>4. NewLine(s, line)'
        BY <1>2, <1>4, <4>2, <4>3 DEF NewLine, Written
      <4>5. ReadBefore(front, line)'
        BY <1>2, <4>2 DEF ReadBefore
      <4> QED  BY <1>2, <1>4, <2>2, <4>2, <4>4, <4>5 DEF Pending
    <3> QED  BY <1>2, <1>4, <2>2, <3>1 DEF IInv, GoodRun, Syncing
  <2> QED  BY <2>1, <2>2
<1> QED  BY <1>6, <1>7, <1>8, <1>9 DEF IInv

\* The branch never loses what it has.
LEMMA ServeExtends ==
    ASSUME IInv, NEW r \in Runs, Serve(r)
    PROVE  /\ IsPrefix(Tip.log, Tip'.log) /\ Tip.files \subseteq Tip'.files
           /\ GoodLog(Tip'.log)
           /\ \A x \in ToSet(Tip'.log) : x \in ToSet(Tip.log) \/ x \in ToSet(request[r].log)
<1>1. request[r] # None /\ branch # None /\ Tip = branch
  BY DEF Serve, IInv, GoodRequest, Tip
<1>2. Tip.log \in Seq(Line) /\ IsPrefix(Tip.log, Tip.log)
  BY TipIsCommit, PrefixReflexive DEF IInv
<1>3. CASE FastForward(request[r])
  <2>1. Tip' = request[r]
    BY <1>1, <1>3 DEF Serve, Tip
  <2> QED  BY <1>1, <1>3, <2>1 DEF IInv, GoodRequest
<1>4. CASE ~FastForward(request[r])
  <2>1. Tip' = Tip
    BY <1>4 DEF Serve, Tip
  <2> QED  BY <1>2, <2>1 DEF IInv
<1> QED  BY <1>3, <1>4

LEMMA ServeKeeps ==
    ASSUME IInv, NEW r \in Runs, Serve(r)
    PROVE  IInv'
<1>1. /\ request[r] # None /\ branch # None /\ Tip = branch
      /\ request' = [request EXCEPT ![r] = None]
      /\ UNCHANGED <<log, files, readBy, writes, overlap>>
  BY DEF Serve, IInv, GoodRequest, Tip
<1>2. /\ request'[r] = None
      /\ \A s \in Runs \ {r} : request'[s] = request[s] /\ job'[s] = job[s]
  BY <1>1 DEF Serve, IInv, TypeOK
<1>3. /\ branch' = branch \/ (FastForward(request[r]) /\ branch' = request[r])
      /\ branch' # None /\ Tip' = branch'
      /\ branch.number \in Nat /\ branch'.number \in Nat
  BY <1>1, RequestIsCommit DEF Serve, Tip, IInv, TypeOK, Commit
<1>4. TypeOK'
  <2>1. branch' \in Commit \cup {None}
    BY <1>3, RequestIsCommit DEF IInv, TypeOK
  <2>2. request' \in [Runs -> Commit \cup {None}]
    BY <1>1 DEF IInv, TypeOK
  <2>3. job' \in [Runs -> [pc : {"new", "ready", "sync", "sent", "failed", "ended"},
                           doc : Docs \cup {None}, tries : 0 .. MaxAttempts]]
    <3>1. job' = job \/ \E p \in {"ready", "sync", "failed"} : job' = [job EXCEPT ![r].pc = p]
      BY DEF Serve, AfterLoss
    <3>2. \A p \in {"ready", "sync", "failed"} :
            [job EXCEPT ![r].pc = p] \in
              [Runs -> [pc : {"new", "ready", "sync", "sent", "failed", "ended"},
                        doc : Docs \cup {None}, tries : 0 .. MaxAttempts]]
      BY DEF IInv, TypeOK
    <3>3. CASE job' = job
      BY <3>3 DEF IInv, TypeOK
    <3>4. CASE \E p \in {"ready", "sync", "failed"} : job' = [job EXCEPT ![r].pc = p]
      <4>1. PICK p \in {"ready", "sync", "failed"} : job' = [job EXCEPT ![r].pc = p]
        BY <3>4
      <4> QED  BY <3>2, <4>1, Zenon
    <3> QED  BY <3>1, <3>3, <3>4, Zenon
  <2>4. job'[r].pc # "sent"
    BY DEF Serve, AfterLoss, IInv, TypeOK
  <2>5. \A s \in Runs : job'[s].pc = "sent" => request'[s] # None
    BY <1>2, <2>4 DEF IInv, TypeOK
  <2> QED  BY <1>1, <2>1, <2>2, <2>3, <2>5 DEF IInv, TypeOK
<1>5. PICK old \in Seq(Line) : old = Tip.log
  BY TipIsCommit DEF IInv
<1>6. PICK now \in Seq(Line) : now = Tip'.log
  BY <1>1, <1>3, <1>5, RequestIsCommit DEF IInv
<1>7. /\ IsPrefix(old, now) /\ Tip.files \subseteq Tip'.files
      /\ \A x \in ToSet(now) : x \in ToSet(old) \/ x \in ToSet(request[r].log)
      /\ GoodLog(now)
  BY <1>5, <1>6, ServeExtends
<1>8. GoodLog(Tip.log)' /\ \A p \in readBy' : Written(p[2])'
  BY <1>1, <1>6, <1>7 DEF IInv, GoodLog, Written
<1>9. ASSUME NEW s \in Runs PROVE GoodRequest(s)'
  <2>1. SUFFICES ASSUME request'[s] # None PROVE GoodRequest(s)'
    BY DEF GoodRequest
  <2>2. s # r /\ request'[s] = request[s] /\ GoodRequest(s) /\ GoodRequest(r)
    BY <1>2, <2>1 DEF IInv
  <2>3. request[s].number \in Nat /\ request[s].number <= branch.number + 1
    BY <2>1, <2>2, RequestIsCommit DEF GoodRequest, IInv
  <2>4. GoodLog(request[s].log)'
    BY <1>1, <2>1, <2>2 DEF GoodRequest, GoodLog, Written
  <2>5. CASE branch' = branch
    BY <1>3, <2>1, <2>2, <2>4, <2>5 DEF GoodRequest, FastForward
  <2>6. CASE FastForward(request[r]) /\ branch' = request[r]
    <3>1. branch'.number = branch.number + 1
      BY <2>6 DEF FastForward
    <3>2. request[s].number <= branch'.number + 1 /\ request[s].number # branch'.number + 1
      BY <1>3, <2>3, <3>1
    <3> QED  BY <1>3, <2>2, <2>4, <3>2 DEF GoodRequest, FastForward
  <2> QED  BY <1>3, <2>5, <2>6
<1>10. ASSUME NEW s \in Runs, NEW l \in Seq(Line), IsPrefix(l, Tip.log)
       PROVE  IsPrefix(l, Tip'.log)
  BY <1>5, <1>6, <1>7, <1>10, PrefixTransitive
<1>11. ASSUME NEW s \in Runs, Pending(s), s # r \/ Tip' = Tip PROVE Pending(s)'
  <2>1. PICK front \in Seq(Line), line \in Line :
          /\ log[s] = Append(front, line)
          /\ IsPrefix(front, Tip.log)
          /\ NewLine(s, line)
          /\ ReadBefore(front, line)
    BY <1>11 DEF Pending
  <2>2. line \notin ToSet(Tip'.log)
    BY <1>1, <1>5, <1>6, <1>7, <1>11, <2>1 DEF NewLine
  <2>3. NewLine(s, line)'
    BY <1>1, <1>2, <2>1, <2>2 DEF NewLine, Written
  <2>4. IsPrefix(front, Tip'.log) /\ ReadBefore(front, line)'
    BY <1>1, <1>10, <2>1 DEF ReadBefore
  <2> QED  BY <1>1, <2>1, <2>3, <2>4 DEF Pending
<1>12. ASSUME NEW s \in Runs PROVE log[s] \in Seq(Line)
  BY DEF IInv, TypeOK
<1>13. ASSUME NEW s \in Runs \ {r} PROVE GoodRun(s)'
  <2>1. GoodRun(s)
    BY DEF IInv
  <2>2. IsPrefix(log[s], Tip.log) => IsPrefix(log'[s], Tip'.log)
    BY <1>1, <1>10, <1>12
  <2>3. Pending(s) => Pending(s)'
    BY <1>11
  <2> QED  BY <1>1, <1>2, <1>7, <2>1, <2>2, <2>3 DEF GoodRun, Syncing
<1>14. GoodRun(r)'
  <2>1. GoodRun(r) /\ job[r].pc \notin {"new", "ready", "sync"}
    BY <1>1 DEF IInv, GoodRun
  <2>2. CASE job[r].pc # "sent"
    <3>1. job' = job
      BY <2>2 DEF Serve
    <3> QED  BY <2>1, <2>2, <3>1 DEF GoodRun, Syncing
  <2>3. CASE job[r].pc = "sent" /\ FastForward(request[r])
    <3>1. job'[r].pc = "ready" /\ Tip' = request[r]
      BY <1>1, <2>3 DEF Serve, IInv, TypeOK, Tip
    <3> QED  BY <1>1, <1>2, <2>1, <2>3, <3>1 DEF GoodRun, Syncing
  <2>4. CASE job[r].pc = "sent" /\ ~FastForward(request[r])
    <3>1. job'[r] = [job[r] EXCEPT !.pc = AfterLoss(r)] /\ branch' = branch /\ Tip' = Tip
      BY <2>4 DEF Serve, IInv, TypeOK, Tip
    <3>2. /\ job'[r].pc = AfterLoss(r) /\ job'[r].doc = job[r].doc
          /\ job'[r].tries = job[r].tries
      BY <3>1 DEF IInv, TypeOK
    <3>3. /\ AfterLoss(r) \in {"sync", "failed"}
          /\ AfterLoss(r) = "sync" => job[r].tries < MaxAttempts
      BY DEF AfterLoss
    <3>4. Pending(r) => Pending(r)'
      BY <1>11, <3>1
    <3> QED  BY <1>1, <1>2, <2>1, <2>4, <3>1, <3>2, <3>3, <3>4 DEF GoodRun, Syncing
  <2> QED  BY <2>2, <2>3, <2>4
<1> QED  BY <1>4, <1>8, <1>9, <1>13, <1>14 DEF IInv

LEMMA DropKeeps ==
    ASSUME IInv, NEW r \in Runs, Drop(r)
    PROVE  IInv'
<1>1. /\ UNCHANGED <<branch, log, files, job, readBy, writes, overlap>>
      /\ Tip' = Tip /\ job[r].pc = "ended"
      /\ request' = [request EXCEPT ![r] = None]
  BY DEF Drop, Tip
<1>2. /\ request'[r] = None
      /\ \A s \in Runs : request'[s] # None => request'[s] = request[s]
      /\ \A s \in Runs \ {r} : request'[s] = request[s]
  BY <1>1 DEF IInv, TypeOK
<1>3. TypeOK'
  BY <1>1 DEF IInv, TypeOK
<1>4. GoodLog(Tip.log)' /\ \A p \in readBy' : Written(p[2])'
  BY <1>1 DEF IInv, GoodLog, Written
<1>5. \A s \in Runs : GoodRequest(s)'
  BY <1>1, <1>2 DEF IInv, GoodRequest, FastForward, GoodLog, Written
<1>6. ASSUME NEW s \in Runs PROVE GoodRun(s)'
  <2>1. CASE s = r
    BY <1>1, <2>1 DEF GoodRun, Syncing
  <2>2. CASE s # r
    <3>1. Pending(s) => Pending(s)'
      BY <1>1, <1>2 DEF Pending, NewLine, ReadBefore, Written
    <3> QED  BY <1>1, <1>2, <2>2, <3>1 DEF IInv, GoodRun, Syncing
  <2> QED  BY <2>1, <2>2
<1> QED  BY <1>3, <1>4, <1>5, <1>6 DEF IInv

-----------------------------------------------------------------------------
(* One run after the other. *)

\* Versions count an intent's records, and a key has one intent.
Ordered(lines) ==
    /\ \A k \in DOMAIN lines :
          lines[k].version = RecordsOf(SubSeq(lines, 1, k), lines[k].intent)
    /\ \A j, k \in DOMAIN lines :
          lines[j].intent.key = lines[k].intent.key => lines[j].intent = lines[k].intent

UniqueIds(docs) == \A d, e \in docs : d.id = e.id => d = e

\* The run is under way, or its request may still be served.
Active(r) == Live(r) \/ request[r] # None

\* The run's checkout is the branch's commit and what the run is writing, and so
\* is the commit it asks for.
OwnWriteAhead(r) ==
    /\ job[r].pc = "ready" => log[r] = Tip.log /\ files[r] = Tip.files
    /\ Syncing(r) /\ job[r].doc = None => /\ Len(log[r]) = Len(Tip.log) + 1
                                          /\ Ordered(log[r])
                                          /\ files[r] = Tip.files
    /\ Syncing(r) /\ job[r].doc # None => /\ log[r] = Tip.log
                                          /\ files[r] = Tip.files \cup {job[r].doc}
                                          /\ UniqueIds(files[r])
    /\ job[r].pc = "sent" => request[r].log = log[r] /\ request[r].files = files[r]
    /\ request[r] # None => Ordered(request[r].log) /\ UniqueIds(request[r].files)

Sequential ==
    /\ \A r, s \in Runs : Active(r) /\ Active(s) => r = s
    /\ Ordered(Tip.log) /\ UniqueIds(Tip.files)
    /\ \A r \in Runs : OwnWriteAhead(r)

LEMMA CountAppend ==
    ASSUME NEW lines \in Seq(Line), NEW line \in Line, NEW i
    PROVE  RecordsOf(Append(lines, line), i) =
             IF line.intent = i THEN RecordsOf(lines, i) + 1 ELSE RecordsOf(lines, i)
<1> DEFINE n == Len(lines) + 1
           longer == Append(lines, line)
           Before == {k \in DOMAIN lines : lines[k].intent = i}
           After == {k \in DOMAIN longer : longer[k].intent = i}
<1>1. /\ n \in Nat /\ DOMAIN longer = 1 .. n /\ DOMAIN lines = 1 .. n - 1
      /\ longer[n] = line /\ \A k \in 1 .. n - 1 : longer[k] = lines[k]
  OBVIOUS
<1>2. After = IF line.intent = i THEN Before \cup {n} ELSE Before
  <2> HIDE DEF n, longer
  <2>1. ASSUME NEW k \in 1 .. n - 1 PROVE k \in After <=> k \in Before
    <3>1. k \in 1 .. n
      BY <1>1
    <3> QED  BY <1>1, <3>1
  <2>2. n \in After <=> line.intent = i
    <3>1. n \in 1 .. n
      BY <1>1, 0 < n DEF n
    <3> QED  BY <1>1, <3>1
  <2>3. \A k \in 1 .. n : k = n \/ k \in 1 .. n - 1
    BY <1>1
  <2>4. Before \subseteq 1 .. n - 1 /\ After \subseteq 1 .. n
    BY <1>1
  <2>5. n \in 1 .. n /\ n \notin Before
    BY <1>1, <2>4, 0 < n DEF n
  <2> HIDE DEF Before, After
  <2>6. \A k : k \in After => k \in Before \/ (k = n /\ line.intent = i)
    BY <2>1, <2>2, <2>3, <2>4
  <2>7. \A k : k \in Before => k \in After
    BY <2>1, <2>4
  <2>8. CASE line.intent = i
    BY <2>2, <2>6, <2>7, <2>8
  <2>9. CASE line.intent # i
    BY <2>6, <2>7, <2>9
  <2> QED  BY <2>8, <2>9
<1>3. IsFiniteSet(Before) /\ n \notin Before
  <2>1. IsFiniteSet(1 .. n - 1)
    BY <1>1, FS_Interval
  <2>2. Before \in SUBSET (1 .. n - 1)
    BY <1>1
  <2>3. n \notin 1 .. n - 1
    BY <1>1
  <2> HIDE DEF Before, n
  <2> QED  BY <2>1, <2>2, <2>3, FS_Subset
<1>4. Cardinality(Before \cup {n}) = Cardinality(Before) + 1
  <2> HIDE DEF Before, n
  <2> QED  BY <1>3, FS_AddElement
<1>5. RecordsOf(longer, i) = Cardinality(After) /\ RecordsOf(lines, i) = Cardinality(Before)
  BY DEF RecordsOf
<1> HIDE DEF Before, After, longer
<1> QED  BY <1>2, <1>4, <1>5 DEF longer

LEMMA OrderedAppend ==
    ASSUME NEW lines \in Seq(Line), NEW line \in Line, Ordered(lines),
           line.version = RecordsOf(lines, line.intent) + 1,
           \A k \in DOMAIN lines :
               lines[k].intent.key = line.intent.key => lines[k].intent = line.intent
    PROVE  Ordered(Append(lines, line))
<1> DEFINE n == Len(lines) + 1
           longer == Append(lines, line)
<1>1. /\ n \in Nat /\ DOMAIN longer = 1 .. n /\ DOMAIN lines = 1 .. n - 1
      /\ longer[n] = line /\ \A k \in 1 .. n - 1 : longer[k] = lines[k]
  OBVIOUS
<1>2. \A k \in 1 .. n - 1 : SubSeq(longer, 1, k) = SubSeq(lines, 1, k)
  OBVIOUS
<1>3. SubSeq(longer, 1, n) = longer
  OBVIOUS
<1>4. RecordsOf(longer, line.intent) = line.version
  BY CountAppend
<1> HIDE DEF n, longer
<1>5. \A k \in 1 .. n : k = n \/ k \in 1 .. n - 1
  BY <1>1
<1>6. ASSUME NEW k \in 1 .. n
      PROVE  longer[k].version = RecordsOf(SubSeq(longer, 1, k), longer[k].intent)
  <2>1. CASE k = n
    BY <1>1, <1>3, <1>4, <2>1
  <2>2. CASE k \in 1 .. n - 1
    BY <1>1, <1>2, <2>2 DEF Ordered
  <2> QED  BY <1>5, <2>1, <2>2
<1>7. ASSUME NEW j \in 1 .. n, NEW k \in 1 .. n,
             longer[j].intent.key = longer[k].intent.key
      PROVE  longer[j].intent = longer[k].intent
  BY <1>1, <1>5, <1>7 DEF Ordered
<1> QED  BY <1>1, <1>6, <1>7 DEF Ordered, longer

\* The last record of an intent has its count for its version.
LEMMA LastIsCounted ==
    ASSUME NEW lines \in Seq(Line), Ordered(lines), NEW i \in Intent,
           \E l \in ToSet(lines) : l.intent = i
    PROVE  LastRecord(lines, i).version = RecordsOf(lines, i)
<1> DEFINE at == {k \in DOMAIN lines : lines[k].intent = i}
           IsLast(k) == \A j \in at : j <= k
           last == CHOOSE k \in at : IsLast(k)
<1>1. at \in SUBSET (1 .. Len(lines)) /\ Len(lines) \in Nat /\ at # {}
  BY DEF ToSet
<1>2. last \in at /\ IsLast(last)
  <2>1. \E k \in at : IsLast(k)
    <3> HIDE DEF at
    <3> QED  BY <1>1, HasMaximum
  <2> HIDE DEF at, IsLast
  <2> QED  BY <2>1
<1>3. LastRecord(lines, i) = lines[last]
  BY DEF LastRecord
<1> HIDE DEF last
<1>4. last \in 1 .. Len(lines) /\ lines[last].intent = i
  BY <1>2
<1>5. lines[last].version = RecordsOf(SubSeq(lines, 1, last), i)
  BY <1>4 DEF Ordered
<1>6. {k \in DOMAIN SubSeq(lines, 1, last) : SubSeq(lines, 1, last)[k].intent = i} = at
  <2>1. /\ DOMAIN SubSeq(lines, 1, last) = 1 .. last
        /\ \A k \in 1 .. last : SubSeq(lines, 1, last)[k] = lines[k]
    BY <1>4
  <2>2. \A k \in 1 .. last : k \in DOMAIN lines
    BY <1>4
  <2>3. \A k \in at : k \in 1 .. last
    BY <1>2, <1>4
  <2> QED  BY <2>1, <2>2, <2>3
<1> QED  BY <1>3, <1>5, <1>6 DEF RecordsOf

LEMMA NoRecords ==
    ASSUME NEW lines \in Seq(Line), NEW i \in Intent, i.key \notin KeysOf(lines)
    PROVE  RecordsOf(lines, i) = 0
<1>1. {k \in DOMAIN lines : lines[k].intent = i} = {}
  BY DEF KeysOf
<1> QED  BY <1>1, FS_EmptySet DEF RecordsOf

\* Nobody but r is under way: the step is judged by what it does to r and the branch.
LEMMA AloneKeeps ==
    ASSUME NEW r \in Runs,
           \A s \in Runs \ {r} : ~Active(s) /\ job'[s] = job[s] /\ request'[s] = request[s],
           Ordered(Tip'.log), UniqueIds(Tip'.files), OwnWriteAhead(r)'
    PROVE  Sequential'
<1>1. ASSUME NEW s \in Runs \ {r} PROVE ~Active(s)' /\ OwnWriteAhead(s)'
  <2>1. job'[s].pc \in {"new", "ended"} /\ request'[s] = None
    BY DEF Active, Live
  <2> QED  BY <2>1 DEF Active, Live, OwnWriteAhead, Syncing
<1>2. \A s, t \in Runs : Active(s)' /\ Active(t)' => s = t
  BY <1>1
<1> QED  BY <1>1, <1>2 DEF Sequential

LEMMA OthersRest ==
    ASSUME Sequential, NEW r \in Runs, Active(r)
    PROVE  \A s \in Runs \ {r} : ~Active(s)
BY DEF Sequential

LEMMA StartAlone ==
    ASSUME IInv, Sequential, NEW r \in Runs, Start(r), ~overlap'
    PROVE  Sequential'
<1>1. \A s \in Runs : ~Live(s) /\ request[s] = None
  BY DEF Start
<1>2. /\ job' = [job EXCEPT ![r].pc = "ready"] /\ request' = request /\ Tip' = Tip
      /\ log'[r] = Tip.log /\ files'[r] = Tip.files
  BY DEF Start, IInv, TypeOK, Tip, Hydrated
<1>3. /\ job'[r].pc = "ready" /\ request'[r] = None
      /\ \A s \in Runs \ {r} : job'[s] = job[s]
  BY <1>1, <1>2 DEF IInv, TypeOK
<1>4. OwnWriteAhead(r)'
  BY <1>2, <1>3 DEF OwnWriteAhead, Syncing
<1> QED  BY <1>1, <1>2, <1>3, <1>4, AloneKeeps DEF Active, Sequential

\* The write: the record that is appended counts the ones before it.
LEMMA AppendAlone ==
    ASSUME IInv, Sequential, NEW r \in Runs, NEW i \in Intent, NEW v \in 1 .. MaxVersion,
           AppendRecord(r, i, v),
           v = RecordsOf(log[r], i) + 1,
           \A k \in DOMAIN log[r] : log[r][k].intent.key = i.key => log[r][k].intent = i
    PROVE  Sequential'
<1>1. writes + 1 \in 1 .. MaxWrites /\ log[r] \in Seq(Line)
  BY BoundsAssumption DEF AppendRecord, Writing, IInv, TypeOK
<1>2. PICK line \in Line :
          line = [intent |-> i, version |-> v, by |-> r, at |-> writes + 1]
  BY <1>1 DEF Line
<1>3. /\ job' = [job EXCEPT ![r] = [pc |-> "sync", doc |-> None, tries |-> 0]]
      /\ log' = [log EXCEPT ![r] = Append(@, line)]
      /\ UNCHANGED <<branch, request, files>>
      /\ job[r].pc = "ready"
  BY <1>2 DEF AppendRecord, Writing
<1>4. /\ log[r] = Tip.log /\ files[r] = Tip.files /\ request[r] = None
      /\ Ordered(Tip.log) /\ UniqueIds(Tip.files) /\ Tip' = Tip
  BY <1>3 DEF IInv, GoodRun, Sequential, OwnWriteAhead, Tip
<1>5. PICK old \in Seq(Line) : old = log[r]
  BY <1>1
<1>6. Ordered(Append(old, line))
  <2>1. Ordered(old) /\ line.version = RecordsOf(old, line.intent) + 1
    BY <1>2, <1>4, <1>5
  <2>2. \A k \in DOMAIN old :
            old[k].intent.key = line.intent.key => old[k].intent = line.intent
    BY <1>2, <1>5
  <2> QED  BY <2>1, <2>2, OrderedAppend
<1>7. /\ log'[r] = Append(old, line) /\ Len(Append(old, line)) = Len(old) + 1
      /\ files'[r] = files[r] /\ request'[r] = None
      /\ job'[r] = [pc |-> "sync", doc |-> None, tries |-> 0]
      /\ \A s \in Runs \ {r} : job'[s] = job[s]
  BY <1>3, <1>4, <1>5 DEF IInv, TypeOK
<1>8. OwnWriteAhead(r)'
  BY <1>4, <1>5, <1>6, <1>7 DEF OwnWriteAhead, Syncing
<1>9. Active(r)
  BY <1>3 DEF Active, Live
<1> QED  BY <1>3, <1>4, <1>7, <1>8, <1>9, OthersRest, AloneKeeps

LEMMA ClaimAlone ==
    ASSUME IInv, Sequential, NEW r \in Runs, NEW k \in Keys, Claim(r, k)
    PROVE  Sequential'
<1>1. PICK i \in Intent : i = [key |-> k, by |-> r]
  BY DEF Intent
<1>2. i.key \notin KeysOf(log[r]) /\ AppendRecord(r, i, 1) /\ 1 \in 1 .. MaxVersion
  BY <1>1, BoundsAssumption DEF Claim
<1>3. log[r] \in Seq(Line)
  BY DEF IInv, TypeOK
<1>4. RecordsOf(log[r], i) = 0
  BY <1>2, <1>3, NoRecords
<1>5. \A j \in DOMAIN log[r] : log[r][j].intent.key # i.key
  BY <1>2 DEF KeysOf
<1> QED  BY <1>2, <1>4, <1>5, AppendAlone

LEMMA TransitionAlone ==
    ASSUME IInv, Sequential, NEW r \in Runs, NEW i \in Intent, Transition(r, i)
    PROVE  Sequential'
<1> DEFINE v == LastRecord(log[r], i).version
<1>1. log[r] \in Seq(Line) /\ Ordered(log[r])
  BY DEF IInv, TypeOK, Sequential, OwnWriteAhead, Transition, AppendRecord, Writing
<1>2. \E l \in ToSet(log[r]) : l.intent = i
  BY DEF Transition
<1>3. v = RecordsOf(log[r], i)
  BY <1>1, <1>2, LastIsCounted
<1>4. v \in 1 .. MaxVersion
  <2>1. LastRecord(log[r], i) \in Line
    BY <1>1, <1>2, LastIsLine
  <2> QED  BY <2>1 DEF Line
<1>5. v < MaxVersion /\ AppendRecord(r, i, v + 1)
  BY DEF Transition
<1> HIDE DEF v
<1>6. v + 1 \in 1 .. MaxVersion
  BY <1>4, <1>5, BoundsAssumption
<1>7. \A k \in DOMAIN log[r] : log[r][k].intent.key = i.key => log[r][k].intent = i
  BY <1>1, <1>2 DEF ToSet, Ordered
<1> QED  BY <1>3, <1>5, <1>6, <1>7, AppendAlone

LEMMA SaveAlone ==
    ASSUME IInv, Sequential, NEW r \in Runs, NEW d \in Docs, Save(r, d)
    PROVE  Sequential'
<1>1. /\ job' = [job EXCEPT ![r] = [pc |-> "sync", doc |-> d, tries |-> 0]]
      /\ files' = [files EXCEPT ![r] = @ \cup {d}]
      /\ UNCHANGED <<branch, request, log>>
      /\ job[r].pc = "ready"
      /\ \A e \in files[r] : e.id # d.id
  BY DEF Save, Writing
<1>2. /\ log[r] = Tip.log /\ files[r] = Tip.files /\ request[r] = None
      /\ Ordered(Tip.log) /\ UniqueIds(Tip.files) /\ Tip' = Tip
  BY <1>1 DEF IInv, GoodRun, Sequential, OwnWriteAhead, Tip
<1>3. /\ job'[r] = [pc |-> "sync", doc |-> d, tries |-> 0] /\ d # None
      /\ files'[r] = files[r] \cup {d} /\ log'[r] = log[r] /\ request'[r] = None
      /\ \A s \in Runs \ {r} : job'[s] = job[s]
  BY <1>1, <1>2, NoneAssumption DEF IInv, TypeOK
<1>4. UniqueIds(files[r] \cup {d})
  BY <1>1, <1>2 DEF UniqueIds
<1>5. OwnWriteAhead(r)'
  BY <1>2, <1>3, <1>4 DEF OwnWriteAhead, Syncing
<1>6. Active(r)
  BY <1>1 DEF Active, Live
<1> QED  BY <1>1, <1>2, <1>3, <1>5, <1>6, OthersRest, AloneKeeps

LEMMA CreateBranchAlone ==
    ASSUME Sequential, NEW r \in Runs, CreateBranch(r)
    PROVE  Sequential'
<1>1. Tip' = Tip /\ UNCHANGED <<log, files, job, request>>
  BY DEF CreateBranch, Tip
<1> QED  BY <1>1 DEF Sequential, OwnWriteAhead, Active, Live, Syncing

\* A commit the run asks for is the branch's and its write.
LEMMA PushAlone ==
    ASSUME IInv, Sequential, NEW r \in Runs, Push(r)
    PROVE  Sequential'
<1>1. PICK new \in Commit :
        /\ request' = [request EXCEPT ![r] = new]
        /\ job[r].doc = None =>
             /\ log'[r] = new.log /\ new.files = Tip.files
             /\ \E front \in Seq(Line), line \in Line :
                  /\ log[r] = Append(front, line) /\ IsPrefix(front, Tip.log)
                  /\ new.log = Append(Tip.log, line)
        /\ job[r].doc # None =>
             /\ log'[r] = log[r] /\ new.log = Tip.log
             /\ new.files = Tip.files \cup {job[r].doc}
  BY PushAsks
<1>2. /\ job[r].pc = "sync" /\ files' = files /\ Tip' = Tip
      /\ job' = [job EXCEPT ![r].pc = "sent", ![r].tries = @ + 1]
  BY DEF Push, Tip
<1>3. /\ job'[r].pc = "sent" /\ job'[r].doc = job[r].doc
      /\ request'[r] = new
      /\ \A s \in Runs \ {r} : job'[s] = job[s] /\ request'[s] = request[s]
  BY <1>1, <1>2 DEF IInv, TypeOK
<1>4. Tip.log \in Seq(Line) /\ Ordered(Tip.log) /\ UniqueIds(Tip.files)
  BY TipIsCommit DEF IInv, Sequential
<1>5. CASE job[r].doc = None
  <2>1. /\ Len(log[r]) = Len(Tip.log) + 1 /\ Ordered(log[r]) /\ files[r] = Tip.files
    BY <1>2, <1>5 DEF Sequential, OwnWriteAhead, Syncing
  <2>2. PICK front \in Seq(Line), line \in Line :
          /\ log[r] = Append(front, line) /\ IsPrefix(front, Tip.log)
          /\ new.log = Append(Tip.log, line)
    BY <1>1, <1>5
  <2>3. PICK old \in Seq(Line) : old = Tip.log
    BY <1>4
  <2>4. Len(front) = Len(old)
    <3>1. Len(log[r]) = Len(front) + 1
      BY <2>2
    <3> QED  BY <2>1, <2>3, <3>1
  <2>5. front = old
    <3>1. IsPrefix(front, old)
      BY <2>2, <2>3
    <3>2. \A k \in 1 .. Len(front) : front[k] = old[k]
      BY <3>1, PrefixAgrees
    <3> QED  BY <2>4, <3>2
  <2>6. new.log = log[r] /\ log'[r] = log[r] /\ new.files = Tip.files
    BY <1>1, <1>5, <2>2, <2>3, <2>5
  <2>7. OwnWriteAhead(r)'
    BY <1>2, <1>3, <1>4, <1>5, <2>1, <2>6 DEF OwnWriteAhead, Syncing
  <2> QED  BY <1>2, <1>3, <1>4, <2>7, OthersRest, AloneKeeps DEF Active, Live
<1>6. CASE job[r].doc # None
  <2>1. /\ log[r] = Tip.log /\ files[r] = Tip.files \cup {job[r].doc}
        /\ UniqueIds(files[r])
    BY <1>2, <1>6 DEF Sequential, OwnWriteAhead, Syncing
  <2>2. new.log = log[r] /\ log'[r] = log[r] /\ new.files = files[r]
    BY <1>1, <1>6, <2>1
  <2>3. OwnWriteAhead(r)'
    BY <1>2, <1>3, <1>4, <1>6, <2>1, <2>2 DEF OwnWriteAhead, Syncing
  <2> QED  BY <1>2, <1>3, <1>4, <2>3, OthersRest, AloneKeeps DEF Active, Live
<1> QED  BY <1>5, <1>6

LEMMA ServeAlone ==
    ASSUME IInv, Sequential, NEW r \in Runs, Serve(r)
    PROVE  Sequential'
<1>1. /\ request[r] # None /\ request' = [request EXCEPT ![r] = None]
      /\ log' = log /\ files' = files
      /\ branch' = IF FastForward(request[r]) THEN request[r] ELSE branch
      /\ job' = IF job[r].pc # "sent" THEN job
                ELSE [job EXCEPT ![r].pc =
                        IF FastForward(request[r]) THEN "ready" ELSE AfterLoss(r)]
  BY DEF Serve
<1>2. /\ request'[r] = None
      /\ \A s \in Runs \ {r} : job'[s] = job[s] /\ request'[s] = request[s]
  BY <1>1 DEF IInv, TypeOK
<1>3. Active(r) /\ ~(job[r].pc \in {"new", "ready", "sync"})
  BY <1>1 DEF Active, IInv, GoodRun
<1>4. OwnWriteAhead(r) /\ Ordered(Tip.log) /\ UniqueIds(Tip.files)
  BY DEF Sequential
<1>5. CASE FastForward(request[r])
  <2>1. Tip' = request[r]
    BY <1>1, <1>5 DEF Tip
  <2>2. Ordered(Tip'.log) /\ UniqueIds(Tip'.files)
    BY <1>1, <1>4, <2>1 DEF OwnWriteAhead
  <2>3. job[r].pc = "sent" => job'[r].pc = "ready"
    BY <1>1, <1>5 DEF IInv, TypeOK
  <2>4. job[r].pc # "sent" => job'[r] = job[r]
    BY <1>1
  <2>5. OwnWriteAhead(r)'
    BY <1>1, <1>2, <1>3, <1>4, <2>1, <2>3, <2>4 DEF OwnWriteAhead, Syncing
  <2> QED  BY <1>2, <1>3, <2>2, <2>5, OthersRest, AloneKeeps
<1>6. CASE ~FastForward(request[r])
  <2>1. Tip' = Tip
    BY <1>1, <1>6 DEF Tip
  <2>2. job[r].pc = "sent" =>
          job'[r].pc \in {"sync", "failed"} /\ job'[r].doc = job[r].doc
    BY <1>1, <1>6 DEF IInv, TypeOK, AfterLoss
  <2>3. job[r].pc # "sent" => job'[r] = job[r]
    BY <1>1
  <2>4. OwnWriteAhead(r)'
    BY <1>1, <1>2, <1>3, <1>4, <2>1, <2>2, <2>3 DEF OwnWriteAhead, Syncing
  <2> QED  BY <1>2, <1>3, <1>4, <2>1, <2>4, OthersRest, AloneKeeps
<1> QED  BY <1>5, <1>6

LEMMA StopAlone ==
    ASSUME IInv, Sequential, NEW r \in Runs, Stop(r)
    PROVE  Sequential'
<1>1. /\ job'[r].pc = "ended" /\ request' = request /\ Tip' = Tip
      /\ \A s \in Runs \ {r} : job'[s] = job[s]
  BY DEF Stop, NoJob, IInv, TypeOK, Tip
<1>2. OwnWriteAhead(r)'
  BY <1>1 DEF Sequential, OwnWriteAhead, Syncing
<1>3. Active(r)
  BY DEF Active, Stop
<1> QED  BY <1>1, <1>2, <1>3, OthersRest, AloneKeeps DEF Sequential

LEMMA DropAlone ==
    ASSUME IInv, Sequential, NEW r \in Runs, Drop(r)
    PROVE  Sequential'
<1>1. /\ job' = job /\ Tip' = Tip /\ job[r].pc = "ended" /\ request[r] # None
      /\ request'[r] = None
      /\ \A s \in Runs \ {r} : request'[s] = request[s]
  BY DEF Drop, IInv, TypeOK, Tip
<1>2. OwnWriteAhead(r)'
  BY <1>1 DEF OwnWriteAhead, Syncing
<1>3. Active(r)
  BY <1>1 DEF Active
<1> QED  BY <1>1, <1>2, <1>3, OthersRest, AloneKeeps DEF Sequential

LEMMA NextAlone ==
    ASSUME IInv, ~overlap => Sequential, [Next]_vars
    PROVE  ~overlap' => Sequential'
<1>1. SUFFICES ASSUME ~overlap' PROVE Sequential'
  OBVIOUS
<1>2. CASE Next
  <2>1. PICK r \in Runs :
          \/ Start(r)
          \/ \E k \in Keys : Claim(r, k)
          \/ \E i \in Intent : Transition(r, i)
          \/ \E d \in Docs : Save(r, d)
          \/ CreateBranch(r)
          \/ Push(r)
          \/ Serve(r)
          \/ Stop(r)
          \/ Drop(r)
    BY <1>2 DEF Next
  <2>2. Sequential
    <3>1. overlap => overlap'
      BY <2>1 DEF Start, Claim, Transition, AppendRecord, Writing, Save, CreateBranch, Push,
                  Serve, Stop, Drop
    <3> QED  BY <1>1, <3>1
  <2>3. CASE Start(r)
    BY <1>1, <2>2, <2>3, StartAlone
  <2>4. CASE \E k \in Keys : Claim(r, k)
    BY <2>2, <2>4, ClaimAlone
  <2>5. CASE \E i \in Intent : Transition(r, i)
    BY <2>2, <2>5, TransitionAlone
  <2>6. CASE \E d \in Docs : Save(r, d)
    BY <2>2, <2>6, SaveAlone
  <2>7. CASE CreateBranch(r)
    BY <2>2, <2>7, CreateBranchAlone
  <2>8. CASE Push(r)
    BY <2>2, <2>8, PushAlone
  <2>9. CASE Serve(r)
    BY <2>2, <2>9, ServeAlone
  <2>10. CASE Stop(r)
    BY <2>2, <2>10, StopAlone
  <2>11. CASE Drop(r)
    BY <2>2, <2>11, DropAlone
  <2> QED  BY <2>1, <2>3, <2>4, <2>5, <2>6, <2>7, <2>8, <2>9, <2>10, <2>11
<1>3. CASE UNCHANGED vars
  <2>1. Tip' = Tip /\ UNCHANGED <<log, files, job, request, overlap>>
    BY <1>3 DEF vars, Tip
  <2> QED  BY <1>1, <2>1 DEF Sequential, OwnWriteAhead, Active, Live, Syncing
<1> QED  BY <1>2, <1>3

-----------------------------------------------------------------------------
(* Theorems. *)

LEMMA InitEstablishes ==
    ASSUME Init
    PROVE  IInv
<1>1. BaseCommit.log = <<>> /\ BaseCommit.files = {} /\ Tip = BaseCommit
  BY DEF BaseCommit, Init, Tip
<1>2. TypeOK
  <2>1. <<>> \in Seq(Line) /\ 0 \in 0 .. MaxAttempts /\ 0 \in 0 .. MaxWrites
    BY BoundsAssumption
  <2>2. log \in [Runs -> Seq(Line)] /\ files \in [Runs -> SUBSET Docs]
    BY <2>1 DEF Init
  <2>3. job \in [Runs -> [pc : {"new", "ready", "sync", "sent", "failed", "ended"},
                         doc : Docs \cup {None}, tries : 0 .. MaxAttempts]]
    BY <2>1 DEF Init, NoJob
  <2>4. \A r \in Runs : job[r].pc # "sent"
    BY DEF Init, NoJob
  <2> QED  BY <2>1, <2>2, <2>3, <2>4 DEF Init, TypeOK
<1>3. GoodLog(Tip.log)
  BY <1>1 DEF GoodLog, Causal, ToSet
<1>4. \A r \in Runs : GoodRequest(r) /\ GoodRun(r)
  BY DEF Init, NoJob, GoodRequest, GoodRun, Syncing
<1> QED  BY <1>2, <1>3, <1>4 DEF Init, IInv

LEMMA NextKeeps ==
    ASSUME IInv, [Next]_vars
    PROVE  IInv'
<1>1. CASE Next
  <2>1. PICK r \in Runs :
          \/ Start(r)
          \/ \E k \in Keys : Claim(r, k)
          \/ \E i \in Intent : Transition(r, i)
          \/ \E d \in Docs : Save(r, d)
          \/ CreateBranch(r)
          \/ Push(r)
          \/ Serve(r)
          \/ Stop(r)
          \/ Drop(r)
    BY <1>1 DEF Next
  <2>2. CASE Start(r)
    BY <2>2, StartKeeps
  <2>3. CASE \E k \in Keys : Claim(r, k)
    BY <2>3, ClaimKeeps
  <2>4. CASE \E i \in Intent : Transition(r, i)
    BY <2>4, TransitionKeeps
  <2>5. CASE \E d \in Docs : Save(r, d)
    BY <2>5, SaveKeeps
  <2>6. CASE CreateBranch(r)
    BY <2>6, CreateBranchKeeps
  <2>7. CASE Push(r)
    BY <2>7, PushKeeps
  <2>8. CASE Serve(r)
    BY <2>8, ServeKeeps
  <2>9. CASE Stop(r)
    BY <2>9, StopKeeps
  <2>10. CASE Drop(r)
    BY <2>10, DropKeeps
  <2> QED  BY <2>1, <2>2, <2>3, <2>4, <2>5, <2>6, <2>7, <2>8, <2>9, <2>10
<1>2. CASE UNCHANGED vars
  <2>1. UNCHANGED <<branch, log, files, job, request, readBy, writes, overlap>>
    BY <1>2 DEF vars
  <2>2. Tip' = Tip /\ TypeOK'
    BY <2>1 DEF Tip, IInv, TypeOK
  <2>3. \A r \in Runs : Pending(r) => Pending(r)'
    BY <2>1, <2>2 DEF Pending, NewLine, ReadBefore, Written
  <2>4. \A r \in Runs : GoodRequest(r)' /\ GoodRun(r)'
    BY <2>1, <2>2, <2>3
       DEF IInv, GoodRequest, GoodRun, Syncing, FastForward, GoodLog, Written
  <2>5. GoodLog(Tip.log)' /\ \A p \in readBy' : Written(p[2])'
    BY <2>1, <2>2 DEF IInv, GoodLog, Written
  <2> QED  BY <2>2, <2>4, <2>5 DEF IInv
<1> QED  BY <1>1, <1>2

\* The inductive invariant holds: every request that can still win adds to the
\* branch, and what a run has not synced is one line, or one document, more.
THEOREM Invariance == Spec => []IInv
<1>1. Init => IInv
  BY InitEstablishes
<1>2. IInv /\ [Next]_vars => IInv'
  BY NextKeeps
<1> QED  BY <1>1, <1>2, PTL DEF Spec

\* The type invariant, for every number of runs, attempts and writes.
THEOREM TypeCorrect == Spec => []TypeOK
<1>1. IInv => TypeOK
  BY DEF IInv
<1> QED  BY <1>1, Invariance, PTL

\* A write that sync_paths reported as done is on the branch, whatever other runs
\* do and however late their requests are served.
THEOREM SyncedWritesAreKept == Spec => []SyncedIsOnBranch
<1>1. IInv => SyncedIsOnBranch
  BY DEF IInv, GoodRun, SyncedIsOnBranch
<1> QED  BY <1>1, Invariance, PTL

\* The merge keeps every line once and after those its run had read.
THEOREM CausalOrder == Spec => []LinesInCausalOrder
<1>1. IInv => LinesInCausalOrder
  BY DEF IInv, GoodLog, Causal, LinesInCausalOrder
<1> QED  BY <1>1, Invariance, PTL

\* Nothing that got to the branch is lost or moved: the branch is only ever moved to
\* a commit that adds to the one it points to.
THEOREM BranchGrows == Spec => BranchOnlyGrows
<1>1. ASSUME IInv, [Next]_vars
      PROVE  IsPrefix(Tip.log, Tip'.log) /\ Tip.files \subseteq Tip'.files
  <2>1. CASE Tip' = Tip
    <3>1. Tip.log \in Seq(Line)
      BY <1>1, TipIsCommit DEF IInv
    <3>2. IsPrefix(Tip.log, Tip.log)
      BY <3>1, PrefixReflexive
    <3> QED  BY <2>1, <3>2
  <2>2. CASE \E r \in Runs : Serve(r)
    BY <1>1, <2>2, ServeExtends
  <2>3. CASE UNCHANGED branch
    BY <2>1, <2>3 DEF Tip
  <2>4. CASE \E r \in Runs : CreateBranch(r)
    BY <2>1, <2>4 DEF CreateBranch, Tip
  <2>5. UNCHANGED branch \/ \E r \in Runs : Serve(r) \/ CreateBranch(r)
    BY <1>1 DEF Next, vars, Start, Claim, Transition, AppendRecord, Writing, Save, Push,
                Stop, Drop
  <2> QED  BY <2>2, <2>3, <2>4, <2>5
<1> QED  BY <1>1, Invariance, PTL DEF Spec, BranchOnlyGrows

\* Runs that follow each other, with no request served late, act as one: versions
\* count up, a key has one intent and an id one document.
THEOREM OneRunAfterTheOther == Spec => []SequentialHistory
<1> DEFINE SInv == ~overlap => Sequential
<1>1. Init => SInv
  <2>1. SUFFICES ASSUME Init PROVE Sequential
    OBVIOUS
  <2>2. Tip = BaseCommit /\ BaseCommit.log = <<>> /\ BaseCommit.files = {}
    BY <2>1 DEF Init, Tip, BaseCommit
  <2>3. Ordered(Tip.log) /\ UniqueIds(Tip.files)
    BY <2>2 DEF Ordered, UniqueIds
  <2>4. \A r \in Runs : ~Active(r) /\ OwnWriteAhead(r)
    BY <2>1 DEF Init, NoJob, Active, Live, OwnWriteAhead, Syncing
  <2> QED  BY <2>3, <2>4 DEF Sequential
<1>2. IInv /\ SInv /\ [Next]_vars => SInv'
  BY NextAlone
<1>3. SInv => SequentialHistory
  BY DEF SequentialHistory, Sequential, Ordered, UniqueIds
<1> HIDE DEF SInv
<1> QED  BY <1>1, <1>2, <1>3, Invariance, PTL DEF Spec
=============================================================================

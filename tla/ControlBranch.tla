---------------------------- MODULE ControlBranch ---------------------------
(***************************************************************************)
(* How the dispatcher's log and documents get to the control branch.       *)
(* Every workflow run has a checkout of its own, which it hydrates from    *)
(* the branch once.  A write goes to the checkout first; the file is then  *)
(* merged with the branch, committed and the branch moved to the commit    *)
(* unless it has moved meanwhile, in which case all of it is tried again.  *)
(*                                                                         *)
(* Reading a commit, merging and creating the new commit only touch the    *)
(* checkout and immutable objects: they are one step with the request that *)
(* moves the branch.  GitHub serves that request later, even after the run *)
(* has given it up.                                                        *)
(***************************************************************************)
EXTENDS Naturals, FiniteSets, SequencesExt

CONSTANTS
    Runs,         \* workflow runs, each with a fresh checkout
    Keys,         \* dedupe keys of intents
    Docs,         \* documents a run may append: path, id and content
    None,
    MaxAttempts,  \* _max_ref_update_attempts
    MaxVersion,   \* bound on the records of an intent
    MaxWrites     \* bound on the writes of all runs

ASSUME DocsAssumption ==
    \A d, e \in Docs : d.path = e.path => d.id = e.id
ASSUME BoundsAssumption ==
    MaxAttempts \in Nat \ {0} /\ MaxVersion \in Nat \ {0} /\ MaxWrites \in Nat

VARIABLES
    branch,   \* the commit the branch points to, or None while there is none
    log,      \* per run, dispatcher-events.jsonl in its checkout
    files,    \* per run, the documents in its checkout
    job,      \* per run, where it is and what it is writing
    request,  \* per run, the unserved request to move the branch, or None
    readBy,   \* pairs of lines: the first was in the file the second was added to
    writes,   \* how many writes there were
    overlap   \* whether two runs were ever under way, or a late request open

vars == <<branch, log, files, job, request, readBy, writes, overlap>>

\* A record of an intent, with the time it was made.  The run's claim makes the
\* intent, whose identifier is never made twice.
Intent == [key : Keys, by : Runs]
Line == [intent : Intent, version : 1 .. MaxVersion, by : Runs, at : 1 .. MaxWrites]

\* Commits are numbered in the order in which they became the branch's.
BaseCommit == [number |-> 1, log |-> <<>>, files |-> {}]

\* What the branch may point to; None is neither a commit nor a document.
Commit == [number : Nat \ {0}, log : Seq(Line), files : SUBSET Docs]

ASSUME NoneAssumption == None \notin Commit /\ None \notin Docs

NoJob == [pc |-> "new", doc |-> None, tries |-> 0]
Live(r) == job[r].pc \notin {"new", "ended"}

Init ==
    /\ branch = None
    /\ log = [r \in Runs |-> <<>>]
    /\ files = [r \in Runs |-> {}]
    /\ job = [r \in Runs |-> NoJob]
    /\ request = [r \in Runs |-> None]
    /\ readBy = {}
    /\ writes = 0
    /\ overlap = FALSE

-----------------------------------------------------------------------------
(* What is read from a log. *)

KeysOf(lines) == {lines[k].intent.key : k \in DOMAIN lines}

\* Replay takes the last record of an intent for its state.
LastRecord(lines, i) ==
    LET at == {k \in DOMAIN lines : lines[k].intent = i}
    IN  lines[CHOOSE k \in at : \A j \in at : j <= k]

\* The bug of a merge that puts the checkout's lines after the branch's, all.
Merge_AllFault(remote, local) == remote \o local

\* The lines of the checkout that the branch does not have.
Missing(remote, local) ==
    LET upTo[k \in 0 .. Len(local)] ==
            IF k = 0 THEN <<>>
            ELSE IF local[k] \in ToSet(remote) THEN upTo[k - 1]
            ELSE Append(upTo[k - 1], local[k])
    IN  upTo[Len(local)]

\* _merge_jsonl: the lines of the branch, then those it does not have.
Merge(remote, local) == remote \o Missing(remote, local)

-----------------------------------------------------------------------------
(* A run. *)

\* The bug of a checkout that is not hydrated.
Hydrated_Fault == BaseCommit

\* hydrate: nothing is fetched if there is no branch.
Hydrated == IF branch = None THEN BaseCommit ELSE branch

Start(r) ==
    /\ job[r].pc = "new"
    /\ job' = [job EXCEPT ![r].pc = "ready"]
    /\ log' = [log EXCEPT ![r] = Hydrated.log]
    /\ files' = [files EXCEPT ![r] = Hydrated.files]
    /\ overlap' = (overlap \/ \E s \in Runs : Live(s) \/ request[s] # None)
    /\ UNCHANGED <<branch, request, readBy, writes>>

\* The run may write, and goes on to sync what it wrote.
Writing(r, doc) ==
    /\ job[r].pc = "ready"
    /\ writes < MaxWrites
    /\ writes' = writes + 1
    /\ job' = [job EXCEPT ![r] = [pc |-> "sync", doc |-> doc, tries |-> 0]]
    /\ UNCHANGED <<branch, request, overlap>>

AppendRecord(r, intent, version) ==
    LET line == [intent |-> intent, version |-> version, by |-> r, at |-> writes + 1]
    IN  /\ Writing(r, None)
        /\ log' = [log EXCEPT ![r] = Append(@, line)]
        /\ readBy' = readBy \cup {<<l, line>> : l \in ToSet(log[r])}
        /\ UNCHANGED files

\* claim_intent, when no intent has the key.
Claim(r, k) ==
    /\ k \notin KeysOf(log[r])
    /\ AppendRecord(r, [key |-> k, by |-> r], 1)

\* transition_intent: the replayed version is counted up.
Transition(r, i) ==
    /\ \E l \in ToSet(log[r]) : l.intent = i
    /\ LET v == LastRecord(log[r], i).version IN
       /\ v < MaxVersion
       /\ AppendRecord(r, i, v + 1)

\* append_document.  A document whose id is taken is refused, which ends the run
\* as Stop does, or is there already.
Save(r, d) ==
    /\ ~\E e \in files[r] : e.id = d.id
    /\ Writing(r, d)
    /\ files' = [files EXCEPT ![r] = @ \cup {d}]
    /\ UNCHANGED <<log, readBy>>

\* The branch is made from the base ref; if another run made it meanwhile, that
\* is tolerated.
CreateBranch(r) ==
    /\ job[r].pc = "sync"
    /\ branch = None
    /\ branch' = BaseCommit
    /\ UNCHANGED <<log, files, job, request, readBy, writes, overlap>>

\* Another document stands at the path.
Conflict(doc) == \E e \in branch.files : e.path = doc.path /\ e # doc

\* One attempt of sync_paths up to the request that moves the branch.
Push(r) ==
    /\ job[r].pc = "sync"
    /\ branch # None
    /\ LET doc == job[r].doc
           merged == Merge(branch.log, log[r])
           next == IF doc = None
                   THEN [branch EXCEPT !.log = merged, !.number = @ + 1]
                   ELSE [branch EXCEPT !.files = {e \in @ : e.path # doc.path} \cup {doc},
                                       !.number = @ + 1]
       IN  /\ doc # None => ~Conflict(doc)
           /\ request' = [request EXCEPT ![r] = next]
           /\ log' = IF doc = None THEN [log EXCEPT ![r] = merged] ELSE log
    /\ job' = [job EXCEPT ![r].pc = "sent", ![r].tries = @ + 1]
    /\ UNCHANGED <<branch, files, readBy, writes, overlap>>

\* The bug of a branch that is moved by force.
FastForward_Fault(commit) == TRUE

\* The commit's parent is where the branch still points.
FastForward(commit) == commit.number = branch.number + 1

\* The bug of a lost race that is taken for a success.
AfterLoss_Fault(r) == "ready"

AfterLoss(r) == IF job[r].tries < MaxAttempts THEN "sync" ELSE "failed"

\* GitHub moves the branch to the commit or refuses; the run hears of it unless
\* it has given up.
Serve(r) ==
    /\ request[r] # None
    /\ request' = [request EXCEPT ![r] = None]
    /\ branch' = IF FastForward(request[r]) THEN request[r] ELSE branch
    /\ job' = IF job[r].pc # "sent" THEN job
              ELSE [job EXCEPT ![r].pc =
                      IF FastForward(request[r]) THEN "ready" ELSE AfterLoss(r)]
    /\ UNCHANGED <<log, files, readBy, writes, overlap>>

\* A request times out or fails, a write is refused or has lost too many races,
\* or the run is done or cancelled: its checkout is gone.
Stop(r) ==
    /\ Live(r)
    /\ job' = [job EXCEPT ![r] = [NoJob EXCEPT !.pc = "ended"]]
    /\ log' = [log EXCEPT ![r] = <<>>]
    /\ files' = [files EXCEPT ![r] = {}]
    /\ UNCHANGED <<branch, request, readBy, writes, overlap>>

\* A request that was given up never arrives.
Drop(r) ==
    /\ job[r].pc = "ended"
    /\ request[r] # None
    /\ request' = [request EXCEPT ![r] = None]
    /\ UNCHANGED <<branch, log, files, job, readBy, writes, overlap>>

Next ==
    \E r \in Runs :
        \/ Start(r)
        \/ \E k \in Keys : Claim(r, k)
        \/ \E i \in Intent : Transition(r, i)
        \/ \E d \in Docs : Save(r, d)
        \/ CreateBranch(r)
        \/ Push(r)
        \/ Serve(r)
        \/ Stop(r)
        \/ Drop(r)

Spec == Init /\ [][Next]_vars

-----------------------------------------------------------------------------
(* Properties. *)

Tip == IF branch = None THEN BaseCommit ELSE branch

\* How many records of the intent there are.
RecordsOf(lines, i) ==
    Cardinality({k \in DOMAIN lines : lines[k].intent = i})

\* Commits, checkouts and jobs have their types, and a request is open while a
\* run waits for its answer.
TypeOK ==
    /\ branch \in Commit \cup {None}
    /\ log \in [Runs -> Seq(Line)]
    /\ files \in [Runs -> SUBSET Docs]
    /\ job \in [Runs -> [pc : {"new", "ready", "sync", "sent", "failed",
                               "ended"},
                         doc : Docs \cup {None}, tries : 0 .. MaxAttempts]]
    /\ writes \in 0 .. MaxWrites
    /\ request \in [Runs -> Commit \cup {None}]
    /\ \A r \in Runs : job[r].pc = "sent" => request[r] # None
    /\ readBy \subseteq Line \X Line
    /\ overlap \in BOOLEAN

\* Whatever runs race, give up or come late: no line and no document that got to
\* the branch is ever lost, changed or moved on it.
BranchOnlyGrows ==
    [][/\ IsPrefix(Tip.log, Tip'.log)
       /\ Tip.files \subseteq Tip'.files]_vars

\* A write that returned is on the branch: everything a run has in its checkout
\* between two writes is, so what it goes on to do (call the agent) is covered
\* by what a later run will read.
SyncedIsOnBranch ==
    \A r \in Runs :
        job[r].pc = "ready" => /\ IsPrefix(log[r], Tip.log)
                               /\ files[r] \subseteq Tip.files

\* Retries and requests served late put no line on the branch twice, and every
\* line comes after those its run had read when it wrote it.
LinesInCausalOrder ==
    \A k \in DOMAIN Tip.log :
        /\ \A j \in 1 .. k - 1 : Tip.log[j] # Tip.log[k]
        /\ \A p \in readBy :
              p[2] = Tip.log[k] => \E j \in 1 .. k - 1 : Tip.log[j] = p[1]

\* As long as runs come one after the other and no request is served after the
\* run that made it was given up, they act as one: an intent per key, its
\* versions in order, and a document per id.
SequentialHistory ==
    ~overlap =>
        /\ \A k \in DOMAIN Tip.log :
              LET l == Tip.log[k] IN
              /\ l.version = RecordsOf(SubSeq(Tip.log, 1, k), l.intent)
              /\ \A j \in DOMAIN Tip.log :
                    Tip.log[j].intent.key = l.intent.key => Tip.log[j].intent = l.intent
        /\ \A d, e \in Tip.files : d.id = e.id => d = e
=============================================================================

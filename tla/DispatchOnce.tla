---------------------------- MODULE DispatchOnce ----------------------------
(***************************************************************************)
(* What the dispatcher promises of the tasks it hands to a coding agent,   *)
(* without deliveries, leases, versions or recoveries: a lock for each     *)
(* task, taken by one caller at a time.  Whoever holds it may place a call *)
(* as long as every earlier one has been given up, and the task becomes    *)
(* free again only while that is so.  A call that was given up may still   *)
(* arrive.  A task ends with an answer only if the agent has accepted it;  *)
(* otherwise it stays uncertain.                                           *)
(***************************************************************************)
EXTENDS Naturals

CONSTANTS Tasks, Callers

VARIABLES phase,     \* per task: absent, free, taken, ended or uncertain
          holders,   \* per task, the callers that hold its lock
          accepted,  \* per task, how many calls the agent has accepted
          lost,      \* per task, how many calls were given up
          late       \* per task, how many of those may still arrive

vars == <<phase, holders, accepted, lost, late>>

Init ==
    /\ phase = [k \in Tasks |-> "absent"]
    /\ holders = [k \in Tasks |-> {}]
    /\ accepted = [k \in Tasks |-> 0]
    /\ lost = [k \in Tasks |-> 0]
    /\ late = [k \in Tasks |-> 0]

\* Every call of task k so far has been given up.
Uncalled(k) == accepted[k] + late[k] <= lost[k]

Claim(k) ==
    /\ phase[k] = "absent"
    /\ phase' = [phase EXCEPT ![k] = "free"]
    /\ UNCHANGED <<holders, accepted, lost, late>>

Take(k, c) ==
    /\ phase[k] = "free" /\ holders[k] = {} /\ Uncalled(k)
    /\ phase' = [phase EXCEPT ![k] = "taken"]
    /\ holders' = [holders EXCEPT ![k] = {c}]
    /\ UNCHANGED <<accepted, lost, late>>

\* Caller c lets go of the lock, or keeps it to ask what became of its call.
KeepOrLeave(k, c) ==
    holders' = [holders EXCEPT ![k] = @ \ {c}] \/ UNCHANGED holders

\* The agent accepts the call of c.
Accept(k, c) ==
    /\ c \in holders[k] /\ Uncalled(k)
    /\ accepted' = [accepted EXCEPT ![k] = @ + 1]
    /\ KeepOrLeave(k, c)
    /\ UNCHANGED <<phase, lost, late>>

\* Caller c gives up a call that is still under way.
Lose(k, c) ==
    /\ c \in holders[k] /\ Uncalled(k)
    /\ lost' = [lost EXCEPT ![k] = @ + 1]
    /\ late' = [late EXCEPT ![k] = @ + 1]
    /\ KeepOrLeave(k, c)
    /\ UNCHANGED <<phase, accepted>>

Arrive(k) ==
    /\ late[k] > 0
    /\ late' = [late EXCEPT ![k] = @ - 1]
    /\ accepted' = [accepted EXCEPT ![k] = @ + 1]
    /\ UNCHANGED <<phase, holders, lost>>

\* Caller c knows of no run: the task can be taken again.
GiveBack(k, c) ==
    /\ phase[k] = "taken" /\ holders[k] = {c} /\ Uncalled(k)
    /\ phase' = [phase EXCEPT ![k] = "free"]
    /\ holders' = [holders EXCEPT ![k] = {}]
    /\ UNCHANGED <<accepted, lost, late>>

Leave(k, c) ==
    /\ c \in holders[k]
    /\ holders' = [holders EXCEPT ![k] = @ \ {c}]
    /\ UNCHANGED <<phase, accepted, lost, late>>

\* An end needs a run; whoever has lost track leaves the task uncertain.
Settle(k) ==
    /\ phase[k] \in {"free", "taken"}
    /\ \/ phase' = [phase EXCEPT ![k] = "ended"] /\ accepted[k] > 0
       \/ phase' = [phase EXCEPT ![k] = "uncertain"]
    /\ UNCHANGED <<holders, accepted, lost, late>>

Next ==
    \E k \in Tasks :
        \/ Claim(k) \/ Arrive(k) \/ Settle(k)
        \/ \E c \in Callers : Take(k, c) \/ Accept(k, c) \/ Lose(k, c)
                              \/ GiveBack(k, c) \/ Leave(k, c)

Spec == Init /\ [][Next]_vars
=============================================================================

---------------------------- MODULE TaskElection ----------------------------
(***************************************************************************)
(* The task election of one Datakit (taskElection of package election):    *)
(* the Datakit Operator answers each request with the inputs this node may *)
(* run.  The node takes a new list over at once and resumes its inputs     *)
(* when the same list has come three times more.                           *)
(*                                                                         *)
(* The operator is not part of the repository: its answer is any list, and *)
(* changes now and then.  A name stands for all the instances of an input. *)
(***************************************************************************)
EXTENDS Integers, Sequences, FiniteSets

CONSTANTS
    Names,          \* the inputs the operator can name
    Application,    \* applicationInputs: the ones this node has
    ChanCap,        \* ElectionPauseChannelLength
    MayTimeout,     \* may a Pause or Resume wait too long for room?
    MaxChanges,     \* bound on changes of the operator's mind
    MaxRestarts

\* A count of MatchedCap or more is kept at MatchedCap: the code compares it
\* with 3 alone.
MatchedCap == 4

VARIABLES
    running,    \* the keys of runningInputs
    matched,    \* matchedCount
    status,
    pc,         \* where Run is; "start" is its first pausePlugins
    todo,       \* the inputs that the loop over runningInputs has not signalled
    chan,       \* chan[i]: pauseCh of input i
    mode,       \* mode[i]: ipt.pause; "init" is FALSE before any signal
    alloc,      \* the operator's list for this node
    changes, restarts,
    missed      \* history: the last signal to i timed out

signals == <<chan, mode, missed>>
vars    == <<running, matched, status, pc, todo, signals, alloc, changes, restarts>>

Init ==
    /\ running = Application /\ matched = 0 /\ status = "fail"
    /\ pc = "start" /\ todo = Application
    /\ chan = [i \in Application |-> <<>>] /\ mode = [i \in Application |-> "init"]
    /\ alloc \in SUBSET Names /\ changes = 0 /\ restarts = 0 /\ missed = {}

----------------------------------------------------------------------------
(* pausePlugins and resumePlugins, in any order of the map's keys *)

Signalling == pc \in {"start", "pausing", "resuming"}
Signal     == IF pc = "resuming" THEN "running" ELSE "paused"

\* The status that runOnce ends with.
StatusOf(r) == IF r = {} THEN "fail" ELSE "success"

Send(i) ==
    /\ Signalling /\ i \in todo /\ Len(chan[i]) < ChanCap
    /\ chan' = [chan EXCEPT ![i] = Append(@, Signal)]
    /\ missed' = missed \ {i} /\ todo' = todo \ {i}
    /\ UNCHANGED <<running, matched, status, pc, mode, alloc, changes, restarts>>

SendTimesOut(i) ==
    /\ MayTimeout /\ Signalling /\ i \in todo /\ Len(chan[i]) >= ChanCap
    /\ missed' = missed \cup {i} /\ todo' = todo \ {i}
    /\ UNCHANGED <<running, matched, status, pc, chan, mode, alloc, changes, restarts>>

\* Mutant: the inputs stay paused.
SignalledBug ==
    /\ Signalling /\ todo = {} /\ pc' = "tick"
    /\ UNCHANGED <<running, matched, status, todo, signals, alloc, changes, restarts>>

\* The loop ends; resumePlugins follows pausePlugins.
Signalled ==
    /\ Signalling /\ todo = {}
    /\ pc' = IF pc = "pausing" THEN "resuming" ELSE "tick"
    /\ todo' = IF pc = "pausing" THEN running \cap Application ELSE {}
    /\ status' = IF pc = "resuming" THEN StatusOf(running) ELSE status
    /\ UNCHANGED <<running, matched, signals, alloc, changes, restarts>>

Receive(i) ==
    /\ chan[i] # <<>>
    /\ mode' = [mode EXCEPT ![i] = Head(chan[i])] /\ chan' = [chan EXCEPT ![i] = Tail(@)]
    /\ UNCHANGED <<running, matched, status, pc, todo, missed, alloc, changes, restarts>>

----------------------------------------------------------------------------
(* runOnce *)

Request ==
    /\ pc = "tick" /\ pc' = "sent"
    /\ UNCHANGED <<running, matched, status, todo, signals, alloc, changes, restarts>>

CallFails ==
    /\ pc = "sent" /\ pc' = "tick"
    /\ UNCHANGED <<running, matched, status, todo, signals, alloc, changes, restarts>>

\* match
Match(allowed) ==
    Cardinality(allowed) = Cardinality(running) /\ running \subseteq allowed

\* Mutant: the count is not reset.
NewListBug(allowed) ==
    /\ pc = "sent" /\ ~Match(allowed) /\ pc' = "tick"
    /\ running' = allowed /\ status' = StatusOf(allowed)
    /\ UNCHANGED <<matched, todo, signals, alloc, changes, restarts>>

\* Another list than the last one: it replaces runningInputs.
NewList(allowed) ==
    /\ pc = "sent" /\ ~Match(allowed) /\ pc' = "tick"
    /\ matched' = 0 /\ running' = allowed /\ status' = StatusOf(allowed)
    /\ UNCHANGED <<todo, signals, alloc, changes, restarts>>

\* Mutant: the count is unbounded.
SameListBug(allowed) ==
    /\ pc = "sent" /\ Match(allowed)
    /\ matched' = matched + 1 /\ status' = StatusOf(running)
    /\ IF matched' = 3 THEN pc' = "pausing" /\ todo' = running ELSE pc' = "tick" /\ todo' = {}
    /\ UNCHANGED <<running, signals, alloc, changes, restarts>>

\* The list of last time: at the third, pause and resume the inputs.
SameList(allowed) ==
    /\ pc = "sent" /\ Match(allowed)
    /\ matched' = IF matched < MatchedCap THEN matched + 1 ELSE matched
    /\ IF matched' = 3
       THEN pc' = "pausing" /\ todo' = running \cap Application /\ UNCHANGED status
       ELSE pc' = "tick" /\ UNCHANGED todo /\ status' = StatusOf(running)
    /\ UNCHANGED <<running, signals, alloc, changes, restarts>>

----------------------------------------------------------------------------
(* The environment *)

Reallocate ==
    /\ changes < MaxChanges /\ changes' = changes + 1
    /\ alloc' \in SUBSET Names
    /\ UNCHANGED <<running, matched, status, pc, todo, signals, restarts>>

Restart ==
    /\ restarts < MaxRestarts /\ restarts' = restarts + 1
    /\ running' = Application /\ matched' = 0 /\ status' = "fail"
    /\ pc' = "start" /\ todo' = Application
    /\ chan' = [i \in Application |-> <<>>] /\ mode' = [i \in Application |-> "init"]
    /\ missed' = {} /\ UNCHANGED <<alloc, changes>>

Answer == NewList(alloc) \/ SameList(alloc)

Next ==
    \/ \E i \in Application : Send(i) \/ SendTimesOut(i) \/ Receive(i)
    \/ Signalled \/ Request \/ CallFails \/ NewList(alloc) \/ SameList(alloc)
    \/ Reallocate \/ Restart

Spec == Init /\ [][Next]_vars

\* The election goroutine and the inputs run on, and the operator answers
\* again and again.
Working == (\E i \in Application : Send(i)) \/ Signalled \/ Request \/ CallFails
Fairness ==
    WF_vars(Working) /\ SF_vars(Answer) /\ \A i \in Application : WF_vars(Receive(i))

FairSpec == Spec /\ Fairness

----------------------------------------------------------------------------
(* Properties *)

\* Every variable has its type.
TypeOK ==
    /\ running \subseteq Names /\ matched \in 0..MatchedCap /\ status \in {"fail", "success"}
    /\ pc \in {"start", "tick", "sent", "pausing", "resuming"} /\ todo \subseteq Application
    /\ chan \in [Application -> Seq({"paused", "running"})]
    /\ mode \in [Application -> {"init", "paused", "running"}]
    /\ alloc \subseteq Names /\ changes \in 0..MaxChanges /\ restarts \in 0..MaxRestarts
    /\ missed \subseteq Application

\* What input i does once it has read its channel.
Final(i) == IF chan[i] = <<>> THEN mode[i] ELSE chan[i][Len(chan[i])]

\* Once a list has been confirmed three times and its inputs signalled, each of
\* them ends up running, whatever was signalled for earlier lists, unless its
\* last signal timed out.
ConfirmedInputsRun ==
    matched >= 3 /\ ~Signalling =>
        \A i \in (running \cap Application) \ missed : Final(i) = "running"

\* An input the operator leaves with this node is resumed in the end, unless
\* its last signal timed out: nothing repeats a lost Resume.
AllocatedRuns ==
    \A i \in Application :
        <>[](i \in alloc /\ i \notin missed) => <>[](mode[i] = "running")

\* An input that the operator has taken from this node is paused in the end,
\* when no signal to it timed out: the election is there "to avoid repeated
\* collection" (election.md).
RevokedPaused ==
    \A i \in Application :
        <>[](i \notin alloc /\ i \notin missed) => <>[](mode[i] = "paused")
=============================================================================

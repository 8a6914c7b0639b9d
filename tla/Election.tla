------------------------------ MODULE Election ------------------------------
(***************************************************************************)
(* election.Start: a Datakit whose election is enabled, and that is on the *)
(* whitelist if there is one, runs the leader election through Dataway or  *)
(* the task election of the operator, as its configuration says, and never *)
(* the other one.  The namespaces' other nodes have the same mode.         *)
(***************************************************************************)
EXTENDS LeaderElection

CONSTANTS
    Names, Application, MaxChanges  \* see TaskElection

ASSUME TaskAssumption ==
    Application \subseteq Names /\ IsFiniteSet(Names) /\ MaxChanges \in Nat

VARIABLES
    electMode,  \* "dataway" (LeaderElection) or "operator" (TaskElection)
    running, matched, taskStatus, taskPc, todo, taskChan, taskMode, alloc, changes,
    taskRestarts, taskMissed

taskVars == <<running, matched, taskStatus, taskPc, todo, taskChan, taskMode, alloc, changes,
              taskRestarts, taskMissed>>

Task == INSTANCE TaskElection WITH
            status <- taskStatus, pc <- taskPc, chan <- taskChan, mode <- taskMode,
            restarts <- taskRestarts, missed <- taskMissed

\* newLeaderElection or newTaskElection; the other one is never run, and in
\* the first case there is no operator.
StartInit ==
    /\ electMode \in {"dataway", "operator"} /\ Init /\ Task!Init
    /\ electMode = "dataway" => alloc = {}

\* Run of the one that was started.
StartNext ==
    \/ electMode = "dataway" /\ Next /\ UNCHANGED <<electMode, taskVars>>
    \/ electMode = "operator" /\ Task!Next /\ UNCHANGED <<electMode, vars>>

\* The fairness of the one that was started.
StartFairness ==
    /\ \A n \in Nodes :
        /\ WF_vars(electMode = "dataway" /\ (Send(n) \/ Call(n)))
        /\ WF_vars(electMode = "dataway" /\ HandleLate(n))
        /\ SF_vars(electMode = "dataway" /\ Handle(n))
        /\ SF_vars(electMode = "dataway" /\ Reply(n))
        /\ \A i \in Inputs : WF_vars(electMode = "dataway" /\ Receive(n, i))
    /\ WF_taskVars(electMode = "operator" /\ Task!Working)
    /\ SF_taskVars(electMode = "operator" /\ Task!Answer)
    /\ \A i \in Application : WF_taskVars(electMode = "operator" /\ Task!Receive(i))

StartSpec ==
    StartInit /\ [][StartNext]_<<electMode, vars, taskVars>> /\ StartFairness

----------------------------------------------------------------------------
(* Properties *)

\* The types of the task election's variables.
TaskTypeOK == Task!TypeOK

\* ConfirmedInputsRun of the task election.
TaskInputsConfirmed == Task!ConfirmedInputsRun

\* ExactlyOneCollects of the leader election, when it is the one that runs.
LeaderCollects == electMode = "dataway" => ExactlyOneCollects

\* AllocatedRuns of the task election, when it is the one that runs.
TaskAllocatedRuns == electMode = "operator" => Task!AllocatedRuns
=============================================================================

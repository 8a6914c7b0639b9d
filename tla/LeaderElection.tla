--------------------------- MODULE LeaderElection ---------------------------
(***************************************************************************)
(* The self-election of Datakits in one namespace (package election).      *)
(* Every node asks the centre, through Dataway, to be elected; the elected *)
(* one sends heartbeats.  A node signals its inputs over their pause       *)
(* channels: it pauses them at its start and when the centre denies a      *)
(* heartbeat, and resumes them when it is elected.                         *)
(*                                                                         *)
(* The centre is not part of the repository.  It is modelled from the      *)
(* answers leaderElection expects: it has one incumbent, grants a free     *)
(* seat, and takes it back when it misses heartbeats.                      *)
(***************************************************************************)
EXTENDS Integers, Sequences, FiniteSets

CONSTANTS
    Nodes,
    NoNode,
    NInputs,        \* len(x.plugins), the same on every node
    ChanCap,        \* ElectionPauseChannelLength
    MayTimeout,     \* may a Pause or Resume wait too long for room?
    MaxExpiries,    \* bound on how often the centre takes the seat back
    MaxRestarts,    \* bound on restarts of nodes
    MaxCuts         \* bound on nodes that lose the centre for good

Inputs == 1..NInputs

ASSUME ElectionAssumption ==
    /\ NoNode \notin Nodes /\ NInputs \in Nat \ {0} /\ ChanCap \in Nat \ {0}
    /\ MayTimeout \in BOOLEAN
    /\ MaxExpiries \in Nat /\ MaxRestarts \in Nat /\ MaxCuts \in Nat

VARIABLES
    status,     \* status[n]: "fail" or "success"
    pc,         \* pc[n]: where Run is
    plug,       \* plug[n]: the input that is signalled next
    reply,      \* reply[n]: the centre's answer on its way to n
    chan,       \* chan[n][i]: pauseCh of input i
    mode,       \* mode[n][i]: ipt.pause; "init" is FALSE before any signal
    incumbent,  \* the centre's leader
    late,       \* nodes with an election request that they gave up and that
                \* has still to reach the centre
    cut,        \* nodes without a way to the centre
    expiries, restarts,
    \* history
    missed,     \* <<n, i>>: the last signal to input i timed out
    won         \* won[n]: n was elected since its start

node   == <<status, pc, plug>>
input  == <<chan, mode, missed>>
centre == <<reply, incumbent, late, expiries>>
vars   == <<node, input, centre, cut, restarts, won>>

Init ==
    /\ status = [n \in Nodes |-> "fail"] /\ pc = [n \in Nodes |-> "pausing"]
    /\ plug = [n \in Nodes |-> 1] /\ reply = [n \in Nodes |-> "none"]
    /\ chan = [n \in Nodes |-> [i \in Inputs |-> <<>>]]
    /\ mode = [n \in Nodes |-> [i \in Inputs |-> "init"]]
    /\ incumbent = NoNode /\ late = {} /\ cut = {}
    /\ expiries = 0 /\ restarts = 0 /\ missed = {} /\ won = [n \in Nodes |-> FALSE]

Goto(n, l) == pc' = [pc EXCEPT ![n] = l]

----------------------------------------------------------------------------
(* Pause and Resume of the inputs *)

Signalling(n) == pc[n] \in {"pausing", "resuming"}
Signal(n)     == IF pc[n] = "pausing" THEN "paused" ELSE "running"

\* Mutant: the loop runs one input too far.
NextPlugBug(n) ==
    IF plug[n] <= NInputs
    THEN plug' = [plug EXCEPT ![n] = @ + 1] /\ UNCHANGED pc
    ELSE plug' = [plug EXCEPT ![n] = 1] /\ Goto(n, "tick")

\* pausePlugins and resumePlugins: on to the next input, or back to the select.
NextPlug(n) ==
    IF plug[n] < NInputs
    THEN plug' = [plug EXCEPT ![n] = @ + 1] /\ UNCHANGED pc
    ELSE plug' = [plug EXCEPT ![n] = 1] /\ Goto(n, "tick")

\* The channel has room: the signal is queued.
Send(n) ==
    LET i == plug[n] IN
    /\ Signalling(n) /\ Len(chan[n][i]) < ChanCap
    /\ chan' = [chan EXCEPT ![n][i] = Append(@, Signal(n))]
    /\ missed' = missed \ {<<n, i>>}
    /\ NextPlug(n)
    /\ UNCHANGED <<status, mode, centre, cut, restarts, won>>

\* It stays full for ElectionPauseTimeout: the error is logged and that is all.
SendTimesOut(n) ==
    /\ MayTimeout /\ Signalling(n) /\ Len(chan[n][plug[n]]) >= ChanCap
    /\ missed' = missed \cup {<<n, plug[n]>>}
    /\ NextPlug(n)
    /\ UNCHANGED <<status, chan, mode, centre, cut, restarts, won>>

\* The input's loop: ipt.pause = <-ipt.pauseCh.
Receive(n, i) ==
    /\ chan[n][i] # <<>>
    /\ mode' = [mode EXCEPT ![n][i] = Head(chan[n][i])]
    /\ chan' = [chan EXCEPT ![n][i] = Tail(@)]
    /\ UNCHANGED <<node, missed, centre, cut, restarts, won>>

----------------------------------------------------------------------------
(* runOnce: tryElection when the status is fail, keepalive when success *)

Request(n) ==
    /\ pc[n] = "tick" /\ Goto(n, "sent")
    /\ UNCHANGED <<status, plug, input, centre, cut, restarts, won>>

\* The centre answers puller.Election or puller.ElectionHeartbeat.
Grant(n) == incumbent = n \/ (status[n] = "fail" /\ incumbent = NoNode)

Handle(n) ==
    /\ pc[n] = "sent" /\ n \notin cut /\ Goto(n, "replied")
    /\ reply' = [reply EXCEPT ![n] = IF Grant(n) THEN "success" ELSE "defeat"]
    /\ incumbent' = IF Grant(n) THEN n ELSE incumbent
    /\ UNCHANGED <<status, plug, input, late, expiries, cut, restarts, won>>

\* The puller returns an error, or a body that does not unmarshal or has an
\* unknown status: the status stays as it is.  The request may be lost, or
\* reach the centre later, or have been handled.
CallFails(n) ==
    /\ pc[n] \in {"sent", "replied"} /\ Goto(n, "tick")
    /\ reply' = [reply EXCEPT ![n] = "none"]
    /\ late' \in {late} \cup
         IF pc[n] = "sent" /\ status[n] = "fail" /\ n \notin cut
         THEN {late \cup {n}} ELSE {}
    /\ UNCHANGED <<status, plug, input, incumbent, expiries, cut, restarts, won>>

HandleLate(n) ==
    /\ n \in late /\ late' = late \ {n}
    /\ incumbent' = IF incumbent = NoNode THEN n ELSE incumbent
    /\ UNCHANGED <<node, input, reply, expiries, cut, restarts, won>>

\* Mutant: the inputs are resumed on every answer to an election request.
DefeatedBug(n) ==
    /\ pc[n] = "replied" /\ status[n] = "fail" /\ reply[n] = "defeat"
    /\ Goto(n, "resuming") /\ reply' = [reply EXCEPT ![n] = "none"]
    /\ UNCHANGED <<status, plug, input, incumbent, late, expiries, cut, restarts, won>>

\* tryElection, defeat
Defeated(n) ==
    /\ pc[n] = "replied" /\ status[n] = "fail" /\ reply[n] = "defeat"
    /\ Goto(n, "tick") /\ reply' = [reply EXCEPT ![n] = "none"]
    /\ UNCHANGED <<status, plug, input, incumbent, late, expiries, cut, restarts, won>>

\* tryElection, success
Elected(n) ==
    /\ pc[n] = "replied" /\ status[n] = "fail" /\ reply[n] = "success"
    /\ status' = [status EXCEPT ![n] = "success"] /\ won' = [won EXCEPT ![n] = TRUE]
    /\ Goto(n, "resuming") /\ reply' = [reply EXCEPT ![n] = "none"]
    /\ UNCHANGED <<plug, input, incumbent, late, expiries, cut, restarts>>

\* keepalive, success
Alive(n) ==
    /\ pc[n] = "replied" /\ status[n] = "success" /\ reply[n] = "success"
    /\ Goto(n, "tick") /\ reply' = [reply EXCEPT ![n] = "none"]
    /\ UNCHANGED <<status, plug, input, incumbent, late, expiries, cut, restarts, won>>

\* Mutant: the status is set and the inputs go on.
SteppedDownBug(n) ==
    /\ pc[n] = "replied" /\ status[n] = "success" /\ reply[n] = "defeat"
    /\ status' = [status EXCEPT ![n] = "fail"]
    /\ Goto(n, "tick") /\ reply' = [reply EXCEPT ![n] = "none"]
    /\ UNCHANGED <<plug, input, incumbent, late, expiries, cut, restarts, won>>

\* keepalive, defeat
SteppedDown(n) ==
    /\ pc[n] = "replied" /\ status[n] = "success" /\ reply[n] = "defeat"
    /\ status' = [status EXCEPT ![n] = "fail"]
    /\ Goto(n, "pausing") /\ reply' = [reply EXCEPT ![n] = "none"]
    /\ UNCHANGED <<plug, input, incumbent, late, expiries, cut, restarts, won>>

----------------------------------------------------------------------------
(* The environment *)

\* The centre has missed heartbeats of its incumbent.
Expire ==
    /\ incumbent # NoNode /\ expiries < MaxExpiries /\ expiries' = expiries + 1
    /\ incumbent' = NoNode
    /\ UNCHANGED <<node, input, reply, late, cut, restarts, won>>

\* The node loses the centre and does not find it again.
Cut(n) ==
    /\ Cardinality(cut) < MaxCuts /\ n \notin cut
    /\ cut' = cut \cup {n} /\ late' = late \ {n}
    /\ UNCHANGED <<node, input, reply, incumbent, expiries, restarts, won>>

\* The process of the node ends and is started again.
Restart(n) ==
    /\ restarts < MaxRestarts /\ restarts' = restarts + 1
    /\ status' = [status EXCEPT ![n] = "fail"] /\ Goto(n, "pausing")
    /\ plug' = [plug EXCEPT ![n] = 1] /\ reply' = [reply EXCEPT ![n] = "none"]
    /\ chan' = [chan EXCEPT ![n] = [i \in Inputs |-> <<>>]]
    /\ mode' = [mode EXCEPT ![n] = [i \in Inputs |-> "init"]]
    /\ missed' = {p \in missed : p[1] # n} /\ won' = [won EXCEPT ![n] = FALSE]
    /\ UNCHANGED <<incumbent, late, expiries, cut>>

Call(n)  == Request(n) \/ CallFails(n)
Reply(n) == Defeated(n) \/ Elected(n) \/ Alive(n) \/ SteppedDown(n)

Next ==
    \/ \E n \in Nodes :
        \/ Send(n) \/ SendTimesOut(n) \/ Call(n) \/ Handle(n) \/ HandleLate(n)
        \/ Reply(n) \/ Cut(n) \/ Restart(n)
        \/ \E i \in Inputs : Receive(n, i)
    \/ Expire

Spec == Init /\ [][Next]_vars

\* The election goroutine and the loops of the inputs run on, and a node that
\* is not cut off gets an answer again and again.
Fairness ==
    \A n \in Nodes :
        /\ WF_vars(Send(n) \/ Call(n)) /\ WF_vars(HandleLate(n))
        /\ SF_vars(Handle(n)) /\ SF_vars(Reply(n))
        /\ \A i \in Inputs : WF_vars(Receive(n, i))

FairSpec == Spec /\ Fairness

----------------------------------------------------------------------------
(* Properties *)

Modes == {"init", "paused", "running"}

\* Every variable has its type.
TypeOK ==
    /\ status \in [Nodes -> {"fail", "success"}]
    /\ pc \in [Nodes -> {"pausing", "resuming", "tick", "sent", "replied"}]
    /\ plug \in [Nodes -> Inputs] /\ reply \in [Nodes -> {"none", "success", "defeat"}]
    /\ chan \in [Nodes -> [Inputs -> Seq({"paused", "running"})]]
    /\ mode \in [Nodes -> [Inputs -> Modes]]
    /\ incumbent \in Nodes \cup {NoNode} /\ late \subseteq Nodes /\ cut \subseteq Nodes
    /\ expiries \in 0..MaxExpiries /\ restarts \in 0..MaxRestarts
    /\ missed \subseteq Nodes \X Inputs /\ won \in [Nodes -> BOOLEAN]

\* What input i does once it has read its channel.
Final(n, i) == IF chan[n][i] = <<>> THEN mode[n][i] ELSE chan[n][i][Len(chan[n][i])]

\* The loop of pausePlugins or resumePlugins has been at input i.
Signalled(n, i) == Signalling(n) => i < plug[n]

\* The inputs follow the election: an input that has been signalled ends up
\* running exactly when its node is elected, however many signals of earlier
\* wins and defeats are still queued, unless its last signal timed out.
InputsFollowStatus ==
    \A n \in Nodes, i \in Inputs :
        Signalled(n, i) /\ <<n, i>> \notin missed =>
            Final(n, i) = IF status[n] = "success" THEN "running" ELSE "paused"

\* After its first signal an input runs only on a node that was elected since
\* it started, also when signals time out.
RunsOnlyIfElected ==
    \A n \in Nodes, i \in Inputs :
        (mode[n][i] = "running" \/ \E k \in DOMAIN chan[n][i] : chan[n][i][k] = "running")
            => won[n]

Collecting(i) == {n \in Nodes : mode[n][i] # "paused"}
OneCollector  == \A i \in Inputs : \E n \in Nodes : Collecting(i) = {n}

\* Unless a node is cut off or a signal has timed out, in the end every input
\* is collected by exactly one node, for good: no node that lost its seat goes
\* on, and the one that has the seat knows it, even if its request was granted
\* after it gave up waiting.
ExactlyOneCollects == <>[](cut = {} /\ missed = {} => OneCollector)

\* A leader whose heartbeats fail for good becomes a candidate again
\* (comment at the head of leader_election.go).
StepsDownWhenCutOff ==
    \A n \in Nodes : n \in cut ~> status[n] = "fail"
=============================================================================

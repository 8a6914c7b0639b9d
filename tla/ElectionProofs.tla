--------------------------- MODULE ElectionProofs ---------------------------
(***************************************************************************)
(* Proofs about LeaderElection, TaskElection and the Datakit that runs one *)
(* of the two: for any number of nodes and inputs, any lists of the        *)
(* operator, any capacity of the pause channels, and any number of         *)
(* restarts, expiries, timeouts and lost or late calls.                    *)
(***************************************************************************)
EXTENDS Election, TLAPS

----------------------------------------------------------------------------
(* The pause channel of an input is a queue of signals of which only the    *)
(* last one counts in the end: what Append and Tail do to the last one.     *)

\* The signal that is sent last is the last one.
LEMMA LastAppend ==
    ASSUME NEW S, NEW s \in Seq(S), NEW x \in S
    PROVE  /\ Append(s, x) \in Seq(S) /\ Append(s, x) # <<>>
           /\ Append(s, x)[Len(Append(s, x))] = x
           /\ \A y : (\E k \in DOMAIN Append(s, x) : Append(s, x)[k] = y) =>
                        y = x \/ \E k \in DOMAIN s : s[k] = y
<1>1. /\ Append(s, x) \in Seq(S) /\ Len(Append(s, x)) = Len(s) + 1 /\ Len(s) \in Nat
      /\ Append(s, x)[Len(s) + 1] = x /\ \A k \in 1..Len(s) : Append(s, x)[k] = s[k]
    OBVIOUS
<1>2. DOMAIN s = 1..Len(s) /\ DOMAIN Append(s, x) = 1..(Len(s) + 1)
    BY <1>1
<1>3. Append(s, x) # <<>>
    BY <1>1
<1>4. ASSUME NEW y, NEW k \in 1..(Len(s) + 1), Append(s, x)[k] = y
      PROVE  y = x \/ \E j \in DOMAIN s : s[j] = y
    <2>1. CASE k = Len(s) + 1
        BY <1>1, <1>4, <2>1
    <2>2. CASE k \in 1..Len(s)
        BY <1>1, <1>2, <1>4, <2>2
    <2>. QED  BY <1>1, <2>1, <2>2
<1>. QED  BY <1>1, <1>2, <1>3, <1>4

\* An empty channel has no last signal.
LEMMA EmptyLen == ASSUME NEW t, t = <<>> PROVE Len(t) = 0
OBVIOUS

\* Receiving a signal leaves the last one, or was the last one.
LEMMA LastTail ==
    ASSUME NEW S, NEW s \in Seq(S), s # <<>>
    PROVE  /\ Head(s) \in S /\ Tail(s) \in Seq(S)
           /\ Tail(s) = <<>> => Head(s) = s[Len(s)]
           /\ Tail(s) # <<>> => Tail(s)[Len(Tail(s))] = s[Len(s)]
           /\ \E k \in DOMAIN s : s[k] = Head(s)
           /\ \A y : (\E k \in DOMAIN Tail(s) : Tail(s)[k] = y) => \E k \in DOMAIN s : s[k] = y
<1>1. /\ Head(s) = s[1] /\ Head(s) \in S /\ Tail(s) \in Seq(S)
      /\ Len(s) \in Nat \ {0} /\ Len(Tail(s)) = Len(s) - 1
      /\ \A k \in 1..(Len(s) - 1) : Tail(s)[k] = s[k + 1]
    OBVIOUS
<1>2. DOMAIN s = 1..Len(s) /\ DOMAIN Tail(s) = 1..(Len(s) - 1)
    BY <1>1
<1>3. ASSUME Tail(s) = <<>> PROVE Head(s) = s[Len(s)]
    <2>1. Len(Tail(s)) = 0
        BY ONLY <1>3, EmptyLen, Zenon
    <2>2. Len(s) - 1 = 0 /\ Len(s) \in Nat
        BY ONLY <1>1, <2>1, Zenon
    <2>3. Len(s) = 1
        BY ONLY <2>2
    <2>. QED  BY <1>1, <2>3
<1>4. ASSUME Tail(s) # <<>> PROVE Tail(s)[Len(Tail(s))] = s[Len(s)]
    <2>1. Len(Tail(s)) # 0
        BY <1>1, <1>4
    <2>2. Len(s) - 1 \in 1..(Len(s) - 1) /\ (Len(s) - 1) + 1 = Len(s)
        BY <1>1, <2>1
    <2>. QED  BY <1>1, <2>2
<1>5. ASSUME NEW y, NEW k \in 1..(Len(s) - 1), Tail(s)[k] = y
      PROVE  \E j \in DOMAIN s : s[j] = y
    <2>1. k + 1 \in 1..Len(s) /\ s[k + 1] = y
        BY <1>1, <1>5
    <2>. QED  BY <1>2, <2>1
<1>6. \E k \in DOMAIN s : s[k] = Head(s)
    <2>1. 1 \in 1..Len(s)
        BY <1>1
    <2>. QED  BY <1>1, <1>2, <2>1
<1>. QED  BY <1>1, <1>2, <1>3, <1>4, <1>5, <1>6

Signals == {"paused", "running"}

----------------------------------------------------------------------------
(* Types, and where Run is *)

\* While a node pauses its inputs it is not elected, while it resumes them it
\* is, and a loop over the inputs starts with the first one.
LoopInv ==
    \A n \in Nodes :
        /\ pc[n] = "pausing" => status[n] = "fail"
        /\ status[n] = "success" => won[n]
        /\ pc[n] = "resuming" => status[n] = "success"
        /\ ~Signalling(n) => plug[n] = 1

TypeInv == TypeOK /\ LoopInv

\* The step to the next input keeps the loop variables in range.
LEMMA NextPlugType ==
    ASSUME TypeInv, NEW n \in Nodes, NextPlug(n), Signalling(n), UNCHANGED <<status, won>>
    PROVE  /\ plug' \in [Nodes -> Inputs]
           /\ pc' \in [Nodes -> {"pausing", "resuming", "tick", "sent", "replied"}]
           /\ LoopInv'
<1>1. CASE plug[n] < NInputs /\ plug' = [plug EXCEPT ![n] = @ + 1] /\ UNCHANGED pc
    <2>1. plug[n] + 1 \in Inputs
        BY <1>1, ElectionAssumption DEF TypeInv, TypeOK, Inputs
    <2>2. plug' \in [Nodes -> Inputs]
        BY <1>1, <2>1 DEF TypeInv, TypeOK
    <2>. QED  BY <1>1, <2>2 DEF TypeInv, TypeOK, LoopInv, Signalling
<1>2. CASE plug' = [plug EXCEPT ![n] = 1] /\ Goto(n, "tick")
    <2>1. 1 \in Inputs
        BY ElectionAssumption DEF Inputs
    <2>2. /\ plug' \in [Nodes -> Inputs]
          /\ pc' \in [Nodes -> {"pausing", "resuming", "tick", "sent", "replied"}]
        BY <1>2, <2>1 DEF TypeInv, TypeOK, Goto
    <2>. QED  BY <1>2, <2>2 DEF TypeInv, TypeOK, LoopInv, Signalling, Goto
<1>. QED  BY <1>1, <1>2 DEF NextPlug

\* The types and the position of the signalling loop are kept by every step.
LEMMA TypeStep == TypeInv /\ [Next]_vars => TypeInv'
<1>. SUFFICES ASSUME TypeInv, TypeOK, LoopInv, [Next]_vars PROVE TypeOK' /\ LoopInv'
    BY DEF TypeInv
<1>. USE ElectionAssumption DEF node, input, centre
<1>1. ASSUME NEW n \in Nodes, Send(n) PROVE TypeOK' /\ LoopInv'
    <2>. DEFINE i == plug[n]
    <2>1. i \in Inputs /\ chan[n][i] \in Seq(Signals) /\ Signal(n) \in Signals
        BY DEF TypeOK, Signals, Signal
    <2>2. Append(chan[n][i], Signal(n)) \in Seq(Signals)
        BY <2>1, LastAppend
    <2>3. chan' \in [Nodes -> [Inputs -> Seq(Signals)]]
        BY <1>1, <2>1, <2>2 DEF TypeOK, Send, Signals
    <2>4. missed' \subseteq Nodes \X Inputs
        BY <1>1 DEF TypeOK, Send
    <2>5. /\ plug' \in [Nodes -> Inputs]
          /\ pc' \in [Nodes -> {"pausing", "resuming", "tick", "sent", "replied"}]
          /\ LoopInv'
        BY <1>1, NextPlugType DEF Send
    <2>. QED  BY <1>1, <2>3, <2>4, <2>5 DEF TypeOK, Send, Signals
<1>2. ASSUME NEW n \in Nodes, SendTimesOut(n) PROVE TypeOK' /\ LoopInv'
    <2>1. missed' \subseteq Nodes \X Inputs
        BY <1>2 DEF TypeOK, SendTimesOut
    <2>2. /\ plug' \in [Nodes -> Inputs]
          /\ pc' \in [Nodes -> {"pausing", "resuming", "tick", "sent", "replied"}]
          /\ LoopInv'
        BY <1>2, NextPlugType DEF SendTimesOut
    <2>. QED  BY <1>2, <2>1, <2>2 DEF TypeOK, SendTimesOut
<1>3. ASSUME NEW n \in Nodes, NEW i \in Inputs, Receive(n, i) PROVE TypeOK' /\ LoopInv'
    <2>1. chan[n][i] \in Seq(Signals) /\ chan[n][i] # <<>>
        BY <1>3 DEF TypeOK, Receive, Signals
    <2>2. Head(chan[n][i]) \in Signals /\ Tail(chan[n][i]) \in Seq(Signals)
        BY <2>1, LastTail
    <2>3. chan' \in [Nodes -> [Inputs -> Seq(Signals)]]
        BY <1>3, <2>2 DEF TypeOK, Receive, Signals
    <2>4. mode' \in [Nodes -> [Inputs -> Modes]]
        BY <1>3, <2>2 DEF TypeOK, Receive, Signals, Modes
    <2>. QED  BY <1>3, <2>3, <2>4 DEF TypeOK, LoopInv, Receive, Signals, Signalling
<1>4. ASSUME NEW n \in Nodes, Call(n) \/ Handle(n) \/ HandleLate(n) PROVE TypeOK' /\ LoopInv'
    <2>1. CASE Request(n)
        BY <2>1 DEF TypeOK, LoopInv, Request, Goto, Signalling
    <2>2. CASE CallFails(n)
        <3>1. late' \subseteq Nodes
            BY <2>2 DEF TypeOK, CallFails
        <3>. QED  BY <2>2, <3>1 DEF TypeOK, LoopInv, CallFails, Goto, Signalling
    <2>3. CASE Handle(n)
        BY <2>3 DEF TypeOK, LoopInv, Handle, Goto, Signalling
    <2>4. CASE HandleLate(n)
        BY <2>4 DEF TypeOK, LoopInv, HandleLate, Signalling
    <2>. QED  BY <1>4, <2>1, <2>2, <2>3, <2>4 DEF Call
<1>5. ASSUME NEW n \in Nodes, Reply(n) PROVE TypeOK' /\ LoopInv'
    <2>1. CASE Defeated(n)
        BY <2>1 DEF TypeOK, LoopInv, Defeated, Goto, Signalling
    <2>2. CASE Elected(n)
        BY <2>2 DEF TypeOK, LoopInv, Elected, Goto, Signalling
    <2>3. CASE Alive(n)
        BY <2>3 DEF TypeOK, LoopInv, Alive, Goto, Signalling
    <2>4. CASE SteppedDown(n)
        BY <2>4 DEF TypeOK, LoopInv, SteppedDown, Goto, Signalling
    <2>. QED  BY <1>5, <2>1, <2>2, <2>3, <2>4 DEF Reply
<1>6. ASSUME NEW n \in Nodes, Cut(n) PROVE TypeOK' /\ LoopInv'
    BY <1>6 DEF TypeOK, LoopInv, Cut, Signalling
<1>7. ASSUME NEW n \in Nodes, Restart(n) PROVE TypeOK' /\ LoopInv'
    <2>1. 1 \in Inputs /\ [i \in Inputs |-> <<>>] \in [Inputs -> Seq(Signals)]
        BY DEF Inputs
    <2>2. chan' \in [Nodes -> [Inputs -> Seq(Signals)]] /\ plug' \in [Nodes -> Inputs]
        BY <1>7, <2>1 DEF TypeOK, Restart, Signals
    <2>3. mode' \in [Nodes -> [Inputs -> Modes]] /\ missed' \subseteq Nodes \X Inputs
        BY <1>7 DEF TypeOK, Restart, Modes
    <2>. QED  BY <1>7, <2>2, <2>3 DEF TypeOK, LoopInv, Restart, Goto, Signals, Signalling
<1>8. CASE Expire
    BY <1>8 DEF TypeOK, LoopInv, Expire, Signalling
<1>9. CASE UNCHANGED vars
    BY <1>9 DEF TypeOK, LoopInv, vars, Signalling
<1>. QED  BY <1>1, <1>2, <1>3, <1>4, <1>5, <1>6, <1>7, <1>8, <1>9 DEF Next

\* TypeInv is an inductive invariant.
LEMMA TypeInvariant == Spec => []TypeInv
<1>1. Init => TypeInv
    <2>. SUFFICES ASSUME Init PROVE TypeInv
        OBVIOUS
    <2>1. 1 \in Inputs /\ 0 \in 0..MaxExpiries /\ 0 \in 0..MaxRestarts
        BY ElectionAssumption DEF Inputs
    <2>2. chan \in [Nodes -> [Inputs -> Seq({"paused", "running"})]]
        BY DEF Init
    <2>. QED  BY <2>1, <2>2 DEF Init, TypeInv, TypeOK, LoopInv, Modes, Signalling
<1>. QED  BY <1>1, TypeStep, PTL DEF Spec

----------------------------------------------------------------------------
(* The inputs follow the election *)

\* A step that leaves channels, modes, timeouts and the status of every node,
\* and starts no loop over inputs without ending it.
LEMMA FollowFrame ==
    ASSUME InputsFollowStatus, UNCHANGED <<chan, mode, missed, status>>,
           \A n \in Nodes : Signalling(n) => pc'[n] = pc[n] /\ plug'[n] = plug[n]
    PROVE  InputsFollowStatus'
<1>1. \A n \in Nodes, i \in Inputs : Signalled(n, i)' => Signalled(n, i)
    BY DEF Signalled, Signalling
<1>2. \A n \in Nodes, i \in Inputs : Final(n, i)' = Final(n, i)
    BY DEF Final
<1>. QED  BY <1>1, <1>2 DEF InputsFollowStatus

\* A step that starts a loop over the inputs of n owes all of them a signal.
LEMMA StartLoop ==
    ASSUME InputsFollowStatus, NEW n \in Nodes, Signalling(n)', plug'[n] = 1,
           \A m \in Nodes \ {n} :
               /\ chan'[m] = chan[m] /\ mode'[m] = mode[m] /\ status'[m] = status[m]
               /\ pc'[m] = pc[m] /\ plug'[m] = plug[m]
               /\ \A i \in Inputs : <<m, i>> \in missed => <<m, i>> \in missed'
    PROVE  InputsFollowStatus'
<1>. SUFFICES ASSUME NEW m \in Nodes, NEW i \in Inputs,
                     Signalled(m, i)', <<m, i>> \notin missed'
              PROVE  Final(m, i)' = IF status'[m] = "success" THEN "running" ELSE "paused"
    BY DEF InputsFollowStatus
<1>1. m # n
    BY ElectionAssumption DEF Signalled, Inputs
<1>2. Signalled(m, i) /\ <<m, i>> \notin missed /\ Final(m, i)' = Final(m, i)
    BY <1>1 DEF Signalled, Signalling, Final
<1>. QED  BY <1>1, <1>2 DEF InputsFollowStatus

\* After NextPlug the loop has been at no more inputs than before and plug[n].
LEMMA NextPlugSignalled ==
    ASSUME TypeInv, NEW n \in Nodes, Signalling(n), NextPlug(n),
           NEW m \in Nodes, NEW i \in Inputs, Signalled(m, i)'
    PROVE  Signalled(m, i) \/ (m = n /\ i = plug[n])
<1>1. CASE m # n
    BY <1>1 DEF TypeInv, TypeOK, NextPlug, Goto, Signalled, Signalling
<1>2. CASE m = n /\ plug[n] < NInputs
    <2>1. plug'[n] = plug[n] + 1 /\ pc'[n] = pc[n] /\ plug[n] \in Int /\ i \in Int
        BY <1>2, ElectionAssumption DEF TypeInv, TypeOK, NextPlug, Inputs
    <2>2. i < plug[n] + 1
        BY <1>2, <2>1 DEF Signalled, Signalling
    <2>. QED  BY <1>2, <2>1, <2>2 DEF Signalled
<1>3. CASE m = n /\ ~(plug[n] < NInputs)
    <2>1. plug[n] = NInputs /\ i <= NInputs /\ i \in Int /\ plug[n] \in Int
        BY <1>3, ElectionAssumption DEF TypeInv, TypeOK, Inputs
    <2>. QED  BY <1>3, <2>1 DEF Signalled
<1>. QED  BY <1>1, <1>2, <1>3

\* Every step keeps the inputs in line with the status: Send puts the signal
\* that fits the status behind those that are queued, SendTimesOut is
\* recorded, Receive takes the oldest signal, and every change of the status
\* starts a loop over all inputs.
LEMMA FollowStep ==
    TypeInv /\ InputsFollowStatus /\ [Next]_vars => InputsFollowStatus'
<1>. SUFFICES ASSUME TypeInv, TypeOK, LoopInv, InputsFollowStatus, [Next]_vars
              PROVE  InputsFollowStatus'
    BY DEF TypeInv
<1>. USE ElectionAssumption DEF node, input, centre
<1>1. ASSUME NEW n \in Nodes, Send(n) PROVE InputsFollowStatus'
    <2>. SUFFICES ASSUME NEW m \in Nodes, NEW i \in Inputs,
                         Signalled(m, i)', <<m, i>> \notin missed'
                  PROVE  Final(m, i)' = IF status'[m] = "success" THEN "running" ELSE "paused"
        BY DEF InputsFollowStatus
    <2>1. Signalled(m, i) \/ (m = n /\ i = plug[n])
        BY <1>1, NextPlugSignalled DEF Send
    <2>2. CASE m = n /\ i = plug[n]
        <3>1. chan[n][i] \in Seq(Signals) /\ Signal(n) \in Signals
            BY DEF TypeOK, Signals, Signal
        <3>2. chan'[n][i] = Append(chan[n][i], Signal(n))
            BY <1>1, <2>2 DEF TypeOK, Send
        <3>a. LET t == Append(chan[n][i], Signal(n)) IN t # <<>> /\ t[Len(t)] = Signal(n)
            BY <3>1, LastAppend
        <3>3. Final(n, i)' = Signal(n)
            BY <3>2, <3>a DEF Final
        <3>4. status'[n] = status[n]
                /\ Signal(n) = IF status[n] = "success" THEN "running" ELSE "paused"
            BY <1>1 DEF Send, Signal, Signalling, LoopInv
        <3>. QED  BY <2>2, <3>3, <3>4
    <2>3. CASE ~(m = n /\ i = plug[n])
        <3>1. chan'[m][i] = chan[m][i] /\ <<m, i>> \notin missed /\ UNCHANGED <<mode, status>>
            BY <1>1, <2>3 DEF TypeOK, Send
        <3>2. Final(m, i)' = Final(m, i)
            BY <3>1 DEF Final
        <3>. QED  BY <2>1, <2>3, <3>1, <3>2 DEF InputsFollowStatus
    <2>. QED  BY <2>2, <2>3
<1>2. ASSUME NEW n \in Nodes, SendTimesOut(n) PROVE InputsFollowStatus'
    <2>. SUFFICES ASSUME NEW m \in Nodes, NEW i \in Inputs,
                         Signalled(m, i)', <<m, i>> \notin missed'
                  PROVE  Final(m, i)' = IF status'[m] = "success" THEN "running" ELSE "paused"
        BY DEF InputsFollowStatus
    <2>1. Signalled(m, i) /\ <<m, i>> \notin missed
        BY <1>2, NextPlugSignalled DEF SendTimesOut
    <2>2. Final(m, i)' = Final(m, i) /\ status' = status
        BY <1>2 DEF SendTimesOut, Final
    <2>. QED  BY <2>1, <2>2 DEF InputsFollowStatus
<1>3. ASSUME NEW n \in Nodes, NEW j \in Inputs, Receive(n, j) PROVE InputsFollowStatus'
    <2>1. ASSUME NEW m \in Nodes, NEW i \in Inputs PROVE Final(m, i)' = Final(m, i)
        <3>1. CASE m = n /\ i = j
            <4>1. chan[n][j] \in Seq(Signals) /\ chan[n][j] # <<>>
                BY <1>3 DEF TypeOK, Signals, Receive
            <4>2. chan'[n][j] = Tail(chan[n][j]) /\ mode'[n][j] = Head(chan[n][j])
                BY <1>3 DEF TypeOK, Receive
            <4>. QED  BY <3>1, <4>1, <4>2, LastTail DEF Final
        <3>2. CASE ~(m = n /\ i = j)
            <4>1. chan'[m][i] = chan[m][i] /\ mode'[m][i] = mode[m][i]
                BY <1>3, <3>2 DEF TypeOK, Receive
            <4>. QED  BY <4>1 DEF Final
        <3>. QED  BY <3>1, <3>2
    <2>2. UNCHANGED <<status, missed, pc, plug>>
        BY <1>3 DEF Receive
    <2>. QED  BY <2>1, <2>2 DEF InputsFollowStatus, Signalled, Signalling
<1>4. ASSUME NEW n \in Nodes,
             \/ Call(n) \/ Handle(n) \/ HandleLate(n) \/ Defeated(n) \/ Alive(n) \/ Cut(n)
      PROVE  InputsFollowStatus'
    <2>1. UNCHANGED <<chan, mode, missed, status, plug>>
        BY <1>4 DEF Call, Request, CallFails, Handle, HandleLate, Defeated, Alive, Cut
    <2>2. \A m \in Nodes : Signalling(m) => pc'[m] = pc[m]
        BY <1>4 DEF Call, Request, CallFails, Handle, HandleLate, Defeated, Alive, Cut, Goto,
                Signalling, TypeOK
    <2>. QED  BY <2>1, <2>2, FollowFrame
<1>5. ASSUME NEW n \in Nodes, Elected(n) \/ SteppedDown(n) PROVE InputsFollowStatus'
    <2>1. Signalling(n)' /\ plug'[n] = 1
        BY <1>5 DEF Elected, SteppedDown, Goto, Signalling, TypeOK, LoopInv
    <2>2. UNCHANGED <<chan, mode, missed, plug>>
          /\ \A m \in Nodes \ {n} : status'[m] = status[m] /\ pc'[m] = pc[m]
        BY <1>5 DEF Elected, SteppedDown, Goto, TypeOK
    <2>. QED  BY <2>1, <2>2, StartLoop
<1>6. ASSUME NEW n \in Nodes, Restart(n) PROVE InputsFollowStatus'
    <2>1. Signalling(n)' /\ plug'[n] = 1
        BY <1>6 DEF Restart, Goto, Signalling, TypeOK
    <2>2. \A m \in Nodes \ {n} :
              /\ chan'[m] = chan[m] /\ mode'[m] = mode[m] /\ status'[m] = status[m]
              /\ pc'[m] = pc[m] /\ plug'[m] = plug[m]
        BY <1>6 DEF Restart, Goto, TypeOK
    <2>3. \A m \in Nodes \ {n}, i \in Inputs : <<m, i>> \in missed => <<m, i>> \in missed'
        BY <1>6 DEF Restart
    <2>. QED  BY <2>1, <2>2, <2>3, StartLoop
<1>7. CASE Expire
    BY <1>7, FollowFrame DEF Expire
<1>8. CASE UNCHANGED vars
    BY <1>8, FollowFrame DEF vars
<1>. QED
    BY <1>1, <1>2, <1>3, <1>4, <1>5, <1>6, <1>7, <1>8 DEF Next, Reply

\* However wins, defeats, late answers, timeouts and restarts interleave, an
\* input whose last signal got through ends up in line with its node's status;
\* and the variables keep their types.
THEOREM InputsFollow == Spec => [](TypeOK /\ InputsFollowStatus)
<1>1. Init => InputsFollowStatus
    BY ElectionAssumption DEF Init, InputsFollowStatus, Signalled, Signalling, Inputs
<1>2. TypeInv => TypeOK
    BY DEF TypeInv
<1>. QED  BY <1>1, <1>2, TypeInvariant, FollowStep, PTL DEF Spec

----------------------------------------------------------------------------
(* Inputs run only on a node that was elected *)

\* Input i of n runs, or will when it reads its channel.
Resumed(n, i) ==
    mode[n][i] = "running" \/ \E k \in DOMAIN chan[n][i] : chan[n][i][k] = "running"

\* Every step keeps the inputs of nodes that were not elected from running:
\* only resumePlugins sends that signal, after Elected; Restart empties the
\* channels along with the election.
LEMMA RunsStep ==
    TypeInv /\ RunsOnlyIfElected /\ [Next]_vars => RunsOnlyIfElected'
<1>. SUFFICES ASSUME TypeInv, TypeOK, LoopInv, RunsOnlyIfElected, [Next]_vars,
                     NEW m \in Nodes, NEW i \in Inputs, Resumed(m, i)'
              PROVE  won'[m]
    BY DEF TypeInv, RunsOnlyIfElected, Resumed
<1>. USE ElectionAssumption DEF node, input, centre
<1>0. Resumed(m, i) => won[m]
    BY DEF RunsOnlyIfElected, Resumed
<1>1. ASSUME NEW n \in Nodes, Send(n) PROVE won'[m]
    <2>1. CASE m = n /\ i = plug[n]
        <3>1. chan[n][i] \in Seq(Signals) /\ Signal(n) \in Signals
            BY DEF TypeOK, Signals, Signal
        <3>2. chan'[n][i] = Append(chan[n][i], Signal(n)) /\ UNCHANGED <<mode, won>>
            BY <1>1, <2>1 DEF TypeOK, Send
        <3>a. (\E k \in DOMAIN chan'[n][i] : chan'[n][i][k] = "running") =>
                 "running" = Signal(n) \/ \E k \in DOMAIN chan[n][i] : chan[n][i][k] = "running"
            BY <3>1, <3>2, LastAppend
        <3>3. Resumed(n, i) \/ Signal(n) = "running"
            BY <2>1, <3>2, <3>a DEF Resumed
        <3>4. Signal(n) = "running" => won[n]
            BY <1>1 DEF Send, Signal, Signalling, LoopInv
        <3>. QED  BY <1>0, <2>1, <3>2, <3>3, <3>4
    <2>2. CASE ~(m = n /\ i = plug[n])
        <3>1. chan'[m][i] = chan[m][i] /\ UNCHANGED <<mode, won>>
            BY <1>1, <2>2 DEF TypeOK, Send
        <3>. QED  BY <1>0, <3>1 DEF Resumed
    <2>. QED  BY <2>1, <2>2
<1>2. ASSUME NEW n \in Nodes, NEW j \in Inputs, Receive(n, j) PROVE won'[m]
    <2>1. Resumed(m, i)
        <3>1. CASE m = n /\ i = j
            <4>1. chan[n][j] \in Seq(Signals) /\ chan[n][j] # <<>>
                BY <1>2 DEF TypeOK, Signals, Receive
            <4>2. chan'[n][j] = Tail(chan[n][j]) /\ mode'[n][j] = Head(chan[n][j])
                BY <1>2 DEF TypeOK, Receive
            <4>. QED  BY <3>1, <4>1, <4>2, LastTail DEF Resumed
        <3>2. CASE ~(m = n /\ i = j)
            <4>1. chan'[m][i] = chan[m][i] /\ mode'[m][i] = mode[m][i]
                BY <1>2, <3>2 DEF TypeOK, Receive
            <4>. QED  BY <4>1 DEF Resumed
        <3>. QED  BY <3>1, <3>2
    <2>. QED  BY <1>0, <1>2, <2>1 DEF Receive
<1>3. ASSUME NEW n \in Nodes,
             \/ SendTimesOut(n) \/ Call(n) \/ Handle(n) \/ HandleLate(n) \/ Reply(n) \/ Cut(n)
      PROVE  won'[m]
    <2>1. UNCHANGED <<chan, mode>> /\ (won' = won \/ won' = [won EXCEPT ![n] = TRUE])
        BY <1>3 DEF SendTimesOut, Call, Request, CallFails, Handle, HandleLate, Reply, Defeated,
                Elected, Alive, SteppedDown, Cut
    <2>. QED  BY <1>0, <2>1 DEF Resumed, TypeOK
<1>4. ASSUME NEW n \in Nodes, Restart(n) PROVE won'[m]
    <2>1. m # n
        <3>1. ~Resumed(n, i)'
            <4>1. chan'[n][i] = <<>> /\ mode'[n][i] = "init"
                BY <1>4 DEF Restart, TypeOK
            <4>. QED  BY <4>1 DEF Resumed
        <3>. QED  BY <3>1
    <2>2. chan'[m] = chan[m] /\ mode'[m] = mode[m] /\ won'[m] = won[m]
        BY <1>4, <2>1 DEF Restart, TypeOK
    <2>. QED  BY <1>0, <2>2 DEF Resumed
<1>5. CASE Expire
    BY <1>0, <1>5 DEF Expire, Resumed
<1>6. CASE UNCHANGED vars
    BY <1>0, <1>6 DEF vars, Resumed
<1>. QED  BY <1>1, <1>2, <1>3, <1>4, <1>5, <1>6 DEF Next

\* An input of a node that was never elected stays paused once it has been
\* signalled, whichever signals time out.
THEOREM RunsOnlyElected == Spec => []RunsOnlyIfElected
<1>1. Init => RunsOnlyIfElected
    BY DEF Init, RunsOnlyIfElected
<1>. QED  BY <1>1, TypeInvariant, RunsStep, PTL DEF Spec

----------------------------------------------------------------------------
(* The task election: the list and the inputs that it names *)

\* The types that the argument needs.
TaskTyped ==
    /\ matched \in 0..Task!MatchedCap
    /\ taskPc \in {"start", "tick", "sent", "pausing", "resuming"}
    /\ taskChan \in [Application -> Seq({"paused", "running"})]
    /\ taskMode \in [Application -> {"init", "paused", "running"}]

\* What resumePlugins has done so far: the inputs of the list that it has come
\* to end up running, unless their signal timed out.
TaskResumed ==
    \A i \in ((running \cap Application) \ todo) \ taskMissed : Task!Final(i) = "running"

\* The count says where the list stands: it is 0 before the first answer, and
\* at least 3 while and after its inputs are signalled.
TaskCounted ==
    /\ taskPc = "start" => matched = 0
    /\ taskPc = "resuming" => TaskResumed

TaskInv == TaskTyped /\ TaskCounted /\ Task!ConfirmedInputsRun

\* A step that leaves the list, the count and the signals keeps the inputs
\* where they are.
LEMMA TaskFrame ==
    ASSUME TaskInv, UNCHANGED <<running, matched, taskChan, taskMode, taskMissed>>,
           taskPc' \in {"tick", "sent"}, ~Task!Signalling
    PROVE  TaskInv'
BY DEF TaskInv, TaskTyped, TaskCounted, Task!ConfirmedInputsRun, Task!Signalling, Task!Final

\* A signal that is queued is the last one of its channel.
LEMMA TaskSendKeeps ==
    ASSUME TaskInv, NEW i \in Application, Task!Send(i) PROVE TaskInv'
<1>1. Task!Signal \in {"paused", "running"} /\ taskChan[i] \in Seq({"paused", "running"})
    BY DEF TaskInv, TaskTyped, Task!Signal
<1>2. /\ Append(taskChan[i], Task!Signal) \in Seq({"paused", "running"})
      /\ Append(taskChan[i], Task!Signal) # <<>>
      /\ Append(taskChan[i], Task!Signal)[Len(Append(taskChan[i], Task!Signal))] = Task!Signal
    BY <1>1, LastAppend
<1>3. /\ taskChan' \in [Application -> Seq({"paused", "running"})]
      /\ taskChan'[i] = Append(taskChan[i], Task!Signal)
      /\ \A j \in Application : j # i => taskChan'[j] = taskChan[j]
    BY <1>2 DEF Task!Send, TaskInv, TaskTyped
<1>4. TaskTyped'
    BY <1>3 DEF Task!Send, TaskInv, TaskTyped
<1>5. ASSUME taskPc = "resuming" PROVE TaskResumed'
    <2>1. Task!Final(i)' = "running"
        BY <1>2, <1>3, <1>5 DEF Task!Final, Task!Signal
    <2>2. \A j \in Application : j # i => Task!Final(j)' = Task!Final(j)
        BY <1>3 DEF Task!Final, Task!Send
    <2>. QED  BY <1>5, <2>1, <2>2 DEF TaskResumed, Task!Send, TaskInv, TaskCounted
<1>. QED  BY <1>4, <1>5 DEF TaskInv, TaskCounted, Task!ConfirmedInputsRun, Task!Signalling, Task!Send

\* A signal that times out is given up.
LEMMA TaskTimeoutKeeps ==
    ASSUME TaskInv, NEW i \in Application, Task!SendTimesOut(i) PROVE TaskInv'
BY DEF Task!SendTimesOut, TaskInv, TaskTyped, TaskCounted, TaskResumed, Task!Final, Task!ConfirmedInputsRun, Task!Signalling

\* Reading its channel does not change where an input ends up.
LEMMA TaskReceiveKeeps ==
    ASSUME TaskInv, NEW i \in Application, Task!Receive(i) PROVE TaskInv'
<1>1. taskChan[i] \in Seq({"paused", "running"}) /\ taskChan[i] # <<>>
    BY DEF TaskInv, TaskTyped, Task!Receive
<1>2. /\ Head(taskChan[i]) \in {"paused", "running"}
      /\ Tail(taskChan[i]) \in Seq({"paused", "running"})
      /\ Tail(taskChan[i]) = <<>> => Head(taskChan[i]) = taskChan[i][Len(taskChan[i])]
      /\ Tail(taskChan[i]) # <<>> => Tail(taskChan[i])[Len(Tail(taskChan[i]))] = taskChan[i][Len(taskChan[i])]
    BY <1>1, LastTail
<1>3. /\ taskChan' \in [Application -> Seq({"paused", "running"})] /\ taskChan'[i] = Tail(taskChan[i])
      /\ taskMode' \in [Application -> {"init", "paused", "running"}] /\ taskMode'[i] = Head(taskChan[i])
      /\ \A j \in Application : j # i => taskChan'[j] = taskChan[j] /\ taskMode'[j] = taskMode[j]
    BY <1>2 DEF Task!Receive, TaskInv, TaskTyped
<1>4. \A j \in Application : Task!Final(j)' = Task!Final(j)
    BY <1>1, <1>2, <1>3 DEF Task!Final
<1>. QED
    BY <1>3, <1>4 DEF Task!Receive, TaskInv, TaskTyped, TaskCounted, TaskResumed, Task!ConfirmedInputsRun, Task!Signalling

\* pausePlugins is followed by resumePlugins, with all inputs of the list to
\* signal; when that ends, all of them have been signalled.
LEMMA TaskSignalledKeeps == ASSUME TaskInv, Task!Signalled PROVE TaskInv'
<1>1. CASE taskPc = "pausing"
    BY <1>1 DEF Task!Signalled, TaskInv, TaskTyped, TaskCounted, TaskResumed, Task!Final, Task!ConfirmedInputsRun, Task!Signalling,
        Task!signals
<1>2. CASE taskPc = "start"
    BY <1>2 DEF Task!Signalled, TaskInv, TaskTyped, TaskCounted, TaskResumed, Task!Final, Task!ConfirmedInputsRun, Task!Signalling,
        Task!signals
<1>3. CASE taskPc = "resuming"
    BY <1>3 DEF Task!Signalled, TaskInv, TaskTyped, TaskCounted, TaskResumed, Task!Final, Task!ConfirmedInputsRun, Task!Signalling, Task!signals
<1>. QED  BY <1>1, <1>2, <1>3 DEF Task!Signalled, Task!Signalling

\* An answer resets the count, or brings it to 3 and starts to signal.
LEMMA TaskAnswerKeeps ==
    ASSUME TaskInv, NEW allowed, Task!NewList(allowed) \/ Task!SameList(allowed) PROVE TaskInv'
<1>1. CASE Task!NewList(allowed)
    BY <1>1 DEF Task!NewList, TaskInv, TaskTyped, TaskCounted, Task!ConfirmedInputsRun, Task!Signalling, Task!Final, Task!signals, Task!MatchedCap
<1>2. CASE Task!SameList(allowed)
    BY <1>2 DEF Task!SameList, TaskInv, TaskTyped, TaskCounted, Task!ConfirmedInputsRun, Task!Signalling, Task!Final, Task!signals, Task!MatchedCap
<1>. QED  BY <1>1, <1>2

\* A new process has an empty count and empty channels.
LEMMA TaskRestartKeeps == ASSUME Task!Restart PROVE TaskInv'
BY DEF Task!Restart, TaskInv, TaskTyped, TaskCounted, Task!ConfirmedInputsRun, Task!Signalling, Task!MatchedCap

\* TaskInv is inductive.
LEMMA TaskStep == TaskInv /\ [Task!Next]_(Task!vars) => TaskInv'
<1>. SUFFICES ASSUME TaskInv, [Task!Next]_(Task!vars) PROVE TaskInv'
    OBVIOUS
<1>1. CASE Task!Request \/ Task!CallFails
    BY <1>1, TaskFrame DEF Task!Request, Task!CallFails, Task!Signalling, Task!signals
<1>2. CASE Task!Reallocate
    BY <1>2 DEF Task!Reallocate, Task!signals, TaskInv, TaskTyped, TaskCounted, TaskResumed, Task!ConfirmedInputsRun, Task!Signalling, Task!Final
<1>3. CASE UNCHANGED Task!vars
    BY <1>3 DEF Task!vars, Task!signals, TaskInv, TaskTyped, TaskCounted, TaskResumed, Task!ConfirmedInputsRun, Task!Signalling, Task!Final
<1>. QED
    BY <1>1, <1>2, <1>3, TaskSendKeeps, TaskTimeoutKeeps, TaskReceiveKeeps, TaskSignalledKeeps, TaskAnswerKeeps,
       TaskRestartKeeps DEF Task!Next

\* Every step keeps the types: runningInputs are names the operator knows, and
\* only this node's own inputs are ever signalled.
LEMMA TaskTypeStep ==
    ASSUME Application \subseteq Names, MaxChanges \in Nat, MaxRestarts \in Nat,
           Task!TypeOK, TaskTyped', [Task!Next]_(Task!vars)
    PROVE  Task!TypeOK'
<1>1. ASSUME NEW i \in Application, Task!Send(i) \/ Task!SendTimesOut(i) \/ Task!Receive(i) PROVE Task!TypeOK'
    BY <1>1 DEF Task!Send, Task!SendTimesOut, Task!Receive, Task!TypeOK, TaskTyped
<1>2. CASE Task!Signalled \/ Task!Request \/ Task!CallFails
    BY <1>2 DEF Task!Signalled, Task!Request, Task!CallFails, Task!StatusOf, Task!signals, Task!TypeOK, TaskTyped
<1>3. CASE Task!NewList(alloc) \/ Task!SameList(alloc)
    BY <1>3 DEF Task!NewList, Task!SameList, Task!StatusOf, Task!signals, Task!TypeOK, TaskTyped
<1>4. CASE Task!Reallocate \/ Task!Restart
    BY <1>4 DEF Task!Reallocate, Task!Restart, Task!signals, Task!TypeOK, TaskTyped
<1>5. CASE UNCHANGED Task!vars
    BY <1>5 DEF Task!vars, Task!signals, Task!TypeOK, TaskTyped
<1>. QED  BY <1>1, <1>2, <1>3, <1>4, <1>5 DEF Task!Next

\* Whatever lists the operator sends, and however answers, signals, timeouts
\* and restarts interleave, once a list has been confirmed and its inputs have
\* been signalled, each input whose signal got through ends up running.
THEOREM ConfirmedInputsAreRun == Task!Spec => []Task!ConfirmedInputsRun
<1>1. Task!Init => TaskInv
    BY DEF Task!Init, TaskInv, TaskTyped, TaskCounted, Task!ConfirmedInputsRun, Task!Signalling, Task!MatchedCap
<1>2. TaskInv => Task!ConfirmedInputsRun
    BY DEF TaskInv
<1>. QED  BY <1>1, <1>2, TaskStep, PTL DEF Task!Spec

\* Whatever the operator answers, the list, the loop over it and the channels
\* keep their types; the operator knows the inputs of this node.
THEOREM TaskTypes == Task!Spec => []Task!TypeOK
<1>1. Task!Init => TaskInv /\ Task!TypeOK
    BY TaskAssumption, ElectionAssumption DEF Task!Init, TaskInv, TaskTyped, TaskCounted, Task!ConfirmedInputsRun, Task!Signalling, Task!MatchedCap, Task!TypeOK
<1>2. TaskInv /\ Task!TypeOK /\ [Task!Next]_(Task!vars) => TaskInv' /\ Task!TypeOK'
    BY TaskStep, TaskTypeStep, TaskAssumption, ElectionAssumption DEF TaskInv
<1>. QED  BY <1>1, <1>2, PTL DEF Task!Spec

----------------------------------------------------------------------------
(* Both elections: election.Start runs one of the two, so what was proved of *)
(* each holds of the Datakit.                                                *)

\* A Datakit in either mode behaves as a node of the leader election that the
\* task election does not touch, and as one of the task election.
LEMMA StartImplements ==
    StartInit /\ [][StartNext]_<<electMode, vars, taskVars>> => Spec /\ Task!Spec
<1>1. StartInit => Init /\ Task!Init
    BY DEF StartInit
<1>2. [StartNext]_<<electMode, vars, taskVars>> => [Next]_vars
    BY DEF StartNext
<1>3. [StartNext]_<<electMode, vars, taskVars>> => [Task!Next]_(Task!vars)
    BY DEF StartNext, taskVars, Task!vars, Task!signals
<1>. QED  BY <1>1, <1>2, <1>3, PTL DEF Spec, Task!Spec

\* Whichever of the two elections election.Start runs, a node's variables keep
\* their types, its inputs follow the outcome of the leader election, and none
\* of them runs before the node was elected.
THEOREM StartLeaderElection ==
    StartSpec => [](TypeOK /\ InputsFollowStatus /\ RunsOnlyIfElected)
BY StartImplements, InputsFollow, RunsOnlyElected, PTL DEF StartSpec

\* And the inputs of a confirmed list of the task election end up running.
THEOREM StartTaskInputsConfirmed == StartSpec => []TaskInputsConfirmed
BY StartImplements, ConfirmedInputsAreRun, PTL DEF StartSpec, TaskInputsConfirmed

\* The task election keeps its types in a Datakit that runs either election.
THEOREM StartTaskTypes == StartSpec => []TaskTypeOK
BY StartImplements, TaskTypes, PTL DEF StartSpec, TaskTypeOK
=============================================================================

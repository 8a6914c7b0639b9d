----------------------------- MODULE DatawayWAL -----------------------------
(***************************************************************************)
(* The way of a body (one POST of encoded points) through package dataway: *)
(* WALQueue.Put leaves it in the memory channel or the disk queue of its   *)
(* category, a flush worker of that category takes it and POSTs it to each *)
(* endpoint in turn, and a body that an endpoint did not take goes to the  *)
(* fail-cache, one disk queue shared by all workers, which every worker    *)
(* retries on its ticker.                                                  *)
(*                                                                         *)
(* A disk queue is the FIFO that DiskCache implements, with filoDrop: it   *)
(* refuses bodies when it is full.  Get on the WAL moves the read position *)
(* before the body is sent; DiskGet on the fail-cache holds the read lock  *)
(* of the queue during the POSTs and moves the position only after them.   *)
(***************************************************************************)
EXTENDS Integers, Sequences, FiniteSets

CONSTANTS
    Bodies,         \* the bodies that buildPointsBody produces, each one once
    NoBody,
    Categories,
    CategoryOf,     \* CategoryOf[b]: the category of a body
    Flushers,       \* the flush workers of all categories
    NoFlusher,
    WorksOn,        \* WorksOn[f]: the category of a worker
    NEndpoints,     \* len(dw.eps)
    MemCap,         \* capacity of the channel; 0 when the channel is disabled
    DiskCap,        \* bodies that fit a category's disk queue
    FailCap,        \* bodies that fit the fail-cache
    Oversized,      \* bodies whose dump does not fit marshalBuf
    Unreadable,     \* bodies that a new process, with its smaller buffers,
                    \* cannot read back
    SlowClean,      \* may a clean of the fail-cache outlast the ticker?
    MayExit,        \* may the global exit be signalled?
    MaxCrashes      \* bound on crashes of the process

Endpoints == 1..NEndpoints

ASSUME WALAssumption ==
    /\ NoBody \notin Bodies /\ NoFlusher \notin Flushers
    /\ CategoryOf \in [Bodies -> Categories] /\ WorksOn \in [Flushers -> Categories]
    /\ NEndpoints \in Nat /\ MemCap \in Nat /\ DiskCap \in Nat /\ FailCap \in Nat
    /\ Oversized \subseteq Bodies /\ Unreadable \subseteq Bodies
    /\ SlowClean \in BOOLEAN /\ MayExit \in BOOLEAN /\ MaxCrashes \in Nat

VARIABLES
    mem,        \* mem[c]: the channel of category c
    disk,       \* disk[c]: the unread bodies of its disk queue
    fail,       \* the unread bodies of the fail-cache
    failLock,   \* the worker that holds the fail-cache's read lock
    pc,         \* pc[f]: where worker f is
    held,       \* held[f]: the body f is sending
    ep,         \* ep[f]: the endpoint f sends it to next
    tick,       \* tick[f]: the ticker of f: "off" since its last clean until
                \* f has looked at its WAL, then "armed", then "fired"
    exit,       \* datakit.Exit
    crashes,
    \* history
    offered,    \* bodies handed to Put
    accepted,   \* bodies Put returned nil for
    delivered,  \* <<b, e>>: endpoint e took body b
    dropped,    \* <<b, e>>: b is given up for e: 4xx, no room in the fail-cache
                \* or the buffer, or lost from memory in a crash
    again,      \* <<b, e>>: e took b in more than one POST
    failed      \* bodies that were put into the fail-cache

queues  == <<mem, disk, fail>>
workers == <<failLock, pc, held, ep>>
history == <<offered, accepted, delivered, dropped, again, failed>>
vars    == <<queues, workers, tick, exit, crashes, history>>

Init ==
    /\ mem = [c \in Categories |-> <<>>] /\ disk = [c \in Categories |-> <<>>]
    /\ fail = <<>> /\ failLock = NoFlusher
    /\ pc = [f \in Flushers |-> "loop"] /\ held = [f \in Flushers |-> NoBody]
    /\ ep = [f \in Flushers |-> 1] /\ tick = [f \in Flushers |-> "armed"]
    /\ exit = FALSE /\ crashes = 0
    /\ offered = {} /\ accepted = {} /\ delivered = {} /\ dropped = {}
    /\ again = {} /\ failed = {}

Goto(f, l) == pc' = [pc EXCEPT ![f] = l]

\* f starts to send b to the first endpoint.
Hold(f, b) == held' = [held EXCEPT ![f] = b] /\ ep' = [ep EXCEPT ![f] = 1]

----------------------------------------------------------------------------
(* WALQueue.Put, from enqueueBody *)

\* The channel if it has room, else the disk queue; a body that cannot be
\* dumped, or finds the disk queue full, is dropped with an error.
Put(b) ==
    LET c == CategoryOf[b] IN
    /\ b \notin offered /\ offered' = offered \cup {b}
    /\ \/ /\ Len(mem[c]) < MemCap
          /\ mem' = [mem EXCEPT ![c] = Append(@, b)]
          /\ accepted' = accepted \cup {b} /\ UNCHANGED disk
       \/ /\ Len(mem[c]) >= MemCap /\ b \notin Oversized /\ Len(disk[c]) < DiskCap
          /\ disk' = [disk EXCEPT ![c] = Append(@, b)]
          /\ accepted' = accepted \cup {b} /\ UNCHANGED mem
       \/ /\ Len(mem[c]) >= MemCap /\ (b \in Oversized \/ Len(disk[c]) >= DiskCap)
          /\ UNCHANGED <<mem, disk, accepted>>
    /\ UNCHANGED <<fail, workers, tick, exit, crashes, delivered, dropped,
                   again, failed>>

----------------------------------------------------------------------------
(* flusher.start: exit, ticker, or the WAL when neither is ready *)

\* Unless a clean can outlast the interval, the worker looks at its WAL
\* between two ticks.
Tick(f) ==
    /\ tick[f] = "armed" \/ (SlowClean /\ tick[f] = "off")
    /\ tick' = [tick EXCEPT ![f] = "fired"]
    /\ UNCHANGED <<queues, workers, exit, crashes, history>>

Exit ==
    /\ MayExit /\ ~exit /\ exit' = TRUE
    /\ UNCHANGED <<queues, workers, tick, crashes, history>>

Stop(f) ==
    /\ pc[f] = "loop" /\ exit /\ Goto(f, "done")
    /\ UNCHANGED <<queues, failLock, held, ep, tick, exit, crashes, history>>

\* Mutant: the ticker is drained and the fail-cache left alone.
StartCleanBug(f) ==
    /\ pc[f] = "loop" /\ tick[f] = "fired"
    /\ tick' = [tick EXCEPT ![f] = "off"]
    /\ UNCHANGED <<queues, workers, exit, crashes, history>>

StartClean(f) ==
    /\ pc[f] = "loop" /\ tick[f] = "fired"
    /\ tick' = [tick EXCEPT ![f] = "off"] /\ Goto(f, "lock")
    /\ UNCHANGED <<queues, failLock, held, ep, exit, crashes, history>>

\* WALQueue.Get, fast path.
TakeMem(f) ==
    LET c == WorksOn[f] IN
    /\ pc[f] = "loop" /\ tick[f] # "fired" /\ ~exit /\ mem[c] # <<>>
    /\ tick' = [tick EXCEPT ![f] = "armed"]
    /\ Hold(f, Head(mem[c])) /\ mem' = [mem EXCEPT ![c] = Tail(@)]
    /\ Goto(f, "flush")
    /\ UNCHANGED <<disk, fail, failLock, exit, crashes, history>>

MissMem(f) ==
    /\ pc[f] = "loop" /\ tick[f] # "fired" /\ ~exit /\ mem[WorksOn[f]] = <<>>
    /\ tick' = [tick EXCEPT ![f] = "armed"] /\ Goto(f, "disk")
    /\ UNCHANGED <<queues, failLock, held, ep, exit, crashes, history>>

\* Mutant: the read position stays before the body.
TakeDiskBug(f) ==
    LET c == WorksOn[f] IN
    /\ pc[f] = "disk" /\ disk[c] # <<>>
    /\ Hold(f, Head(disk[c])) /\ Goto(f, "flush")
    /\ UNCHANGED <<queues, failLock, tick, exit, crashes, history>>

\* WALQueue.Get, slow path: the position moves past the body at once.  A body
\* that the buffer cannot hold is skipped.
TakeDisk(f) ==
    LET c == WorksOn[f]
        b == Head(disk[c])
    IN
    /\ pc[f] = "disk" /\ disk[c] # <<>>
    /\ disk' = [disk EXCEPT ![c] = Tail(@)]
    /\ IF b \in Unreadable /\ crashes > 0
       THEN /\ dropped' = dropped \cup ({b} \X Endpoints)
            /\ Goto(f, "loop") /\ UNCHANGED <<held, ep>>
       ELSE /\ Hold(f, b) /\ Goto(f, "flush") /\ UNCHANGED dropped
    /\ UNCHANGED <<mem, fail, failLock, tick, exit, crashes, offered, accepted,
                   delivered, again, failed>>

\* ErrNoData: the queue is empty, or what it has is not rotated yet.
MissDisk(f) ==
    /\ pc[f] = "disk" /\ Goto(f, "loop")
    /\ UNCHANGED <<queues, failLock, held, ep, tick, exit, crashes, history>>

\* Mutant: the body is read without taking the lock.
TakeFailBug(f) ==
    /\ pc[f] = "lock" /\ failLock = NoFlusher /\ fail # <<>>
    /\ Hold(f, Head(fail)) /\ Goto(f, "clean")
    /\ UNCHANGED <<queues, failLock, tick, exit, crashes, history>>

\* DiskGet on the fail-cache: the body stays at the head, under the lock.
TakeFail(f) ==
    LET b == Head(fail) IN
    /\ pc[f] = "lock" /\ failLock = NoFlusher /\ fail # <<>>
    /\ IF b \in Unreadable /\ crashes > 0
       THEN /\ dropped' = dropped \cup ({b} \X Endpoints) /\ fail' = Tail(fail)
            /\ Goto(f, "loop") /\ UNCHANGED <<failLock, held, ep>>
       ELSE /\ Hold(f, b) /\ failLock' = f /\ Goto(f, "clean")
            /\ UNCHANGED <<dropped, fail>>
    /\ UNCHANGED <<mem, disk, tick, exit, crashes, offered, accepted,
                   delivered, again, failed>>

MissFail(f) ==
    /\ pc[f] = "lock" /\ failLock = NoFlusher /\ Goto(f, "loop")
    /\ UNCHANGED <<queues, failLock, held, ep, tick, exit, crashes, history>>

----------------------------------------------------------------------------
(* doFlush: the loop over the endpoints, and its error paths.  A POST       *)
(* (writePointData) is one step: sendReq makes up to maxRetryCount attempts *)
(* without knowing what became of the last one, and what counts is how the  *)
(* last attempt ends and whether the endpoint took the body in any of them. *)

Sending(f)  == pc[f] \in {"flush", "clean"}
Pair(f)     == <<held[f], ep[f]>>
NextEp(f)   == ep' = [ep EXCEPT ![f] = @ + 1]

Deliver(p) ==
    /\ delivered' = delivered \cup {p}
    /\ again' = IF p \in delivered THEN again \cup {p} ELSE again

\* doFlush returns before the loop: the body goes to no endpoint.
GzipFails(f) ==
    /\ pc[f] = "flush" /\ ep[f] = 1
    /\ dropped' = dropped \cup ({held[f]} \X Endpoints)
    /\ held' = [held EXCEPT ![f] = NoBody] /\ Goto(f, "loop")
    /\ UNCHANGED <<queues, failLock, ep, tick, exit, crashes, offered, accepted,
                   delivered, again, failed>>

\* Mutant: the loop runs one endpoint too far.
PostOKBug(f) ==
    /\ Sending(f) /\ ep[f] <= NEndpoints + 1
    /\ Deliver(Pair(f)) /\ NextEp(f)
    /\ UNCHANGED <<queues, failLock, pc, held, tick, exit, crashes, offered,
                   accepted, dropped, failed>>

\* 2xx
PostOK(f) ==
    /\ Sending(f) /\ ep[f] <= NEndpoints
    /\ Deliver(Pair(f)) /\ NextEp(f)
    /\ UNCHANGED <<queues, failLock, pc, held, tick, exit, crashes, offered,
                   accepted, dropped, failed>>

\* 4xx: drop the body for this endpoint and go on.  An earlier attempt of the
\* same POST may have been taken without an answer.
Post4XX(f) ==
    /\ Sending(f) /\ ep[f] <= NEndpoints
    /\ Deliver(Pair(f)) \/ UNCHANGED <<delivered, again>>
    /\ dropped' = dropped \cup {Pair(f)} /\ NextEp(f)
    /\ UNCHANGED <<queues, failLock, pc, held, tick, exit, crashes, offered,
                   accepted, failed>>

\* 5xx, or no answer, in which case the endpoint may have taken the body:
\* dump it to the fail-cache and go on with the next endpoint.
FlushFails(f) ==
    LET b == held[f] IN
    /\ pc[f] = "flush" /\ ep[f] <= NEndpoints
    /\ Deliver(Pair(f)) \/ UNCHANGED <<delivered, again>>
    /\ IF b \notin Oversized /\ Len(fail) < FailCap
       THEN /\ fail' = Append(fail, b) /\ failed' = failed \cup {b}
            /\ UNCHANGED dropped
       ELSE /\ dropped' = dropped \cup {Pair(f)} /\ UNCHANGED <<fail, failed>>
    /\ NextEp(f)
    /\ UNCHANGED <<mem, disk, failLock, pc, held, tick, exit, crashes, offered,
                   accepted>>

\* Mutant: the callback of DiskGet returns nil and the position moves on.
CleanFailsBug1(f) ==
    /\ pc[f] = "clean" /\ ep[f] <= NEndpoints
    /\ fail' = Tail(fail) /\ failLock' = NoFlusher /\ Goto(f, "loop")
    /\ held' = [held EXCEPT ![f] = NoBody]
    /\ UNCHANGED <<mem, disk, ep, tick, exit, crashes, history>>

\* Mutant: the error path does not release the read lock.
CleanFailsBug2(f) ==
    /\ pc[f] = "clean" /\ ep[f] <= NEndpoints /\ Goto(f, "loop")
    /\ held' = [held EXCEPT ![f] = NoBody]
    /\ UNCHANGED <<queues, failLock, ep, tick, exit, crashes, history>>

\* The same while cleaning: the callback fails and the body stays the head.
CleanFails(f) ==
    /\ pc[f] = "clean" /\ ep[f] <= NEndpoints
    /\ Deliver(Pair(f)) \/ UNCHANGED <<delivered, again>>
    /\ failLock' = NoFlusher /\ Goto(f, "loop")
    /\ held' = [held EXCEPT ![f] = NoBody]
    /\ UNCHANGED <<queues, ep, tick, exit, crashes, offered, accepted, dropped,
                   failed>>

FlushDone(f) ==
    /\ pc[f] = "flush" /\ ep[f] > NEndpoints
    /\ held' = [held EXCEPT ![f] = NoBody] /\ Goto(f, "loop")
    /\ UNCHANGED <<queues, failLock, ep, tick, exit, crashes, history>>

CleanDone(f) ==
    /\ pc[f] = "clean" /\ ep[f] > NEndpoints
    /\ fail' = Tail(fail) /\ failLock' = NoFlusher
    /\ held' = [held EXCEPT ![f] = NoBody] /\ Goto(f, "loop")
    /\ UNCHANGED <<mem, disk, ep, tick, exit, crashes, history>>

----------------------------------------------------------------------------
\* The bodies in the channels, and those in the hands of the workers with the
\* endpoints that have not had them.
LostMem  == {p \in Bodies \X Endpoints :
                \E c \in Categories : \E i \in DOMAIN mem[c] : mem[c][i] = p[1]}
LostHeld == {p \in Bodies \X Endpoints :
                \E f \in Flushers : pc[f] = "flush" /\ held[f] = p[1] /\ ep[f] <= p[2]}

\* The process dies, or ends after Exit, and starts again: the channels and
\* the bodies in the hands of the workers are gone, the disk queues are not.
Crash ==
    /\ crashes < MaxCrashes /\ crashes' = crashes + 1
    /\ dropped' = dropped \cup LostMem \cup LostHeld
    /\ mem' = [c \in Categories |-> <<>>] /\ failLock' = NoFlusher
    /\ pc' = [f \in Flushers |-> "loop"] /\ held' = [f \in Flushers |-> NoBody]
    /\ ep' = [f \in Flushers |-> 1] /\ tick' = [f \in Flushers |-> "armed"]
    /\ exit' = FALSE
    /\ UNCHANGED <<disk, fail, offered, accepted, delivered, again, failed>>

WorkerStep(f) ==
    \/ Stop(f) \/ StartClean(f) \/ TakeMem(f) \/ MissMem(f) \/ TakeDisk(f)
    \/ MissDisk(f) \/ TakeFail(f) \/ MissFail(f) \/ GzipFails(f) \/ PostOK(f)
    \/ Post4XX(f) \/ FlushFails(f) \/ CleanFails(f) \/ FlushDone(f) \/ CleanDone(f)

Next ==
    \/ \E b \in Bodies : Put(b)
    \/ \E f \in Flushers : Tick(f) \/ WorkerStep(f)
    \/ Exit \/ Crash

Spec == Init /\ [][Next]_vars

\* Workers run on and tickers fire.  What is in a disk queue is rotated and
\* found in the end (EventuallyConsumed of DiskCache), and every endpoint
\* takes a body again and again.
Fairness ==
    /\ \A f \in Flushers :
        WF_vars(WorkerStep(f)) /\ WF_vars(Tick(f)) /\ SF_vars(TakeDisk(f))
    /\ SF_vars(\E f \in Flushers : TakeFail(f))
    /\ \A e \in Endpoints :
        SF_vars(\E f \in Flushers : PostOK(f) /\ ep[f] = e)

FairSpec == Spec /\ Fairness

----------------------------------------------------------------------------
(* Properties *)

InSeq(x, s) == \E i \in DOMAIN s : s[i] = x

Labels == {"loop", "disk", "lock", "flush", "clean", "done"}

\* Every variable has its type.
TypeOK ==
    /\ mem \in [Categories -> Seq(Bodies)] /\ disk \in [Categories -> Seq(Bodies)]
    /\ fail \in Seq(Bodies) /\ failLock \in Flushers \cup {NoFlusher}
    /\ pc \in [Flushers -> Labels] /\ held \in [Flushers -> Bodies \cup {NoBody}]
    /\ ep \in [Flushers -> 1..(NEndpoints + 1)]
    /\ tick \in [Flushers -> {"off", "armed", "fired"}] /\ exit \in BOOLEAN
    /\ crashes \in 0..MaxCrashes
    /\ offered \subseteq Bodies /\ accepted \subseteq offered
    /\ delivered \subseteq Bodies \X Endpoints /\ dropped \subseteq Bodies \X Endpoints
    /\ again \subseteq Bodies \X Endpoints
    /\ failed \subseteq Bodies

Settled == delivered \cup dropped

\* Body b still waits for endpoint e: in a queue, or with a worker that has
\* not come to e.
Pending(b, e) ==
    \/ InSeq(b, mem[CategoryOf[b]]) \/ InSeq(b, disk[CategoryOf[b]])
    \/ InSeq(b, fail)
    \/ \E f \in Flushers : pc[f] = "flush" /\ held[f] = b /\ ep[f] <= e

\* A worker that cleans the fail-cache has its read lock, so it is the only
\* one; the body it POSTs is still the head of the queue, whatever the other
\* workers dump meanwhile; and every endpoint it has passed has answered for
\* the body, so that DiskGet may move the position when the loop ends.
CleanHoldsHead ==
    \A f \in Flushers : pc[f] = "clean" =>
        /\ failLock = f /\ fail # <<>> /\ held[f] = Head(fail)
        /\ \A e \in Endpoints : e < ep[f] => <<held[f], e>> \in Settled

\* No body is forgotten: once Put has accepted it, for every endpoint it is
\* delivered, dropped by a path that says so, or still pending.  In particular
\* a body leaves the fail-cache (the callback of DiskGet returns nil) only
\* when every endpoint has answered for it, even though other workers append
\* to the fail-cache meanwhile.
NothingForgotten ==
    \A b \in accepted, e \in Endpoints : <<b, e>> \in Settled \/ Pending(b, e)

\* Apart from the attempts within one POST (sendReq), an endpoint gets a body
\* again only because it went to the fail-cache: neither the move of the read
\* position before the POST (WALQueue.Get) nor several workers on one queue
\* nor a crash sends a body twice.
AgainOnlyAfterFailure == \A p \in again : p[1] \in failed

\* Every accepted body is settled at every endpoint in the end, whichever
\* queue it is in, unless the process is told to exit.
EventuallySettled ==
    \A b \in Bodies, e \in Endpoints :
        b \in accepted ~> (<<b, e>> \in Settled \/ exit)

\* On exit every worker comes to an end, the ones that wait for the
\* fail-cache's lock included.
ExitStopsWorkers == exit ~> \A f \in Flushers : pc[f] = "done"
=============================================================================

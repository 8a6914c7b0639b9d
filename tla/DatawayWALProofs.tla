-------------------------- MODULE DatawayWALProofs --------------------------
(***************************************************************************)
(* Proofs about DatawayWAL, for any number of bodies, categories, workers  *)
(* and endpoints and any capacities.                                       *)
(***************************************************************************)
EXTENDS DatawayWAL, TLAPS

\* The leaves of the proofs go to Zenon, which is quick on first-order and set
\* reasoning; those that need arithmetic, sequences or records name SMT.
USE Zenon

----------------------------------------------------------------------------
(* Sequences *)

\* Sending to a channel, or dumping to a disk queue, adds one body.
LEMMA InSeqAppend ==
    ASSUME NEW S, NEW s \in Seq(S), NEW x \in S, NEW y
    PROVE  InSeq(y, Append(s, x)) <=> InSeq(y, s) \/ y = x
<1>1. /\ Append(s, x) \in Seq(S) /\ Len(Append(s, x)) = Len(s) + 1
      /\ Append(s, x)[Len(s) + 1] = x
      /\ \A i \in 1..Len(s) : Append(s, x)[i] = s[i]
    BY SMT
<1>2. DOMAIN s = 1..Len(s) /\ DOMAIN Append(s, x) = 1..(Len(s) + 1) /\ Len(s) \in Nat
    BY <1>1, SMT
<1>3. ASSUME InSeq(y, Append(s, x)) PROVE InSeq(y, s) \/ y = x
    <2>1. PICK i \in 1..(Len(s) + 1) : Append(s, x)[i] = y
        BY <1>2, <1>3 DEF InSeq
    <2>2. CASE i = Len(s) + 1
        BY <2>1, <2>2, <1>1
    <2>3. CASE i \in 1..Len(s)
        BY <2>1, <2>3, <1>1, <1>2 DEF InSeq
    <2>. QED  BY <2>2, <2>3, <1>2, SMT
<1>4. ASSUME InSeq(y, s) PROVE InSeq(y, Append(s, x))
    <2>1. PICK i \in 1..Len(s) : s[i] = y
        BY <1>2, <1>4 DEF InSeq
    <2>2. i \in 1..(Len(s) + 1) /\ Append(s, x)[i] = y
        BY <2>1, <1>1, <1>2, SMT
    <2>. QED  BY <2>2, <1>2 DEF InSeq
<1>5. ASSUME y = x PROVE InSeq(y, Append(s, x))
    <2>1. Len(s) + 1 \in 1..(Len(s) + 1)
        BY <1>2, SMT
    <2>. QED  BY <2>1, <1>1, <1>2, <1>5 DEF InSeq
<1>. QED  BY <1>3, <1>4, <1>5

\* Receiving from a channel, or moving a read position, removes the head.
LEMMA InSeqTail ==
    ASSUME NEW S, NEW s \in Seq(S), s # <<>>, NEW y
    PROVE  InSeq(y, s) <=> y = Head(s) \/ InSeq(y, Tail(s))
<1>1. /\ Tail(s) \in Seq(S) /\ Len(s) \in Nat \ {0} /\ Len(Tail(s)) = Len(s) - 1
      /\ Head(s) = s[1] /\ \A i \in 1..(Len(s) - 1) : Tail(s)[i] = s[i + 1]
    BY SMT
<1>2. DOMAIN s = 1..Len(s) /\ DOMAIN Tail(s) = 1..(Len(s) - 1)
    BY <1>1, SMT
<1>3. ASSUME InSeq(y, s) PROVE y = Head(s) \/ InSeq(y, Tail(s))
    <2>1. PICK i \in 1..Len(s) : s[i] = y
        BY <1>2, <1>3 DEF InSeq
    <2>2. CASE i = 1
        BY <2>1, <2>2, <1>1
    <2>3. CASE i # 1
        <3>1. i - 1 \in 1..(Len(s) - 1) /\ (i - 1) + 1 = i
            BY <2>3, <1>1, SMT
        <3>2. Tail(s)[i - 1] = y
            BY <3>1, <2>1, <1>1
        <3>. QED  BY <3>1, <3>2, <1>2 DEF InSeq
    <2>. QED  BY <2>2, <2>3
<1>4. ASSUME y = Head(s) PROVE InSeq(y, s)
    <2>1. 1 \in 1..Len(s)
        BY <1>1, SMT
    <2>. QED  BY <2>1, <1>1, <1>2, <1>4 DEF InSeq
<1>5. ASSUME InSeq(y, Tail(s)) PROVE InSeq(y, s)
    <2>1. PICK i \in 1..(Len(s) - 1) : Tail(s)[i] = y
        BY <1>2, <1>5 DEF InSeq
    <2>2. i + 1 \in 1..Len(s) /\ s[i + 1] = y
        BY <2>1, <1>1, SMT
    <2>. QED  BY <2>2, <1>2 DEF InSeq
<1>. QED  BY <1>3, <1>4, <1>5

\* The head of what is still to be read stays the head when bodies are dumped.
LEMMA HeadAppend ==
    ASSUME NEW S, NEW s \in Seq(S), s # <<>>, NEW x \in S
    PROVE  Append(s, x) # <<>> /\ Head(Append(s, x)) = Head(s)
    BY SMT

\* What a queue gives out is a body, and what is left is a queue.
LEMMA HeadTailType ==
    ASSUME NEW S, NEW s \in Seq(S), s # <<>>
    PROVE  Head(s) \in S /\ Tail(s) \in Seq(S)
    BY SMT

----------------------------------------------------------------------------
(* Types *)

\* A worker that flushes has a body.
HeldBody == \A f \in Flushers : pc[f] = "flush" => held[f] \in Bodies

\* What the other invariants are proved from.
TypeInv == TypeOK /\ HeldBody /\ CleanHoldsHead

\* A channel or disk queue of the WAL stays one when a body is added.
LEMMA PutType ==
    ASSUME NEW q \in [Categories -> Seq(Bodies)], NEW c \in Categories, NEW b \in Bodies
    PROVE  [q EXCEPT ![c] = Append(@, b)] \in [Categories -> Seq(Bodies)]
    BY SMT

\* And when its head is taken, which is a body.
LEMMA TakeType ==
    ASSUME NEW q \in [Categories -> Seq(Bodies)], NEW c \in Categories, q[c] # <<>>
    PROVE  /\ Head(q[c]) \in Bodies
           /\ [q EXCEPT ![c] = Tail(@)] \in [Categories -> Seq(Bodies)]
<1>1. q[c] \in Seq(Bodies)
    OBVIOUS
<1>2. Head(q[c]) \in Bodies /\ Tail(q[c]) \in Seq(Bodies)
    BY <1>1, HeadTailType
<1>. QED  BY <1>2

\* A worker in the loop over the endpoints POSTs a body to an endpoint.
LEMMA PairType ==
    ASSUME TypeInv, NEW f \in Flushers, Sending(f), ep[f] <= NEndpoints
    PROVE  /\ held[f] \in Bodies /\ ep[f] \in Endpoints
           /\ Pair(f) \in Bodies \X Endpoints /\ ep[f] + 1 \in 1..(NEndpoints + 1)
<1>1. held[f] \in Bodies
    <2>1. CASE pc[f] = "flush"
        BY <2>1 DEF TypeInv, HeldBody
    <2>2. CASE pc[f] = "clean"
        <3>1. fail \in Seq(Bodies) /\ fail # <<>> /\ held[f] = Head(fail)
            BY <2>2 DEF TypeInv, TypeOK, CleanHoldsHead
        <3>. QED  BY <3>1, HeadTailType
    <2>. QED  BY <2>1, <2>2 DEF Sending
<1>2. ep[f] \in Endpoints /\ ep[f] + 1 \in 1..(NEndpoints + 1)
    BY WALAssumption, SMT DEF TypeInv, TypeOK, Endpoints
<1>. QED  BY <1>1, <1>2 DEF Pair

\* A worker that starts to send a body has one, and the first endpoint.
LEMMA HoldType ==
    ASSUME TypeInv, NEW f \in Flushers, NEW b \in Bodies, NEW l \in {"flush", "clean"},
           Hold(f, b), Goto(f, l)
    PROVE  /\ pc' \in [Flushers -> Labels] /\ held' \in [Flushers -> Bodies \cup {NoBody}]
           /\ ep' \in [Flushers -> 1..(NEndpoints + 1)] /\ HeldBody'
<1>1. 1 \in 1..(NEndpoints + 1)
    BY WALAssumption, SMT
<1>2. ep' \in [Flushers -> 1..(NEndpoints + 1)]
    BY <1>1 DEF TypeInv, TypeOK, Hold
<1>3. pc' \in [Flushers -> Labels] /\ held' \in [Flushers -> Bodies \cup {NoBody}]
    BY DEF TypeInv, TypeOK, Hold, Goto, Labels
<1>4. HeldBody'
    BY <1>3 DEF TypeInv, TypeOK, HeldBody, Hold, Goto
<1>. QED  BY <1>2, <1>3, <1>4

\* A worker that goes back to its loop sends nothing.
LEMMA LoopType ==
    ASSUME TypeInv, NEW f \in Flushers, Goto(f, "loop"),
           UNCHANGED held \/ held' = [held EXCEPT ![f] = NoBody]
    PROVE  /\ pc' \in [Flushers -> Labels] /\ held' \in [Flushers -> Bodies \cup {NoBody}]
           /\ HeldBody'
<1>1. pc' \in [Flushers -> Labels] /\ held' \in [Flushers -> Bodies \cup {NoBody}]
    BY DEF TypeInv, TypeOK, Goto, Labels
<1>. QED  BY <1>1 DEF TypeInv, TypeOK, HeldBody, Goto

\* Every step keeps the types; PostOK, Post4XX and the error paths need that
\* the worker has a body and an endpoint left, and CleanDone a head to remove.
LEMMA TypeStep == TypeInv /\ [Next]_vars => TypeOK' /\ HeldBody'
<1>. SUFFICES ASSUME TypeInv, TypeOK, HeldBody, CleanHoldsHead, [Next]_vars
              PROVE  TypeOK' /\ HeldBody'
    BY DEF TypeInv
<1>. USE WALAssumption DEF Labels, queues, workers, history
<1>1. ASSUME NEW b \in Bodies, Put(b) PROVE TypeOK' /\ HeldBody'
    <2>. DEFINE c == CategoryOf[b]
    <2>1. c \in Categories
        OBVIOUS
    <2>2. /\ [mem EXCEPT ![c] = Append(@, b)] \in [Categories -> Seq(Bodies)]
          /\ [disk EXCEPT ![c] = Append(@, b)] \in [Categories -> Seq(Bodies)]
        BY <2>1, PutType DEF TypeOK
    <2>3. mem' \in [Categories -> Seq(Bodies)] /\ disk' \in [Categories -> Seq(Bodies)]
        BY <1>1, <2>2 DEF TypeOK, Put
    <2>4. offered' \subseteq Bodies /\ accepted' \subseteq offered'
        BY <1>1 DEF TypeOK, Put
    <2>. QED  BY <1>1, <2>3, <2>4 DEF TypeOK, HeldBody, Put
<1>2. ASSUME NEW f \in Flushers, Tick(f) PROVE TypeOK' /\ HeldBody'
    BY <1>2 DEF TypeOK, HeldBody, Tick
<1>3. ASSUME NEW f \in Flushers, Stop(f) PROVE TypeOK' /\ HeldBody'
    BY <1>3 DEF TypeOK, HeldBody, Stop, Goto
<1>4. ASSUME NEW f \in Flushers, StartClean(f) PROVE TypeOK' /\ HeldBody'
    BY <1>4 DEF TypeOK, HeldBody, StartClean, Goto
<1>5. ASSUME NEW f \in Flushers, TakeMem(f) PROVE TypeOK' /\ HeldBody'
    <2>1. WorksOn[f] \in Categories /\ mem[WorksOn[f]] # <<>>
        BY <1>5 DEF TakeMem
    <2>2. mem' \in [Categories -> Seq(Bodies)] /\ Head(mem[WorksOn[f]]) \in Bodies
        BY <1>5, <2>1, TakeType DEF TypeOK, TakeMem
    <2>3. /\ pc' \in [Flushers -> Labels] /\ held' \in [Flushers -> Bodies \cup {NoBody}]
          /\ ep' \in [Flushers -> 1..(NEndpoints + 1)] /\ HeldBody'
        BY <1>5, <2>2, HoldType DEF TakeMem
    <2>4. tick' \in [Flushers -> {"off", "armed", "fired"}]
        BY <1>5 DEF TypeOK, TakeMem
    <2>. QED  BY <1>5, <2>2, <2>3, <2>4 DEF TypeOK, TakeMem
<1>6. ASSUME NEW f \in Flushers, MissMem(f) PROVE TypeOK' /\ HeldBody'
    BY <1>6 DEF TypeOK, HeldBody, MissMem, Goto
<1>7. ASSUME NEW f \in Flushers, TakeDisk(f) PROVE TypeOK' /\ HeldBody'
    <2>1. WorksOn[f] \in Categories /\ disk[WorksOn[f]] # <<>>
        BY <1>7 DEF TakeDisk
    <2>2. disk' \in [Categories -> Seq(Bodies)] /\ Head(disk[WorksOn[f]]) \in Bodies
        BY <1>7, <2>1, TakeType DEF TypeOK, TakeDisk
    <2>3. dropped' \subseteq Bodies \X Endpoints
        BY <1>7, <2>2, SMT DEF TypeOK, TakeDisk
    <2>4. /\ pc' \in [Flushers -> Labels] /\ held' \in [Flushers -> Bodies \cup {NoBody}]
          /\ ep' \in [Flushers -> 1..(NEndpoints + 1)] /\ HeldBody'
        <3>. DEFINE b == Head(disk[WorksOn[f]])
        <3>1. CASE Goto(f, "loop") /\ UNCHANGED <<held, ep>>
            BY <3>1, LoopType DEF TypeOK
        <3>2. CASE Hold(f, b) /\ Goto(f, "flush")
            BY <3>2, <2>2, HoldType
        <3>. QED  BY <1>7, <3>1, <3>2 DEF TakeDisk
    <2>. QED  BY <1>7, <2>2, <2>3, <2>4 DEF TypeOK, TakeDisk
<1>8. ASSUME NEW f \in Flushers, MissDisk(f) PROVE TypeOK' /\ HeldBody'
    BY <1>8 DEF TypeOK, HeldBody, MissDisk, Goto
<1>9. ASSUME NEW f \in Flushers, TakeFail(f) PROVE TypeOK' /\ HeldBody'
    <2>1. Head(fail) \in Bodies /\ Tail(fail) \in Seq(Bodies)
        BY <1>9, HeadTailType DEF TypeOK, TakeFail
    <2>. DEFINE b == Head(fail)
    <2>2. {b} \X Endpoints \subseteq Bodies \X Endpoints
        BY <2>1
    <2>3. CASE /\ dropped' = dropped \cup ({b} \X Endpoints) /\ fail' = Tail(fail)
               /\ Goto(f, "loop") /\ UNCHANGED <<failLock, held, ep>>
        <3>1. pc' \in [Flushers -> Labels] /\ HeldBody'
            BY <2>3, LoopType
        <3>. QED  BY <1>9, <2>1, <2>2, <2>3, <3>1 DEF TypeOK, TakeFail
    <2>4. CASE /\ Hold(f, b) /\ failLock' = f /\ Goto(f, "clean")
               /\ UNCHANGED <<dropped, fail>>
        <3>1. /\ pc' \in [Flushers -> Labels] /\ held' \in [Flushers -> Bodies \cup {NoBody}]
              /\ ep' \in [Flushers -> 1..(NEndpoints + 1)] /\ HeldBody'
            BY <2>1, <2>4, HoldType
        <3>. QED  BY <1>9, <2>4, <3>1 DEF TypeOK, TakeFail
    <2>. QED  BY <1>9, <2>3, <2>4 DEF TakeFail
<1>10. ASSUME NEW f \in Flushers, MissFail(f) PROVE TypeOK' /\ HeldBody'
    BY <1>10 DEF TypeOK, HeldBody, MissFail, Goto
<1>11. ASSUME NEW f \in Flushers, GzipFails(f) PROVE TypeOK' /\ HeldBody'
    BY <1>11 DEF TypeOK, HeldBody, GzipFails, Goto, Endpoints
<1>12. ASSUME NEW f \in Flushers, PostOK(f) PROVE TypeOK' /\ HeldBody'
    <2>1. Pair(f) \in Bodies \X Endpoints /\ ep[f] + 1 \in 1..(NEndpoints + 1)
        BY <1>12, PairType DEF PostOK
    <2>2. /\ delivered' \subseteq Bodies \X Endpoints /\ again' \subseteq Bodies \X Endpoints
          /\ dropped' \subseteq Bodies \X Endpoints
        BY <1>12, <2>1 DEF TypeOK, PostOK, Deliver
    <2>. QED  BY <1>12, <2>1, <2>2 DEF TypeOK, HeldBody, PostOK, NextEp
<1>13. ASSUME NEW f \in Flushers, Post4XX(f) PROVE TypeOK' /\ HeldBody'
    <2>1. Pair(f) \in Bodies \X Endpoints /\ ep[f] + 1 \in 1..(NEndpoints + 1)
        BY <1>13, PairType DEF Post4XX
    <2>2. /\ delivered' \subseteq Bodies \X Endpoints /\ again' \subseteq Bodies \X Endpoints
          /\ dropped' \subseteq Bodies \X Endpoints
        <3>1. delivered' \subseteq Bodies \X Endpoints /\ again' \subseteq Bodies \X Endpoints
            <4>1. CASE Deliver(Pair(f))
                BY <4>1, <2>1 DEF TypeOK, Deliver
            <4>2. CASE UNCHANGED <<delivered, again>>
                BY <4>2 DEF TypeOK
            <4>. QED  BY <1>13, <4>1, <4>2 DEF Post4XX
        <3>. QED  BY <1>13, <2>1, <3>1 DEF TypeOK, Post4XX
    <2>. QED  BY <1>13, <2>1, <2>2 DEF TypeOK, HeldBody, Post4XX, NextEp
<1>14. ASSUME NEW f \in Flushers, FlushFails(f) PROVE TypeOK' /\ HeldBody'
    <2>1. /\ held[f] \in Bodies
          /\ Pair(f) \in Bodies \X Endpoints /\ ep[f] + 1 \in 1..(NEndpoints + 1)
        BY <1>14, PairType DEF FlushFails, Sending
    <2>2. /\ delivered' \subseteq Bodies \X Endpoints /\ again' \subseteq Bodies \X Endpoints
          /\ dropped' \subseteq Bodies \X Endpoints
        <3>1. delivered' \subseteq Bodies \X Endpoints /\ again' \subseteq Bodies \X Endpoints
            <4>1. CASE Deliver(Pair(f))
                BY <4>1, <2>1 DEF TypeOK, Deliver
            <4>2. CASE UNCHANGED <<delivered, again>>
                BY <4>2 DEF TypeOK
            <4>. QED  BY <1>14, <4>1, <4>2 DEF FlushFails
        <3>2. dropped' = dropped \/ dropped' = dropped \cup {Pair(f)}
            BY <1>14 DEF FlushFails
        <3>. QED  BY <2>1, <3>1, <3>2 DEF TypeOK
    <2>3. fail' \in Seq(Bodies) /\ failed' \subseteq Bodies
        <3>1. \/ fail' = Append(fail, held[f]) /\ failed' = failed \cup {held[f]}
              \/ UNCHANGED <<fail, failed>>
            BY <1>14 DEF FlushFails
        <3>2. Append(fail, held[f]) \in Seq(Bodies)
            BY <2>1, SMT DEF TypeOK
        <3>. QED  BY <2>1, <3>1, <3>2 DEF TypeOK
    <2>. QED  BY <1>14, <2>1, <2>2, <2>3 DEF TypeOK, HeldBody, FlushFails, NextEp
<1>15. ASSUME NEW f \in Flushers, CleanFails(f) PROVE TypeOK' /\ HeldBody'
    <2>1. Pair(f) \in Bodies \X Endpoints
        BY <1>15, PairType DEF CleanFails, Sending
    <2>2. /\ delivered' \subseteq Bodies \X Endpoints /\ again' \subseteq Bodies \X Endpoints
        BY <1>15, <2>1 DEF TypeOK, CleanFails, Deliver
    <2>. QED  BY <1>15, <2>2 DEF TypeOK, HeldBody, CleanFails, Goto
<1>16. ASSUME NEW f \in Flushers, FlushDone(f) PROVE TypeOK' /\ HeldBody'
    BY <1>16 DEF TypeOK, HeldBody, FlushDone, Goto
<1>17. ASSUME NEW f \in Flushers, CleanDone(f) PROVE TypeOK' /\ HeldBody'
    BY <1>17, HeadTailType DEF TypeOK, HeldBody, CleanDone, Goto, CleanHoldsHead
<1>18. CASE Exit
    BY <1>18 DEF TypeOK, HeldBody, Exit
<1>19. CASE Crash
    <2>1. dropped' \subseteq Bodies \X Endpoints
        BY <1>19 DEF TypeOK, Crash, LostMem, LostHeld
    <2>2. mem' \in [Categories -> Seq(Bodies)]
        BY <1>19, SMT DEF Crash
    <2>3. ep' \in [Flushers -> 1..(NEndpoints + 1)]
        BY <1>19, SMT DEF Crash
    <2>4. /\ failLock' \in Flushers \cup {NoFlusher} /\ pc' \in [Flushers -> Labels]
          /\ held' \in [Flushers -> Bodies \cup {NoBody}]
          /\ tick' \in [Flushers -> {"off", "armed", "fired"}] /\ exit' \in BOOLEAN
        BY <1>19 DEF Crash
    <2>5. crashes' \in 0..MaxCrashes
        BY <1>19, SMT DEF TypeOK, Crash
    <2>6. HeldBody'
        BY <1>19 DEF HeldBody, Crash
    <2>. QED  BY <1>19, <2>1, <2>2, <2>3, <2>4, <2>5, <2>6 DEF TypeOK, Crash
<1>20. CASE UNCHANGED vars
    BY <1>20 DEF TypeOK, HeldBody, vars
<1>. QED
    BY <1>1, <1>2, <1>3, <1>4, <1>5, <1>6, <1>7, <1>8, <1>9, <1>10, <1>11, <1>12, <1>13, <1>14, <1>15, <1>16, <1>17, <1>18, <1>19, <1>20 DEF Next, WorkerStep

----------------------------------------------------------------------------
(* The fail-cache *)

\* What is settled stays settled.
LEMMA SettledGrows == [Next]_vars => Settled \subseteq Settled'
<1>. SUFFICES ASSUME [Next]_vars PROVE delivered \subseteq delivered' /\ dropped \subseteq dropped'
    BY DEF Settled
<1>. USE DEF queues, workers, history
<1>1. ASSUME NEW b \in Bodies, Put(b) PROVE UNCHANGED <<delivered, dropped>>
    BY <1>1 DEF Put
<1>2. ASSUME NEW f \in Flushers, Tick(f) \/ WorkerStep(f)
      PROVE  delivered \subseteq delivered' /\ dropped \subseteq dropped'
    BY <1>2 DEF WorkerStep, Tick, Stop, StartClean, TakeMem, MissMem, TakeDisk, MissDisk,
            TakeFail, MissFail, GzipFails, PostOK, Post4XX, FlushFails, CleanFails,
            FlushDone, CleanDone, Deliver
<1>3. CASE Exit
    BY <1>3 DEF Exit
<1>4. CASE Crash
    BY <1>4 DEF Crash
<1>5. CASE UNCHANGED vars
    BY <1>5 DEF vars
<1>. QED  BY <1>1, <1>2, <1>3, <1>4, <1>5 DEF Next

\* A step that leaves the head of the fail-cache, its lock and the workers
\* that clean as they are.
LEMMA CleanFrame ==
    ASSUME CleanHoldsHead, Settled \subseteq Settled', failLock' = failLock,
           fail # <<>> => fail' # <<>> /\ Head(fail') = Head(fail),
           \A g \in Flushers : pc'[g] = "clean" =>
               pc[g] = "clean" /\ held'[g] = held[g] /\ ep'[g] = ep[g]
    PROVE  CleanHoldsHead'
    BY DEF CleanHoldsHead

\* Every step keeps the worker that cleans on the head of the fail-cache.
\* TakeFail finds the lock free, so no other worker is cleaning; FlushFails of
\* the others appends behind the head.
LEMMA CleanStep == TypeInv /\ [Next]_vars => CleanHoldsHead'
<1>. SUFFICES ASSUME TypeInv, TypeOK, CleanHoldsHead, [Next]_vars PROVE CleanHoldsHead'
    BY DEF TypeInv
<1>0. Settled \subseteq Settled'
    BY SettledGrows
<1>. USE WALAssumption DEF queues, workers, history
<1>1. ASSUME NEW b \in Bodies, Put(b) PROVE CleanHoldsHead'
    BY <1>0, <1>1, CleanFrame DEF Put
<1>2. ASSUME NEW f \in Flushers,
             \/ Tick(f) \/ Stop(f) \/ StartClean(f) \/ TakeMem(f) \/ MissMem(f) \/ TakeDisk(f)
             \/ MissDisk(f) \/ MissFail(f) \/ GzipFails(f) \/ FlushDone(f)
      PROVE  CleanHoldsHead'
    <2>1. /\ failLock' = failLock /\ fail' = fail
          /\ \/ UNCHANGED <<pc, held, ep>>
             \/ /\ \E l \in {"loop", "disk", "lock", "flush", "done"} : pc' = [pc EXCEPT ![f] = l]
                /\ held' = held \/ \E b : held' = [held EXCEPT ![f] = b]
                /\ ep' = ep \/ ep' = [ep EXCEPT ![f] = 1]
        BY <1>2 DEF Tick, Stop, StartClean, TakeMem, MissMem, TakeDisk, MissDisk, MissFail,
                GzipFails, FlushDone, Goto, Hold
    <2>2. ASSUME NEW g \in Flushers, pc'[g] = "clean"
          PROVE  pc[g] = "clean" /\ held'[g] = held[g] /\ ep'[g] = ep[g]
        BY <2>1, <2>2 DEF TypeOK
    <2>. QED  BY <1>0, <2>1, <2>2, CleanFrame
<1>3. ASSUME NEW f \in Flushers, TakeFail(f) PROVE CleanHoldsHead'
    <2>1. \A g \in Flushers : pc[g] # "clean"
        BY <1>3 DEF TakeFail, CleanHoldsHead
    <2>. DEFINE b == Head(fail)
    <2>2. CASE Goto(f, "loop")
        BY <2>1, <2>2 DEF TypeOK, CleanHoldsHead, Goto
    <2>3. CASE Hold(f, b) /\ failLock' = f /\ Goto(f, "clean") /\ UNCHANGED <<dropped, fail>>
        <3>1. \A g \in Flushers : pc'[g] = "clean" => g = f
            BY <2>1, <2>3 DEF TypeOK, Goto
        <3>2. held'[f] = Head(fail') /\ ep'[f] = 1 /\ fail' # <<>>
            BY <1>3, <2>3 DEF TypeOK, Hold, TakeFail
        <3>3. \A e \in Endpoints : ~(e < ep'[f])
            BY <3>2, SMT DEF Endpoints
        <3>. QED  BY <2>3, <3>1, <3>2, <3>3 DEF CleanHoldsHead
    <2>. QED  BY <1>3, <2>2, <2>3 DEF TakeFail
<1>4. ASSUME NEW f \in Flushers, PostOK(f) \/ Post4XX(f) PROVE CleanHoldsHead'
    <2>1. /\ UNCHANGED <<pc, held, fail, failLock>> /\ ep' = [ep EXCEPT ![f] = @ + 1]
          /\ Pair(f) \in Settled'
        BY <1>4 DEF PostOK, Post4XX, Deliver, NextEp, Settled
    <2>2. ASSUME NEW g \in Flushers, pc[g] = "clean", NEW e \in Endpoints, e < ep'[g]
          PROVE  <<held[g], e>> \in Settled'
        <3>1. CASE e < ep[g]
            BY <1>0, <2>2, <3>1 DEF CleanHoldsHead
        <3>2. CASE g = f /\ e = ep[f]
            BY <2>1, <3>2 DEF Pair
        <3>. QED  BY <2>1, <2>2, <3>1, <3>2, SMT DEF TypeOK, Endpoints
    <2>. QED  BY <2>1, <2>2 DEF CleanHoldsHead
<1>5. ASSUME NEW f \in Flushers, FlushFails(f) PROVE CleanHoldsHead'
    <2>1. held[f] \in Bodies /\ UNCHANGED <<failLock, pc, held>>
        BY <1>5, PairType DEF FlushFails, Sending
    <2>2. fail # <<>> => fail' # <<>> /\ Head(fail') = Head(fail)
        <3>1. fail' = fail \/ fail' = Append(fail, held[f])
            BY <1>5 DEF FlushFails
        <3>2. fail # <<>> => Append(fail, held[f]) # <<>> /\ Head(Append(fail, held[f])) = Head(fail)
            BY <2>1, HeadAppend DEF TypeOK
        <3>. QED  BY <3>1, <3>2
    <2>3. \A g \in Flushers : pc[g] = "clean" => ep'[g] = ep[g]
        BY <1>5 DEF FlushFails, NextEp, TypeOK
    <2>. QED  BY <1>0, <2>1, <2>2, <2>3, CleanFrame
<1>6. ASSUME NEW f \in Flushers, CleanFails(f) \/ CleanDone(f) PROVE CleanHoldsHead'
    <2>1. pc[f] = "clean" /\ Goto(f, "loop")
        BY <1>6 DEF CleanFails, CleanDone
    <2>2. \A g \in Flushers : pc'[g] # "clean"
        BY <2>1 DEF CleanHoldsHead, Goto, TypeOK
    <2>. QED  BY <2>2 DEF CleanHoldsHead
<1>7. CASE Exit
    BY <1>0, <1>7, CleanFrame DEF Exit
<1>8. CASE Crash
    BY <1>8 DEF Crash, CleanHoldsHead
<1>9. CASE UNCHANGED vars
    BY <1>0, <1>9, CleanFrame DEF vars
<1>. QED
    BY <1>1, <1>2, <1>3, <1>4, <1>5, <1>6, <1>7, <1>8, <1>9 DEF Next, WorkerStep

\* TypeInv is an inductive invariant.
LEMMA TypeInvariant == Spec => []TypeInv
<1>1. Init => TypeInv
    <2>. SUFFICES ASSUME Init PROVE TypeInv
        OBVIOUS
    <2>1. mem \in [Categories -> Seq(Bodies)] /\ disk \in [Categories -> Seq(Bodies)]
        BY SMT DEF Init
    <2>2. fail \in Seq(Bodies) /\ ep \in [Flushers -> 1..(NEndpoints + 1)]
        BY WALAssumption, SMT DEF Init
    <2>3. crashes \in 0..MaxCrashes
        BY WALAssumption, SMT DEF Init
    <2>4. TypeOK
        BY <2>1, <2>2, <2>3 DEF Init, TypeOK, Labels
    <2>. QED  BY <2>4 DEF Init, TypeInv, HeldBody, CleanHoldsHead
<1>2. TypeInv /\ [Next]_vars => TypeInv'
    BY TypeStep, CleanStep DEF TypeInv
<1>. QED  BY <1>1, <1>2, PTL DEF Spec

\* Every variable of the queues and workers keeps its type: in particular a
\* worker never goes past the end of dw.eps, and only bodies are queued.
THEOREM Types == Spec => []TypeOK
<1>1. TypeInv => TypeOK
    BY DEF TypeInv
<1>. QED  BY <1>1, TypeInvariant, PTL

\* The discipline of the fail-cache: one worker cleans at a time, on the head,
\* which no other worker replaces, and a body leaves the fail-cache only when
\* every endpoint has answered.
THEOREM CleaningHoldsHead == Spec => []CleanHoldsHead
<1>1. TypeInv => CleanHoldsHead
    BY DEF TypeInv
<1>. QED  BY <1>1, TypeInvariant, PTL

----------------------------------------------------------------------------
(* No body is forgotten *)

\* A step that takes nothing out of a queue or out of a worker's hands.
LEMMA PendingFrame ==
    ASSUME NEW b, NEW e, Pending(b, e), UNCHANGED <<mem, disk, fail>>,
           \A f \in Flushers : pc[f] = "flush" =>
               pc'[f] = "flush" /\ held'[f] = held[f] /\ ep'[f] = ep[f]
    PROVE  Pending(b, e)'
    BY DEF Pending, InSeq

\* Every step moves a pending body to another place where it is pending, or
\* settles it.
LEMMA ForgottenStep == TypeInv /\ NothingForgotten /\ [Next]_vars => NothingForgotten'
<1>. SUFFICES ASSUME TypeInv, TypeOK, CleanHoldsHead, NothingForgotten, [Next]_vars,
                     NEW b \in accepted', NEW e \in Endpoints,
                     ~(<<b, e>> \in Settled')
              PROVE  Pending(b, e)'
    BY DEF TypeInv, NothingForgotten
<1>0. b \in accepted => Pending(b, e)
    BY SettledGrows DEF NothingForgotten
<1>. DEFINE c == CategoryOf[b]
<1>a. b \in Bodies /\ c \in Categories
    BY TypeStep, WALAssumption DEF TypeOK
<1>. USE WALAssumption DEF queues, workers, history
<1>b. mem[c] \in Seq(Bodies) /\ disk[c] \in Seq(Bodies) /\ fail \in Seq(Bodies)
    BY <1>a DEF TypeOK
<1>c. /\ e \in Int /\ 1 <= e /\ e <= NEndpoints /\ NEndpoints \in Int
      /\ ep \in [Flushers -> Int]
    <2>1. \A g \in Flushers : ep[g] \in Int
        BY SMT DEF TypeOK
    <2>2. ep = [g \in Flushers |-> ep[g]]
        BY DEF TypeOK
    <2>3. ep \in [Flushers -> Int]
        BY ONLY <2>1, <2>2
    <2>. QED  BY <2>3, SMT DEF Endpoints
<1>1. ASSUME NEW x \in Bodies, Put(x) PROVE Pending(b, e)'
    <2>1. /\ \/ mem'[c] = mem[c] \/ mem'[c] = Append(mem[c], x)
          /\ \/ disk'[c] = disk[c] \/ disk'[c] = Append(disk[c], x)
          /\ UNCHANGED <<fail, pc, held, ep>>
        BY <1>1, <1>a DEF Put, TypeOK
    <2>2. CASE b \in accepted
        <3>1. /\ InSeq(b, mem[c]) => InSeq(b, mem'[c])
              /\ InSeq(b, disk[c]) => InSeq(b, disk'[c])
            <4>1. /\ InSeq(b, mem[c]) => InSeq(b, Append(mem[c], x))
                  /\ InSeq(b, disk[c]) => InSeq(b, Append(disk[c], x))
                BY <1>b, InSeqAppend
            <4>. QED  BY <2>1, <4>1
        <3>. QED  BY <1>0, <2>1, <2>2, <3>1 DEF Pending
    <2>3. CASE b \notin accepted
        <3>1. b = x /\ (mem'[c] = Append(mem[c], b) \/ disk'[c] = Append(disk[c], b))
            BY <1>1, <1>a, <2>3 DEF Put, TypeOK
        <3>2. InSeq(b, Append(mem[c], b)) /\ InSeq(b, Append(disk[c], b))
            BY <1>a, <1>b, InSeqAppend
        <3>. QED  BY <3>1, <3>2 DEF Pending
    <2>. QED  BY <2>2, <2>3
<1>2. ASSUME NEW f \in Flushers,
             \/ Tick(f) \/ Stop(f) \/ StartClean(f) \/ MissMem(f) \/ MissDisk(f)
             \/ MissFail(f) \/ CleanFails(f)
      PROVE  Pending(b, e)'
    <2>1. /\ UNCHANGED <<queues, ep, accepted>>
          /\ \/ UNCHANGED <<pc, held>>
             \/ /\ pc[f] # "flush" /\ \E l : pc' = [pc EXCEPT ![f] = l]
                /\ held' = held \/ held' = [held EXCEPT ![f] = NoBody]
        BY <1>2 DEF Tick, Stop, StartClean, MissMem, MissDisk, MissFail, CleanFails, Goto
    <2>2. \A g \in Flushers : pc[g] = "flush" => pc'[g] = "flush" /\ held'[g] = held[g]
        BY <2>1 DEF TypeOK
    <2>. QED  BY <1>0, <2>1, <2>2, PendingFrame
<1>3. ASSUME NEW f \in Flushers, TakeMem(f) PROVE Pending(b, e)'
    <2>1. /\ b \in accepted /\ UNCHANGED <<disk, fail>> /\ mem[WorksOn[f]] # <<>>
          /\ mem'[c] = mem[c] \/ (c = WorksOn[f] /\ mem'[c] = Tail(mem[c]))
        BY <1>3, <1>a DEF TakeMem, TypeOK
    <2>2. pc'[f] = "flush" /\ held'[f] = Head(mem[WorksOn[f]]) /\ ep'[f] <= e
        BY <1>3, SMT DEF TakeMem, Hold, Goto, TypeOK, Endpoints
    <2>3. \A g \in Flushers : pc[g] = "flush" =>
              pc'[g] = "flush" /\ held'[g] = held[g] /\ ep'[g] = ep[g]
        BY <1>3 DEF TakeMem, Hold, Goto, TypeOK
    <2>4. CASE InSeq(b, mem[c])
        <3>1. InSeq(b, mem'[c]) \/ (c = WorksOn[f] /\ b = Head(mem[c]))
            BY <2>1, <2>4, <1>b, InSeqTail, SMT
        <3>. QED  BY <2>2, <3>1 DEF Pending
    <2>. QED  BY <1>0, <2>1, <2>3, <2>4 DEF Pending
<1>4. ASSUME NEW f \in Flushers, TakeDisk(f) PROVE Pending(b, e)'
    <2>. DEFINE x == Head(disk[WorksOn[f]])
    <2>1. /\ b \in accepted /\ UNCHANGED <<mem, fail>> /\ disk[WorksOn[f]] # <<>>
          /\ disk'[c] = disk[c] \/ (c = WorksOn[f] /\ disk'[c] = Tail(disk[c]))
        BY <1>4, <1>a DEF TakeDisk, TypeOK
    <2>2. \/ Goto(f, "loop") /\ UNCHANGED <<held, ep>> /\ dropped' = dropped \cup ({x} \X Endpoints)
          \/ Hold(f, x) /\ Goto(f, "flush")
        BY <1>4 DEF TakeDisk
    <2>3. \A g \in Flushers : pc[g] = "flush" =>
              pc'[g] = "flush" /\ held'[g] = held[g] /\ ep'[g] = ep[g]
        BY <1>4, <2>2 DEF TakeDisk, Hold, Goto, TypeOK
    <2>4. CASE InSeq(b, disk[c])
        <3>1. InSeq(b, disk'[c]) \/ b = x
            BY <2>1, <2>4, <1>b, InSeqTail, SMT
        <3>2. CASE b = x
            <4>1. Hold(f, x) /\ Goto(f, "flush")
                BY <2>2, <3>2 DEF Settled
            <4>2. pc'[f] = "flush" /\ held'[f] = b /\ ep'[f] <= e
                BY <4>1, <3>2, <1>c DEF Hold, Goto, TypeOK
            <4>. QED  BY <4>2 DEF Pending
        <3>. QED  BY <3>1, <3>2 DEF Pending
    <2>. QED  BY <1>0, <2>1, <2>3, <2>4 DEF Pending
<1>5. ASSUME NEW f \in Flushers, TakeFail(f) PROVE Pending(b, e)'
    <2>1. /\ b \in accepted /\ UNCHANGED <<mem, disk>> /\ fail # <<>>
          /\ \/ fail' = fail
             \/ fail' = Tail(fail) /\ dropped' = dropped \cup ({Head(fail)} \X Endpoints)
        BY <1>5 DEF TakeFail
    <2>2. \/ Goto(f, "loop") /\ UNCHANGED <<held, ep>>
          \/ Hold(f, Head(fail)) /\ Goto(f, "clean")
        BY <1>5 DEF TakeFail
    <2>3. \A g \in Flushers : pc[g] = "flush" =>
              pc'[g] = "flush" /\ held'[g] = held[g] /\ ep'[g] = ep[g]
        BY <1>5, <2>2 DEF TakeFail, Hold, Goto, TypeOK
    <2>4. InSeq(b, fail) => InSeq(b, fail')
        <3>1. fail' = Tail(fail) /\ fail' # fail => b # Head(fail)
            BY <2>1 DEF Settled
        <3>2. InSeq(b, fail) => b = Head(fail) \/ InSeq(b, Tail(fail))
            BY <2>1, <1>b, InSeqTail
        <3>. QED  BY <2>1, <3>1, <3>2
    <2>. QED  BY <1>0, <2>1, <2>3, <2>4 DEF Pending
<1>6. ASSUME NEW f \in Flushers, GzipFails(f) \/ FlushDone(f) PROVE Pending(b, e)'
    <2>1. /\ b \in accepted /\ UNCHANGED <<queues, ep>> /\ pc[f] = "flush"
          /\ \E l : pc' = [pc EXCEPT ![f] = l] /\ held' = [held EXCEPT ![f] = NoBody]
        BY <1>6 DEF GzipFails, FlushDone, Goto
    <2>2. ~(held[f] = b /\ ep[f] <= e)
        <3>1. CASE GzipFails(f)
            BY <3>1 DEF GzipFails, Settled
        <3>2. CASE FlushDone(f)
            BY ONLY <3>2, <1>c, f \in Flushers, SMT DEF FlushDone
        <3>. QED  BY <1>6, <3>1, <3>2
    <2>3. \A g \in Flushers \ {f} : pc'[g] = pc[g] /\ held'[g] = held[g] /\ ep'[g] = ep[g]
        BY <2>1 DEF TypeOK
    <2>. QED  BY <1>0, <2>1, <2>2, <2>3 DEF Pending
<1>7. ASSUME NEW f \in Flushers, PostOK(f) \/ Post4XX(f) PROVE Pending(b, e)'
    <2>1. /\ b \in accepted /\ UNCHANGED <<queues, pc, held>> /\ ep' = [ep EXCEPT ![f] = @ + 1]
          /\ Pair(f) \in Settled'
        BY <1>7 DEF PostOK, Post4XX, Deliver, NextEp, Settled
    <2>2. \A g \in Flushers : held[g] = b /\ ep[g] <= e => ep'[g] <= e
        <3>1. held[f] = b => ep[f] # e
            BY <2>1 DEF Pair
        <3>2. \A g \in Flushers : ep'[g] = IF g = f THEN ep[g] + 1 ELSE ep[g]
            BY ONLY <2>1, <1>c
        <3>. QED  BY ONLY <3>1, <3>2, <1>c, SMT
    <2>. QED  BY <1>0, <2>1, <2>2 DEF Pending
<1>8. ASSUME NEW f \in Flushers, FlushFails(f) PROVE Pending(b, e)'
    <2>1. /\ b \in accepted /\ UNCHANGED <<mem, disk, pc, held>> /\ ep' = [ep EXCEPT ![f] = @ + 1]
          /\ \/ fail' = Append(fail, held[f])
             \/ fail' = fail /\ Pair(f) \in Settled'
        BY <1>8 DEF FlushFails, NextEp, Settled
    <2>2. held[f] \in Bodies
        BY <1>8, PairType DEF FlushFails, Sending
    <2>3. /\ InSeq(b, fail) => InSeq(b, fail')
          /\ Pair(f) \in Settled' \/ InSeq(held[f], fail')
        <3>1. /\ InSeq(b, fail) => InSeq(b, Append(fail, held[f]))
              /\ InSeq(held[f], Append(fail, held[f]))
            BY <2>2, <1>b, InSeqAppend
        <3>. QED  BY <2>1, <3>1
    <2>4. \A g \in Flushers : held[g] = b /\ ep[g] <= e => ep'[g] <= e \/ InSeq(b, fail')
        <3>1. held[f] = b => ep[f] # e \/ InSeq(b, fail')
            BY <2>3 DEF Pair
        <3>2. \A g \in Flushers : ep'[g] = IF g = f THEN ep[g] + 1 ELSE ep[g]
            BY ONLY <2>1, <1>c
        <3>. QED  BY ONLY <3>1, <3>2, <1>c, SMT
    <2>. QED  BY <1>0, <2>1, <2>3, <2>4 DEF Pending
<1>9. ASSUME NEW f \in Flushers, CleanDone(f) PROVE Pending(b, e)'
    <2>1. /\ b \in accepted /\ UNCHANGED <<mem, disk, ep, delivered, dropped>>
          /\ fail' = Tail(fail) /\ pc[f] = "clean" /\ ep[f] > NEndpoints
          /\ pc' = [pc EXCEPT ![f] = "loop"] /\ held' = [held EXCEPT ![f] = NoBody]
        BY <1>9 DEF CleanDone, Goto
    <2>2. fail # <<>> /\ b # Head(fail)
        <3>1. /\ fail # <<>> /\ held[f] = Head(fail)
              /\ e < ep[f] => <<held[f], e>> \in Settled
            BY <2>1 DEF CleanHoldsHead
        <3>2. e < ep[f]
            BY ONLY <2>1, <1>c, f \in Flushers, SMT
        <3>3. <<b, e>> \notin Settled
            BY <2>1 DEF Settled
        <3>. QED  BY ONLY <3>1, <3>2, <3>3
    <2>3. InSeq(b, fail) => InSeq(b, fail')
        BY <2>1, <2>2, <1>b, InSeqTail
    <2>4. \A g \in Flushers : pc[g] = "flush" =>
              pc'[g] = "flush" /\ held'[g] = held[g] /\ ep'[g] = ep[g]
        BY <2>1 DEF TypeOK
    <2>. QED  BY <1>0, <2>1, <2>3, <2>4 DEF Pending
<1>10. CASE Exit
    BY <1>0, <1>10, PendingFrame DEF Exit
<1>11. CASE Crash
    <2>1. /\ b \in accepted /\ UNCHANGED <<disk, fail>>
          /\ <<b, e>> \notin LostMem /\ <<b, e>> \notin LostHeld
        BY <1>11 DEF Crash, Settled
    <2>2. ~InSeq(b, mem[c])
        BY <1>a, <2>1 DEF LostMem, InSeq
    <2>3. ~\E f \in Flushers : pc[f] = "flush" /\ held[f] = b /\ ep[f] <= e
        BY <1>a, <2>1 DEF LostHeld
    <2>. QED  BY <1>0, <2>1, <2>2, <2>3 DEF Pending
<1>12. CASE UNCHANGED vars
    BY <1>0, <1>12, PendingFrame DEF vars
<1>. QED
    BY <1>1, <1>2, <1>3, <1>4, <1>5, <1>6, <1>7, <1>8, <1>9, <1>10, <1>11, <1>12
    DEF Next, WorkerStep

\* Once WALQueue.Put has accepted a body, every endpoint gets it, or one of the
\* paths that say so drops it, or it is still on its way: whatever the number
\* of workers, endpoints and crashes and the sizes of the queues.
THEOREM NoBodyForgotten == Spec => []NothingForgotten
<1>1. Init => NothingForgotten
    BY DEF Init, NothingForgotten
<1>2. NothingForgotten /\ TypeInv /\ [Next]_vars => NothingForgotten'
    BY ForgottenStep
<1>3. Spec => []TypeInv
    BY TypeInvariant
<1>. QED  BY <1>1, <1>2, <1>3, PTL DEF Spec

----------------------------------------------------------------------------
(* A body is sent again only by way of the fail-cache *)

Distinct(s) == \A i, j \in DOMAIN s : s[i] = s[j] => i = j

\* Body b waits in the WAL.
Queued(b) == InSeq(b, mem[CategoryOf[b]]) \/ InSeq(b, disk[CategoryOf[b]])

\* A body of the WAL is in one place: in the channel or the disk queue of its
\* category, once, or with one worker that flushes it.
OnePlace ==
    /\ \A c \in Categories : Distinct(mem[c]) /\ Distinct(disk[c])
    /\ \A c \in Categories, b \in Bodies :
        /\ InSeq(b, mem[c]) => CategoryOf[b] = c /\ b \in offered /\ ~InSeq(b, disk[c])
        /\ InSeq(b, disk[c]) => CategoryOf[b] = c /\ b \in offered
    /\ \A f \in Flushers : pc[f] = "flush" => held[f] \in offered /\ ~Queued(held[f])
    /\ \A f, g \in Flushers :
        pc[f] = "flush" /\ pc[g] = "flush" /\ held[f] = held[g] => f = g

\* What is in the fail-cache has been put there.
FailMarked == \A b \in Bodies : InSeq(b, fail) => b \in failed \cap offered

\* A body that was delivered and did not fail has left the WAL, and the worker
\* that flushes it has passed the endpoint.
Passed ==
    \A b \in Bodies, e \in Endpoints : <<b, e>> \in delivered =>
        /\ b \in offered
        /\ b \notin failed =>
            /\ ~Queued(b)
            /\ \A f \in Flushers : pc[f] = "flush" /\ held[f] = b => e < ep[f]

OnceInv == OnePlace /\ FailMarked /\ Passed /\ AgainOnlyAfterFailure

\* A queue to which a new body is added has each body once.
LEMMA DistinctAppend ==
    ASSUME NEW S, NEW s \in Seq(S), NEW x \in S, Distinct(s), ~InSeq(x, s)
    PROVE  Distinct(Append(s, x))
<1>1. /\ Len(Append(s, x)) = Len(s) + 1 /\ Append(s, x)[Len(s) + 1] = x /\ Len(s) \in Nat
      /\ \A i \in 1..Len(s) : Append(s, x)[i] = s[i]
    BY SMT
<1>2. DOMAIN s = 1..Len(s) /\ DOMAIN Append(s, x) = 1..(Len(s) + 1)
    BY <1>1, SMT
<1>3. \A i \in 1..Len(s) : s[i] # x
    BY <1>2 DEF InSeq
<1>4. \A i, j \in 1..Len(s) : s[i] = s[j] => i = j
    BY <1>2 DEF Distinct
<1>5. ASSUME NEW i \in 1..(Len(s) + 1), NEW j \in 1..(Len(s) + 1),
             Append(s, x)[i] = Append(s, x)[j]
      PROVE  i = j
    <2>1. (i = Len(s) + 1 \/ i \in 1..Len(s)) /\ (j = Len(s) + 1 \/ j \in 1..Len(s))
        BY <1>1, SMT
    <2>. QED  BY ONLY <2>1, <1>1, <1>3, <1>4, <1>5
<1>. QED  BY <1>2, <1>5 DEF Distinct

\* What is left of such a queue has each body once, and the head no more.
LEMMA DistinctTail ==
    ASSUME NEW S, NEW s \in Seq(S), s # <<>>, Distinct(s)
    PROVE  Distinct(Tail(s)) /\ ~InSeq(Head(s), Tail(s))
<1>1. /\ Len(s) \in Nat \ {0} /\ Len(Tail(s)) = Len(s) - 1 /\ Tail(s) \in Seq(S)
      /\ Head(s) = s[1] /\ \A i \in 1..(Len(s) - 1) : Tail(s)[i] = s[i + 1]
    BY SMT
<1>2. DOMAIN s = 1..Len(s) /\ DOMAIN Tail(s) = 1..(Len(s) - 1)
    BY <1>1, SMT
<1>3. \A i, j \in 1..Len(s) : s[i] = s[j] => i = j
    BY <1>2 DEF Distinct
<1>4. \A i \in 1..(Len(s) - 1) : i + 1 \in 1..Len(s) /\ i + 1 # 1 /\ 1 \in 1..Len(s)
    BY <1>1, SMT
<1>5. ASSUME NEW i \in 1..(Len(s) - 1), NEW j \in 1..(Len(s) - 1), Tail(s)[i] = Tail(s)[j]
      PROVE  i = j
    <2>1. i + 1 = j + 1
        BY ONLY <1>1, <1>3, <1>4, <1>5, SMT
    <2>. QED  BY <2>1, SMT
<1>6. \A i \in 1..(Len(s) - 1) : Tail(s)[i] # Head(s)
    BY ONLY <1>1, <1>3, <1>4
<1>. QED  BY <1>2, <1>5, <1>6 DEF Distinct, InSeq

\* Nothing is added to the WAL, and what is left of it has each body once.
OnlyTaken ==
    /\ offered \subseteq offered'
    /\ \A c \in Categories :
        /\ Distinct(mem'[c]) /\ Distinct(disk'[c])
        /\ \A b \in Bodies : /\ InSeq(b, mem'[c]) => InSeq(b, mem[c])
                             /\ InSeq(b, disk'[c]) => InSeq(b, disk[c])

\* A step that leaves the queues takes nothing.
LEMMA NothingTaken ==
    ASSUME OnePlace, UNCHANGED <<mem, disk>>, offered \subseteq offered' PROVE OnlyTaken
BY DEF OnePlace, OnlyTaken

\* A body that is not in the WAL is not put back.
LEMMA TakenQueued ==
    ASSUME OnlyTaken, NEW b \in Bodies, Queued(b)' PROVE Queued(b)
BY WALAssumption DEF OnlyTaken, Queued

\* A step that takes from the WAL or from the workers.
LEMMA PlaceFrame ==
    ASSUME TypeInv, OnePlace, OnlyTaken,
           \A g \in Flushers : pc'[g] = "flush" => pc[g] = "flush" /\ held'[g] = held[g]
    PROVE  OnePlace'
<1>1. ASSUME NEW g \in Flushers, pc'[g] = "flush" PROVE held'[g] \in offered' /\ ~Queued(held[g])'
    <2>1. held'[g] = held[g] /\ held[g] \in Bodies /\ held[g] \in offered /\ ~Queued(held[g])
        BY <1>1 DEF TypeInv, HeldBody, OnePlace
    <2>. QED  BY <2>1, TakenQueued DEF OnlyTaken
<1>. QED  BY <1>1, SMT DEF OnePlace, OnlyTaken

\* A worker takes x out of the WAL.
LEMMA PlaceTake ==
    ASSUME TypeInv, OnePlace, OnlyTaken, NEW f \in Flushers, NEW x \in Bodies,
           Queued(x), ~Queued(x)', pc'[f] = "flush", held'[f] = x,
           \A g \in Flushers \ {f} : pc'[g] = "flush" => pc[g] = "flush" /\ held'[g] = held[g]
    PROVE  OnePlace'
<1>1. ASSUME NEW g \in Flushers \ {f}, pc'[g] = "flush"
      PROVE  held'[g] \in offered' /\ ~Queued(held[g])' /\ held'[g] # x
    <2>1. held'[g] = held[g] /\ held[g] \in Bodies /\ held[g] \in offered /\ ~Queued(held[g])
        BY <1>1 DEF TypeInv, HeldBody, OnePlace
    <2>. QED  BY <2>1, TakenQueued DEF OnlyTaken
<1>2. x \in offered'
    BY WALAssumption DEF OnePlace, OnlyTaken, Queued
<1>. QED  BY <1>1, <1>2, SMT DEF OnePlace, OnlyTaken

\* In a step that sends nothing, the workers come to hold only bodies that
\* were queued, which had not been delivered, and do not go back.
LEMMA PassedFrame ==
    ASSUME TypeInv, Passed, OnlyTaken, delivered' = delivered, failed \subseteq failed',
           \A g \in Flushers : pc'[g] = "flush" =>
               \/ Queued(held'[g])
               \/ pc[g] = "flush" /\ held'[g] = held[g] /\ ep'[g] = ep[g]
    PROVE  Passed'
<1>. SUFFICES ASSUME NEW b \in Bodies, NEW e \in Endpoints, <<b, e>> \in delivered, b \notin failed
              PROVE  ~Queued(b)' /\ \A g \in Flushers : pc'[g] = "flush" /\ held'[g] = b => e < ep'[g]
    BY DEF Passed, OnlyTaken
<1>1. ~Queued(b) /\ \A g \in Flushers : pc[g] = "flush" /\ held[g] = b => e < ep[g]
    BY DEF Passed
<1>. QED  BY <1>1, TakenQueued

\* A POST, whatever its answer: a worker that flushes sends the body to an
\* endpoint that has not had it, and one that cleans sends a body that failed.
LEMMA PostKeeps ==
    ASSUME TypeInv, OnceInv, NEW f \in Flushers, Sending(f), ep[f] <= NEndpoints,
           Deliver(Pair(f)) \/ UNCHANGED <<delivered, again>>,
           UNCHANGED <<mem, disk, offered>>, failed \subseteq failed',
           \A g \in Flushers : pc'[g] = "flush" =>
               /\ pc[g] = "flush" /\ held'[g] = held[g]
               /\ ep'[g] = IF g = f THEN ep[g] + 1 ELSE ep[g]
    PROVE  Passed' /\ AgainOnlyAfterFailure'
<1>1. /\ held[f] \in Bodies /\ ep[f] \in Endpoints
      /\ Pair(f) = <<held[f], ep[f]>>
    BY PairType DEF Pair
<1>2. \A g \in Flushers : ep[g] \in Int
    BY SMT DEF TypeInv, TypeOK
<1>3. held[f] \in offered /\ (held[f] \in failed \/ pc[f] = "flush")
    <2>1. CASE pc[f] = "clean"
        <3>1. fail \in Seq(Bodies) /\ fail # <<>> /\ held[f] = Head(fail)
            BY <2>1 DEF TypeInv, TypeOK, CleanHoldsHead
        <3>2. InSeq(held[f], fail)
            BY <3>1, InSeqTail
        <3>. QED  BY <1>1, <2>1, <3>2 DEF OnceInv, FailMarked
    <2>2. CASE pc[f] = "flush"
        BY <2>2 DEF OnceInv, OnePlace
    <2>. QED  BY <2>1, <2>2 DEF Sending
<1>4. ASSUME pc[f] = "flush"
      PROVE  /\ ~Queued(held[f]) /\ \A g \in Flushers : pc[g] = "flush" /\ held[g] = held[f] => g = f
    BY <1>4 DEF OnceInv, OnePlace
<1>5. ASSUME Pair(f) \in delivered PROVE held[f] \in failed
    BY <1>1, <1>2, <1>3, <1>5, SMT DEF OnceInv, Passed
<1>6. AgainOnlyAfterFailure'
    <2>1. again' \subseteq again \cup {Pair(f)} /\ (again' # again => Pair(f) \in delivered)
        BY DEF Deliver
    <2>2. \A p \in again : p[1] \in failed'
        BY DEF OnceInv, AgainOnlyAfterFailure
    <2>3. Pair(f)[1] = held[f]
        BY <1>1, SMT
    <2>. QED  BY <1>5, <2>1, <2>2, <2>3 DEF AgainOnlyAfterFailure
<1>7. ASSUME NEW b \in Bodies, NEW e \in Endpoints, <<b, e>> \in delivered'
      PROVE  /\ b \in offered'
             /\ b \notin failed' =>
                 /\ ~Queued(b)'
                 /\ \A g \in Flushers : pc'[g] = "flush" /\ held'[g] = b => e < ep'[g]
    <2>1. CASE <<b, e>> \in delivered
        <3>1. /\ b \in offered
              /\ b \notin failed =>
                  ~Queued(b) /\ \A g \in Flushers : pc[g] = "flush" /\ held[g] = b => e < ep[g]
            BY <2>1 DEF OnceInv, Passed
        <3>2. e \in Int
            BY WALAssumption, SMT DEF Endpoints
        <3>3. Queued(b)' <=> Queued(b)
            BY DEF Queued
        <3>. QED  BY <1>2, <3>1, <3>2, <3>3, SMT
    <2>2. CASE b = held[f] /\ e = ep[f]
        <3>1. e \in Int /\ e < ep[f] + 1
            BY <1>2, <2>2, SMT
        <3>2. Queued(b)' <=> Queued(b)
            BY DEF Queued
        <3>. QED  BY <1>3, <1>4, <2>2, <3>1, <3>2
    <2>. QED  BY <1>1, <1>7, <2>1, <2>2, SMT DEF Deliver
<1>. QED  BY <1>6, <1>7 DEF Passed

\* Put adds a body that was never in the WAL, to one of its queues.
LEMMA PutOnce == ASSUME TypeInv, OnceInv, NEW x \in Bodies, Put(x) PROVE OnceInv'
<1>. DEFINE k == CategoryOf[x]
<1>1. k \in Categories /\ mem[k] \in Seq(Bodies) /\ disk[k] \in Seq(Bodies)
    BY WALAssumption DEF TypeInv, TypeOK
<1>2. /\ x \notin offered /\ offered' = offered \cup {x}
      /\ UNCHANGED <<fail, pc, held, ep, delivered, again, failed>>
    BY DEF Put, workers
<1>3. \A c \in Categories : ~InSeq(x, mem[c]) /\ ~InSeq(x, disk[c])
    BY <1>2 DEF OnceInv, OnePlace
<1>4. /\ \A c \in Categories \ {k} : mem'[c] = mem[c] /\ disk'[c] = disk[c]
      /\ \/ mem'[k] = Append(mem[k], x) /\ disk'[k] = disk[k]
         \/ disk'[k] = Append(disk[k], x) /\ mem'[k] = mem[k]
         \/ mem'[k] = mem[k] /\ disk'[k] = disk[k]
    BY <1>1 DEF Put, TypeInv, TypeOK
<1>5. /\ \A y : InSeq(y, Append(mem[k], x)) <=> InSeq(y, mem[k]) \/ y = x
      /\ \A y : InSeq(y, Append(disk[k], x)) <=> InSeq(y, disk[k]) \/ y = x
    BY <1>1, InSeqAppend
<1>6. Distinct(Append(mem[k], x)) /\ Distinct(Append(disk[k], x))
    BY <1>1, <1>3, DistinctAppend DEF OnceInv, OnePlace
<1>7. \A c \in Categories : Distinct(mem'[c]) /\ Distinct(disk'[c])
    BY <1>1, <1>4, <1>6 DEF OnceInv, OnePlace
<1>8. ASSUME NEW c \in Categories, NEW b \in Bodies
      PROVE  /\ InSeq(b, mem'[c]) => CategoryOf[b] = c /\ b \in offered' /\ ~InSeq(b, disk'[c])
             /\ InSeq(b, disk'[c]) => CategoryOf[b] = c /\ b \in offered'
             /\ b # x => /\ InSeq(b, mem'[c]) => InSeq(b, mem[c])
                         /\ InSeq(b, disk'[c]) => InSeq(b, disk[c])
    <2>1. /\ InSeq(b, mem[c]) => CategoryOf[b] = c /\ b \in offered /\ ~InSeq(b, disk[c])
          /\ InSeq(b, disk[c]) => CategoryOf[b] = c /\ b \in offered
        BY DEF OnceInv, OnePlace
    <2>. QED  BY <1>2, <1>3, <1>4, <1>5, <2>1
<1>9. ASSUME NEW b \in Bodies, b # x, ~Queued(b) PROVE ~Queued(b)'
    BY <1>8, <1>9, WALAssumption DEF Queued
<1>10. \A f \in Flushers : pc[f] = "flush" => held[f] # x /\ held[f] \in Bodies
    BY <1>2 DEF OnceInv, OnePlace, TypeInv, HeldBody
<1>11. \A f \in Flushers : pc'[f] = "flush" => held'[f] \in offered' /\ ~Queued(held[f])'
    <2>1. \A f \in Flushers : pc[f] = "flush" => held[f] \in offered /\ ~Queued(held[f])
        BY DEF OnceInv, OnePlace
    <2>. QED  BY <1>2, <1>9, <1>10, <2>1 DEF Queued
<1>12. OnePlace'
    BY <1>2, <1>7, <1>8, <1>11 DEF OnceInv, OnePlace
<1>13. FailMarked' /\ AgainOnlyAfterFailure'
    BY <1>2 DEF OnceInv, FailMarked, AgainOnlyAfterFailure
<1>14. Passed'
    BY <1>2, <1>9 DEF OnceInv, Passed
<1>. QED  BY <1>12, <1>13, <1>14 DEF OnceInv

\* The fail-cache loses its head, or stays.
LEMMA FailShrinks ==
    ASSUME TypeInv, FailMarked, fail' = fail \/ (fail # <<>> /\ fail' = Tail(fail)),
           failed \subseteq failed', offered \subseteq offered'
    PROVE  FailMarked'
<1>1. \A b \in Bodies : InSeq(b, fail') => InSeq(b, fail)
    BY InSeqTail DEF TypeInv, TypeOK
<1>. QED  BY <1>1 DEF FailMarked

\* A worker takes the head of the channel or the disk queue of its category.
LEMMA TakeOnce ==
    ASSUME TypeInv, OnceInv, NEW f \in Flushers, TakeMem(f) \/ TakeDisk(f)
    PROVE  OnceInv'
<1>. DEFINE k == WorksOn[f]
<1>1. k \in Categories /\ mem[k] \in Seq(Bodies) /\ disk[k] \in Seq(Bodies)
    BY WALAssumption DEF TypeInv, TypeOK
<1>2. UNCHANGED <<fail, offered, delivered, again, failed>>
    BY DEF TakeMem, TakeDisk, history
<1>3. /\ \A c \in Categories \ {k} : mem'[c] = mem[c] /\ disk'[c] = disk[c]
      /\ \/ TakeMem(f) /\ mem[k] # <<>> /\ mem'[k] = Tail(mem[k]) /\ disk'[k] = disk[k]
         \/ ~TakeMem(f) /\ disk[k] # <<>> /\ disk'[k] = Tail(disk[k]) /\ mem'[k] = mem[k]
    BY <1>1 DEF TakeMem, TakeDisk, TypeInv, TypeOK
<1>4. /\ mem[k] # <<>> =>
            /\ Distinct(Tail(mem[k])) /\ ~InSeq(Head(mem[k]), Tail(mem[k]))
            /\ \A y : InSeq(y, mem[k]) <=> y = Head(mem[k]) \/ InSeq(y, Tail(mem[k]))
      /\ disk[k] # <<>> =>
            /\ Distinct(Tail(disk[k])) /\ ~InSeq(Head(disk[k]), Tail(disk[k]))
            /\ \A y : InSeq(y, disk[k]) <=> y = Head(disk[k]) \/ InSeq(y, Tail(disk[k]))
    BY <1>1, DistinctTail, InSeqTail, SMT DEF OnceInv, OnePlace
<1>5. OnlyTaken
    BY <1>2, <1>3, <1>4, SMT DEF OnceInv, OnePlace, OnlyTaken
<1>6. PICK x \in Bodies : x = IF TakeMem(f) THEN Head(mem[k]) ELSE Head(disk[k])
    BY <1>1, <1>3, HeadTailType
<1>7. CategoryOf[x] = k /\ Queued(x)
    <2>1. InSeq(x, mem[k]) \/ InSeq(x, disk[k])
        BY <1>3, <1>4, <1>6
    <2>. QED  BY <1>1, <2>1 DEF OnceInv, OnePlace, Queued
<1>8. ~Queued(x)'
    <2>1. ~InSeq(x, mem'[k]) /\ ~InSeq(x, disk'[k])
        <3>1. ~(InSeq(x, mem[k]) /\ InSeq(x, disk[k]))
            BY <1>1, <1>7 DEF OnceInv, OnePlace
        <3>. QED  BY <1>3, <1>4, <1>6, <3>1
    <2>. QED  BY <1>7, <2>1 DEF Queued
<1>9. /\ \A g \in Flushers \ {f} : pc'[g] = pc[g] /\ held'[g] = held[g] /\ ep'[g] = ep[g]
      /\ pc'[f] = "loop" \/ (pc'[f] = "flush" /\ held'[f] = x)
    BY <1>6 DEF TakeMem, TakeDisk, Hold, Goto, TypeInv, TypeOK
<1>10. OnePlace'
    <2>1. CASE pc'[f] = "loop"
        BY <1>5, <1>9, <2>1, PlaceFrame DEF OnceInv
    <2>2. CASE pc'[f] = "flush" /\ held'[f] = x
        BY <1>5, <1>7, <1>8, <1>9, <2>2, PlaceTake DEF OnceInv
    <2>. QED  BY <1>9, <2>1, <2>2
<1>11. Passed'
    <2>1. \A g \in Flushers : pc'[g] = "flush" =>
              Queued(held'[g]) \/ (pc[g] = "flush" /\ held'[g] = held[g] /\ ep'[g] = ep[g])
        BY <1>7, <1>9
    <2>. QED  BY <1>2, <1>5, <2>1, PassedFrame DEF OnceInv
<1>12. FailMarked' /\ AgainOnlyAfterFailure'
    BY <1>2 DEF OnceInv, FailMarked, AgainOnlyAfterFailure
<1>. QED  BY <1>10, <1>11, <1>12 DEF OnceInv

\* OnceInv is kept by every step.
LEMMA OnceStep == TypeInv /\ OnceInv /\ [Next]_vars => OnceInv'
<1>. SUFFICES ASSUME TypeInv, OnceInv, [Next]_vars PROVE OnceInv'
    OBVIOUS
<1>. USE DEF queues, workers, history
<1>1. ASSUME NEW f \in Flushers,
             \/ Tick(f) \/ Stop(f) \/ StartClean(f) \/ MissMem(f) \/ MissDisk(f) \/ MissFail(f)
             \/ TakeFail(f) \/ GzipFails(f) \/ FlushDone(f) \/ CleanDone(f)
      PROVE  OnceInv'
    <2>1. UNCHANGED <<mem, disk, offered, delivered, again, failed>>
        BY <1>1 DEF Tick, Stop, StartClean, MissMem, MissDisk, MissFail, TakeFail, GzipFails,
                FlushDone, CleanDone
    <2>2. fail' = fail \/ (fail # <<>> /\ fail' = Tail(fail))
        <3>1. CASE CleanDone(f)
            BY <3>1 DEF CleanDone, TypeInv, CleanHoldsHead
        <3>. QED  BY <1>1, <3>1 DEF Tick, Stop, StartClean, MissMem, MissDisk, MissFail, TakeFail,
                        GzipFails, FlushDone
    <2>3. \A g \in Flushers : pc'[g] = "flush" =>
              pc[g] = "flush" /\ held'[g] = held[g] /\ ep'[g] = ep[g]
        BY <1>1 DEF Tick, Stop, StartClean, MissMem, MissDisk, MissFail, TakeFail, GzipFails,
                FlushDone, CleanDone, Goto, Hold, TypeInv, TypeOK
    <2>4. OnlyTaken
        BY <2>1, NothingTaken DEF OnceInv
    <2>5. OnePlace' /\ Passed'
        BY <2>1, <2>3, <2>4, PlaceFrame, PassedFrame DEF OnceInv
    <2>6. FailMarked' /\ AgainOnlyAfterFailure'
        BY <2>1, <2>2, FailShrinks DEF OnceInv, AgainOnlyAfterFailure
    <2>. QED  BY <2>5, <2>6 DEF OnceInv
<1>2. ASSUME NEW f \in Flushers, PostOK(f) \/ Post4XX(f) \/ FlushFails(f) \/ CleanFails(f)
      PROVE  OnceInv'
    <2>1. /\ Sending(f) /\ ep[f] <= NEndpoints /\ UNCHANGED <<mem, disk, offered>>
          /\ failed \subseteq failed'
          /\ Deliver(Pair(f)) \/ UNCHANGED <<delivered, again>>
        BY <1>2 DEF PostOK, Post4XX, FlushFails, CleanFails, Sending
    <2>2. \A g \in Flushers : pc'[g] = "flush" =>
              /\ pc[g] = "flush" /\ held'[g] = held[g]
              /\ ep'[g] = IF g = f THEN ep[g] + 1 ELSE ep[g]
        BY <1>2 DEF PostOK, Post4XX, FlushFails, CleanFails, NextEp, Goto, TypeInv, TypeOK
    <2>3. Passed' /\ AgainOnlyAfterFailure'
        BY <2>1, <2>2, PostKeeps
    <2>4. OnePlace'
        BY <2>1, <2>2, NothingTaken, PlaceFrame DEF OnceInv
    <2>5. FailMarked'
        <3>1. CASE fail' = fail
            BY <2>1, <3>1 DEF OnceInv, FailMarked
        <3>2. CASE fail' = Append(fail, held[f]) /\ failed' = failed \cup {held[f]} /\ pc[f] = "flush"
            <4>1. fail \in Seq(Bodies) /\ held[f] \in Bodies /\ held[f] \in offered
                BY <3>2 DEF TypeInv, TypeOK, HeldBody, OnceInv, OnePlace
            <4>2. \A b : InSeq(b, fail') => InSeq(b, fail) \/ b = held[f]
                BY <3>2, <4>1, InSeqAppend
            <4>. QED  BY <2>1, <3>2, <4>1, <4>2 DEF OnceInv, FailMarked
        <3>. QED  BY <1>2, <3>1, <3>2 DEF PostOK, Post4XX, FlushFails, CleanFails
    <2>. QED  BY <2>3, <2>4, <2>5 DEF OnceInv
<1>3. CASE Crash
    <2>1. /\ UNCHANGED <<disk, fail, offered, delivered, again, failed>>
          /\ mem' = [c \in Categories |-> <<>>] /\ \A g \in Flushers : pc'[g] = "loop"
        BY <1>3 DEF Crash
    <2>2. OnlyTaken
        BY <2>1, SMT DEF OnlyTaken, OnceInv, OnePlace, Distinct, InSeq
    <2>3. OnePlace' /\ Passed'
        BY <2>1, <2>2, PlaceFrame, PassedFrame DEF OnceInv
    <2>. QED  BY <2>1, <2>3 DEF OnceInv, FailMarked, AgainOnlyAfterFailure
<1>4. CASE Exit \/ UNCHANGED vars
    <2>1. UNCHANGED <<mem, disk, fail, pc, held, ep, offered, delivered, again, failed>>
        BY <1>4 DEF Exit, vars
    <2>2. OnePlace' /\ Passed'
        BY <2>1, NothingTaken, PlaceFrame, PassedFrame DEF OnceInv
    <2>. QED  BY <2>1, <2>2 DEF OnceInv, FailMarked, AgainOnlyAfterFailure
<1>. QED  BY <1>1, <1>2, <1>3, <1>4, PutOnce, TakeOnce DEF Next, WorkerStep

\* Whatever the number of workers and endpoints, the sizes of the queues and
\* the crashes: an endpoint gets a body in two POSTs only if the body went to
\* the fail-cache, because the WAL has each body in one place and a worker goes
\* over the endpoints once.
THEOREM SentAgainOnlyAfterFailure == Spec => []AgainOnlyAfterFailure
<1>1. Init => OnceInv
    BY SMT DEF Init, OnceInv, OnePlace, FailMarked, Passed, AgainOnlyAfterFailure, Distinct, InSeq
<1>2. OnceInv => AgainOnlyAfterFailure
    BY DEF OnceInv
<1>. QED  BY <1>1, <1>2, TypeInvariant, OnceStep, PTL DEF Spec
=============================================================================

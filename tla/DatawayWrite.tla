---------------------------- MODULE DatawayWrite ----------------------------
(***************************************************************************)
(* Dataway.Write and the flush workers at the level of the objects they    *)
(* recycle: writers, groupers and bodies come from pools, are filled field *)
(* by field, handed from goroutine to goroutine through the queues, and put*)
(* back by the last one.  Write groups the points by the value of the      *)
(* X-Global-Tags header and builds bodies of limited size; a flush worker  *)
(* gives the body a writer, compresses it and POSTs it, and puts it into   *)
(* the fail cache when that fails.                                         *)
(*                                                                         *)
(* DatawayWAL models the queues of the same code, what is lost and what is *)
(* sent again; here the question is whether what is POSTed is one body.    *)
(***************************************************************************)
EXTENDS Integers, Sequences, FiniteSets

CONSTANTS
    Categories,
    Compactors, \* callers of Write
    Writes,     \* Writes[c]: their calls, records [cat, pts]
    GroupOf,    \* GroupOf[p]: the value of X-Global-Tags for point p
    Sinker,     \* sinkEnabled
    Large,      \* points that no body has room for
    Brim,       \* points that would fill a body, but for their frame in it
    PartSize,   \* points that fit in a body (MaxRawBodySize)
    Flushers,
    CatOf,      \* CatOf[f]: the category of flush worker f
    MemCap, DiskCap, FailCap,   \* capacity of the queues
    MaxBodies,      \* bodies that may be allocated
    MaxRestarts,
    GzipMayChange   \* dw.GZip is configured anew between two runs

ASSUME WriteAssumption ==
    /\ MemCap \in Nat /\ DiskCap \in Nat /\ FailCap \in Nat /\ PartSize \in Nat \ {0}
    /\ MaxBodies \in Nat /\ MaxRestarts \in Nat /\ {Sinker, GzipMayChange} \subseteq BOOLEAN
    /\ Compactors \cap Flushers = {} /\ CatOf \in [Flushers -> Categories]
    /\ Writes \in [Compactors -> Seq([cat : Categories, pts : Seq(DOMAIN GroupOf)])]

VARIABLES
    gzip,       \* dw.GZip
    pc,         \* pc[x] for compactors and flush workers
    call,       \* call[c]: the number of calls of Write that c has begun
    wr,         \* wr[x]: the writer that x uses
    gr,         \* gr[c]: groupedPts of its grouper, a function of the header's value
    keys,       \* keys[c]: the groups that it has not built yet
    points,     \* points[c]: the points of the current group
    lastIdx,    \* lastIdx[c]: how many of them the encoder is done with
    has,        \* has[x]: the body that x holds, 0 for none
    body,       \* body[b]: the fields of body b
    newBodies, reuseBodies,     \* the pools of bodies, by the owner of the buffer
    bodies,     \* the number of bodies allocated
    writers, groupers,  \* the pools of writers and groupers: what they contain
    mem,        \* mem[cat]: bodies
    disk, fail, \* disk[cat], fail: bodies that were dumped to disk
    cleaner,    \* the worker that reads the fail cache, for no other can
    restarts

procs   == <<pc, call, wr, gr, keys, points, lastIdx, has>>
pools   == <<body, newBodies, reuseBodies, bodies>>
spare   == <<writers, groupers>>
queues  == <<mem, disk, fail, cleaner>>
vars    == <<gzip, procs, pools, spare, queues, restarts>>

Procs      == Compactors \cup Flushers
Empty      == [cat |-> "unknown", pts |-> <<>>, hdrs |-> {}, zipped |-> 0]
NoWriter   == [cat |-> "unknown", hdrs |-> {}, gz |-> FALSE, clean |-> FALSE]
NoGroups   == [k \in {} |-> <<>>]

NoBodies   == [b \in 1..MaxBodies |-> [data |-> Empty, self |-> FALSE]]

Init ==
    /\ gzip \in BOOLEAN /\ call = [c \in Compactors |-> 0]
    /\ pc = [x \in Procs |-> "idle"] /\ has = [x \in Procs |-> 0]
    /\ wr = [x \in Procs |-> NoWriter] /\ gr = [c \in Compactors |-> NoGroups]
    /\ keys = [c \in Compactors |-> {}] /\ points = [c \in Compactors |-> <<>>]
    /\ lastIdx = [c \in Compactors |-> 0]
    /\ body = NoBodies /\ newBodies = {} /\ reuseBodies = {} /\ bodies = 0
    /\ writers = {NoWriter} /\ groupers = {NoGroups}
    /\ mem = [c \in Categories |-> <<>>] /\ cleaner = {}
    /\ disk = [c \in Categories |-> <<>>] /\ fail = <<>> /\ restarts = 0

Goto(x, l) == pc' = [pc EXCEPT ![x] = l]
Hold(x, b) == has' = [has EXCEPT ![x] = b]

----------------------------------------------------------------------------
(* Pools *)

\* loadCache and buildPointsBody: headers are added to those the body has.
Load(d, old) == [d EXCEPT !.hdrs = @ \cup old.hdrs]

\* getNewBufferBody (self) and getReuseBufferBody: a pooled body or a new one,
\* which the caller fills with d.
TakeBody(b, self, d) ==
    /\ b \in (IF self THEN newBodies ELSE reuseBodies) \cup ({bodies + 1} \cap 1..MaxBodies)
    /\ newBodies' = newBodies \ {b} /\ reuseBodies' = reuseBodies \ {b}
    /\ bodies' = IF b > bodies THEN b ELSE bodies
    /\ body' = [body EXCEPT ![b] = [data |-> Load(d, @.data), self |-> self]]

\* putBody: reset, and back to the pool that the owner of its buffer tells.
PutBody(b) ==
    /\ body' = [body EXCEPT ![b].data = Empty]
    /\ IF body[b].self THEN newBodies' = newBodies \cup {b} /\ UNCHANGED reuseBodies
                       ELSE reuseBodies' = reuseBodies \cup {b} /\ UNCHANGED newBodies
    /\ UNCHANGED bodies

\* WithHTTPHeader: a header is a pair of a key and a value.
WithHTTPHeader(hs, h) == {g \in hs : g[1] # h[1]} \cup {h}
WithHTTPHeaders(hs, new) == {g \in hs : \A h \in new : g[1] # h[1]} \cup new

\* getWriter: any writer that is pooled, with the fields that the caller sets.
GetWriter(x, cat, clean, new) ==
    \E w \in writers :
        wr' = [wr EXCEPT ![x] = [w EXCEPT !.cat = cat, !.gz = gzip,
                                          !.clean = clean \/ @,
                                          !.hdrs = WithHTTPHeaders(@, new)]]

\* Mutant: cacheClean is not reset.
PutWriterBug(x) ==
    /\ writers' = writers \cup {[NoWriter EXCEPT !.clean = wr[x].clean]}
    /\ wr' = [wr EXCEPT ![x] = NoWriter]

\* putWriter, with reset.
PutWriter(x) == writers' = writers \cup {NoWriter} /\ wr' = [wr EXCEPT ![x] = NoWriter]

\* Mutant: the map of the grouper is not cleared.
PutGrouperBug(c) ==
    /\ groupers' = groupers \cup {gr[c]}
    /\ gr' = [gr EXCEPT ![c] = NoGroups] /\ keys' = [keys EXCEPT ![c] = {}]

\* putGrouper deletes the groups.
PutGrouper(c) ==
    /\ groupers' = groupers \cup {NoGroups}
    /\ gr' = [gr EXCEPT ![c] = NoGroups] /\ keys' = [keys EXCEPT ![c] = {}]

----------------------------------------------------------------------------
(* Write *)

InGroup(ps, k) == SelectSeq(ps, LAMBDA p : GroupOf[p] = k)

\* doGroupPoints adds the points to what the grouper has.
Grouped(g, ps) ==
    [k \in DOMAIN g \cup {GroupOf[ps[i]] : i \in DOMAIN ps} |->
        IF k \in DOMAIN g THEN g[k] \o InGroup(ps, k) ELSE InGroup(ps, k)]

\* Write up to the first body: the writer, its options, and the groups.
StartWrite(c) ==
    LET now == Writes[c][call[c] + 1] IN
    /\ pc[c] = "idle" /\ call[c] < Len(Writes[c]) /\ call' = [call EXCEPT ![c] = @ + 1]
    /\ GetWriter(c, now.cat, FALSE, {})
    /\ IF Sinker
         THEN /\ \E g \in groupers : gr' = [gr EXCEPT ![c] = Grouped(g, now.pts)]
              /\ keys' = [keys EXCEPT ![c] = DOMAIN gr'[c]]
              /\ Goto(c, "group") /\ UNCHANGED points
         ELSE /\ points' = [points EXCEPT ![c] = now.pts]
              /\ Goto(c, "build") /\ UNCHANGED <<gr, keys>>
    /\ UNCHANGED <<gzip, lastIdx, has, pools, spare, queues, restarts>>

\* The next group, in any order: it sets the header and the points.
NextGroup(c) == \E k \in keys[c] :
    /\ pc[c] = "group" /\ Goto(c, "build") /\ keys' = [keys EXCEPT ![c] = @ \ {k}]
    /\ wr' = [wr EXCEPT ![c].hdrs = WithHTTPHeader(@, <<"X-Global-Tags", k>>)]
    /\ points' = [points EXCEPT ![c] = gr[c][k]]
    /\ UNCHANGED <<gzip, call, gr, lastIdx, has, pools, spare, queues, restarts>>

\* Encoder.Next, after the first `done' points: it passes over points that are
\* too large and takes those from i to j, until a body is full or a point does
\* not fit.  A point that would fill the body begins no part: Next then answers
\* that nothing is left.
NextPart(ps, done, i, j) ==
    /\ done < i /\ i <= j /\ \A l \in (done + 1)..(i - 1) : ps[l] \in Large
    /\ \A l \in i..j : ps[l] \notin Large \cup Brim
    /\ j - i < PartSize
    /\ j - i + 1 < PartSize /\ j + 1 \in 1..Len(ps) => ps[j + 1] \in Large \cup Brim

\* A round of buildPointsBody: a body with as many points as it has room for.
BuildBody(c) == \E b \in 1..MaxBodies : \E i, j \in 1..Len(points[c]) :
    /\ pc[c] = "build" /\ NextPart(points[c], lastIdx[c], i, j) /\ Goto(c, "put") /\ Hold(c, b)
    /\ TakeBody(b, TRUE, [cat |-> wr[c].cat, pts |-> SubSeq(points[c], i, j),
                          hdrs |-> wr[c].hdrs, zipped |-> 0])
    /\ lastIdx' = [lastIdx EXCEPT ![c] = j]
    /\ UNCHANGED <<gzip, call, wr, gr, keys, points, spare, queues, restarts>>

\* The round that finds nothing more to encode; the body it took for it goes
\* back.  After the last group Write returns; an error of the encoder (failed)
\* ends it as well, and the other groups are not built.
LastRound(c, failed) == \E b \in 1..MaxBodies :
    /\ pc[c] = "build" /\ (failed \/ \A i, j \in 1..Len(points[c]) :
                                        ~NextPart(points[c], lastIdx[c], i, j))
    /\ IF newBodies # {} THEN b = 1 /\ UNCHANGED pools
       ELSE /\ b = bodies + 1 /\ newBodies' = {b} /\ bodies' = b
            /\ body' = [body EXCEPT ![b].self = TRUE] /\ UNCHANGED reuseBodies
    /\ IF failed \/ keys[c] = {}
         THEN Goto(c, "idle") /\ PutWriter(c) /\ PutGrouper(c)
         ELSE Goto(c, "group") /\ UNCHANGED <<wr, gr, keys, spare>>
    /\ points' = [points EXCEPT ![c] = <<>>] /\ lastIdx' = [lastIdx EXCEPT ![c] = 0]
    /\ UNCHANGED <<gzip, call, has, queues, restarts>>

\* Mutant: the body is put back after it was sent to the channel.
PutMemBug(c) ==
    LET b == has[c] IN
    /\ pc[c] = "put" /\ Len(mem[wr[c].cat]) < MemCap
    /\ mem' = [mem EXCEPT ![wr[c].cat] = Append(@, b)]
    /\ PutBody(b) /\ Hold(c, 0) /\ Goto(c, "build")
    /\ UNCHANGED <<gzip, call, wr, gr, keys, points, lastIdx, spare, disk, fail, cleaner, restarts>>

\* enqueueBody, WALQueue.Put: to the channel, ...
PutMem(c) ==
    /\ pc[c] = "put" /\ Len(mem[wr[c].cat]) < MemCap
    /\ mem' = [mem EXCEPT ![wr[c].cat] = Append(@, has[c])]
    /\ Hold(c, 0) /\ Goto(c, "build")
    /\ UNCHANGED <<gzip, call, wr, gr, keys, points, lastIdx, pools, spare, disk, fail,
                   cleaner, restarts>>

\* Mutant: the limit of the disk queue is not looked at.
PutDiskBug(c) ==
    LET b == has[c] IN
    /\ pc[c] = "put" /\ Len(mem[wr[c].cat]) >= MemCap
    /\ disk' = [disk EXCEPT ![wr[c].cat] = Append(@, body[b].data)]
    /\ PutBody(b) /\ Hold(c, 0) /\ Goto(c, "build")
    /\ UNCHANGED <<gzip, call, wr, gr, keys, points, lastIdx, spare, mem, fail, cleaner, restarts>>

\* ... or, when that is full, to disk if there is room, and back to the pool.
PutDisk(c) ==
    LET b == has[c] IN
    /\ pc[c] = "put" /\ Len(mem[wr[c].cat]) >= MemCap
    /\ disk' = IF Len(disk[wr[c].cat]) < DiskCap
               THEN [disk EXCEPT ![wr[c].cat] = Append(@, body[b].data)] ELSE disk
    /\ PutBody(b) /\ Hold(c, 0) /\ Goto(c, "build")
    /\ UNCHANGED <<gzip, call, wr, gr, keys, points, lastIdx, spare, mem, fail, cleaner, restarts>>

----------------------------------------------------------------------------
(* Flush workers *)

\* WALQueue.Get from the channel, ...
GetMem(f) ==
    LET q == mem[CatOf[f]] IN
    /\ pc[f] = "idle" /\ q # <<>> /\ Hold(f, Head(q)) /\ Goto(f, "flush")
    /\ mem' = [mem EXCEPT ![CatOf[f]] = Tail(@)]
    /\ UNCHANGED <<gzip, call, wr, gr, keys, points, lastIdx, pools, spare, disk, fail,
                   cleaner, restarts>>

\* ... or from disk, into a body that uses the buffers of the worker.
GetDisk(f) == \E b \in 1..MaxBodies :
    LET q == disk[CatOf[f]] IN
    /\ pc[f] = "idle" /\ mem[CatOf[f]] = <<>> /\ q # <<>>
    /\ TakeBody(b, FALSE, Head(q))
    /\ disk' = [disk EXCEPT ![CatOf[f]] = Tail(@)] /\ Hold(f, b) /\ Goto(f, "flush")
    /\ UNCHANGED <<gzip, call, wr, gr, keys, points, lastIdx, spare, mem, fail, cleaner, restarts>>

\* do and doFlush up to the POST: the writer gets the category and the headers
\* of the body, and the body is compressed.
DoFlush(f) ==
    LET d == body[has[f]].data IN
    /\ pc[f] = "flush" /\ Goto(f, "post")
    /\ GetWriter(f, d.cat, FALSE, d.hdrs)
    /\ body' = IF gzip /\ ~wr'[f].clean THEN [body EXCEPT ![has[f]].data.zipped = @ + 1] ELSE body
    /\ UNCHANGED <<gzip, call, gr, keys, points, lastIdx, has, newBodies, reuseBodies, bodies,
                   spare, queues, restarts>>

\* The answer: OK, or 4xx after which nothing is cached; or a failure, after
\* which dumpFailCache keeps the body as it is now, if there is room.
Flushed(f, ok) ==
    /\ pc[f] = "post" /\ cleaner # {f} /\ Goto(f, "idle")
    /\ fail' = IF ~ok /\ Len(fail) < FailCap THEN Append(fail, body[has[f]].data) ELSE fail
    /\ PutBody(has[f]) /\ PutWriter(f) /\ Hold(f, 0)
    /\ UNCHANGED <<gzip, call, gr, keys, points, lastIdx, groupers, mem, disk, cleaner, restarts>>

\* cleanFailCache up to the POST: the fail cache stays locked, and the body
\* stays at its head.
CleanFailCache(f) == \E b \in 1..MaxBodies :
    LET d == Head(fail) IN
    /\ pc[f] = "idle" /\ cleaner = {} /\ fail # <<>>
    /\ TakeBody(b, FALSE, d) /\ Hold(f, b)
    /\ GetWriter(f, d.cat, TRUE, {<<"X-Fail-Cache-Retry", "1">>} \cup body'[b].data.hdrs)
    /\ cleaner' = {f} /\ Goto(f, "post")
    /\ UNCHANGED <<gzip, call, gr, keys, points, lastIdx, spare, mem, disk, fail, restarts>>

\* The answer: a failure makes the fail cache roll back.
Cleaned(f, ok) ==
    /\ pc[f] = "post" /\ cleaner = {f} /\ cleaner' = {} /\ Goto(f, "idle")
    /\ fail' = IF ok THEN Tail(fail) ELSE fail
    /\ PutBody(has[f]) /\ PutWriter(f) /\ Hold(f, 0)
    /\ UNCHANGED <<gzip, call, gr, keys, points, lastIdx, groupers, mem, disk, restarts>>

\* The process ends at any point and is started again, perhaps with another
\* configuration; the files are left.
Restart ==
    /\ restarts < MaxRestarts /\ restarts' = restarts + 1
    /\ gzip' \in IF GzipMayChange THEN BOOLEAN ELSE {gzip}
    /\ pc' = [x \in Procs |-> "idle"] /\ has' = [x \in Procs |-> 0]
    /\ wr' = [x \in Procs |-> NoWriter] /\ gr' = [c \in Compactors |-> NoGroups]
    /\ keys' = [c \in Compactors |-> {}] /\ points' = [c \in Compactors |-> <<>>]
    /\ lastIdx' = [c \in Compactors |-> 0]
    /\ body' = NoBodies /\ newBodies' = {} /\ reuseBodies' = {} /\ bodies' = 0
    /\ writers' = {NoWriter} /\ groupers' = {NoGroups}
    /\ mem' = [c \in Categories |-> <<>>] /\ cleaner' = {}
    /\ UNCHANGED <<call, disk, fail>>

Write(c) ==
    \/ StartWrite(c) \/ NextGroup(c) \/ BuildBody(c) \/ PutMem(c) \/ PutDisk(c)
    \/ \E failed \in BOOLEAN : LastRound(c, failed)
Flush(f) ==
    \/ GetMem(f) \/ GetDisk(f) \/ DoFlush(f) \/ CleanFailCache(f)
    \/ \E ok \in BOOLEAN : Flushed(f, ok) \/ Cleaned(f, ok)

Next == (\E c \in Compactors : Write(c)) \/ (\E f \in Flushers : Flush(f)) \/ Restart

Spec == Init /\ [][Next]_vars

----------------------------------------------------------------------------
(* Properties *)

\* The parts of a group of points: a run of points that fit, from s on, is cut
\* into parts of PartSize points, of which the last may be shorter.
PartOf(pts, ps) ==
    \E s, i, j \in 1..Len(ps) :
        /\ s <= i /\ i <= j /\ (\A l \in s..j : ps[l] \notin Large \cup Brim)
        /\ s = 1 \/ ps[s - 1] \in Large
        /\ \E q \in 0..(i - s) : i = s + q * PartSize
        /\ j - i < PartSize
        /\ j - i + 1 < PartSize /\ j + 1 \in 1..Len(ps) => ps[j + 1] \in Large \cup Brim
        /\ pts = SubSeq(ps, i, j)

\* The parts of what one call writes, and the tag header it gives them.
OnePart(d) ==
    \E c \in Compactors : \E n \in 1..call[c] :
        LET now == Writes[c][n] IN
        \E k \in (IF Sinker THEN {GroupOf[now.pts[j]] : j \in DOMAIN now.pts} ELSE {""}) :
            /\ d.cat = now.cat
            /\ d.hdrs = IF Sinker THEN {<<"X-Global-Tags", k>>} ELSE {}
            /\ PartOf(d.pts, IF Sinker THEN InGroup(now.pts, k) ELSE now.pts)

\* writePointData: what is POSTed is one body as Write built it, points of one
\* call and one group that follow each other, with the category and the
\* X-Global-Tags of that group; the writer's headers are the body's and, when
\* and only when it comes from the fail cache, X-Fail-Cache-Retry.  No header,
\* flag or point of an earlier use of a pooled body, writer or grouper is in it.
PostIsOnePart ==
    \A f \in Flushers : pc[f] = "post" =>
        LET d == body[has[f]].data IN
        /\ OnePart(d) /\ wr[f].cat = d.cat /\ (wr[f].clean <=> cleaner = {f})
        /\ wr[f].hdrs = d.hdrs \cup
                (IF cleaner = {f} THEN {<<"X-Fail-Cache-Retry", "1">>} ELSE {})

\* writePointData: Content-Encoding says gzip when and only when the payload has
\* been compressed, and that once: "under cacheClean, all body has been gzipped
\* during previous POST".
EncodingMatches ==
    \A f \in Flushers : pc[f] = "post" =>
        body[has[f]].data.zipped = IF wr[f].gz THEN 1 ELSE 0

\* Where body b is: with a goroutine, in a channel, in a pool.
Places(b) ==
    {<<"held", x>> : x \in {y \in Procs : has[y] = b}}
        \cup (UNION {{<<c, i>> : i \in {j \in DOMAIN mem[c] : mem[c][j] = b}} : c \in Categories})
        \cup {<<"pool", self>> : self \in {s \in BOOLEAN :
                                    b \in IF s THEN newBodies ELSE reuseBodies}}

\* putBody: no two goroutines, channels or pools ever have the same body, a
\* pooled body is in the pool of its kind and has nothing left in it, and a
\* body in a channel is never one whose buffers belong to a flush worker.
BodiesOwned ==
    \A b \in 1..bodies :
        /\ Cardinality(Places(b)) <= 1
        /\ b \in newBodies \cup reuseBodies => body[b].data = Empty
        /\ (b \in newBodies => body[b].self) /\ (b \in reuseBodies => ~body[b].self)
        /\ (\E c \in Categories : \E i \in DOMAIN mem[c] : mem[c][i] = b) => body[b].self

\* The types, and the limits of the queues.
TypeOK ==
    /\ gzip \in BOOLEAN /\ restarts \in 0..MaxRestarts /\ cleaner \subseteq Flushers
    /\ pc \in [Procs -> {"idle", "group", "build", "put", "flush", "post"}]
    /\ \A c \in Compactors : call[c] \in 0..Len(Writes[c]) /\ keys[c] \subseteq DOMAIN gr[c]
    /\ \A x \in Procs : has[x] \in 0..bodies /\ (has[x] # 0 <=> pc[x] \in {"put", "flush", "post"})
    /\ newBodies \cup reuseBodies \subseteq 1..bodies /\ bodies <= MaxBodies
    /\ \A c \in Categories : Len(mem[c]) <= MemCap /\ Len(disk[c]) <= DiskCap
    /\ Len(fail) <= FailCap
=============================================================================

------------------------- MODULE DatawayWriteProofs -------------------------
(***************************************************************************)
(* Proofs about DatawayWrite, for any number of callers, workers,          *)
(* categories, bodies, groups and points.  The inductive invariant says of *)
(* every body who has it (Owned), what is in it (Contents), and of every   *)
(* writer in use what its fields are (Compacting, Posting).                *)
(***************************************************************************)
EXTENDS DatawayWrite, FiniteSetTheorems, TLAPS

\* The leaves of the proofs go to Zenon, which is quick on first-order and set
\* reasoning; those that need arithmetic, sequences or records name SMT.
USE Zenon

Elems(q)    == {q[i] : i \in DOMAIN q}
IsSeq(q)    == q \in Seq(Elems(q))
Distinct(q) == \A i, j \in DOMAIN q : q[i] = q[j] => i = j

\* The fields that a body's data and a writer have.
DataFields   == {"cat", "pts", "hdrs", "zipped"}
WriterFields == {"cat", "hdrs", "gz", "clean"}

\* The domains, and which goroutine can be where.
Shape ==
    /\ DOMAIN call = Compactors /\ DOMAIN gr = Compactors /\ DOMAIN keys = Compactors
    /\ DOMAIN points = Compactors /\ DOMAIN lastIdx = Compactors
    /\ DOMAIN has = Procs /\ DOMAIN wr = Procs /\ \A x \in Procs : DOMAIN wr[x] = WriterFields
    /\ DOMAIN body = 1..MaxBodies
    /\ \A b \in 1..MaxBodies : /\ DOMAIN body[b] = {"data", "self"} /\ body[b].self \in BOOLEAN
                               /\ DOMAIN body[b].data = DataFields
    /\ mem \in [Categories -> Seq(Nat)] /\ DOMAIN disk = Categories
    /\ (\A c \in Categories : IsSeq(disk[c])) /\ IsSeq(fail) /\ bodies \in Nat
    /\ \A c \in Compactors : pc[c] \in {"idle", "group", "build", "put"}
    /\ \A f \in Flushers : pc[f] \in {"idle", "flush", "post"}
    /\ writers = {NoWriter} /\ groupers = {NoGroups}

Pool == newBodies \cup reuseBodies

\* A body is with one goroutine, or in one place of one channel, or pooled.
Owned ==
    /\ \A x, y \in Procs : has[x] = has[y] /\ has[x] # 0 => x = y
    /\ \A c \in Categories : Distinct(mem[c]) /\ Elems(mem[c]) \subseteq 1..bodies
    /\ \A c, d \in Categories : c # d => Elems(mem[c]) \cap Elems(mem[d]) = {}
    /\ \A x \in Procs, c \in Categories : has[x] \notin Elems(mem[c])
    /\ \A x \in Procs : has[x] \notin Pool
    /\ \A c \in Categories : Elems(mem[c]) \cap Pool = {}
    /\ newBodies \cap reuseBodies = {}

\* What is pooled or not allocated is empty, and a compactor's bodies, which
\* are those in the channels, own their buffers.
Kinds ==
    /\ \A b \in 1..MaxBodies : b \in Pool \/ b > bodies => body[b].data = Empty
    /\ \A b \in newBodies : body[b].self
    /\ \A b \in reuseBodies : ~body[b].self
    /\ \A c \in Categories : \A b \in Elems(mem[c]) : body[b].self
    /\ \A c \in Compactors : has[c] # 0 => body[has[c]].self

\* d is a part of a call that was begun when the calls' numbers were cl.
PartBy(d, cl) ==
    \E c \in Compactors : \E n \in 1..cl[c] :
        LET now == Writes[c][n] IN
        \E k \in (IF Sinker THEN {GroupOf[now.pts[j]] : j \in DOMAIN now.pts} ELSE {""}) :
            /\ d.cat = now.cat
            /\ d.hdrs = IF Sinker THEN {<<"X-Global-Tags", k>>} ELSE {}
            /\ PartOf(d.pts, IF Sinker THEN InGroup(now.pts, k) ELSE now.pts)

Sound(d, cl, z) == /\ DOMAIN d = DataFields /\ PartBy(d, cl)
                   /\ ~GzipMayChange => d.zipped = z

Zipped == IF gzip THEN 1 ELSE 0

\* What is on its way is a part, compressed from the POST on.
Contents ==
    /\ \A x \in Procs : has[x] # 0 =>
            Sound(body[has[x]].data, call, IF pc[x] = "post" THEN Zipped ELSE 0)
    /\ \A c \in Categories : \A b \in Elems(mem[c]) : Sound(body[b].data, call, 0)
    /\ \A c \in Categories : \A d \in Elems(disk[c]) : Sound(d, call, 0)
    /\ \A d \in Elems(fail) : Sound(d, call, Zipped)

\* Where the encoder can be in the points of a group: at their start, before a
\* point that does not fit, or after full parts of a run.
Between(ps, done) ==
    \/ done = 0
    \/ done + 1 \in 1..Len(ps) => ps[done + 1] \in Large \cup Brim
    \/ \E s \in 1..Len(ps) : \E q \in Nat :
          /\ s <= done + 1 /\ done + 1 = s + q * PartSize
          /\ (\A l \in s..done : ps[l] \notin Large \cup Brim) /\ (s = 1 \/ ps[s - 1] \in Large)

\* A compactor's writer has the category of its call and the header of the
\* group whose points it encodes.
Building(c, now) ==
    /\ IF Sinker THEN \E k \in DOMAIN gr[c] : wr[c].hdrs = {<<"X-Global-Tags", k>>}
                                            /\ points[c] = gr[c][k]
                 ELSE wr[c].hdrs = {} /\ points[c] = now.pts
    /\ lastIdx[c] \in Nat /\ Between(points[c], lastIdx[c])
CompactorOK(c) ==
    /\ pc[c] \in {"idle", "group"} => lastIdx[c] = 0
    /\ pc[c] # "idle" =>
         /\ call[c] # 0 /\ wr[c].cat = Writes[c][call[c]].cat
         /\ Sinker => gr[c] = Grouped(NoGroups, Writes[c][call[c]].pts)
    /\ pc[c] = "group" => Sinker /\ \A h \in wr[c].hdrs : h[1] = "X-Global-Tags"
    /\ pc[c] \in {"build", "put"} => Building(c, Writes[c][call[c]])
Compacting == \A c \in Compactors : CompactorOK(c) /\ (~Sinker => keys[c] = {})

\* A flush worker's writer has the category and the headers of its body, and
\* there is something to clean while one cleans.
Cleaning == cleaner = {} \/ \E f \in Flushers : cleaner = {f} /\ pc[f] = "post" /\ fail # <<>>
WorkerOK(f) ==
    pc[f] = "post" =>
        LET d == body[has[f]].data IN
        /\ wr[f].cat = d.cat /\ wr[f].gz = gzip /\ (wr[f].clean <=> cleaner = {f})
        /\ wr[f].hdrs = d.hdrs \cup
                (IF cleaner = {f} THEN {<<"X-Fail-Cache-Retry", "1">>} ELSE {})
Posting == Cleaning /\ \A f \in Flushers : WorkerOK(f)

Inv == TypeOK /\ Shape /\ Owned /\ Kinds /\ Contents /\ Compacting /\ Posting

----------------------------------------------------------------------------
(* Queues *)

\* A sequence over some set is one over its elements.
LEMMA SeqOfElems ==
  ASSUME NEW S, NEW q \in Seq(S)
  PROVE  IsSeq(q)
<1>1. Len(q) \in Nat /\ DOMAIN q = 1..Len(q) /\ q = [i \in 1..Len(q) |-> q[i]]
  BY SMT
<1>2. q \in [1..Len(q) -> Elems(q)]
  BY <1>1 DEF Elems
<1> QED
  BY <1>1, <1>2, SMT DEF IsSeq

\* Append adds one element at the end.
LEMMA AppendElems ==
  ASSUME NEW q, IsSeq(q), NEW e
  PROVE  /\ IsSeq(Append(q, e)) /\ Elems(Append(q, e)) = Elems(q) \cup {e}
         /\ Len(q) \in Nat /\ Len(Append(q, e)) = Len(q) + 1
         /\ Distinct(q) /\ e \notin Elems(q) => Distinct(Append(q, e))
<1> DEFINE S == Elems(q) \cup {e}
           r == Append(q, e)
<1>1. q \in Seq(S) /\ e \in S
  BY SMT DEF IsSeq
<1> HIDE DEF S
<1>2. /\ r \in Seq(S) /\ Len(q) \in Nat /\ Len(r) = Len(q) + 1 /\ r[Len(q) + 1] = e
      /\ DOMAIN q = 1..Len(q) /\ DOMAIN r = 1..(Len(q) + 1) /\ \A i \in 1..Len(q) : r[i] = q[i]
  BY <1>1, SMT
<1>3. Elems(r) = Elems(q) \cup {e}
  BY <1>2, SMT DEF Elems
<1>4. IsSeq(r)
  BY <1>2, SeqOfElems
<1>5. ASSUME Distinct(q), e \notin Elems(q)
      PROVE  Distinct(r)
  <2> SUFFICES ASSUME NEW i \in 1..(Len(q) + 1), NEW j \in 1..(Len(q) + 1), r[i] = r[j]
               PROVE  i = j
    BY <1>2 DEF Distinct
  <2>1. \A l \in 1..Len(q) : r[l] # e
    BY <1>2, <1>5 DEF Elems
  <2>2. CASE i \in 1..Len(q) /\ j \in 1..Len(q)
    BY <2>2, <1>2, <1>5 DEF Distinct
  <2>3. CASE ~(i \in 1..Len(q) /\ j \in 1..Len(q))
    BY <2>3, <2>1, <1>2, SMT
  <2> QED
    BY <2>2, <2>3
<1> QED
  BY <1>2, <1>3, <1>4, <1>5

\* Tail takes the head away.
LEMMA TailElems ==
  ASSUME NEW q, IsSeq(q), q # <<>>
  PROVE  /\ Head(q) \in Elems(q) /\ IsSeq(Tail(q)) /\ Elems(Tail(q)) \subseteq Elems(q)
         /\ Len(q) \in Nat /\ Len(Tail(q)) = Len(q) - 1
         /\ Distinct(q) => Distinct(Tail(q)) /\ Head(q) \notin Elems(Tail(q))
<1> DEFINE r == Tail(q)
<1>1. /\ r \in Seq(Elems(q)) /\ Len(q) \in Nat \ {0} /\ Len(r) = Len(q) - 1
      /\ DOMAIN q = 1..Len(q) /\ DOMAIN r = 1..(Len(q) - 1) /\ Head(q) = q[1]
      /\ \A i \in 1..(Len(q) - 1) : r[i] = q[i + 1]
  BY SMT DEF IsSeq
<1>2. Head(q) \in Elems(q) /\ Elems(r) \subseteq Elems(q)
  BY <1>1, SMT DEF Elems
<1>3. IsSeq(r)
  BY <1>1, SeqOfElems
<1>4. ASSUME Distinct(q)
      PROVE  Distinct(r) /\ Head(q) \notin Elems(r)
  <2>1. \A i \in 1..(Len(q) - 1) : i + 1 \in 1..Len(q) /\ 1 \in 1..Len(q) /\ i + 1 # 1
    BY <1>1, SMT
  <2>2. Distinct(r)
    BY <1>1, <1>4, <2>1, SMT DEF Distinct
  <2>3. Head(q) \notin Elems(r)
    BY <1>1, <1>4, <2>1, SMT DEF Distinct, Elems
  <2> QED
    BY <2>2, <2>3
<1> QED
  BY <1>1, <1>2, <1>3, <1>4
----------------------------------------------------------------------------
(* Who has a body: one lemma for each way in which a body changes hands *)

\* What the types say of the numbers that stand for bodies.
LEMMA Numbers ==
  ASSUME TypeOK, Shape
  PROVE  /\ MaxBodies \in Nat /\ bodies \in Nat /\ bodies <= MaxBodies /\ Pool \subseteq 1..bodies
         /\ \A x \in Procs : has[x] \in 0..bodies
         /\ \A c \in Categories : IsSeq(mem[c])
BY WriteAssumption, SeqOfElems DEF TypeOK, Shape, Pool

\* The number of a body that somebody has.
LEMMA BodyHeld ==
  ASSUME TypeOK, Shape, NEW x \in Procs, has[x] # 0
  PROVE  has[x] \in 1..MaxBodies /\ has[x] \in 1..bodies
BY Numbers, SMT

\* The first entry of a channel is taken off.
LEMMA OneLess ==
  ASSUME NEW q, IsSeq(q), q # <<>>, NEW n \in Nat, Len(q) <= n
  PROVE  IsSeq(Tail(q)) /\ Len(Tail(q)) <= n
<1>1. Len(q) \in Nat
  BY SMT DEF IsSeq
<1>2. IsSeq(Tail(q)) /\ Len(Tail(q)) = Len(q) - 1
  BY TailElems
<1> QED
  BY <1>1, <1>2, SMT

\* One more entry is put in a channel that has room.
LEMMA OneMore ==
  ASSUME NEW q, IsSeq(q), NEW n \in Nat, Len(q) < n, NEW e
  PROVE  IsSeq(Append(q, e)) /\ Len(Append(q, e)) <= n
BY AppendElems, SMT

\* Who takes a body, or gives it away, stands where the label says.
LEMMA HoldTypes ==
  ASSUME TypeOK, Shape, NEW x \in Procs, NEW b \in 0..MaxBodies, Hold(x, b),
         NEW l \in {"idle", "group", "build", "put", "flush", "post"}, Goto(x, l),
         b # 0 <=> l \in {"put", "flush", "post"},
         bodies' \in Nat, bodies <= bodies', b <= bodies'
  PROVE  /\ pc' \in [Procs -> {"idle", "group", "build", "put", "flush", "post"}]
         /\ pc'[x] = l /\ \A y \in Procs : y # x => pc'[y] = pc[y]
         /\ DOMAIN has' = Procs
         /\ \A y \in Procs : /\ has'[y] \in 0..bodies'
                             /\ has'[y] # 0 <=> pc'[y] \in {"put", "flush", "post"}
<1>1. /\ pc' \in [Procs -> {"idle", "group", "build", "put", "flush", "post"}]
      /\ pc'[x] = l /\ \A y \in Procs : y # x => pc'[y] = pc[y]
  BY DEF TypeOK, Goto
<1>2. DOMAIN has' = Procs /\ has'[x] = b /\ \A y \in Procs : y # x => has'[y] = has[y]
  BY DEF Shape, Hold
<1>3. b \in 0..bodies' /\ 0..bodies \subseteq 0..bodies'
  BY Numbers, SMT
<1>4. \A y \in Procs : has'[y] \in 0..bodies'
  BY <1>2, <1>3 DEF TypeOK
<1>5. \A y \in Procs : has'[y] # 0 <=> pc'[y] \in {"put", "flush", "post"}
  BY <1>1, <1>2 DEF TypeOK
<1> QED
  BY <1>1, <1>2, <1>4, <1>5

\* What happens to the pools when body b is taken.
Taken(b) ==
    /\ b \in Pool \cup {bodies + 1}
    /\ newBodies' = newBodies \ {b} /\ reuseBodies' = reuseBodies \ {b}
    /\ bodies' = IF b > bodies THEN b ELSE bodies

\* getNewBufferBody and getReuseBufferBody give out a body that nobody has, and
\* that is empty.
LEMMA TakeFree ==
  ASSUME TypeOK, Shape, Owned, Kinds, NEW b \in 1..MaxBodies, Taken(b)
  PROVE  /\ b \in Pool \/ b > bodies
         /\ body[b].data = Empty
         /\ \A y \in Procs : has[y] # b
         /\ \A c \in Categories : b \notin Elems(mem[c])
         /\ bodies' \in Nat /\ bodies <= bodies' /\ bodies' <= MaxBodies /\ b <= bodies'
         /\ Pool' = Pool \ {b} /\ \A e \in Pool' : e <= bodies
<1>1. b \in Pool \/ b > bodies
  BY Numbers, SMT DEF Taken, Pool
<1>2. \A y \in Procs : has[y] # b
  BY <1>1, Numbers, SMT DEF Owned
<1>3. \A c \in Categories : b \notin Elems(mem[c])
  BY <1>1, Numbers, SMT DEF Owned
<1>4. /\ bodies' \in Nat /\ bodies <= bodies' /\ bodies' <= MaxBodies /\ b <= bodies'
  BY Numbers, SMT DEF Taken
<1>5. Pool' = Pool \ {b}
  BY DEF Taken, Pool
<1>6. body[b].data = Empty
  BY <1>1 DEF Kinds
<1> QED
  BY <1>1, <1>2, <1>3, <1>4, <1>5, <1>6, Numbers, SMT

\* The goroutine that takes a body has it, and nobody else.
LEMMA TakeKeeps ==
  ASSUME TypeOK, Shape, Owned, Kinds, NEW x \in Procs,
         NEW b \in 1..MaxBodies, Taken(b), has[x] = 0, Hold(x, b), UNCHANGED mem,
         x \in Compactors => body'[b].self, \A e \in 1..MaxBodies : e # b => body'[e] = body[e]
  PROVE  Owned' /\ Kinds'
<1>0. /\ b \in Pool \/ b > bodies
      /\ (\A y \in Procs : has[y] # b) /\ \A c \in Categories : b \notin Elems(mem[c])
      /\ bodies' \in Nat /\ bodies <= bodies' /\ bodies' <= MaxBodies /\ b <= bodies'
      /\ Pool' = Pool \ {b} /\ \A e \in Pool' : e <= bodies
  BY TakeFree
<1>1. /\ has'[x] = b /\ \A y \in Procs : y # x => has'[y] = has[y]
  BY DEF Hold, Shape
<1>3. Owned'
  <2>1. (\A z, y \in Procs : has[z] = has[y] /\ has[z] # 0 => z = y)'
    BY <1>1, <1>0, SMT DEF Owned
  <2>2. (\A c \in Categories : Distinct(mem[c]) /\ Elems(mem[c]) \subseteq 1..bodies)'
    BY <1>0, Numbers, SMT DEF Owned
  <2>3. (\A c, e \in Categories : c # e => Elems(mem[c]) \cap Elems(mem[e]) = {})'
    BY DEF Owned
  <2>4. (\A y \in Procs, c \in Categories : has[y] \notin Elems(mem[c]))'
    BY <1>1, <1>0 DEF Owned
  <2>5. (\A y \in Procs : has[y] \notin Pool)'
    BY <1>1, <1>0 DEF Owned
  <2>6. (\A c \in Categories : Elems(mem[c]) \cap Pool = {})'
    BY <1>0 DEF Owned
  <2>7. (newBodies \cap reuseBodies = {})'
    BY DEF Owned, Taken
  <2> QED
    BY <2>1, <2>2, <2>3, <2>4, <2>5, <2>6, <2>7 DEF Owned
<1>4. Kinds'
  <2>1. (\A e \in 1..MaxBodies : e \in Pool \/ e > bodies => body[e].data = Empty)'
    <3> SUFFICES ASSUME NEW e \in 1..MaxBodies, e \in Pool' \/ e > bodies'
                 PROVE  body'[e].data = Empty
      OBVIOUS
    <3>1. e # b /\ (e \in Pool \/ e > bodies)
      BY <1>0, Numbers, SMT
    <3> QED
      BY <3>1 DEF Kinds
  <2>2. (\A e \in newBodies : body[e].self)'
    BY Numbers, SMT DEF Kinds, Taken, Pool
  <2>3. (\A e \in reuseBodies : ~body[e].self)'
    BY Numbers, SMT DEF Kinds, Taken, Pool
  <2>4. (\A c \in Categories : \A e \in Elems(mem[c]) : body[e].self)'
    BY <1>0, Numbers, SMT DEF Kinds, Owned
  <2>5. (\A c \in Compactors : has[c] # 0 => body[has[c]].self)'
    <3> SUFFICES ASSUME NEW c \in Compactors, has'[c] # 0
                 PROVE  body'[has'[c]].self
      OBVIOUS
    <3>1. CASE c = x
      BY <3>1, <1>1
    <3>2. CASE c # x
      <4>1. has'[c] = has[c] /\ has[c] # b /\ has[c] \in 1..MaxBodies
        BY <3>2, <1>1, <1>0, Numbers, SMT DEF Procs
      <4> QED
        BY <4>1 DEF Kinds
    <3> QED
      BY <3>1, <3>2
  <2> QED
    BY <2>1, <2>2, <2>3, <2>4, <2>5 DEF Kinds
<1> QED
  BY <1>3, <1>4
\* putBody: a goroutine gives up its body, which goes to the pool of its kind.
LEMMA PutKeeps ==
  ASSUME TypeOK, Shape, Owned, Kinds, NEW x \in Procs, has[x] # 0,
         PutBody(has[x]), Hold(x, 0), UNCHANGED mem
  PROVE  Owned' /\ Kinds'
<1> DEFINE b == has[x]
<1>0. b \in 1..MaxBodies /\ b \in 1..bodies /\ bodies' = bodies
  BY Numbers, SMT DEF PutBody
<1>1. has'[x] = 0 /\ \A y \in Procs : y # x => has'[y] = has[y]
  BY DEF Hold, Shape
<1>2. /\ body'[b].data = Empty /\ body'[b].self = body[b].self
      /\ \A e \in 1..MaxBodies : e # b => body'[e] = body[e]
  BY <1>0 DEF PutBody, Shape
<1>3. /\ newBodies' = IF body[b].self THEN newBodies \cup {b} ELSE newBodies
      /\ reuseBodies' = IF body[b].self THEN reuseBodies ELSE reuseBodies \cup {b}
  BY DEF PutBody
<1>4. Pool' = Pool \cup {b}
  BY <1>3 DEF Pool
<1>5. b \notin Pool /\ \A c \in Categories : b \notin Elems(mem[c])
  BY DEF Owned
<1> HIDE DEF b
<1>6. Owned'
  <2>1. (\A z, y \in Procs : has[z] = has[y] /\ has[z] # 0 => z = y)'
    BY <1>1 DEF Owned
  <2>2. (\A c \in Categories : Distinct(mem[c]) /\ Elems(mem[c]) \subseteq 1..bodies)'
    BY <1>0 DEF Owned
  <2>3. (\A c, e \in Categories : c # e => Elems(mem[c]) \cap Elems(mem[e]) = {})'
    BY DEF Owned
  <2>4. (\A y \in Procs, c \in Categories : has[y] \notin Elems(mem[c]))'
    BY <1>1, Numbers, SMT DEF Owned
  <2>5. (\A y \in Procs : has[y] \notin Pool)'
    <3>1. 0 \notin Pool'
      BY <1>4, <1>0, Numbers, SMT
    <3> QED
      BY <1>1, <1>4, <3>1 DEF Owned, b
  <2>6. (\A c \in Categories : Elems(mem[c]) \cap Pool = {})'
    BY <1>4, <1>5 DEF Owned
  <2>7. (newBodies \cap reuseBodies = {})'
    BY <1>3, <1>5 DEF Owned, Pool
  <2> QED
    BY <2>1, <2>2, <2>3, <2>4, <2>5, <2>6, <2>7 DEF Owned
<1>7. Kinds'
  <2>1. (\A e \in 1..MaxBodies : e \in Pool \/ e > bodies => body[e].data = Empty)'
    BY <1>0, <1>2, <1>4 DEF Kinds
  <2>2. (\A e \in newBodies : body[e].self)'
    BY <1>0, <1>2, <1>3, <1>5, Numbers, SMT DEF Kinds, Pool
  <2>3. (\A e \in reuseBodies : ~body[e].self)'
    BY <1>0, <1>2, <1>3, <1>5, Numbers, SMT DEF Kinds, Pool
  <2>4. (\A c \in Categories : \A e \in Elems(mem[c]) : body[e].self)'
    BY <1>2, <1>5, Numbers, SMT DEF Kinds, Owned
  <2>5. (\A c \in Compactors : has[c] # 0 => body[has[c]].self)'
    <3> SUFFICES ASSUME NEW c \in Compactors, has'[c] # 0
                 PROVE  body'[has'[c]].self
      OBVIOUS
    <3>1. c # x /\ has'[c] = has[c] /\ has[c] # b /\ has[c] \in 1..MaxBodies
      BY <1>1, Numbers, SMT DEF Procs, Owned, b
    <3> QED
      BY <3>1, <1>2 DEF Kinds
  <2> QED
    BY <2>1, <2>2, <2>3, <2>4, <2>5 DEF Kinds
<1> QED
  BY <1>6, <1>7

\* WALQueue.Put: a compactor's body goes into a channel.
LEMMA SendKeeps ==
  ASSUME TypeOK, Shape, Owned, Kinds, NEW x \in Compactors, NEW cat \in Categories, has[x] # 0,
         mem' = [mem EXCEPT ![cat] = Append(@, has[x])], Hold(x, 0), UNCHANGED pools
  PROVE  Owned' /\ Kinds'
<1> DEFINE b == has[x]
<1>0. b \in 1..MaxBodies /\ b \in 1..bodies /\ x \in Procs /\ Pool' = Pool
  BY Numbers, SMT DEF Procs, pools, Pool
<1>1. has'[x] = 0 /\ \A y \in Procs : y # x => has'[y] = has[y]
  BY DEF Hold, Shape, Procs
<1>2. /\ mem'[cat] = Append(mem[cat], b)
      /\ \A c \in Categories : c # cat => mem'[c] = mem[c]
  BY DEF Shape
<1>3. b \notin Pool /\ (\A c \in Categories : b \notin Elems(mem[c])) /\ body[b].self
  BY <1>0 DEF Owned, Kinds
<1> HIDE DEF b
<1>4. Distinct(mem'[cat]) /\ Elems(mem'[cat]) = Elems(mem[cat]) \cup {b}
  <2>1. IsSeq(mem[cat]) /\ Distinct(mem[cat])
    BY Numbers DEF Owned
  <2> QED
    BY <1>2, <1>3, <2>1, AppendElems, SMT
<1>5. Owned'
  <2>1. (\A z, y \in Procs : has[z] = has[y] /\ has[z] # 0 => z = y)'
    BY <1>1 DEF Owned
  <2>2. (\A c \in Categories : Distinct(mem[c]) /\ Elems(mem[c]) \subseteq 1..bodies)'
    BY <1>0, <1>2, <1>4 DEF Owned, pools
  <2>3. (\A c, e \in Categories : c # e => Elems(mem[c]) \cap Elems(mem[e]) = {})'
    BY <1>2, <1>3, <1>4, SMT DEF Owned
  <2>4. (\A y \in Procs, c \in Categories : has[y] \notin Elems(mem[c]))'
    <3>1. \A c \in Categories : 0 \notin Elems(mem'[c])
      BY <1>0, <1>2, <1>4, Numbers, SMT DEF Owned
    <3> QED
      BY <3>1, <1>0, <1>1, <1>2, <1>4, SMT DEF Owned, b
  <2>5. (\A y \in Procs : has[y] \notin Pool)'
    BY <1>0, <1>1, Numbers, SMT DEF Owned
  <2>6. (\A c \in Categories : Elems(mem[c]) \cap Pool = {})'
    BY <1>0, <1>2, <1>3, <1>4, SMT DEF Owned
  <2> QED
    BY <2>1, <2>2, <2>3, <2>4, <2>5, <2>6 DEF Owned, pools
<1>6. Kinds'
  <2>1. (\A c \in Categories : \A e \in Elems(mem[c]) : body[e].self)'
    BY <1>2, <1>3, <1>4 DEF Kinds, pools
  <2>2. (\A c \in Compactors : has[c] # 0 => body[has[c]].self)'
    BY <1>1 DEF Kinds, pools, Procs
  <2> QED
    BY <1>0, <2>1, <2>2 DEF Kinds, pools
<1> QED
  BY <1>5, <1>6

\* WALQueue.Get: a worker takes the first body of a channel.
LEMMA ReceiveKeeps ==
  ASSUME TypeOK, Shape, Owned, Kinds, NEW x \in Flushers, NEW cat \in Categories, has[x] = 0,
         mem[cat] # <<>>, mem' = [mem EXCEPT ![cat] = Tail(@)], Hold(x, Head(mem[cat])),
         UNCHANGED pools
  PROVE  Owned' /\ Kinds'
<1> DEFINE b == Head(mem[cat])
<1>0. x \in Procs /\ x \notin Compactors /\ Pool' = Pool
  BY WriteAssumption DEF Procs, pools, Pool
<1>1. has'[x] = b /\ \A y \in Procs : y # x => has'[y] = has[y]
  BY DEF Hold, Shape, Procs
<1>2. /\ mem'[cat] = Tail(mem[cat])
      /\ \A c \in Categories : c # cat => mem'[c] = mem[c]
  BY DEF Shape
<1>3. /\ b \in Elems(mem[cat]) /\ Distinct(mem'[cat])
      /\ Elems(mem'[cat]) \subseteq Elems(mem[cat]) /\ b \notin Elems(mem'[cat])
  <2>1. IsSeq(mem[cat]) /\ Distinct(mem[cat])
    BY Numbers DEF Owned
  <2> QED
    BY <1>2, <2>1, TailElems
<1>4. /\ b \notin Pool /\ (\A y \in Procs : has[y] # b)
      /\ \A c \in Categories : b \notin Elems(mem'[c])
  BY <1>2, <1>3 DEF Owned
<1>5. \A c \in Categories : Elems(mem'[c]) \subseteq Elems(mem[c])
  BY <1>2, <1>3
<1> HIDE DEF b
<1>6. Owned'
  <2>1. (\A z, y \in Procs : has[z] = has[y] /\ has[z] # 0 => z = y)'
    BY <1>1, <1>4 DEF Owned
  <2>2. (\A c \in Categories : Distinct(mem[c]) /\ Elems(mem[c]) \subseteq 1..bodies)'
    BY <1>2, <1>3, <1>5 DEF Owned, pools
  <2>3. (\A c, e \in Categories : c # e => Elems(mem[c]) \cap Elems(mem[e]) = {})'
    BY <1>5 DEF Owned
  <2>4. (\A y \in Procs, c \in Categories : has[y] \notin Elems(mem[c]))'
    BY <1>1, <1>4, <1>5 DEF Owned
  <2>5. (\A y \in Procs : has[y] \notin Pool)'
    BY <1>0, <1>1, <1>4 DEF Owned
  <2>6. (\A c \in Categories : Elems(mem[c]) \cap Pool = {})'
    BY <1>0, <1>5 DEF Owned
  <2> QED
    BY <2>1, <2>2, <2>3, <2>4, <2>5, <2>6 DEF Owned, pools
<1>7. Kinds'
  <2>1. (\A c \in Categories : \A e \in Elems(mem[c]) : body[e].self)'
    BY <1>5 DEF Kinds, pools
  <2>2. (\A c \in Compactors : has[c] # 0 => body[has[c]].self)'
    BY <1>0, <1>1 DEF Kinds, pools, Procs
  <2> QED
    BY <1>0, <2>1, <2>2 DEF Kinds, pools
<1> QED
  BY <1>6, <1>7

\* The last round of buildPointsBody may leave a new body in the pool.
LEMMA PoolNewKeeps ==
  ASSUME TypeOK, Shape, Owned, Kinds, NEW b \in 1..MaxBodies, newBodies = {}, b = bodies + 1,
         newBodies' = {b}, bodies' = b, body' = [body EXCEPT ![b].self = TRUE],
         UNCHANGED <<reuseBodies, has, mem>>
  PROVE  Owned' /\ Kinds'
<1>1. /\ body'[b].data = body[b].data /\ body'[b].self
      /\ \A e \in 1..MaxBodies : e # b => body'[e] = body[e]
  BY DEF Shape
<1>2. /\ b \notin Pool /\ Pool' = Pool \cup {b} /\ (\A y \in Procs : has[y] # b)
      /\ \A c \in Categories : b \notin Elems(mem[c])
  BY Numbers, SMT DEF Pool, Owned
<1>3. Owned'
  <2>1. (\A c \in Categories : Distinct(mem[c]) /\ Elems(mem[c]) \subseteq 1..bodies)'
    BY Numbers, SMT DEF Owned
  <2>2. (\A y \in Procs : has[y] \notin Pool)'
    BY <1>2 DEF Owned
  <2>3. (\A c \in Categories : Elems(mem[c]) \cap Pool = {})'
    BY <1>2 DEF Owned
  <2>4. (newBodies \cap reuseBodies = {})'
    BY <1>2 DEF Pool
  <2> QED
    BY <2>1, <2>2, <2>3, <2>4 DEF Owned
<1>4. Kinds'
  <2>1. (\A e \in 1..MaxBodies : e \in Pool \/ e > bodies => body[e].data = Empty)'
    <3> SUFFICES ASSUME NEW e \in 1..MaxBodies, e \in Pool' \/ e > bodies'
                 PROVE  body'[e].data = Empty
      OBVIOUS
    <3>1. body'[e].data = body[e].data /\ (e \in Pool \/ e > bodies)
      BY <1>1, <1>2, Numbers, SMT
    <3> QED
      BY <3>1 DEF Kinds
  <2>2. (\A e \in newBodies : body[e].self)'
    BY <1>1
  <2>3. (\A e \in reuseBodies : ~body[e].self)'
    BY <1>1, <1>2, Numbers, SMT DEF Kinds, Pool
  <2>4. (\A c \in Categories : \A e \in Elems(mem[c]) : body[e].self)'
    BY <1>1, <1>2, Numbers, SMT DEF Kinds, Owned
  <2>5. (\A c \in Compactors : has[c] # 0 => body[has[c]].self)'
    BY <1>1, <1>2, Numbers, SMT DEF Kinds, Procs
  <2> QED
    BY <2>1, <2>2, <2>3, <2>4, <2>5 DEF Kinds
<1> QED
  BY <1>3, <1>4

\* A step that moves no body and only fills bodies that are not pooled.
LEMMA StayKeeps ==
  ASSUME TypeOK, Shape, Owned, Kinds, UNCHANGED <<has, mem, newBodies, reuseBodies, bodies>>,
         \A b \in 1..MaxBodies : body'[b].self = body[b].self,
         \A b \in 1..MaxBodies : b \in Pool \/ b > bodies => body'[b].data = body[b].data
  PROVE  Owned' /\ Kinds'
<1>1. Pool' = Pool
  BY DEF Pool
<1>2. Owned'
  BY <1>1 DEF Owned
<1>3. Kinds'
  <2>1. (\A b \in 1..MaxBodies : b \in Pool \/ b > bodies => body[b].data = Empty)'
    BY <1>1 DEF Kinds
  <2>2. (\A e \in newBodies : body[e].self)' /\ (\A e \in reuseBodies : ~body[e].self)'
    BY Numbers, SMT DEF Kinds, Pool
  <2>3. (\A c \in Categories : \A e \in Elems(mem[c]) : body[e].self)'
    BY Numbers, SMT DEF Kinds, Owned
  <2>4. (\A c \in Compactors : has[c] # 0 => body[has[c]].self)'
    BY Numbers, SMT DEF Kinds, Procs
  <2> QED
    BY <2>1, <2>2, <2>3, <2>4 DEF Kinds
<1> QED
  BY <1>2, <1>3

\* While a call of Write is on, its writer's category is one of those there are.
LEMMA CatKnown ==
  ASSUME TypeOK, Shape, Compacting, NEW c \in Compactors, pc[c] # "idle"
  PROVE  /\ call[c] \in 1..Len(Writes[c]) /\ Len(Writes[c]) \in Nat
         /\ Writes[c][call[c]] \in [cat : Categories, pts : Seq(DOMAIN GroupOf)]
         /\ wr[c].cat \in Categories
<1> DEFINE R == [cat : Categories, pts : Seq(DOMAIN GroupOf)]
<1>1. Writes[c] \in Seq(R)
  BY WriteAssumption
<1>2. call[c] \in 0..Len(Writes[c]) /\ call[c] # 0 /\ wr[c].cat = Writes[c][call[c]].cat
  BY DEF TypeOK, Compacting, CompactorOK
<1> HIDE DEF R
<1>3. call[c] \in 1..Len(Writes[c]) /\ Len(Writes[c]) \in Nat /\ Writes[c][call[c]] \in R
  BY <1>1, <1>2, SMT
<1> QED
  BY <1>2, <1>3 DEF R

\* What TakeBody does, without what is put into the body.
LEMMA TakeIsTaken ==
  ASSUME Shape, NEW b \in 1..MaxBodies, NEW self, NEW d, TakeBody(b, self, d)
  PROVE  /\ Taken(b) /\ body'[b].self = self /\ body'[b].data = Load(d, body[b].data)
         /\ DOMAIN body'[b] = {"data", "self"} /\ DOMAIN body' = 1..MaxBodies
         /\ \A e \in 1..MaxBodies : e # b => body'[e] = body[e]
<1>1. Taken(b)
  BY DEF TakeBody, Taken, Pool
<1>2. body' = [body EXCEPT ![b] = [data |-> Load(d, body[b].data), self |-> self]]
  BY DEF TakeBody
<1> QED
  BY <1>1, <1>2 DEF Shape

\* Every step keeps the bodies with one owner each.
LEMMA OwnedStep ==
  ASSUME Inv, Next
  PROVE  Owned' /\ Kinds'
<1> USE DEF Inv
<1>1. ASSUME NEW c \in Compactors, StartWrite(c) \/ NextGroup(c)
      PROVE  Owned' /\ Kinds'
  <2>1. UNCHANGED <<has, mem, newBodies, reuseBodies, bodies, body>>
    BY <1>1 DEF StartWrite, NextGroup, pools, queues
  <2> QED
    BY <2>1, StayKeeps
<1>2. ASSUME NEW c \in Compactors, BuildBody(c)
      PROVE  Owned' /\ Kinds'
  <2>1. PICK b \in 1..MaxBodies, i \in 1..Len(points[c]), j \in 1..Len(points[c]) :
             /\ pc[c] = "build" /\ Hold(c, b) /\ UNCHANGED mem
             /\ TakeBody(b, TRUE, [cat |-> wr[c].cat, pts |-> SubSeq(points[c], i, j),
                                   hdrs |-> wr[c].hdrs, zipped |-> 0])
    BY <1>2 DEF BuildBody, queues
  <2>2. /\ Taken(b) /\ body'[b].self = TRUE
        /\ \A e \in 1..MaxBodies : e # b => body'[e] = body[e]
    BY <2>1, TakeIsTaken
  <2>3. c \in Procs /\ has[c] = 0
    BY <2>1 DEF TypeOK, Procs
  <2> QED
    BY <2>1, <2>2, <2>3, TakeKeeps
<1>3. ASSUME NEW c \in Compactors, NEW failed \in BOOLEAN, LastRound(c, failed)
      PROVE  Owned' /\ Kinds'
  <2>1. PICK b \in 1..MaxBodies :
             /\ UNCHANGED <<has, mem>>
             /\ IF newBodies # {} THEN UNCHANGED pools
                ELSE /\ b = bodies + 1 /\ newBodies' = {b} /\ bodies' = b
                     /\ body' = [body EXCEPT ![b].self = TRUE] /\ UNCHANGED reuseBodies
    BY <1>3 DEF LastRound, queues
  <2>2. CASE newBodies # {}
    BY <2>1, <2>2, StayKeeps DEF pools
  <2>3. CASE newBodies = {}
    BY <2>1, <2>3, PoolNewKeeps
  <2> QED
    BY <2>2, <2>3
<1>4. ASSUME NEW c \in Compactors, PutMem(c)
      PROVE  Owned' /\ Kinds'
  <2>1. has[c] # 0 /\ wr[c].cat \in Categories
    BY <1>4, CatKnown DEF PutMem, TypeOK, Procs
  <2> QED
    BY <1>4, <2>1, SendKeeps DEF PutMem
<1>5. ASSUME NEW c \in Compactors, PutDisk(c)
      PROVE  Owned' /\ Kinds'
  <2>1. has[c] # 0 /\ c \in Procs
    BY <1>5 DEF PutDisk, TypeOK, Procs
  <2> QED
    BY <1>5, <2>1, PutKeeps DEF PutDisk
<1>6. ASSUME NEW f \in Flushers, GetMem(f)
      PROVE  Owned' /\ Kinds'
  <2>1. has[f] = 0 /\ CatOf[f] \in Categories
    BY <1>6, WriteAssumption DEF GetMem, TypeOK, Procs
  <2> QED
    BY <1>6, <2>1, ReceiveKeeps DEF GetMem
<1>7. ASSUME NEW f \in Flushers, GetDisk(f) \/ CleanFailCache(f)
      PROVE  Owned' /\ Kinds'
  <2>1. PICK b \in 1..MaxBodies : \E d : pc[f] = "idle" /\ Hold(f, b) /\ UNCHANGED mem
                                        /\ TakeBody(b, FALSE, d)
    BY <1>7 DEF GetDisk, CleanFailCache
  <2>2. PICK d : Hold(f, b) /\ UNCHANGED mem /\ TakeBody(b, FALSE, d)
    BY <2>1
  <2>3. Taken(b) /\ \A e \in 1..MaxBodies : e # b => body'[e] = body[e]
    BY <2>2, TakeIsTaken
  <2>4. f \in Procs /\ f \notin Compactors /\ has[f] = 0
    BY <2>1, WriteAssumption DEF TypeOK, Procs
  <2> QED
    BY <2>2, <2>3, <2>4, TakeKeeps
<1>8. ASSUME NEW f \in Flushers, DoFlush(f)
      PROVE  Owned' /\ Kinds'
  <2>1. has[f] \in 1..bodies /\ has[f] \notin Pool /\ has[f] \in 1..MaxBodies
    BY <1>8, Numbers, SMT DEF DoFlush, TypeOK, Procs, Owned
  <2>2. \A b \in 1..MaxBodies : /\ body'[b].self = body[b].self
                                /\ b # has[f] => body'[b] = body[b]
    BY <1>8, <2>1 DEF DoFlush, Shape
  <2>3. UNCHANGED <<has, mem, newBodies, reuseBodies, bodies>>
    BY <1>8 DEF DoFlush, queues
  <2>4. \A b \in 1..MaxBodies : b \in Pool \/ b > bodies => body'[b].data = body[b].data
    BY <2>1, <2>2, Numbers, SMT
  <2> QED
    BY <2>2, <2>3, <2>4, StayKeeps
<1>9. ASSUME NEW f \in Flushers, NEW ok \in BOOLEAN, Flushed(f, ok) \/ Cleaned(f, ok)
      PROVE  Owned' /\ Kinds'
  <2>1. has[f] # 0 /\ f \in Procs
    BY <1>9 DEF Flushed, Cleaned, TypeOK, Procs
  <2> QED
    BY <1>9, <2>1, PutKeeps DEF Flushed, Cleaned
<1>10. ASSUME Restart
       PROVE  Owned' /\ Kinds'
  <2>1. /\ (\A x \in Procs : has'[x] = 0) /\ newBodies' = {} /\ reuseBodies' = {} /\ Pool' = {}
        /\ \A c \in Categories : mem'[c] = <<>>
    BY <1>10 DEF Restart, Pool
  <2>2. \A c \in Categories : Elems(mem'[c]) = {} /\ Distinct(mem'[c])
    BY <2>1, SMT DEF Elems, Distinct
  <2>3. Owned'
    BY <2>1, <2>2 DEF Owned
  <2>4. Kinds'
    BY <1>10, <2>1, <2>2 DEF Kinds, Restart, NoBodies, Procs
  <2> QED
    BY <2>3, <2>4
<1> QED
  BY <1>1, <1>2, <1>3, <1>4, <1>5, <1>6, <1>7, <1>8, <1>9, <1>10 DEF Next, Write, Flush

----------------------------------------------------------------------------
(* Types *)

\* getWriter: a pooled writer has nothing but what the caller sets.
LEMMA WriterTaken ==
  ASSUME Shape, NEW x \in Procs, NEW cat, NEW new, NEW clean \in BOOLEAN,
         GetWriter(x, cat, clean, new)
  PROVE  /\ wr'[x].cat = cat /\ wr'[x].hdrs = new /\ wr'[x].gz = gzip /\ wr'[x].clean = clean
         /\ DOMAIN wr' = Procs /\ DOMAIN wr'[x] = WriterFields
         /\ \A y \in Procs : y # x => wr'[y] = wr[y]
<1>1. wr' = [wr EXCEPT ![x] = [NoWriter EXCEPT !.cat = cat, !.gz = gzip, !.clean = clean \/ @,
                                               !.hdrs = WithHTTPHeaders(@, new)]]
  BY DEF GetWriter, Shape
<1>2. NoWriter.hdrs = {} /\ NoWriter.clean = FALSE /\ DOMAIN NoWriter = WriterFields
  BY DEF NoWriter, WriterFields
<1>3. WithHTTPHeaders(NoWriter.hdrs, new) = new
  BY <1>2 DEF WithHTTPHeaders
<1>4. PICK cl : cl = (clean \/ NoWriter.clean)
  OBVIOUS
<1>5. cl = clean
  BY <1>2, <1>4
<1>6. wr' = [wr EXCEPT ![x] = [NoWriter EXCEPT !.cat = cat, !.gz = gzip, !.clean = cl,
                                               !.hdrs = new]]
  BY <1>1, <1>3, <1>4
<1> QED
  BY <1>2, <1>5, <1>6 DEF Shape, WriterFields

\* putWriter resets it.
LEMMA WriterPut ==
  ASSUME Shape, NEW x \in Procs, PutWriter(x)
  PROVE  /\ writers' = {NoWriter} /\ wr'[x] = NoWriter /\ DOMAIN wr' = Procs
         /\ \A y \in Procs : DOMAIN wr'[y] = WriterFields /\ (y # x => wr'[y] = wr[y])
BY DEF PutWriter, Shape, NoWriter, WriterFields

\* putBody empties the body and keeps the others.
LEMMA BodyPut ==
  ASSUME Shape, NEW b \in 1..MaxBodies, PutBody(b)
  PROVE  /\ DOMAIN body' = 1..MaxBodies /\ bodies' = bodies
         /\ \A e \in 1..MaxBodies : /\ DOMAIN body'[e] = {"data", "self"}
                                    /\ body'[e].self \in BOOLEAN
                                    /\ DOMAIN body'[e].data = DataFields
                                    /\ e # b => body'[e] = body[e]
         /\ newBodies' \cup reuseBodies' = newBodies \cup reuseBodies \cup {b}
<1>1. newBodies' \cup reuseBodies' = newBodies \cup reuseBodies \cup {b}
  BY DEF PutBody
<1>2. body' = [body EXCEPT ![b].data = Empty] /\ bodies' = bodies
  BY DEF PutBody
<1>3. DOMAIN Empty = DataFields
  BY DEF Empty, DataFields
<1>4. /\ DOMAIN body' = 1..MaxBodies /\ DOMAIN body'[b] = {"data", "self"}
      /\ body'[b].data = Empty /\ body'[b].self = body[b].self
      /\ \A e \in 1..MaxBodies : e # b => body'[e] = body[e]
  BY <1>2 DEF Shape
<1> QED
  BY <1>1, <1>2, <1>3, <1>4 DEF Shape

\* Loading data into an empty body copies its fields.
LEMMA Loaded ==
  ASSUME NEW d, DOMAIN d = DataFields
  PROVE  LET e == Load(d, Empty) IN /\ DOMAIN e = DataFields /\ e.cat = d.cat /\ e.pts = d.pts
                                    /\ e.hdrs = d.hdrs /\ e.zipped = d.zipped
<1>1. Load(d, Empty) = [d EXCEPT !.hdrs = d.hdrs \cup {}]
  BY DEF Load, Empty
<1>2. d.hdrs \cup {} = d.hdrs
  OBVIOUS
<1> QED
  BY <1>1, <1>2 DEF DataFields

\* The types of the bodies after one was taken and filled.
LEMMA TakeTypes ==
  ASSUME TypeOK, Shape, Owned, Kinds, NEW b \in 1..MaxBodies, NEW d, DOMAIN d = DataFields,
         Taken(b), body'[b].self \in BOOLEAN, body'[b].data = Load(d, body[b].data),
         DOMAIN body'[b] = {"data", "self"}, DOMAIN body' = 1..MaxBodies,
         \A e \in 1..MaxBodies : e # b => body'[e] = body[e]
  PROVE  /\ DOMAIN body' = 1..MaxBodies
         /\ \A e \in 1..MaxBodies : /\ DOMAIN body'[e] = {"data", "self"}
                                    /\ body'[e].self \in BOOLEAN
                                    /\ DOMAIN body'[e].data = DataFields
         /\ body'[b].data = Load(d, Empty) /\ newBodies' \cup reuseBodies' \subseteq 1..bodies'
         /\ bodies' \in Nat /\ bodies <= bodies' /\ bodies' <= MaxBodies /\ b <= bodies'
<1>1. /\ body[b].data = Empty /\ Pool' = Pool \ {b}
      /\ bodies' \in Nat /\ bodies <= bodies' /\ bodies' <= MaxBodies /\ b <= bodies'
  BY TakeFree
<1>2. DOMAIN body'[b].data = DataFields /\ body'[b].data = Load(d, Empty)
  BY <1>1, Loaded
<1>3. \A e \in 1..MaxBodies : /\ DOMAIN body[e] = {"data", "self"} /\ body[e].self \in BOOLEAN
                              /\ DOMAIN body[e].data = DataFields
  BY DEF Shape
<1>4. \A e \in 1..MaxBodies : /\ DOMAIN body'[e] = {"data", "self"} /\ body'[e].self \in BOOLEAN
                              /\ DOMAIN body'[e].data = DataFields
  BY <1>2, <1>3, Zenon
<1>5. newBodies' \cup reuseBodies' \subseteq 1..bodies'
  BY <1>1, Numbers, SMT DEF Pool
<1> QED
  BY <1>1, <1>2, <1>4, <1>5

\* The steps of a caller of Write keep the types.
LEMMA WriteTypes ==
  ASSUME Inv, NEW c \in Compactors, Write(c)
  PROVE  TypeOK' /\ Shape'
<1> USE DEF Inv
<1>0. c \in Procs /\ c \notin Flushers /\ pc[c] \in {"idle", "group", "build", "put"}
  BY WriteAssumption DEF Procs, Shape
<1>1. CASE StartWrite(c)
  <2>0. /\ pc[c] = "idle" /\ call[c] < Len(Writes[c]) /\ call' = [call EXCEPT ![c] = @ + 1]
        /\ UNCHANGED <<gzip, lastIdx, has, pools, spare, queues, restarts>>
    BY <1>1 DEF StartWrite
  <2>1. DOMAIN wr' = Procs /\ \A x \in Procs : DOMAIN wr'[x] = WriterFields
    BY <1>0, <1>1, WriterTaken DEF StartWrite, Shape
  <2>2. Len(Writes[c]) \in Nat
    BY WriteAssumption, SMT
  <2>3. PICK l \in {"group", "build"} : Goto(c, l)
    BY <1>1 DEF StartWrite
  <2>4. /\ DOMAIN gr' = Compactors /\ DOMAIN keys' = Compactors /\ DOMAIN points' = Compactors
        /\ \A e \in Compactors : keys'[e] \subseteq DOMAIN gr'[e]
    <3>1. CASE Sinker
      <4>1. PICK g, ps : gr' = [gr EXCEPT ![c] = Grouped(g, ps)]
        BY <1>1, <3>1 DEF StartWrite
      <4>2. keys' = [keys EXCEPT ![c] = DOMAIN gr'[c]] /\ points' = points
        BY <1>1, <3>1 DEF StartWrite
      <4>3. /\ DOMAIN gr' = Compactors /\ DOMAIN keys' = Compactors /\ keys'[c] = DOMAIN gr'[c]
            /\ \A e \in Compactors : e # c => gr'[e] = gr[e] /\ keys'[e] = keys[e]
        BY <4>1, <4>2 DEF Shape
      <4> QED
        BY <4>2, <4>3 DEF Shape, TypeOK
    <3>2. CASE ~Sinker
      <4>1. gr' = gr /\ keys' = keys /\ \E ps : points' = [points EXCEPT ![c] = ps]
        BY <1>1, <3>2 DEF StartWrite
      <4> QED
        BY <4>1 DEF Shape, TypeOK
    <3> QED
      BY <3>1, <3>2
  <2>5. TypeOK'
    BY <1>0, <2>0, <2>2, <2>3, <2>4, SMT DEF TypeOK, Shape, pools, queues, Goto
  <2>6. Shape'
    BY <1>0, <2>0, <2>1, <2>3, <2>4, SMT DEF TypeOK, Shape, pools, queues, spare, Goto
  <2> QED
    BY <2>5, <2>6
<1>2. CASE NextGroup(c)
  <2>0. /\ pc[c] = "group" /\ Goto(c, "build") /\ UNCHANGED <<gzip, call, gr, lastIdx, has>>
        /\ UNCHANGED <<pools, spare, queues, restarts>>
    BY <1>2 DEF NextGroup
  <2>1. DOMAIN wr' = Procs /\ \A x \in Procs : DOMAIN wr'[x] = WriterFields
    BY <1>0, <1>2 DEF NextGroup, Shape, WriterFields
  <2>2. /\ DOMAIN keys' = Compactors /\ DOMAIN points' = Compactors
        /\ \A e \in Compactors : keys'[e] \subseteq DOMAIN gr'[e]
    BY <1>2, SMT DEF NextGroup, Shape, TypeOK
  <2>3. TypeOK'
    BY <1>0, <2>0, <2>2 DEF TypeOK, Shape, pools, queues, Goto
  <2>4. Shape'
    BY <1>0, <2>0, <2>1, <2>2, SMT DEF TypeOK, Shape, pools, queues, spare, Goto
  <2> QED
    BY <2>3, <2>4
<1>3. CASE BuildBody(c)
  <2>a. PICK b \in 1..MaxBodies : \E d :
             /\ pc[c] = "build" /\ Goto(c, "put") /\ Hold(c, b) /\ TakeBody(b, TRUE, d)
             /\ DOMAIN d = DataFields /\ DOMAIN lastIdx' = DOMAIN lastIdx
             /\ UNCHANGED <<gzip, call, wr, gr, keys, points, spare, queues, restarts>>
    BY <1>3 DEF BuildBody, DataFields
  <2>0. PICK d :
             /\ pc[c] = "build" /\ Goto(c, "put") /\ Hold(c, b) /\ TakeBody(b, TRUE, d)
             /\ DOMAIN d = DataFields /\ DOMAIN lastIdx' = DOMAIN lastIdx
             /\ UNCHANGED <<gzip, call, wr, gr, keys, points, spare, queues, restarts>>
    BY <2>a
  <2>1. /\ Taken(b) /\ body'[b].self = TRUE /\ body'[b].data = Load(d, body[b].data)
        /\ DOMAIN body'[b] = {"data", "self"} /\ DOMAIN body' = 1..MaxBodies
        /\ \A e \in 1..MaxBodies : e # b => body'[e] = body[e]
    BY <2>0, TakeIsTaken
  <2>2. body'[b].self \in BOOLEAN
    BY <2>1
  <2>3. /\ DOMAIN body' = 1..MaxBodies
        /\ \A e \in 1..MaxBodies : /\ DOMAIN body'[e] = {"data", "self"}
                                   /\ body'[e].self \in BOOLEAN
                                   /\ DOMAIN body'[e].data = DataFields
        /\ newBodies' \cup reuseBodies' \subseteq 1..bodies'
        /\ bodies' \in Nat /\ bodies <= bodies' /\ bodies' <= MaxBodies /\ b <= bodies'
    BY <2>0, <2>1, <2>2, TakeTypes, ZenonT(40)
  <2>4. TypeOK'
    BY <1>0, <2>0, <2>3, Numbers, SMTT(40) DEF TypeOK, Shape, queues, Goto, Hold
  <2>5. Shape'
    BY <1>0, <2>0, <2>3, SMT DEF TypeOK, Shape, queues, spare, Goto, Hold
  <2> QED
    BY <2>4, <2>5
<1>4. ASSUME NEW failed \in BOOLEAN, LastRound(c, failed)
      PROVE  TypeOK' /\ Shape'
  <2>0. /\ pc[c] = "build" /\ UNCHANGED <<gzip, call, has, queues, restarts>>
        /\ DOMAIN points' = Compactors /\ DOMAIN lastIdx' = Compactors
    BY <1>4 DEF LastRound, Shape
  <2>1. PICK l \in {"idle", "group"} : Goto(c, l)
    BY <1>4 DEF LastRound
  <2>2. /\ DOMAIN wr' = Procs /\ (\A x \in Procs : DOMAIN wr'[x] = WriterFields)
        /\ writers' = {NoWriter} /\ groupers' = {NoGroups}
    BY <1>0, <1>4, WriterPut DEF LastRound, PutGrouper, Shape, spare
  <2>3. /\ DOMAIN gr' = Compactors /\ DOMAIN keys' = Compactors
        /\ \A e \in Compactors : keys'[e] \subseteq DOMAIN gr'[e]
    BY <1>4, ZenonT(40) DEF LastRound, PutGrouper, Shape, TypeOK
  <2>4. /\ bodies' \in Nat /\ bodies <= bodies' /\ bodies' <= MaxBodies
        /\ newBodies' \cup reuseBodies' \subseteq 1..bodies'
    BY <1>4, Numbers, SMT DEF LastRound, pools, Pool
  <2>5. /\ DOMAIN body' = 1..MaxBodies
        /\ \A b \in 1..MaxBodies : /\ DOMAIN body'[b] = {"data", "self"}
                                   /\ body'[b].self \in BOOLEAN
                                   /\ DOMAIN body'[b].data = DataFields
    <3>1. PICK b \in 1..MaxBodies : body' = body \/ body' = [body EXCEPT ![b].self = TRUE]
      BY <1>4 DEF LastRound, pools
    <3>2. CASE body' = [body EXCEPT ![b].self = TRUE]
      <4>1. /\ DOMAIN body' = 1..MaxBodies /\ DOMAIN body'[b] = {"data", "self"}
            /\ body'[b].data = body[b].data /\ body'[b].self = TRUE
            /\ \A e \in 1..MaxBodies : e # b => body'[e] = body[e]
        BY <3>2 DEF Shape
      <4>2. body'[b].self \in BOOLEAN
        BY <4>1
      <4>3. \A e \in 1..MaxBodies : /\ DOMAIN body[e] = {"data", "self"}
                                    /\ body[e].self \in BOOLEAN
                                    /\ DOMAIN body[e].data = DataFields
        BY ZenonT(40) DEF Shape
      <4> QED
        BY ONLY <4>1, <4>2, <4>3, Zenon
    <3> QED
      BY <3>1, <3>2 DEF Shape
  <2>6. TypeOK'
    BY <1>0, <2>0, <2>1, <2>3, <2>4, Numbers, SMTT(40) DEF TypeOK, Shape, queues, Goto
  <2>7. Shape'
    BY <1>0, <2>0, <2>1, <2>2, <2>3, <2>4, <2>5, SMTT(40) DEF TypeOK, Shape, queues, Goto
  <2> QED
    BY <2>6, <2>7
<1>5. CASE PutMem(c)
  <2>0. /\ pc[c] = "put" /\ Hold(c, 0) /\ Goto(c, "build")
        /\ UNCHANGED <<gzip, call, wr, gr, keys, points, lastIdx, pools, spare, disk, fail>>
        /\ UNCHANGED <<cleaner, restarts>>
    BY <1>5 DEF PutMem
  <2>1. wr[c].cat \in Categories
    BY <2>0, CatKnown, ZenonT(40)
  <2>2. /\ mem' \in [Categories -> Seq(Nat)] /\ \A e \in Categories : Len(mem'[e]) <= MemCap
    <3>1. has[c] \in Nat /\ MemCap \in Nat
      BY <1>0, Numbers, WriteAssumption, SMT
    <3> QED
      BY <1>5, <2>1, <3>1, SMTT(40) DEF PutMem, Shape, TypeOK
  <2>3. TypeOK'
    BY <1>0, <2>0, <2>2, SMT DEF TypeOK, Shape, pools, Goto, Hold
  <2>4. Shape'
    BY <1>0, <2>0, <2>2, SMT DEF TypeOK, Shape, pools, spare, Goto, Hold
  <2> QED
    BY <2>3, <2>4
<1>6. CASE PutDisk(c)
  <2>0. /\ pc[c] = "put" /\ Hold(c, 0) /\ Goto(c, "build") /\ PutBody(has[c])
        /\ UNCHANGED <<gzip, call, wr, gr, keys, points, lastIdx, spare, mem, fail>>
        /\ UNCHANGED <<cleaner, restarts>>
    BY <1>6 DEF PutDisk
  <2>1. wr[c].cat \in Categories /\ has[c] \in 1..MaxBodies /\ has[c] \in 1..bodies
    BY <1>0, <2>0, CatKnown, Numbers, SMT DEF TypeOK
  <2>2. /\ DOMAIN disk' = Categories
        /\ \A e \in Categories : IsSeq(disk'[e]) /\ Len(disk'[e]) <= DiskCap
    <3> DEFINE q == disk[wr[c].cat]
    <3>1. /\ IsSeq(q) /\ Len(q) <= DiskCap /\ DiskCap \in Nat
      BY <2>1, WriteAssumption DEF Shape, TypeOK
    <3>2. /\ IsSeq(Append(q, body[has[c]].data))
          /\ Len(q) < DiskCap => Len(Append(q, body[has[c]].data)) <= DiskCap
      BY <3>1, AppendElems, SMT
    <3> QED
      BY <1>6, <2>1, <3>1, <3>2 DEF PutDisk, Shape, TypeOK
  <2>3. /\ DOMAIN body' = 1..MaxBodies /\ bodies' = bodies
        /\ \A e \in 1..MaxBodies : /\ DOMAIN body'[e] = {"data", "self"}
                                   /\ body'[e].self \in BOOLEAN
                                   /\ DOMAIN body'[e].data = DataFields
        /\ newBodies' \cup reuseBodies' = newBodies \cup reuseBodies \cup {has[c]}
    BY <2>0, <2>1, BodyPut
  <2>4. TypeOK'
    BY <1>0, <2>0, <2>1, <2>2, <2>3, SMTT(40) DEF TypeOK, Shape, Goto, Hold
  <2>5. Shape'
    BY <1>0, <2>0, <2>2, <2>3, SMTT(40) DEF TypeOK, Shape, spare, Goto, Hold
  <2> QED
    BY <2>4, <2>5
<1> QED
  BY <1>1, <1>2, <1>3, <1>4, <1>5, <1>6 DEF Write

\* The body at the head of a disk queue has the fields of a body.
LEMMA HeadSound ==
  ASSUME NEW q, NEW cl, NEW z, IsSeq(q), q # <<>>, \A d \in Elems(q) : Sound(d, cl, z)
  PROVE  /\ Sound(Head(q), cl, z) /\ DOMAIN Head(q) = DataFields
         /\ IsSeq(Tail(q)) /\ Len(q) \in Nat /\ Len(Tail(q)) <= Len(q)
         /\ \A d \in Elems(Tail(q)) : Sound(d, cl, z)
<1>1. /\ Head(q) \in Elems(q) /\ IsSeq(Tail(q)) /\ Elems(Tail(q)) \subseteq Elems(q)
      /\ Len(q) \in Nat /\ Len(Tail(q)) = Len(q) - 1
  BY TailElems
<1>2. Sound(Head(q), cl, z) /\ DOMAIN Head(q) = DataFields
  BY <1>1 DEF Sound
<1> QED
  BY <1>1, <1>2, SMT

\* The steps of a flush worker keep the types.
LEMMA FlushTypes ==
  ASSUME Inv, NEW f \in Flushers, Flush(f)
  PROVE  TypeOK' /\ Shape'
<1> USE DEF Inv
<1>0. f \in Procs /\ f \notin Compactors /\ CatOf[f] \in Categories
  BY WriteAssumption DEF Procs
<1>1. CASE GetMem(f)
  <2>0. /\ pc[f] = "idle" /\ Hold(f, Head(mem[CatOf[f]])) /\ Goto(f, "flush")
        /\ UNCHANGED <<gzip, call, wr, gr, keys, points, lastIdx, pools, spare, disk, fail>>
        /\ UNCHANGED <<cleaner, restarts>>
    BY <1>1, ZenonT(40) DEF GetMem
  <2>1. /\ mem' \in [Categories -> Seq(Nat)] /\ \A e \in Categories : Len(mem'[e]) <= MemCap
    <3>1. MemCap \in Nat /\ mem[CatOf[f]] \in Seq(Nat) /\ mem[CatOf[f]] # <<>>
      BY <1>0, <1>1, WriteAssumption DEF Shape, GetMem
    <3>2. Tail(mem[CatOf[f]]) \in Seq(Nat) /\ Len(Tail(mem[CatOf[f]])) <= Len(mem[CatOf[f]])
      BY <3>1, SMT
    <3> QED
      BY <1>0, <1>1, <3>1, <3>2, SMTT(40) DEF GetMem, Shape, TypeOK
  <2>2. Head(mem[CatOf[f]]) \in 1..bodies
    <3>1. IsSeq(mem[CatOf[f]]) /\ mem[CatOf[f]] # <<>> /\ Elems(mem[CatOf[f]]) \subseteq 1..bodies
      BY <1>0, <1>1, Numbers, ZenonT(40) DEF GetMem, Owned
    <3> QED
      BY <3>1, TailElems
  <2>3. TypeOK'
    BY <1>0, <2>0, <2>1, <2>2, SMTT(40) DEF TypeOK, Shape, pools, Goto, Hold
  <2>4. Shape'
    BY <1>0, <2>0, <2>1, SMT DEF TypeOK, Shape, pools, spare, Goto, Hold
  <2> QED
    BY <2>3, <2>4
<1>2. ASSUME NEW b \in 1..MaxBodies, NEW d, DOMAIN d = DataFields, TakeBody(b, FALSE, d)
      PROVE  /\ DOMAIN body' = 1..MaxBodies
             /\ \A e \in 1..MaxBodies : /\ DOMAIN body'[e] = {"data", "self"}
                                        /\ body'[e].self \in BOOLEAN
                                        /\ DOMAIN body'[e].data = DataFields
             /\ newBodies' \cup reuseBodies' \subseteq 1..bodies'
             /\ bodies' \in Nat /\ bodies <= bodies' /\ bodies' <= MaxBodies /\ b <= bodies'
  <2>1. /\ Taken(b) /\ body'[b].self = FALSE /\ body'[b].data = Load(d, body[b].data)
        /\ DOMAIN body'[b] = {"data", "self"} /\ DOMAIN body' = 1..MaxBodies
        /\ \A e \in 1..MaxBodies : e # b => body'[e] = body[e]
    BY <1>2, TakeIsTaken
  <2>2. body'[b].self \in BOOLEAN
    BY <2>1
  <2> QED
    BY <1>2, <2>1, <2>2, TakeTypes
<1>3. CASE GetDisk(f)
  <2>0. PICK b \in 1..MaxBodies :
            /\ pc[f] = "idle" /\ Hold(f, b) /\ Goto(f, "flush") /\ disk[CatOf[f]] # <<>>
            /\ TakeBody(b, FALSE, Head(disk[CatOf[f]]))
            /\ disk' = [disk EXCEPT ![CatOf[f]] = Tail(@)]
            /\ UNCHANGED <<gzip, call, wr, gr, keys, points, lastIdx, spare, mem, fail>>
            /\ UNCHANGED <<cleaner, restarts>>
    BY <1>3 DEF GetDisk
  <2>1. /\ DOMAIN Head(disk[CatOf[f]]) = DataFields /\ IsSeq(Tail(disk[CatOf[f]]))
        /\ Len(disk[CatOf[f]]) \in Nat /\ Len(Tail(disk[CatOf[f]])) <= Len(disk[CatOf[f]])
    <3>1. IsSeq(disk[CatOf[f]]) /\ \A d \in Elems(disk[CatOf[f]]) : Sound(d, call, 0)
      BY <1>0 DEF Shape, Contents
    <3> QED
      BY <2>0, <3>1, HeadSound
  <2>2. /\ DOMAIN disk' = Categories
        /\ \A e \in Categories : IsSeq(disk'[e]) /\ Len(disk'[e]) <= DiskCap
    <3>1. DiskCap \in Nat /\ Len(disk[CatOf[f]]) <= DiskCap
      BY <1>0, WriteAssumption DEF TypeOK
    <3>2. Len(Tail(disk[CatOf[f]])) <= DiskCap
      <4>1. Len(Tail(disk[CatOf[f]])) \in Nat
        BY <2>1, SMT DEF IsSeq
      <4> QED
        BY <2>1, <3>1, <4>1, SMT
    <3> QED
      BY <1>0, <2>0, <2>1, <3>2 DEF Shape, TypeOK
  <2>3. /\ DOMAIN body' = 1..MaxBodies
        /\ \A e \in 1..MaxBodies : /\ DOMAIN body'[e] = {"data", "self"}
                                   /\ body'[e].self \in BOOLEAN
                                   /\ DOMAIN body'[e].data = DataFields
        /\ newBodies' \cup reuseBodies' \subseteq 1..bodies'
        /\ bodies' \in Nat /\ bodies <= bodies' /\ bodies' <= MaxBodies /\ b <= bodies'
    BY <1>2, <2>0, <2>1, ZenonT(40)
  <2>h. /\ pc' \in [Procs -> {"idle", "group", "build", "put", "flush", "post"}]
        /\ pc'[f] = "flush" /\ (\A y \in Procs : y # f => pc'[y] = pc[y]) /\ DOMAIN has' = Procs
        /\ \A y \in Procs : /\ has'[y] \in 0..bodies'
                            /\ has'[y] # 0 <=> pc'[y] \in {"put", "flush", "post"}
    <3>1. b \in 0..MaxBodies /\ b # 0
      BY Numbers, SMT
    <3> QED
      BY <1>0, <2>0, <2>3, <3>1, HoldTypes
  <2>4. TypeOK'
    BY <1>0, <2>0, <2>2, <2>3, <2>h DEF TypeOK, Shape
  <2>5. Shape'
    <3>1. /\ \A c \in Compactors : pc'[c] \in {"idle", "group", "build", "put"}
          /\ \A g \in Flushers : pc'[g] \in {"idle", "flush", "post"}
      BY <1>0, <2>h DEF Shape, Procs
    <3> QED
      BY <2>0, <2>2, <2>3, <2>h, <3>1 DEF Shape, spare
  <2> QED
    BY <2>4, <2>5
<1>4. CASE CleanFailCache(f)
  <2>0. PICK b \in 1..MaxBodies :
            /\ pc[f] = "idle" /\ fail # <<>> /\ cleaner' = {f} /\ Hold(f, b) /\ Goto(f, "post")
            /\ TakeBody(b, FALSE, Head(fail)) /\ \E h : GetWriter(f, Head(fail).cat, TRUE, h)
            /\ UNCHANGED <<gzip, call, gr, keys, points, lastIdx, spare, mem, disk, fail, restarts>>
    BY <1>4 DEF CleanFailCache
  <2>1. DOMAIN Head(fail) = DataFields
    <3>1. IsSeq(fail) /\ \A d \in Elems(fail) : Sound(d, call, Zipped)
      BY ZenonT(40) DEF Shape, Contents
    <3> QED
      BY <2>0, <3>1, HeadSound
  <2>2. DOMAIN wr' = Procs /\ \A x \in Procs : DOMAIN wr'[x] = WriterFields
    BY <1>0, <2>0, WriterTaken, ZenonT(40) DEF Shape
  <2>3. /\ DOMAIN body' = 1..MaxBodies
        /\ \A e \in 1..MaxBodies : /\ DOMAIN body'[e] = {"data", "self"}
                                   /\ body'[e].self \in BOOLEAN
                                   /\ DOMAIN body'[e].data = DataFields
        /\ newBodies' \cup reuseBodies' \subseteq 1..bodies'
        /\ bodies' \in Nat /\ bodies <= bodies' /\ bodies' <= MaxBodies /\ b <= bodies'
    BY <1>2, <2>0, <2>1
  <2>a. /\ pc[f] = "idle" /\ cleaner' = {f} /\ Hold(f, b) /\ Goto(f, "post")
        /\ UNCHANGED <<gzip, call, gr, keys, points, lastIdx, spare, mem, disk, fail, restarts>>
    BY <2>0, ZenonT(40)
  <2>4. TypeOK'
    <3>1. \A x \in Procs : has'[x] \in 0..bodies'
      <4>1. \A x \in Procs : has'[x] = (IF x = f THEN b ELSE has[x])
        BY <2>a DEF Hold, Shape
      <4>2. b \in 0..bodies' /\ \A x \in Procs : has[x] \in 0..bodies'
        BY <2>3, Numbers, SMT
      <4> QED
        BY <4>1, <4>2
    <3>2. /\ pc' \in [Procs -> {"idle", "group", "build", "put", "flush", "post"}]
          /\ \A x \in Procs : has'[x] # 0 <=> pc'[x] \in {"put", "flush", "post"}
      <4>1. b # 0
        BY Numbers, SMT
      <4> QED
        BY <1>0, <2>a, <4>1 DEF TypeOK, Shape, Goto, Hold
    <3> QED
      BY <2>a, <2>3, <3>1, <3>2 DEF TypeOK
  <2>5. Shape'
    <3>1. \A x \in Procs : pc'[x] = IF x = f THEN "post" ELSE pc[x]
      BY <2>a DEF Goto, TypeOK
    <3>2. DOMAIN has' = Procs /\ writers' = writers /\ groupers' = groupers
      BY <2>a DEF Hold, Shape, spare
    <3> QED
      BY <1>0, <2>a, <2>2, <2>3, <3>1, <3>2 DEF Shape, Procs
  <2> QED
    BY <2>4, <2>5
<1>5. CASE DoFlush(f)
  <2>0. /\ pc[f] = "flush" /\ Goto(f, "post")
        /\ \E cat, h : GetWriter(f, cat, FALSE, h)
        /\ UNCHANGED <<gzip, call, gr, keys, points, lastIdx, has, newBodies, reuseBodies>>
        /\ UNCHANGED <<bodies, spare, queues, restarts>>
    BY <1>5 DEF DoFlush
  <2>1. DOMAIN wr' = Procs /\ \A x \in Procs : DOMAIN wr'[x] = WriterFields
    BY <1>0, <2>0, WriterTaken DEF Shape
  <2>2. has[f] \in 1..MaxBodies
    BY <1>0, <2>0, BodyHeld DEF TypeOK
  <2>3. /\ DOMAIN body' = 1..MaxBodies
        /\ \A e \in 1..MaxBodies : /\ DOMAIN body'[e] = {"data", "self"}
                                   /\ body'[e].self \in BOOLEAN
                                   /\ DOMAIN body'[e].data = DataFields
    BY <1>5, <2>2, ZenonT(40) DEF DoFlush, Shape
  <2>4. TypeOK'
    BY <1>0, <2>0 DEF TypeOK, Shape, queues, Goto
  <2>5. Shape'
    <3>1. \A x \in Procs : pc'[x] = IF x = f THEN "post" ELSE pc[x]
      BY <2>0 DEF Goto, TypeOK
    <3>2. writers' = writers /\ groupers' = groupers /\ mem' = mem /\ disk' = disk /\ fail' = fail
      BY <2>0 DEF spare, queues
    <3> QED
      BY <1>0, <2>0, <2>1, <2>3, <3>1, <3>2 DEF Shape, Procs
  <2> QED
    BY <2>4, <2>5
<1>6. ASSUME NEW ok \in BOOLEAN, Flushed(f, ok) \/ Cleaned(f, ok)
      PROVE  TypeOK' /\ Shape'
  <2>0. /\ pc[f] = "post" /\ Goto(f, "idle") /\ PutBody(has[f]) /\ PutWriter(f) /\ Hold(f, 0)
        /\ cleaner' \subseteq cleaner
        /\ UNCHANGED <<gzip, call, gr, keys, points, lastIdx, groupers, mem, disk, restarts>>
    BY <1>6 DEF Flushed, Cleaned
  <2>1. has[f] \in 1..MaxBodies /\ has[f] \in 1..bodies
    BY <1>0, <2>0, BodyHeld DEF TypeOK
  <2>2. IsSeq(fail') /\ Len(fail') <= FailCap
    <3>1. IsSeq(fail) /\ Len(fail) <= FailCap /\ FailCap \in Nat
      BY WriteAssumption DEF Shape, TypeOK
    <3>2. CASE Flushed(f, ok)
      BY <3>1, <3>2, OneMore DEF Flushed
    <3>3. CASE Cleaned(f, ok)
      <4>1. fail # <<>>
        BY <3>3 DEF Cleaned, Posting, Cleaning
      <4>2. IsSeq(Tail(fail)) /\ Len(Tail(fail)) <= FailCap
        BY <3>1, <4>1, OneLess
      <4>3. fail' = Tail(fail) \/ fail' = fail
        BY <3>3 DEF Cleaned
      <4> QED
        BY <3>1, <4>2, <4>3
    <3> QED
      BY <1>6, <3>2, <3>3
  <2>3. /\ DOMAIN body' = 1..MaxBodies /\ bodies' = bodies
        /\ \A e \in 1..MaxBodies : /\ DOMAIN body'[e] = {"data", "self"}
                                   /\ body'[e].self \in BOOLEAN
                                   /\ DOMAIN body'[e].data = DataFields
        /\ newBodies' \cup reuseBodies' = newBodies \cup reuseBodies \cup {has[f]}
    BY <2>0, <2>1, BodyPut
  <2>4. /\ writers' = {NoWriter} /\ DOMAIN wr' = Procs
        /\ \A y \in Procs : DOMAIN wr'[y] = WriterFields
    BY <1>0, <2>0, WriterPut
  <2>h. /\ pc' \in [Procs -> {"idle", "group", "build", "put", "flush", "post"}]
        /\ pc'[f] = "idle" /\ (\A y \in Procs : y # f => pc'[y] = pc[y]) /\ DOMAIN has' = Procs
        /\ \A y \in Procs : /\ has'[y] \in 0..bodies'
                            /\ has'[y] # 0 <=> pc'[y] \in {"put", "flush", "post"}
    <3>1. 0 \in 0..MaxBodies /\ bodies' \in Nat /\ bodies <= bodies' /\ 0 <= bodies'
      BY <2>3, Numbers, SMT
    <3> QED
      BY <1>0, <2>0, <3>1, HoldTypes
  <2>5. TypeOK'
    <3>1. newBodies' \cup reuseBodies' \subseteq 1..bodies'
      BY <2>1, <2>3 DEF TypeOK
    <3> QED
      BY <2>0, <2>2, <2>3, <2>h, <3>1 DEF TypeOK
  <2>6. Shape'
    <3>1. /\ \A c \in Compactors : pc'[c] \in {"idle", "group", "build", "put"}
          /\ \A g \in Flushers : pc'[g] \in {"idle", "flush", "post"}
      BY <1>0, <2>h DEF Shape, Procs
    <3> QED
      BY <2>0, <2>2, <2>3, <2>4, <2>h, <3>1 DEF Shape
  <2> QED
    BY <2>5, <2>6
<1> QED
  BY <1>1, <1>3, <1>4, <1>5, <1>6 DEF Flush

\* The types hold from the start, through every step and every restart.
LEMMA TypeStep ==
  ASSUME Inv, Next
  PROVE  TypeOK' /\ Shape'
<1>1. ASSUME Restart
      PROVE  TypeOK' /\ Shape'
  <2>0. /\ restarts' \in 0..MaxRestarts /\ gzip' \in BOOLEAN /\ MemCap \in Nat
        /\ UNCHANGED <<call, disk, fail>>
    BY <1>1, WriteAssumption, SMT DEF Restart, Inv, TypeOK
  <2>1. DOMAIN Empty = DataFields /\ DOMAIN NoWriter = WriterFields /\ MaxBodies \in Nat
    BY WriteAssumption DEF Empty, DataFields, NoWriter, WriterFields
  <2>2. mem' \in [Categories -> Seq(Nat)] /\ \A c \in Categories : Len(mem'[c]) <= MemCap
    BY <1>1, <2>0, SMTT(40) DEF Restart
  <2>3. TypeOK'
    BY <1>1, <2>0, <2>1, <2>2, SMT DEF Restart, Inv, TypeOK, Shape
  <2>4. \A b \in 1..MaxBodies : body'[b] = [data |-> Empty, self |-> FALSE]
    BY <1>1 DEF Restart, NoBodies
  <2>5. /\ DOMAIN body' = 1..MaxBodies
        /\ \A b \in 1..MaxBodies : /\ DOMAIN body'[b] = {"data", "self"}
                                   /\ body'[b].self \in BOOLEAN
                                   /\ DOMAIN body'[b].data = DataFields
    BY <1>1, <2>1, <2>4 DEF Restart, NoBodies
  <2>6. Shape'
    BY <1>1, <2>0, <2>1, <2>2, <2>5 DEF Restart, Inv, Shape, Procs
  <2> QED
    BY <2>3, <2>6, ZenonT(40)
<1> QED
  BY <1>1, WriteTypes, FlushTypes DEF Next

----------------------------------------------------------------------------
(* What is in a body *)

\* What was a part of a call that was begun stays one.
LEMMA SoundLater ==
  ASSUME NEW d, NEW cl, NEW cm, NEW z, Sound(d, cl, z),
         \A c \in Compactors : cl[c] \in Nat /\ cm[c] \in Nat /\ cl[c] <= cm[c]
  PROVE  Sound(d, cm, z)
<1>1. PartBy(d, cm)
  <2>1. PICK c \in Compactors : \E n \in 1..cl[c] :
                LET now == Writes[c][n] IN
                \E k \in (IF Sinker THEN {GroupOf[now.pts[j]] : j \in DOMAIN now.pts} ELSE {""}) :
                    /\ d.cat = now.cat
                    /\ d.hdrs = IF Sinker THEN {<<"X-Global-Tags", k>>} ELSE {}
                    /\ PartOf(d.pts, IF Sinker THEN InGroup(now.pts, k) ELSE now.pts)
    BY DEF Sound, PartBy
  <2>2. \A n \in 1..cl[c] : n \in 1..cm[c]
    BY SMT
  <2> QED
    BY <2>1, <2>2, Zenon DEF PartBy
<1> QED
  BY <1>1 DEF Sound

\* So does what has the same fields.
LEMMA SoundCopy ==
  ASSUME NEW d, NEW e, NEW cl, NEW z, NEW y, Sound(d, cl, z), DOMAIN e = DataFields,
         e.cat = d.cat, e.pts = d.pts, e.hdrs = d.hdrs, ~GzipMayChange => e.zipped = y
  PROVE  Sound(e, cl, y)
BY DEF Sound, PartBy

\* A step of one goroutine leaves the contents of the others' bodies alone.
LEMMA OneChanges ==
  ASSUME Contents, NEW x \in Procs, UNCHANGED <<gzip, call>>,
         \A y \in Procs : y # x => /\ has'[y] = has[y] /\ pc'[y] = pc[y]
                                   /\ has[y] # 0 => body'[has[y]].data = body[has[y]].data,
         has'[x] # 0 => Sound(body'[has'[x]].data, call, IF pc'[x] = "post" THEN Zipped ELSE 0),
         \A c \in Categories : \A b \in Elems(mem'[c]) : Sound(body'[b].data, call, 0),
         \A c \in Categories : \A d \in Elems(disk'[c]) : Sound(d, call, 0),
         \A d \in Elems(fail') : Sound(d, call, Zipped)
  PROVE  Contents'
<1>1. Zipped' = Zipped /\ call' = call
  BY DEF Zipped
<1>2. \A y \in Procs : has'[y] # 0 =>
            Sound(body'[has'[y]].data, call, IF pc'[y] = "post" THEN Zipped ELSE 0)
  <2> SUFFICES ASSUME NEW y \in Procs, has'[y] # 0
               PROVE  Sound(body'[has'[y]].data, call, IF pc'[y] = "post" THEN Zipped ELSE 0)
    OBVIOUS
  <2>1. CASE y = x
    BY <2>1
  <2>2. CASE y # x
    <3>1. /\ has'[y] = has[y] /\ pc'[y] = pc[y] /\ has[y] # 0
          /\ body'[has[y]].data = body[has[y]].data
      BY <2>2
    <3>2. Sound(body[has[y]].data, call, IF pc[y] = "post" THEN Zipped ELSE 0)
      BY <3>1 DEF Contents
    <3> QED
      BY <3>1, <3>2
  <2> QED
    BY <2>1, <2>2
<1> QED
  BY <1>1, <1>2 DEF Contents

\* Whose contents are left alone when only body b changes, which nobody else has.
LEMMA OthersKeep ==
  ASSUME TypeOK, Shape, Owned, NEW x \in Procs, NEW b,
         b # has[x] => /\ \A y \in Procs : has[y] # b
                       /\ \A c \in Categories : b \notin Elems(mem[c]),
         \A e \in 1..MaxBodies : e # b => body'[e].data = body[e].data
  PROVE  /\ \A y \in Procs : y # x /\ has[y] # 0 => body'[has[y]].data = body[has[y]].data
         /\ \A c \in Categories : \A e \in Elems(mem[c]) : body'[e].data = body[e].data
<1>1. ASSUME NEW y \in Procs, y # x, has[y] # 0
      PROVE  body'[has[y]].data = body[has[y]].data
  <2>1. has[y] # b /\ has[y] \in 1..MaxBodies
    BY <1>1, Numbers, SMT DEF Owned
  <2> QED
    BY <2>1
<1>2. ASSUME NEW c \in Categories, NEW e \in Elems(mem[c])
      PROVE  body'[e].data = body[e].data
  <2>1. e # b /\ e \in 1..MaxBodies
    BY <1>2, Numbers, SMT DEF Owned
  <2> QED
    BY <2>1
<1> QED
  BY <1>1, <1>2

\* The goroutine that moves is x.
LEMMA OneMoves ==
  ASSUME TypeOK, Shape, NEW x \in Procs, NEW v, NEW l, Hold(x, v), Goto(x, l)
  PROVE  /\ has'[x] = v /\ pc'[x] = l
         /\ \A y \in Procs : y # x => has'[y] = has[y] /\ pc'[y] = pc[y]
BY DEF Hold, Goto, Shape, TypeOK

\* Parts of PartSize points follow each other at multiples of it.
LEMMA Multiples ==
  ASSUME NEW q \in Nat
  PROVE  q <= q * PartSize /\ (q + 1) * PartSize = q * PartSize + PartSize
         /\ q * PartSize \in Nat /\ PartSize \in Nat \ {0}
<1>1. PartSize \in Nat \ {0}
  BY WriteAssumption
<1>2. \A m \in Nat \ {0} : q <= q * m /\ (q + 1) * m = q * m + m /\ q * m \in Nat
  BY SMT
<1> QED
  BY <1>1, <1>2

\* Encoder.Next: what it takes is a part of the points, and it stops between two.
LEMMA NextIsPart ==
  ASSUME NEW ps, NEW done \in Nat, NEW i \in 1..Len(ps), NEW j \in 1..Len(ps),
         NextPart(ps, done, i, j), Between(ps, done)
  PROVE  PartOf(SubSeq(ps, i, j), ps) /\ j \in Nat /\ Between(ps, j)
<1>0. i \in Int /\ j \in Int /\ i >= 1 /\ i <= j
  BY SMT DEF NextPart
<1>1. PICK s \in 1..Len(ps) : \E q \in Nat :
          /\ s <= i /\ i = s + q * PartSize
          /\ (\A l \in s..(i - 1) : ps[l] \notin Large \cup Brim) /\ (s = 1 \/ ps[s - 1] \in Large)
  <2>0. 0 * PartSize = 0
    BY Multiples, SMT
  <2>1. CASE i > done + 1
    <3>1. i - 1 \in (done + 1)..(i - 1)
      BY <2>1, <1>0, SMT
    <3>2. ps[i - 1] \in Large
      BY <3>1 DEF NextPart
    <3>3. i <= i /\ i = i + 0 * PartSize /\ \A l \in i..(i - 1) : ps[l] \notin Large \cup Brim
      BY <1>0, <2>0, SMT
    <3> QED
      BY <3>2, <3>3
  <2>2. CASE i = 1
    <3>1. i <= i /\ i = i + 0 * PartSize /\ \A l \in i..(i - 1) : ps[l] \notin Large \cup Brim
      BY <1>0, <2>0, SMT
    <3> QED
      BY <2>2, <3>1
  <2>3. CASE i = done + 1 /\ done # 0
    <3>1. ps[i] \notin Large \cup Brim
      BY <1>0, SMT DEF NextPart
    <3>2. PICK s \in 1..Len(ps) : \E q \in Nat :
              /\ s <= done + 1 /\ done + 1 = s + q * PartSize
              /\ (\A l \in s..done : ps[l] \notin Large \cup Brim) /\ (s = 1 \/ ps[s - 1] \in Large)
      BY <2>3, <3>1 DEF Between
    <3>3. done = i - 1
      BY <2>3, <1>0, SMT
    <3> QED
      BY <2>3, <3>2, <3>3
  <2>4. i > done + 1 \/ i = done + 1
    BY <1>0, SMT DEF NextPart
  <2> QED
    BY <2>1, <2>2, <2>3, <2>4, SMT
<1>2. PICK q \in Nat :
          /\ s <= i /\ i = s + q * PartSize
          /\ (\A l \in s..(i - 1) : ps[l] \notin Large \cup Brim) /\ (s = 1 \/ ps[s - 1] \in Large)
  BY <1>1
<1>3. \A l \in s..j : ps[l] \notin Large \cup Brim
  <2> SUFFICES ASSUME NEW l \in s..j
               PROVE  ps[l] \notin Large \cup Brim
    OBVIOUS
  <2>1. l \in s..(i - 1) \/ l \in i..j
    BY <1>0, SMT
  <2> QED
    BY <2>1, <1>2 DEF NextPart
<1>m. PICK m \in Nat : m = q * PartSize /\ q <= m /\ (q + 1) * PartSize = m + PartSize
  BY Multiples
<1>n. i = s + m
  BY <1>2, <1>m
<1>4. q \in 0..(i - s)
  <2>1. q <= m
    BY <1>m
  <2> QED
    BY ONLY <1>n, <2>1, <1>0, s \in 1..Len(ps), m \in Nat, q \in Nat, SMT
<1>5. PartOf(SubSeq(ps, i, j), ps)
  BY <1>0, <1>2, <1>3, <1>4 DEF PartOf, NextPart
<1>6. Between(ps, j)
  <2>1. CASE j - i + 1 < PartSize
    BY <2>1 DEF Between, NextPart
  <2>2. CASE j - i + 1 = PartSize
    <3>1. s <= j + 1 /\ j + 1 = s + (q + 1) * PartSize
      <4>1. PICK r : r = (q + 1) * PartSize
        OBVIOUS
      <4>2. r = m + PartSize /\ PartSize \in Nat
        BY <4>1, <1>m, WriteAssumption
      <4>3. s <= j + 1 /\ j + 1 = s + r
        BY ONLY <4>2, <2>2, <1>0, <1>n, s \in 1..Len(ps), m \in Nat, SMT
      <4> QED
        BY <4>1, <4>3
    <3> QED
      BY <3>1, <1>2, <1>3, SMT DEF Between
  <2>3. j - i < PartSize /\ PartSize \in Nat
    BY WriteAssumption DEF NextPart
  <2> QED
    BY <1>0, <2>1, <2>2, <2>3, SMT
<1> QED
  BY <1>0, <1>5, <1>6, SMT

\* doGroupPoints in an empty grouper makes the groups of these points.
LEMMA GroupedFresh ==
  ASSUME NEW ps
  PROVE  /\ DOMAIN Grouped(NoGroups, ps) = {GroupOf[ps[i]] : i \in DOMAIN ps}
         /\ \A k \in {GroupOf[ps[i]] : i \in DOMAIN ps} : Grouped(NoGroups, ps)[k] = InGroup(ps, k)
<1>1. DOMAIN NoGroups = {}
  BY DEF NoGroups
<1> HIDE DEF NoGroups
<1> DEFINE K == {GroupOf[ps[i]] : i \in DOMAIN ps}
<1>2. Grouped(NoGroups, ps) = [k \in K |-> InGroup(ps, k)]
  <2>1. DOMAIN NoGroups \cup K = K /\ \A k \in K : k \notin DOMAIN NoGroups
    BY <1>1
  <2> HIDE DEF K
  <2>2. Grouped(NoGroups, ps) =
          [k \in DOMAIN NoGroups \cup K |->
             IF k \in DOMAIN NoGroups THEN NoGroups[k] \o InGroup(ps, k) ELSE InGroup(ps, k)]
    BY DEF Grouped, K
  <2> QED
    BY <2>1, <2>2
<1> QED
  BY <1>2

\* buildPointsBody: what is put into a body is a part of the call that is on.
LEMMA BuiltSound ==
  ASSUME Inv, NEW c \in Compactors, pc[c] = "build", NEW i \in 1..Len(points[c]),
         NEW j \in 1..Len(points[c]), NextPart(points[c], lastIdx[c], i, j)
  PROVE  /\ Sound([cat |-> wr[c].cat, pts |-> SubSeq(points[c], i, j),
                   hdrs |-> wr[c].hdrs, zipped |-> 0], call, 0)
         /\ j \in Nat /\ Between(points[c], j)
<1> DEFINE now == Writes[c][call[c]]
           d == [cat |-> wr[c].cat, pts |-> SubSeq(points[c], i, j),
                 hdrs |-> wr[c].hdrs, zipped |-> 0]
<1>1. /\ wr[c].cat = now.cat /\ Building(c, now)
      /\ Sinker => gr[c] = Grouped(NoGroups, now.pts)
  BY DEF Inv, Compacting, CompactorOK
<1>2. call[c] \in 1..call[c]
  BY CatKnown, SMT DEF Inv
<1>3. PartOf(SubSeq(points[c], i, j), points[c]) /\ j \in Nat /\ Between(points[c], j)
  BY <1>1, NextIsPart DEF Building
<1>4. PICK k \in (IF Sinker THEN {GroupOf[now.pts[l]] : l \in DOMAIN now.pts} ELSE {""}) :
          /\ wr[c].hdrs = IF Sinker THEN {<<"X-Global-Tags", k>>} ELSE {}
          /\ points[c] = IF Sinker THEN InGroup(now.pts, k) ELSE now.pts
  <2>1. CASE Sinker
    <3>1. PICK k \in DOMAIN gr[c] : wr[c].hdrs = {<<"X-Global-Tags", k>>} /\ points[c] = gr[c][k]
      BY <1>1, <2>1 DEF Building
    <3>2. /\ k \in {GroupOf[now.pts[l]] : l \in DOMAIN now.pts} /\ gr[c][k] = InGroup(now.pts, k)
      BY <1>1, <2>1, <3>1, GroupedFresh
    <3> QED
      BY <2>1, <3>1, <3>2
  <2>2. CASE ~Sinker
    BY <1>1, <2>2 DEF Building
  <2> QED
    BY <2>1, <2>2
<1>5. /\ d.cat = now.cat /\ d.pts = SubSeq(points[c], i, j) /\ d.hdrs = wr[c].hdrs
      /\ d.zipped = 0 /\ DOMAIN d = DataFields
  BY <1>1 DEF DataFields
<1>6. PartBy(d, call)
  <2> HIDE DEF d
  <2> QED
    BY <1>2, <1>3, <1>4, <1>5 DEF PartBy
<1> QED
  BY <1>3, <1>5, <1>6 DEF Sound

\* A body filled from disk has what was dumped.
LEMMA LoadedSound ==
  ASSUME TypeOK, Shape, Owned, Kinds, NEW b \in 1..MaxBodies, NEW self, NEW d, NEW cl, NEW z,
         TakeBody(b, self, d), Sound(d, cl, z)
  PROVE  /\ Sound(body'[b].data, cl, z) /\ body'[b].data.cat = d.cat /\ body'[b].data.hdrs = d.hdrs
         /\ (\A y \in Procs : has[y] # b) /\ \A c \in Categories : b \notin Elems(mem[c])
         /\ \A e \in 1..MaxBodies : e # b => body'[e].data = body[e].data
<1>1. /\ Taken(b) /\ body'[b].data = Load(d, body[b].data)
      /\ \A e \in 1..MaxBodies : e # b => body'[e] = body[e]
  BY TakeIsTaken
<1>2. /\ body[b].data = Empty /\ (\A y \in Procs : has[y] # b)
      /\ \A c \in Categories : b \notin Elems(mem[c])
  BY <1>1, TakeFree
<1>3. DOMAIN d = DataFields /\ (~GzipMayChange => d.zipped = z)
  BY DEF Sound
<1>4. LET e == body'[b].data IN /\ DOMAIN e = DataFields /\ e.cat = d.cat /\ e.pts = d.pts
                                /\ e.hdrs = d.hdrs /\ e.zipped = d.zipped
  BY <1>1, <1>2, <1>3, Loaded, ZenonT(40)
<1>5. Sound(body'[b].data, cl, z)
  BY <1>3, <1>4, SoundCopy
<1> QED
  BY <1>1, <1>2, <1>4, <1>5

\* Write keeps what is in the bodies.
LEMMA WriteContents ==
  ASSUME Inv, NEW c \in Compactors, Write(c)
  PROVE  Contents'
<1> USE DEF Inv
<1>0. c \in Procs
  BY DEF Procs
<1>1. CASE StartWrite(c)
  <2>1. /\ UNCHANGED <<gzip, has, body, mem, disk, fail>>
        /\ \A e \in Compactors : call[e] \in Nat /\ call'[e] \in Nat /\ call[e] <= call'[e]
    <3>1. \A e \in Compactors : Len(Writes[e]) \in Nat
      BY WriteAssumption, SMTT(40)
    <3>2. call' = [call EXCEPT ![c] = @ + 1] /\ \A e \in Compactors : call[e] \in Nat
      BY <1>1, <3>1, SMTT(40) DEF StartWrite, TypeOK
    <3>3. \A e \in Compactors : call'[e] \in Nat /\ call[e] <= call'[e]
      BY <3>2, SMT DEF Shape
    <3> QED
      BY <1>1, <3>2, <3>3 DEF StartWrite, pools, queues
  <2>2. \A d, z : Sound(d, call, z) => Sound(d, call', z)
    BY <2>1, SoundLater
  <2>3. has[c] = 0 /\ \A y \in Procs : y # c => pc'[y] = pc[y]
    BY <1>0, <1>1 DEF StartWrite, TypeOK, Goto
  <2>4. Zipped' = Zipped
    BY <2>1 DEF Zipped
  <2>5. (\A y \in Procs : has[y] # 0 =>
            Sound(body[has[y]].data, call, IF pc[y] = "post" THEN Zipped ELSE 0))'
    BY <2>1, <2>2, <2>3, <2>4 DEF Contents
  <2>6. (\A e \in Categories : \A b \in Elems(mem[e]) : Sound(body[b].data, call, 0))'
    BY <2>1, <2>2 DEF Contents
  <2>7. /\ (\A e \in Categories : \A d \in Elems(disk[e]) : Sound(d, call, 0))'
        /\ (\A d \in Elems(fail) : Sound(d, call, Zipped))'
    BY <2>1, <2>2, <2>4 DEF Contents
  <2> QED
    BY <2>5, <2>6, <2>7 DEF Contents
<1>2. CASE NextGroup(c)
  <2>1. UNCHANGED <<gzip, call, has, body, mem, disk, fail>> /\ has[c] = 0
    BY <1>0, <1>2 DEF NextGroup, pools, queues, TypeOK
  <2>2. \A y \in Procs : y # c => pc'[y] = pc[y]
    BY <1>2 DEF NextGroup, Goto, TypeOK
  <2> QED
    BY <1>0, <2>1, <2>2, OneChanges DEF Contents
<1>3. CASE BuildBody(c)
  <2>0. PICK b \in 1..MaxBodies, i \in 1..Len(points[c]), j \in 1..Len(points[c]) :
             /\ pc[c] = "build" /\ NextPart(points[c], lastIdx[c], i, j) /\ Hold(c, b)
             /\ TakeBody(b, TRUE, [cat |-> wr[c].cat, pts |-> SubSeq(points[c], i, j),
                                   hdrs |-> wr[c].hdrs, zipped |-> 0])
             /\ Goto(c, "put") /\ UNCHANGED <<gzip, call, mem, disk, fail>>
    BY <1>3 DEF BuildBody, queues
  <2>a. PICK d : d = [cat |-> wr[c].cat, pts |-> SubSeq(points[c], i, j),
                      hdrs |-> wr[c].hdrs, zipped |-> 0]
    OBVIOUS
  <2>1. /\ Hold(c, b) /\ TakeBody(b, TRUE, d) /\ Goto(c, "put")
        /\ UNCHANGED <<gzip, call, mem, disk, fail>>
    BY <2>0, <2>a
  <2>2. Sound(d, call, 0)
    BY <2>0, <2>a, BuiltSound
  <2>3. /\ Sound(body'[b].data, call, 0)
        /\ (\A y \in Procs : has[y] # b) /\ (\A e \in Categories : b \notin Elems(mem[e]))
        /\ \A e \in 1..MaxBodies : e # b => body'[e].data = body[e].data
    BY <2>1, <2>2, LoadedSound
  <2>4. /\ has'[c] = b /\ pc'[c] = "put"
        /\ \A y \in Procs : y # c => /\ has'[y] = has[y] /\ pc'[y] = pc[y]
                                     /\ has[y] # 0 => body'[has[y]].data = body[has[y]].data
        /\ \A e \in Categories : \A l \in Elems(mem[e]) : body'[l].data = body[l].data
    <3>1. /\ has'[c] = b /\ pc'[c] = "put"
          /\ \A y \in Procs : y # c => has'[y] = has[y] /\ pc'[y] = pc[y]
      BY <1>0, <2>1, OneMoves
    <3> QED
      BY <1>0, <2>3, <3>1, OthersKeep, ZenonT(40)
  <2>5. \A e \in Categories : \A l \in Elems(mem'[e]) : Sound(body'[l].data, call, 0)
    BY <2>1, <2>4 DEF Contents
  <2>6. /\ \A e \in Categories : \A u \in Elems(disk'[e]) : Sound(u, call, 0)
        /\ \A u \in Elems(fail') : Sound(u, call, Zipped)
    BY <2>1 DEF Contents
  <2>7. has'[c] # 0 => Sound(body'[has'[c]].data, call, IF pc'[c] = "post" THEN Zipped ELSE 0)
    BY <2>3, <2>4
  <2>8. UNCHANGED <<gzip, call>>
    BY <2>1
  <2> QED
    BY <1>0, <2>4, <2>5, <2>6, <2>7, <2>8, OneChanges
<1>4. ASSUME NEW failed \in BOOLEAN, LastRound(c, failed)
      PROVE  Contents'
  <2>1. UNCHANGED <<gzip, call, has, mem, disk, fail>> /\ has[c] = 0
    BY <1>0, <1>4 DEF LastRound, queues, TypeOK
  <2>2. \A y \in Procs : y # c => pc'[y] = pc[y]
    BY <1>4 DEF LastRound, Goto, TypeOK
  <2>3. \A b \in 1..MaxBodies : body'[b].data = body[b].data
    <3>1. PICK b \in 1..MaxBodies : body' = body \/ body' = [body EXCEPT ![b].self = TRUE]
      BY <1>4 DEF LastRound, pools
    <3>2. CASE body' = [body EXCEPT ![b].self = TRUE]
      <4>1. /\ body'[b].data = body[b].data
            /\ \A e \in 1..MaxBodies : e # b => body'[e] = body[e]
        BY <3>2 DEF Shape
      <4> QED
        BY <4>1
    <3> QED
      BY <3>1, <3>2
  <2>4. \A y \in Procs : y # c /\ has[y] # 0 => body'[has[y]].data = body[has[y]].data
    BY <2>3, Numbers, SMTT(40)
  <2>5. \A e \in Categories : \A l \in Elems(mem'[e]) : Sound(body'[l].data, call, 0)
    BY <2>1, <2>3, Numbers, SMT DEF Contents, Owned
  <2> QED
    BY <1>0, <2>1, <2>2, <2>4, <2>5, OneChanges DEF Contents
<1>5. CASE PutMem(c)
  <2>1. /\ pc[c] = "put" /\ Hold(c, 0) /\ Goto(c, "build")
        /\ mem' = [mem EXCEPT ![wr[c].cat] = Append(@, has[c])]
        /\ UNCHANGED <<gzip, call, body, disk, fail>>
    BY <1>5 DEF PutMem, pools
  <2>2. wr[c].cat \in Categories /\ has[c] # 0
    BY <1>0, <2>1, CatKnown DEF TypeOK
  <2>3. Sound(body[has[c]].data, call, 0)
    BY <1>0, <2>1, <2>2 DEF Contents
  <2>4. /\ Elems(mem'[wr[c].cat]) = Elems(mem[wr[c].cat]) \cup {has[c]}
        /\ \A e \in Categories : e # wr[c].cat => mem'[e] = mem[e]
    BY <2>1, <2>2, AppendElems, Numbers DEF Shape
  <2>5. \A e \in Categories : \A l \in Elems(mem'[e]) : Sound(body'[l].data, call, 0)
    BY <2>1, <2>3, <2>4 DEF Contents
  <2>6. \A y \in Procs : y # c => has'[y] = has[y] /\ pc'[y] = pc[y]
    BY <2>1 DEF Hold, Goto, Shape, TypeOK
  <2>7. has'[c] = 0
    BY <1>0, <2>1 DEF Hold, Shape
  <2> QED
    BY <1>0, <2>1, <2>5, <2>6, <2>7, OneChanges DEF Contents
<1>6. CASE PutDisk(c)
  <2>1. /\ pc[c] = "put" /\ Hold(c, 0) /\ Goto(c, "build") /\ PutBody(has[c])
        /\ disk' = IF Len(disk[wr[c].cat]) < DiskCap
                   THEN [disk EXCEPT ![wr[c].cat] = Append(@, body[has[c]].data)] ELSE disk
        /\ UNCHANGED <<gzip, call, mem, fail>>
    BY <1>6, ZenonT(40) DEF PutDisk
  <2>2. wr[c].cat \in Categories /\ has[c] # 0 /\ has[c] \in 1..MaxBodies
    <3>1. wr[c].cat \in Categories /\ has[c] # 0
      BY <1>0, <2>1, CatKnown DEF TypeOK
    <3> QED
      BY <1>0, <3>1, Numbers, SMT
  <2>3. Sound(body[has[c]].data, call, 0)
    BY <1>0, <2>1, <2>2 DEF Contents
  <2>4. \A e \in Categories : \A d \in Elems(disk'[e]) : Sound(d, call, 0)
    <3>1. Elems(Append(disk[wr[c].cat], body[has[c]].data))
             = Elems(disk[wr[c].cat]) \cup {body[has[c]].data}
      BY <2>2, AppendElems DEF Shape
    <3> QED
      BY <2>1, <2>2, <2>3, <3>1 DEF Contents, Shape
  <2>5. \A e \in 1..MaxBodies : e # has[c] => body'[e].data = body[e].data
    BY <2>1, <2>2, BodyPut
  <2>6. /\ has'[c] = 0
        /\ \A y \in Procs : y # c => /\ has'[y] = has[y] /\ pc'[y] = pc[y]
                                     /\ has[y] # 0 => body'[has[y]].data = body[has[y]].data
        /\ \A e \in Categories : \A l \in Elems(mem[e]) : body'[l].data = body[l].data
    <3>1. PICK b : b = has[c]
      OBVIOUS
    <3>2. \A e \in 1..MaxBodies : e # b => body'[e].data = body[e].data
      BY <2>5, <3>1
    <3>3. has'[c] = 0 /\ \A y \in Procs : y # c => has'[y] = has[y] /\ pc'[y] = pc[y]
      BY <1>0, <2>1, OneMoves
    <3> QED
      BY <1>0, <3>1, <3>2, <3>3, OthersKeep, SMTT(40)
  <2>7. \A e \in Categories : \A l \in Elems(mem'[e]) : Sound(body'[l].data, call, 0)
    BY <2>1, <2>6 DEF Contents
  <2>8. UNCHANGED <<gzip, call>> /\ \A d \in Elems(fail') : Sound(d, call, Zipped)
    BY <2>1 DEF Contents
  <2> QED
    BY <1>0, <2>4, <2>6, <2>7, <2>8, OneChanges
<1> QED
  BY <1>1, <1>2, <1>3, <1>4, <1>5, <1>6 DEF Write

\* So do the flush workers.
LEMMA FlushContents ==
  ASSUME Inv, NEW f \in Flushers, Flush(f)
  PROVE  Contents'
<1> USE DEF Inv
<1>0. f \in Procs /\ CatOf[f] \in Categories
  BY WriteAssumption DEF Procs
<1>1. CASE GetMem(f)
  <2> DEFINE q == mem[CatOf[f]]
  <2>1. /\ Hold(f, Head(q)) /\ Goto(f, "flush") /\ q # <<>>
        /\ mem' = [mem EXCEPT ![CatOf[f]] = Tail(@)] /\ UNCHANGED <<gzip, call, body, disk, fail>>
    BY <1>1 DEF GetMem, pools
  <2>2. Head(q) \in Elems(q) /\ Elems(Tail(q)) \subseteq Elems(q)
    BY <1>0, <2>1, TailElems, Numbers
  <2>3. \A e \in Categories : Elems(mem'[e]) \subseteq Elems(mem[e])
    BY <1>0, <2>1, <2>2 DEF Shape
  <2>4. /\ has'[f] = Head(q) /\ pc'[f] = "flush"
        /\ \A y \in Procs : y # f => has'[y] = has[y] /\ pc'[y] = pc[y]
    BY <1>0, <2>1, OneMoves
  <2>5. Sound(body'[has'[f]].data, call, IF pc'[f] = "post" THEN Zipped ELSE 0)
    BY <1>0, <2>1, <2>2, <2>4 DEF Contents
  <2>6. \A e \in Categories : \A l \in Elems(mem'[e]) : Sound(body'[l].data, call, 0)
    BY <2>1, <2>3 DEF Contents
  <2>7. UNCHANGED <<gzip, call, body, disk, fail>>
    BY <2>1
  <2> QED
    BY <1>0, <2>4, <2>5, <2>6, <2>7, OneChanges DEF Contents
<1>2. CASE GetDisk(f)
  <2> DEFINE q == disk[CatOf[f]]
  <2>1. PICK b \in 1..MaxBodies :
            /\ Hold(f, b) /\ Goto(f, "flush") /\ q # <<>> /\ TakeBody(b, FALSE, Head(q))
            /\ disk' = [disk EXCEPT ![CatOf[f]] = Tail(@)] /\ UNCHANGED <<gzip, call, mem, fail>>
    BY <1>2 DEF GetDisk
  <2>2. Sound(Head(q), call, 0) /\ \A d \in Elems(Tail(q)) : Sound(d, call, 0)
    <3>1. IsSeq(q) /\ \A d \in Elems(q) : Sound(d, call, 0)
      BY <1>0 DEF Shape, Contents
    <3> QED
      BY <2>1, <3>1, HeadSound
  <2>3. /\ Sound(body'[b].data, call, 0)
        /\ (\A y \in Procs : has[y] # b) /\ (\A e \in Categories : b \notin Elems(mem[e]))
        /\ \A e \in 1..MaxBodies : e # b => body'[e].data = body[e].data
    BY <2>1, <2>2, LoadedSound
  <2>4. /\ has'[f] = b /\ pc'[f] = "flush"
        /\ \A y \in Procs : y # f => has'[y] = has[y] /\ pc'[y] = pc[y]
    BY <1>0, <2>1, OneMoves
  <2>5. /\ \A y \in Procs : y # f /\ has[y] # 0 => body'[has[y]].data = body[has[y]].data
        /\ \A e \in Categories : \A l \in Elems(mem[e]) : body'[l].data = body[l].data
    BY <1>0, <2>3, OthersKeep
  <2>6. \A e \in Categories : \A d \in Elems(disk'[e]) : Sound(d, call, 0)
    BY <1>0, <2>1, <2>2 DEF Contents, Shape
  <2>7. \A e \in Categories : \A l \in Elems(mem'[e]) : Sound(body'[l].data, call, 0)
    BY <2>1, <2>5 DEF Contents
  <2>8. has'[f] # 0 => Sound(body'[has'[f]].data, call, IF pc'[f] = "post" THEN Zipped ELSE 0)
    BY <2>3, <2>4
  <2>9. UNCHANGED <<gzip, call>> /\ \A d \in Elems(fail') : Sound(d, call, Zipped)
    BY <2>1 DEF Contents
  <2> QED
    BY <1>0, <2>4, <2>5, <2>6, <2>7, <2>8, <2>9, OneChanges
<1>3. CASE CleanFailCache(f)
  <2>1. PICK b \in 1..MaxBodies :
            /\ Hold(f, b) /\ Goto(f, "post") /\ fail # <<>> /\ TakeBody(b, FALSE, Head(fail))
            /\ UNCHANGED <<gzip, call, mem, disk, fail>>
    BY <1>3 DEF CleanFailCache
  <2>2. Sound(Head(fail), call, Zipped)
    <3>1. IsSeq(fail) /\ \A d \in Elems(fail) : Sound(d, call, Zipped)
      BY DEF Shape, Contents
    <3> QED
      BY <2>1, <3>1, HeadSound
  <2>3. /\ Sound(body'[b].data, call, Zipped)
        /\ (\A y \in Procs : has[y] # b) /\ (\A e \in Categories : b \notin Elems(mem[e]))
        /\ \A e \in 1..MaxBodies : e # b => body'[e].data = body[e].data
    BY <2>1, <2>2, LoadedSound
  <2>4. /\ has'[f] = b /\ pc'[f] = "post"
        /\ \A y \in Procs : y # f => has'[y] = has[y] /\ pc'[y] = pc[y]
    BY <1>0, <2>1, OneMoves
  <2>5. /\ \A y \in Procs : y # f /\ has[y] # 0 => body'[has[y]].data = body[has[y]].data
        /\ \A e \in Categories : \A l \in Elems(mem[e]) : body'[l].data = body[l].data
    BY <1>0, <2>3, OthersKeep
  <2>6. \A e \in Categories : \A l \in Elems(mem'[e]) : Sound(body'[l].data, call, 0)
    BY <2>1, <2>5 DEF Contents
  <2>7. has'[f] # 0 => Sound(body'[has'[f]].data, call, IF pc'[f] = "post" THEN Zipped ELSE 0)
    BY <2>3, <2>4
  <2>8. /\ UNCHANGED <<gzip, call>> /\ \A d \in Elems(fail') : Sound(d, call, Zipped)
        /\ \A e \in Categories : \A d \in Elems(disk'[e]) : Sound(d, call, 0)
    BY <2>1 DEF Contents
  <2> QED
    BY <1>0, <2>4, <2>5, <2>6, <2>7, <2>8, OneChanges
<1>4. CASE DoFlush(f)
  <2>1. /\ pc[f] = "flush" /\ Goto(f, "post") /\ UNCHANGED <<gzip, call, has, mem, disk, fail>>
        /\ GetWriter(f, body[has[f]].data.cat, FALSE, body[has[f]].data.hdrs)
        /\ body' = IF gzip /\ ~wr'[f].clean THEN [body EXCEPT ![has[f]].data.zipped = @ + 1]
                                            ELSE body
    BY <1>4 DEF DoFlush, queues
  <2>2. has[f] # 0 /\ has[f] \in 1..MaxBodies
    BY <1>0, <2>1, BodyHeld DEF TypeOK
  <2>3. wr'[f].clean = FALSE
    BY <1>0, <2>1, WriterTaken
  <2>4. PICK b, d : b = has[f] /\ d = body[has[f]].data
    OBVIOUS
  <2>5. Sound(d, call, 0) /\ DOMAIN d = DataFields
    BY <1>0, <2>1, <2>2, <2>4 DEF Contents, Sound
  <2>6. /\ DOMAIN body'[b].data = DataFields /\ body'[b].data.cat = d.cat
        /\ body'[b].data.pts = d.pts /\ body'[b].data.hdrs = d.hdrs
        /\ body'[b].data.zipped = IF gzip THEN d.zipped + 1 ELSE d.zipped
        /\ \A e \in 1..MaxBodies : e # b => body'[e].data = body[e].data
    <3>1. CASE gzip
      <4>1. body' = [body EXCEPT ![b].data.zipped = @ + 1]
        BY <2>1, <2>3, <2>4, <3>1
      <4>2. /\ b \in DOMAIN body /\ DOMAIN body = 1..MaxBodies
            /\ DOMAIN body[b] = {"data", "self"} /\ DOMAIN body[b].data = DataFields
        BY <2>2, <2>4 DEF Shape
      <4> QED
        BY <2>4, <3>1, <4>1, <4>2 DEF DataFields
    <3>2. CASE ~gzip
      BY <2>1, <2>4, <2>5, <3>2
    <3> QED
      BY <3>1, <3>2
  <2>7. Sound(body'[b].data, call, Zipped)
    <3>1. ~GzipMayChange => body'[b].data.zipped = Zipped
      BY <2>5, <2>6, SMT DEF Sound, Zipped
    <3> QED
      BY <2>5, <2>6, <3>1, SoundCopy
  <2>8. pc'[f] = "post" /\ \A y \in Procs : y # f => pc'[y] = pc[y]
    BY <1>0, <2>1, ZenonT(40) DEF Goto, TypeOK
  <2>9. /\ \A y \in Procs : y # f /\ has[y] # 0 => body'[has[y]].data = body[has[y]].data
        /\ \A e \in Categories : \A l \in Elems(mem[e]) : body'[l].data = body[l].data
    BY <1>0, <2>4, <2>6, OthersKeep, SMT
  <2>10. \A e \in Categories : \A l \in Elems(mem'[e]) : Sound(body'[l].data, call, 0)
    BY <2>1, <2>9 DEF Contents
  <2>11. has'[f] # 0 => Sound(body'[has'[f]].data, call, IF pc'[f] = "post" THEN Zipped ELSE 0)
    BY <2>1, <2>4, <2>7, <2>8
  <2>12. /\ UNCHANGED <<gzip, call, has>> /\ \A d_1 \in Elems(fail') : Sound(d_1, call, Zipped)
         /\ \A e \in Categories : \A d_1 \in Elems(disk'[e]) : Sound(d_1, call, 0)
    BY <2>1 DEF Contents
  <2> QED
    BY <1>0, <2>8, <2>9, <2>10, <2>11, <2>12, OneChanges
<1>5. ASSUME NEW ok \in BOOLEAN, Flushed(f, ok) \/ Cleaned(f, ok)
      PROVE  Contents'
  <2>1. /\ pc[f] = "post" /\ Goto(f, "idle") /\ PutBody(has[f]) /\ Hold(f, 0)
        /\ UNCHANGED <<gzip, call, mem, disk>>
    BY <1>5 DEF Flushed, Cleaned
  <2>2. has[f] # 0 /\ has[f] \in 1..MaxBodies
    BY <1>0, <2>1, BodyHeld DEF TypeOK
  <2>3. PICK b : b = has[f]
    OBVIOUS
  <2>4. \A e \in 1..MaxBodies : e # b => body'[e].data = body[e].data
    BY <2>1, <2>2, <2>3, BodyPut
  <2>5. has'[f] = 0 /\ \A y \in Procs : y # f => has'[y] = has[y] /\ pc'[y] = pc[y]
    BY <1>0, <2>1, OneMoves
  <2>6. /\ \A y \in Procs : y # f /\ has[y] # 0 => body'[has[y]].data = body[has[y]].data
        /\ \A e \in Categories : \A l \in Elems(mem[e]) : body'[l].data = body[l].data
    <3>1. TypeOK /\ Shape /\ Owned /\ f \in Procs
      BY <1>0
    <3> QED
      BY ONLY <2>3, <2>4, <3>1, OthersKeep, SMT
  <2>7. \A d \in Elems(fail') : Sound(d, call, Zipped)
    <3>1. IsSeq(fail) /\ \A d \in Elems(fail) : Sound(d, call, Zipped)
      BY DEF Shape, Contents
    <3>2. CASE Flushed(f, ok)
      <4>1. Sound(body[has[f]].data, call, Zipped)
        BY <1>0, <2>1, <2>2 DEF Contents
      <4>2. Elems(Append(fail, body[has[f]].data)) = Elems(fail) \cup {body[has[f]].data}
        BY <3>1, AppendElems
      <4> QED
        BY <3>1, <3>2, <4>1, <4>2 DEF Flushed
    <3>3. CASE Cleaned(f, ok)
      <4>1. fail # <<>>
        BY <3>3 DEF Cleaned, Posting, Cleaning
      <4> QED
        BY <3>1, <3>3, <4>1, HeadSound DEF Cleaned
    <3> QED
      BY <1>5, <3>2, <3>3
  <2>8. \A e \in Categories : \A l \in Elems(mem'[e]) : Sound(body'[l].data, call, 0)
    BY <2>1, <2>6 DEF Contents
  <2>9. /\ UNCHANGED <<gzip, call>> /\ has'[f] = 0
        /\ \A e \in Categories : \A d \in Elems(disk'[e]) : Sound(d, call, 0)
    BY <2>1, <2>5 DEF Contents
  <2> QED
    BY <1>0, <2>5, <2>6, <2>7, <2>8, <2>9, OneChanges
<1> QED
  BY <1>1, <1>2, <1>3, <1>4, <1>5 DEF Flush

\* What is on its way is a part, from the start and after every step.
LEMMA ContentsStep ==
  ASSUME Inv, Next
  PROVE  Contents'
<1>1. ASSUME Restart
      PROVE  Contents'
  <2>1. /\ (\A x \in Procs : has'[x] = 0) /\ UNCHANGED <<call, disk, fail>>
        /\ \A c \in Categories : mem'[c] = <<>>
    BY <1>1 DEF Restart
  <2>2. \A c \in Categories : Elems(mem'[c]) = {}
    BY <2>1, SMT DEF Elems
  <2>3. GzipMayChange \/ gzip' = gzip
    BY <1>1 DEF Restart
  <2>4. \A d : Sound(d, call, Zipped) => Sound(d, call, Zipped')
    BY <2>3, SMT DEF Sound, Zipped
  <2> QED
    BY <2>1, <2>2, <2>4 DEF Inv, Contents
<1> QED
  BY <1>1, WriteContents, FlushContents DEF Next

----------------------------------------------------------------------------
(* What is in a writer *)

\* A caller of Write that does not move keeps its writer and its groups.
LEMMA CompactorKeeps ==
  ASSUME NEW c \in Compactors, CompactorOK(c), pc'[c] = pc[c], call'[c] = call[c],
         wr'[c] = wr[c], gr'[c] = gr[c], points'[c] = points[c], lastIdx'[c] = lastIdx[c]
  PROVE  CompactorOK(c)'
BY DEF CompactorOK, Building

\* Write: the writer has the category of the call, the header of the group.
LEMMA CompactingStep ==
  ASSUME Inv, Next
  PROVE  Compacting'
<1> USE DEF Inv
<1>a. \A c \in Compactors : c \in Procs /\ c \notin Flushers
  BY WriteAssumption DEF Procs
<1>k. ASSUME ~Sinker, NEW c \in Compactors
      PROVE  keys'[c] = {}
  <2>1. \A e \in Compactors : keys[e] = {}
    BY <1>k, ZenonT(40) DEF Compacting
  <2>2. keys' = keys \/ Restart \/ \E e \in Compactors : PutGrouper(e)
    BY <1>k, <2>1, ZenonT(40) DEF Next, Write, StartWrite, NextGroup, BuildBody, PutMem, PutDisk, LastRound,
                      Flush, GetMem, GetDisk, DoFlush, CleanFailCache, Flushed, Cleaned
  <2> QED
    BY <2>1, <2>2 DEF Restart, PutGrouper, Shape
<1>b. ASSUME NEW c \in Compactors,
             \A e \in Compactors : e # c =>
                 /\ pc'[e] = pc[e] /\ call'[e] = call[e] /\ wr'[e] = wr[e] /\ gr'[e] = gr[e]
                 /\ points'[e] = points[e] /\ lastIdx'[e] = lastIdx[e],
             CompactorOK(c)'
      PROVE  Compacting'
  BY <1>b, <1>k, CompactorKeeps DEF Compacting
<1>1. ASSUME NEW c \in Compactors, StartWrite(c)
      PROVE  Compacting'
  <2> DEFINE now == Writes[c][call[c] + 1]
  <2>1. /\ pc[c] = "idle" /\ call' = [call EXCEPT ![c] = @ + 1] /\ call[c] \in Nat
        /\ GetWriter(c, now.cat, FALSE, {}) /\ UNCHANGED lastIdx
    <3>1. call[c] \in Nat
      BY WriteAssumption, SMTT(40) DEF TypeOK
    <3> QED
      BY <1>1, <3>1 DEF StartWrite
  <2>2. call'[c] = call[c] + 1 /\ call'[c] # 0 /\ lastIdx'[c] = 0 /\ Writes[c][call'[c]] = now
    <3>1. call'[c] = call[c] + 1
      BY <2>1 DEF Shape
    <3> QED
      BY <2>1, <3>1, SMT DEF Compacting, CompactorOK
  <2>3. /\ wr'[c].cat = now.cat /\ wr'[c].hdrs = {}
        /\ \A y \in Procs : y # c => wr'[y] = wr[y]
    BY <1>a, <2>1, WriterTaken, ZenonT(40)
  <2>4. \A e \in Compactors : e # c =>
                 /\ pc'[e] = pc[e] /\ call'[e] = call[e] /\ wr'[e] = wr[e] /\ gr'[e] = gr[e]
                 /\ points'[e] = points[e] /\ lastIdx'[e] = lastIdx[e]
    BY <1>1, <1>a, <2>1, <2>3, SMTT(40) DEF StartWrite, Goto, Shape, TypeOK
  <2>5. CASE Sinker
    <3>1. pc'[c] = "group" /\ gr'[c] = Grouped(NoGroups, now.pts)
      BY <1>1, <1>a, <2>5, SMTT(40) DEF StartWrite, Goto, Shape, TypeOK
    <3> HIDE DEF now
    <3>2. CompactorOK(c)'
      BY <2>2, <2>3, <2>5, <3>1 DEF CompactorOK
    <3> QED
      BY <2>4, <3>2, <1>b, ZenonT(40)
  <2>6. CASE ~Sinker
    <3>1. pc'[c] = "build" /\ points'[c] = now.pts
      BY <1>1, <1>a, <2>6, ZenonT(40) DEF StartWrite, Goto, Shape, TypeOK
    <3> HIDE DEF now
    <3>2. CompactorOK(c)'
      BY <2>2, <2>3, <2>6, <3>1, SMT DEF CompactorOK, Building, Between
    <3> QED
      BY <2>4, <3>2, <1>b
  <2> QED
    BY <2>5, <2>6
<1>2. ASSUME NEW c \in Compactors, NextGroup(c)
      PROVE  Compacting'
  <2>1. PICK k \in keys[c] :
            /\ pc[c] = "group" /\ Goto(c, "build")
            /\ wr' = [wr EXCEPT ![c].hdrs = WithHTTPHeader(@, <<"X-Global-Tags", k>>)]
            /\ points' = [points EXCEPT ![c] = gr[c][k]] /\ UNCHANGED <<call, gr, lastIdx>>
    BY <1>2 DEF NextGroup
  <2>2. /\ wr'[c].cat = wr[c].cat
        /\ wr'[c].hdrs = WithHTTPHeader(wr[c].hdrs, <<"X-Global-Tags", k>>)
        /\ \A e \in Compactors : e # c => wr'[e] = wr[e]
    BY <1>a, <2>1 DEF Shape, WriterFields
  <2>3. WithHTTPHeader(wr[c].hdrs, <<"X-Global-Tags", k>>) = {<<"X-Global-Tags", k>>}
    <3>1. \A h \in wr[c].hdrs : h[1] = "X-Global-Tags"
      BY <2>1 DEF Compacting, CompactorOK
    <3>2. <<"X-Global-Tags", k>>[1] = "X-Global-Tags"
      OBVIOUS
    <3>3. {g \in wr[c].hdrs : g[1] # <<"X-Global-Tags", k>>[1]} = {}
      BY <3>1, <3>2
    <3> QED
      BY <3>3 DEF WithHTTPHeader
  <2>4. \A e \in Compactors : e # c =>
                 /\ pc'[e] = pc[e] /\ call'[e] = call[e] /\ wr'[e] = wr[e] /\ gr'[e] = gr[e]
                 /\ points'[e] = points[e] /\ lastIdx'[e] = lastIdx[e]
    BY <1>a, <2>1, <2>2 DEF Goto, Shape, TypeOK
  <2>5. /\ pc'[c] = "build" /\ points'[c] = gr'[c][k] /\ k \in DOMAIN gr'[c]
        /\ call'[c] = call[c] /\ gr'[c] = gr[c] /\ lastIdx'[c] = 0
        /\ wr'[c].hdrs = {<<"X-Global-Tags", k>>}
    BY <1>a, <2>1, <2>2, <2>3 DEF Goto, Shape, TypeOK, Compacting, CompactorOK
  <2>6. /\ Sinker /\ call[c] # 0 /\ wr[c].cat = Writes[c][call[c]].cat
        /\ gr[c] = Grouped(NoGroups, Writes[c][call[c]].pts)
    BY <2>1, ZenonT(40) DEF Compacting, CompactorOK
  <2>7. CompactorOK(c)'
    BY <2>2, <2>5, <2>6, SMT DEF CompactorOK, Building, Between
  <2> QED
    BY <1>b, <2>4, <2>7
<1>3. ASSUME NEW c \in Compactors, BuildBody(c)
      PROVE  Compacting'
  <2>1. PICK i \in 1..Len(points[c]), j \in 1..Len(points[c]) :
             /\ pc[c] = "build" /\ NextPart(points[c], lastIdx[c], i, j) /\ Goto(c, "put")
             /\ lastIdx' = [lastIdx EXCEPT ![c] = j] /\ UNCHANGED <<call, wr, gr, points>>
    BY <1>3 DEF BuildBody
  <2>2. j \in Nat /\ Between(points[c], j)
    BY <2>1, BuiltSound
  <2>3. \A e \in Compactors : e # c =>
                 /\ pc'[e] = pc[e] /\ call'[e] = call[e] /\ wr'[e] = wr[e] /\ gr'[e] = gr[e]
                 /\ points'[e] = points[e] /\ lastIdx'[e] = lastIdx[e]
    BY <1>a, <2>1 DEF Goto, Shape, TypeOK
  <2>4. pc'[c] = "put" /\ lastIdx'[c] = j /\ UNCHANGED <<call, wr, gr, points>>
    BY <1>a, <2>1 DEF Goto, Shape, TypeOK
  <2>5. CompactorOK(c) /\ pc[c] = "build"
    BY <2>1 DEF Compacting
  <2>6. CompactorOK(c)'
    BY <2>2, <2>4, <2>5 DEF CompactorOK, Building
  <2> QED
    BY <1>b, <2>3, <2>6
<1>4. ASSUME NEW c \in Compactors, NEW failed \in BOOLEAN, LastRound(c, failed)
      PROVE  Compacting'
  <2>1. pc[c] = "build" /\ lastIdx' = [lastIdx EXCEPT ![c] = 0] /\ UNCHANGED call
    BY <1>4 DEF LastRound
  <2>2. \A y \in Procs : y # c => wr'[y] = wr[y]
    BY <1>4, <1>a, WriterPut DEF LastRound
  <2>3. \A e \in Compactors : e # c =>
                 /\ pc'[e] = pc[e] /\ call'[e] = call[e] /\ wr'[e] = wr[e] /\ gr'[e] = gr[e]
                 /\ points'[e] = points[e] /\ lastIdx'[e] = lastIdx[e]
    BY <1>4, <1>a, <2>1, <2>2, SMTT(40) DEF LastRound, PutGrouper, Goto, Shape, TypeOK
  <2>4. /\ lastIdx'[c] = 0
        /\ pc'[c] = "idle" \/ (pc'[c] = "group" /\ keys[c] # {} /\ UNCHANGED <<wr, gr>>)
    BY <1>4, <1>a, <2>1 DEF LastRound, Goto, Shape, TypeOK
  <2>5. CompactorOK(c) /\ pc[c] = "build"
    BY <2>1 DEF Compacting
  <2>6. CASE pc'[c] = "idle"
    <3>1. CompactorOK(c)'
      BY <2>4, <2>6 DEF CompactorOK
    <3> QED
      BY <1>b, <2>3, <3>1
  <2>7. CASE pc'[c] = "group" /\ keys[c] # {} /\ UNCHANGED <<wr, gr>>
    <3>1. Sinker
      BY <2>7, ZenonT(40) DEF Compacting
    <3>2. \A h \in wr'[c].hdrs : h[1] = "X-Global-Tags"
      BY <2>5, <2>7, <3>1, SMT DEF CompactorOK, Building
    <3>3. CompactorOK(c)'
      BY <2>1, <2>4, <2>5, <2>7, <3>1, <3>2 DEF CompactorOK
    <3> QED
      BY <1>b, <2>3, <3>3
  <2> QED
    BY <2>4, <2>6, <2>7
<1>5. ASSUME NEW c \in Compactors, PutMem(c) \/ PutDisk(c)
      PROVE  Compacting'
  <2>1. /\ pc[c] = "put" /\ Goto(c, "build") /\ UNCHANGED <<call, wr, gr, points, lastIdx>>
    BY <1>5 DEF PutMem, PutDisk
  <2>2. \A e \in Compactors : e # c => pc'[e] = pc[e]
    BY <1>a, <2>1 DEF Goto, TypeOK
  <2>3. CompactorOK(c)'
    BY <1>a, <2>1 DEF Goto, TypeOK, Compacting, CompactorOK, Building
  <2> QED
    BY <1>b, <2>1, <2>2, <2>3
<1>6. ASSUME NEW f \in Flushers, Flush(f)
      PROVE  Compacting'
  <2>1. f \in Procs /\ UNCHANGED <<call, gr, points, lastIdx>>
    BY <1>6 DEF Flush, GetMem, GetDisk, DoFlush, CleanFailCache, Flushed, Cleaned, Procs
  <2>2. \E l : Goto(f, l)
    BY <1>6 DEF Flush, GetMem, GetDisk, DoFlush, CleanFailCache, Flushed, Cleaned
  <2>3. \A y \in Procs : y # f => wr'[y] = wr[y]
    <3>1. \/ wr' = wr \/ PutWriter(f)
          \/ \E v : wr' = [wr EXCEPT ![f] = v]
      BY <1>6 DEF Flush, GetMem, GetDisk, DoFlush, CleanFailCache, Flushed, Cleaned, GetWriter
    <3> QED
      BY <3>1 DEF PutWriter, Shape
  <2>4. \A e \in Compactors : pc'[e] = pc[e] /\ wr'[e] = wr[e]
    BY <1>a, <2>1, <2>2, <2>3 DEF Goto, TypeOK
  <2> QED
    BY <2>1, <2>4, <1>k, CompactorKeeps DEF Compacting
<1>7. ASSUME Restart
      PROVE  Compacting'
  BY <1>7, <1>a, <1>k DEF Restart, Compacting, CompactorOK
<1> QED
  BY <1>1, <1>2, <1>3, <1>4, <1>5, <1>6, <1>7 DEF Next, Write

\* A step of one goroutine leaves the writers of the other workers as they are.
LEMMA WorkersKeep ==
  ASSUME Inv, NEW x \in Procs, gzip' = gzip,
         \A y \in Procs : y # x => /\ pc'[y] = pc[y] /\ has'[y] = has[y] /\ wr'[y] = wr[y]
                                   /\ has[y] # 0 => body'[has[y]].data = body[has[y]].data,
         \A g \in Flushers : g # x => (cleaner' = {g} <=> cleaner = {g})
  PROVE  \A g \in Flushers : g # x => WorkerOK(g)'
<1> SUFFICES ASSUME NEW g \in Flushers, g # x, pc'[g] = "post"
             PROVE  WorkerOK(g)'
  BY DEF WorkerOK
<1>1. g \in Procs
  BY DEF Procs
<1>2. has[g] # 0 /\ WorkerOK(g) /\ pc[g] = "post"
  BY <1>1 DEF Inv, TypeOK, Posting
<1>3. /\ body'[has'[g]].data = body[has[g]].data /\ wr'[g] = wr[g] /\ gzip' = gzip
      /\ cleaner' = {g} <=> cleaner = {g}
  BY <1>1, <1>2
<1> QED
  BY <1>2, <1>3 DEF WorkerOK

\* Write leaves what the workers have alone.
LEMMA WritePosting ==
  ASSUME Inv, NEW c \in Compactors, Write(c)
  PROVE  Posting'
<1> USE DEF Inv
<1>0. c \in Procs /\ c \notin Flushers
  BY WriteAssumption DEF Procs
<1>1. UNCHANGED <<gzip, fail, cleaner>> /\ \E l : Goto(c, l)
  BY DEF Write, StartWrite, NextGroup, BuildBody, PutMem, PutDisk, LastRound, queues
<1>2. \A y \in Procs : y # c => pc'[y] = pc[y]
  BY <1>1 DEF Goto, TypeOK
<1>3. \A y \in Procs : y # c => has'[y] = has[y]
  <2>1. has' = has \/ \E v : Hold(c, v)
    BY DEF Write, StartWrite, NextGroup, BuildBody, PutMem, PutDisk, LastRound
  <2> QED
    BY <2>1 DEF Hold, Shape
<1>4. \A y \in Procs : y # c => wr'[y] = wr[y]
  <2>1. \/ wr' = wr \/ \E v : wr' = [wr EXCEPT ![c] = v]
    BY DEF Write, StartWrite, NextGroup, BuildBody, PutMem, PutDisk, LastRound, GetWriter, PutWriter
  <2> QED
    BY <2>1 DEF Shape
<1>5. \A y \in Procs : y # c /\ has[y] # 0 => body'[has[y]].data = body[has[y]].data
  <2>1. CASE StartWrite(c) \/ NextGroup(c) \/ PutMem(c)
    BY <2>1 DEF StartWrite, NextGroup, PutMem, pools
  <2>2. CASE BuildBody(c)
    <3>1. PICK b \in 1..MaxBodies : \E d : TakeBody(b, TRUE, d)
      BY <2>2 DEF BuildBody
    <3>2. PICK d : TakeBody(b, TRUE, d)
      BY <3>1
    <3>3. Taken(b) /\ \A e \in 1..MaxBodies : e # b => body'[e] = body[e]
      BY <3>2, TakeIsTaken
    <3>4. \A y \in Procs : has[y] # b
      BY <3>3, TakeFree
    <3> QED
      BY <3>3, <3>4, Numbers, SMT
  <2>3. ASSUME NEW failed \in BOOLEAN, LastRound(c, failed), NEW y \in Procs, y # c, has[y] # 0
        PROVE  body'[has[y]].data = body[has[y]].data
    <3>1. PICK b \in 1..MaxBodies : body' = body \/ body' = [body EXCEPT ![b].self = TRUE]
      BY <2>3 DEF LastRound, pools
    <3>2. has[y] \in 1..MaxBodies
      BY <2>3, Numbers, SMT
    <3>3. CASE body' = [body EXCEPT ![b].self = TRUE]
      <4>1. /\ body'[b].data = body[b].data
            /\ \A e \in 1..MaxBodies : e # b => body'[e] = body[e]
        BY <3>3, ZenonT(40) DEF Shape
      <4> QED
        BY <3>2, <4>1
    <3> QED
      BY <3>1, <3>3
  <2>4. CASE PutDisk(c)
    <3>1. PutBody(has[c]) /\ pc[c] = "put"
      BY <2>4 DEF PutDisk
    <3>2. has[c] # 0 /\ has[c] \in 1..MaxBodies
      BY <1>0, <3>1, Numbers, SMT DEF TypeOK
    <3>3. \A e \in 1..MaxBodies : e # has[c] => body'[e] = body[e]
      BY <3>1, <3>2, BodyPut
    <3> QED
      BY <1>0, <3>3, Numbers, SMT DEF Owned
  <2> QED
    BY <2>1, <2>2, <2>3, <2>4 DEF Write
<1>6. \A g \in Flushers : g # c => WorkerOK(g)'
  BY <1>0, <1>1, <1>2, <1>3, <1>4, <1>5, WorkersKeep
<1>7. Cleaning'
  BY <1>0, <1>1, <1>2 DEF Posting, Cleaning, Procs
<1> QED
  BY <1>0, <1>6, <1>7 DEF Posting

\* A worker's writer has what its body has; the others are left alone.
LEMMA FlushPosting ==
  ASSUME Inv, NEW f \in Flushers, Flush(f)
  PROVE  Posting'
<1> USE DEF Inv
<1>0. f \in Procs /\ Flushers \subseteq Procs
  BY DEF Procs
<1>1. CASE GetMem(f)
  <2>1. /\ pc[f] = "idle" /\ Hold(f, Head(mem[CatOf[f]])) /\ Goto(f, "flush")
        /\ UNCHANGED <<gzip, wr, body, fail, cleaner>>
    BY <1>1 DEF GetMem, pools
  <2>2. pc'[f] = "flush" /\ \A y \in Procs : y # f => has'[y] = has[y] /\ pc'[y] = pc[y]
    BY <1>0, <2>1, OneMoves
  <2>3. \A g \in Flushers : g # f => WorkerOK(g)'
    BY <1>0, <2>1, <2>2, WorkersKeep
  <2> QED
    BY <1>0, <2>1, <2>2, <2>3 DEF Posting, Cleaning, WorkerOK
<1>2. CASE GetDisk(f)
  <2>1. PICK b \in 1..MaxBodies :
            /\ pc[f] = "idle" /\ TakeBody(b, FALSE, Head(disk[CatOf[f]])) /\ Hold(f, b)
            /\ Goto(f, "flush") /\ UNCHANGED <<gzip, wr, fail, cleaner>>
    BY <1>2 DEF GetDisk
  <2>2. pc'[f] = "flush" /\ \A y \in Procs : y # f => has'[y] = has[y] /\ pc'[y] = pc[y]
    BY <1>0, <2>1, OneMoves
  <2>3. Taken(b) /\ \A e \in 1..MaxBodies : e # b => body'[e] = body[e]
    BY <2>1, TakeIsTaken
  <2>4. \A y \in Procs : has[y] # b
    BY <2>3, TakeFree
  <2>5. \A y \in Procs : has[y] # 0 => body'[has[y]].data = body[has[y]].data
    BY <2>3, <2>4, Numbers, SMT
  <2>6. \A g \in Flushers : g # f => WorkerOK(g)'
    BY <1>0, <2>1, <2>2, <2>5, WorkersKeep
  <2> QED
    BY <1>0, <2>1, <2>2, <2>6 DEF Posting, Cleaning, WorkerOK
<1>3. CASE CleanFailCache(f)
  <2>1. PICK b \in 1..MaxBodies :
            /\ pc[f] = "idle" /\ cleaner = {} /\ fail # <<>> /\ TakeBody(b, FALSE, Head(fail))
            /\ Hold(f, b) /\ Goto(f, "post") /\ cleaner' = {f} /\ UNCHANGED <<gzip, fail>>
            /\ GetWriter(f, Head(fail).cat, TRUE, {<<"X-Fail-Cache-Retry", "1">>} \cup body'[b].data.hdrs)
    BY <1>3 DEF CleanFailCache
  <2>2. Sound(Head(fail), call, Zipped)
    <3>1. IsSeq(fail) /\ \A d \in Elems(fail) : Sound(d, call, Zipped)
      BY DEF Shape, Contents
    <3> QED
      BY <2>1, <3>1, HeadSound, ZenonT(40)
  <2>3. /\ body'[b].data.cat = Head(fail).cat /\ (\A y \in Procs : has[y] # b)
        /\ \A e \in 1..MaxBodies : e # b => body'[e].data = body[e].data
    <3>1. PICK d : d = Head(fail)
      OBVIOUS
    <3>2. TakeBody(b, FALSE, d) /\ Sound(d, call, Zipped)
      BY <2>1, <2>2, <3>1
    <3> QED
      BY <3>1, <3>2, LoadedSound, ZenonT(40)
  <2>4. /\ has'[f] = b /\ pc'[f] = "post"
        /\ \A y \in Procs : y # f => has'[y] = has[y] /\ pc'[y] = pc[y]
    BY <1>0, <2>1, OneMoves
  <2>5. PICK new : new = {<<"X-Fail-Cache-Retry", "1">>} \cup body'[b].data.hdrs
    OBVIOUS
  <2>6. GetWriter(f, Head(fail).cat, TRUE, new)
    BY <2>1, <2>5
  <2>7. /\ wr'[f].cat = Head(fail).cat /\ wr'[f].hdrs = new /\ wr'[f].gz = gzip
        /\ wr'[f].clean = TRUE /\ \A y \in Procs : y # f => wr'[y] = wr[y]
    BY <1>0, <2>6, WriterTaken
  <2>8. \A y \in Procs : has[y] # 0 => body'[has[y]].data = body[has[y]].data
    BY <2>3, Numbers, SMT
  <2>9. \A g \in Flushers : g # f => (cleaner' = {g} <=> cleaner = {g})
    BY <2>1
  <2>10. \A g \in Flushers : g # f => WorkerOK(g)'
    BY <1>0, <2>1, <2>4, <2>7, <2>8, <2>9, WorkersKeep
  <2>11. WorkerOK(f)'
    BY <2>1, <2>3, <2>4, <2>5, <2>7 DEF WorkerOK
  <2>12. Cleaning'
    BY <2>1, <2>4 DEF Cleaning
  <2> QED
    BY <2>10, <2>11, <2>12 DEF Posting
<1>4. CASE DoFlush(f)
  <2>1. /\ pc[f] = "flush" /\ Goto(f, "post") /\ UNCHANGED <<gzip, has, fail, cleaner>>
        /\ GetWriter(f, body[has[f]].data.cat, FALSE, body[has[f]].data.hdrs)
        /\ \/ body' = [body EXCEPT ![has[f]].data.zipped = @ + 1]
           \/ body' = body
    BY <1>4 DEF DoFlush, queues
  <2>2. has[f] # 0 /\ has[f] \in 1..MaxBodies
    BY <1>0, <2>1, BodyHeld DEF TypeOK
  <2>3. PICK b, d : b = has[f] /\ d = body[has[f]].data
    OBVIOUS
  <2>4. /\ wr'[f].cat = d.cat /\ wr'[f].hdrs = d.hdrs /\ wr'[f].gz = gzip
        /\ wr'[f].clean = FALSE /\ \A y \in Procs : y # f => wr'[y] = wr[y]
    <3>1. GetWriter(f, d.cat, FALSE, d.hdrs)
      BY <2>1, <2>3
    <3> QED
      BY <1>0, <3>1, WriterTaken
  <2>5. /\ body'[b].data.cat = d.cat /\ body'[b].data.hdrs = d.hdrs
        /\ \A e \in 1..MaxBodies : e # b => body'[e].data = body[e].data
    <3>1. /\ b \in DOMAIN body /\ DOMAIN body = 1..MaxBodies
          /\ DOMAIN body[b] = {"data", "self"} /\ DOMAIN body[b].data = DataFields
      BY <2>2, <2>3 DEF Shape
    <3>2. CASE body' = [body EXCEPT ![has[f]].data.zipped = @ + 1]
      BY <2>3, <3>1, <3>2 DEF DataFields
    <3> QED
      BY <2>1, <2>3, <3>2
  <2>6. pc'[f] = "post" /\ \A y \in Procs : y # f => pc'[y] = pc[y]
    BY <1>0, <2>1, ZenonT(40) DEF Goto, TypeOK
  <2>7. \A y \in Procs : y # f /\ has[y] # 0 => body'[has[y]].data = body[has[y]].data
    BY <1>0, <2>3, <2>5, Numbers, SMT DEF Owned
  <2>8. \A g \in Flushers : g # f => WorkerOK(g)'
    BY <1>0, <2>1, <2>4, <2>6, <2>7, WorkersKeep
  <2>9. cleaner # {f} /\ Cleaning'
    BY <1>0, <2>1, <2>6 DEF Posting, Cleaning
  <2>10. WorkerOK(f)'
    BY <2>1, <2>3, <2>4, <2>5, <2>6, <2>9 DEF WorkerOK
  <2> QED
    BY <2>8, <2>9, <2>10 DEF Posting
<1>5. ASSUME NEW ok \in BOOLEAN, Flushed(f, ok) \/ Cleaned(f, ok)
      PROVE  Posting'
  <2>1. /\ pc[f] = "post" /\ Goto(f, "idle") /\ PutBody(has[f]) /\ Hold(f, 0) /\ PutWriter(f)
        /\ gzip' = gzip
    BY <1>5, ZenonT(40) DEF Flushed, Cleaned
  <2>2. has[f] # 0 /\ has[f] \in 1..MaxBodies
    BY <1>0, <2>1, BodyHeld DEF TypeOK
  <2>3. \A e \in 1..MaxBodies : e # has[f] => body'[e] = body[e]
    BY <2>1, <2>2, BodyPut
  <2>4. pc'[f] = "idle" /\ \A y \in Procs : y # f => has'[y] = has[y] /\ pc'[y] = pc[y]
    BY <1>0, <2>1, OneMoves
  <2>5. \A y \in Procs : y # f => wr'[y] = wr[y]
    BY <1>0, <2>1, WriterPut, ZenonT(40)
  <2>6. \A y \in Procs : y # f /\ has[y] # 0 => body'[has[y]].data = body[has[y]].data
    <3> TAKE y \in Procs
    <3> HAVE y # f /\ has[y] # 0
    <3>1. has[y] \in 1..MaxBodies
      BY BodyHeld
    <3>2. has[y] # has[f]
      BY <1>0, <2>2 DEF Owned
    <3> QED
      BY <2>3, <3>1, <3>2
  <2>7. \A g \in Flushers : g # f => (cleaner' = {g} <=> cleaner = {g})
    BY <1>5 DEF Flushed, Cleaned
  <2>8. \A g \in Flushers : g # f => WorkerOK(g)'
    BY <1>0, <2>1, <2>4, <2>5, <2>6, <2>7, WorkersKeep
  <2>9. WorkerOK(f)'
    BY <2>4 DEF WorkerOK
  <2>10. Cleaning'
    <3>1. CASE Flushed(f, ok)
      <4>1. cleaner' = cleaner /\ cleaner # {f}
        BY <3>1 DEF Flushed
      <4>2. fail # <<>> => fail' # <<>>
        <5>1. ASSUME NEW d
              PROVE  Append(fail, d) # <<>>
          <6>1. PICK r : r = Append(fail, d)
            OBVIOUS
          <6>2. Len(fail) \in Nat /\ Len(r) = Len(fail) + 1
            BY <6>1, AppendElems DEF Shape
          <6>3. r # <<>>
            BY <6>2, SMT
          <6> QED
            BY <6>1, <6>3
        <5> QED
          BY <3>1, <5>1 DEF Flushed
      <4> QED
        BY <1>0, <2>4, <4>1, <4>2 DEF Posting, Cleaning
    <3>2. CASE Cleaned(f, ok)
      BY <3>2 DEF Cleaned, Cleaning
    <3> QED
      BY <1>5, <3>1, <3>2
  <2> QED
    BY <2>8, <2>9, <2>10 DEF Posting
<1> QED
  BY <1>1, <1>2, <1>3, <1>4, <1>5 DEF Flush

\* What a POST says of its body, after every step.
LEMMA PostingStep ==
  ASSUME Inv, Next
  PROVE  Posting'
<1>1. CASE Restart
  BY <1>1 DEF Restart, Posting, Cleaning, WorkerOK, Procs
<1> QED
  BY <1>1, WritePosting, FlushPosting DEF Next

----------------------------------------------------------------------------
(* The theorems *)

\* Nothing is written, held or queued at first.
LEMMA InitHolds ==
  ASSUME Init
  PROVE  Inv
<1>1. /\ \A c \in Categories : Elems(mem[c]) = {} /\ Elems(disk[c]) = {}
      /\ Elems(fail) = {} /\ \A x \in Procs : has[x] = 0 /\ pc[x] = "idle"
  BY SMT DEF Init, Elems
<1>2. NoWriter = [cat |-> NoWriter.cat, hdrs |-> {}, gz |-> FALSE, clean |-> FALSE]
  BY DEF NoWriter
<1>3. DOMAIN NoWriter = WriterFields
  BY DEF NoWriter, WriterFields
<1>4. DOMAIN Empty = DataFields
  BY DEF Empty, DataFields
<1>5. MaxBodies \in Nat /\ MaxRestarts \in Nat /\ MemCap \in Nat /\ DiskCap \in Nat /\ FailCap \in Nat
  BY WriteAssumption
<1>6. \A c \in Compactors : c \in Procs /\ Len(Writes[c]) \in Nat
  BY WriteAssumption, SMT DEF Procs
<1>7. /\ DOMAIN body = 1..MaxBodies
      /\ \A b \in 1..MaxBodies : body[b].data = Empty /\ body[b].self = FALSE
                                 /\ DOMAIN body[b] = {"data", "self"}
  BY DEF Init, NoBodies
<1>8. TypeOK
  BY <1>5, <1>6, SMT DEF TypeOK, Init
<1>9. Shape
  <2>1. \A c \in Categories : IsSeq(disk[c])
    BY SMT DEF Init, IsSeq
  <2>2. IsSeq(fail)
    BY SMT DEF Init, IsSeq
  <2>3. mem \in [Categories -> Seq(Nat)]
    BY SMT DEF Init
  <2>4. \A x \in Procs : DOMAIN wr[x] = WriterFields
    BY <1>3 DEF Init
  <2>5. \A b \in 1..MaxBodies : /\ DOMAIN body[b] = {"data", "self"} /\ body[b].self \in BOOLEAN
                                /\ DOMAIN body[b].data = DataFields
    BY <1>4, <1>7
  <2> QED
    BY <1>6, <1>7, <2>1, <2>2, <2>3, <2>4, <2>5 DEF Init, Shape, Procs
<1>10. Owned
  <2>1. \A c \in Categories : Distinct(mem[c])
    BY SMT DEF Init, Distinct
  <2>2. Pool = {} /\ newBodies = {}
    BY DEF Init, Pool
  <2> QED
    BY <1>1, <2>1, <2>2 DEF Owned
<1>11. Kinds
  BY <1>1, <1>6, <1>7 DEF Kinds, Init
<1>12. Contents
  BY <1>1 DEF Contents
<1>13. Compacting
  BY <1>1, <1>6 DEF Init, Compacting, CompactorOK
<1>14. Posting
  BY <1>1 DEF Init, Posting, Cleaning, WorkerOK, Procs
<1> QED
  BY <1>8, <1>9, <1>10, <1>11, <1>12, <1>13, <1>14 DEF Inv

\* The invariant is inductive: each of its parts is kept by every step of Write,
\* of a flush worker and of a restart when all of them held before it.
THEOREM Invariance == Spec => []Inv
<1>1. Init => Inv
  BY InitHolds
<1>2. Inv /\ [Next]_vars => Inv'
  <2> SUFFICES ASSUME Inv, [Next]_vars
               PROVE  Inv'
    OBVIOUS
  <2>1. CASE Next
    BY <2>1, TypeStep, OwnedStep, ContentsStep, CompactingStep, PostingStep, ZenonT(40) DEF Inv
  <2>2. CASE UNCHANGED vars
    <3>1. UNCHANGED <<gzip, call, pc, has, wr, gr, keys, points, lastIdx, body, newBodies,
                      reuseBodies, bodies, writers, groupers, mem, disk, fail, cleaner, restarts>>
      BY <2>2 DEF vars, procs, pools, spare, queues
    <3> QED
      <4>1. TypeOK' /\ Shape'
        BY <3>1 DEF Inv, TypeOK, Shape
      <4>2. Owned' /\ Kinds'
        BY <3>1 DEF Inv, Owned, Pool, Kinds
      <4>3. Contents'
        BY <3>1 DEF Inv, Contents, Zipped
      <4>4. Compacting'
        BY <3>1 DEF Inv, Compacting, CompactorOK, Building
      <4>5. Posting'
        BY <3>1 DEF Inv, Posting, Cleaning, WorkerOK
      <4> QED
        BY <4>1, <4>2, <4>3, <4>4, <4>5 DEF Inv
  <2> QED
    BY <2>1, <2>2
<1> QED
  BY <1>1, <1>2, PTL DEF Spec

\* Write, getWriter, putBody: a goroutine has a body exactly from the time it is
\* built or read until it is sent or put back, and no channel, WAL or fail cache
\* goes over its capacity.
THEOREM Types == Spec => []TypeOK
BY Invariance, PTL DEF Inv

\* writePointData POSTs one body as Write built it, with the headers of its
\* group, whatever the pooled body, writer and grouper were used for before.
THEOREM PostedIsOnePart == Spec => []PostIsOnePart
<1>1. Inv => PostIsOnePart
  <2> SUFFICES ASSUME Inv, NEW f \in Flushers, pc[f] = "post"
               PROVE  LET d == body[has[f]].data IN
                      /\ OnePart(d) /\ wr[f].cat = d.cat /\ (wr[f].clean <=> cleaner = {f})
                      /\ wr[f].hdrs = d.hdrs \cup
                              (IF cleaner = {f} THEN {<<"X-Fail-Cache-Retry", "1">>} ELSE {})
    BY DEF PostIsOnePart
  <2>1. f \in Procs /\ has[f] # 0
    BY DEF Inv, TypeOK, Procs
  <2>2. PartBy(body[has[f]].data, call)
    BY <2>1 DEF Inv, Contents, Sound
  <2>3. OnePart(body[has[f]].data)
    BY <2>2 DEF PartBy, OnePart
  <2>4. WorkerOK(f)
    BY DEF Inv, Posting
  <2> QED
    BY <2>3, <2>4 DEF WorkerOK
<1> QED
  BY <1>1, Invariance, PTL

\* doFlush, cleanFailCache: while the configuration of gzip stays the same over
\* restarts, Content-Encoding says what was done to the payload: a body from the
\* fail cache has been compressed once, when it was POSTed first.
THEOREM EncodingIsMatched == ~GzipMayChange => (Spec => []EncodingMatches)
<1> SUFFICES ASSUME ~GzipMayChange
             PROVE  Spec => []EncodingMatches
  OBVIOUS
<1>1. Inv => EncodingMatches
  <2> SUFFICES ASSUME Inv, NEW f \in Flushers, pc[f] = "post"
               PROVE  body[has[f]].data.zipped = IF wr[f].gz THEN 1 ELSE 0
    BY DEF EncodingMatches
  <2>1. f \in Procs /\ has[f] # 0
    BY DEF Inv, TypeOK, Procs
  <2>2. body[has[f]].data.zipped = Zipped
    BY <2>1 DEF Inv, Contents, Sound
  <2>3. wr[f].gz = gzip
    BY DEF Inv, Posting, WorkerOK
  <2> QED
    BY <2>2, <2>3 DEF Zipped
<1> QED
  BY <1>1, Invariance, PTL

\* putBody, sync.Pool: a body is in one place only.
LEMMA OnePlace ==
  ASSUME Inv, NEW b \in 1..bodies
  PROVE  \A p, q \in Places(b) : p = q
<1> DEFINE Held   == {<<"held", x>> : x \in {y \in Procs : has[y] = b}}
           Queued == UNION {{<<c, i>> : i \in {j \in DOMAIN mem[c] : mem[c][j] = b}} : c \in Categories}
           Pooled == {<<"pool", s>> : s \in {t \in BOOLEAN : b \in IF t THEN newBodies ELSE reuseBodies}}
<1>1. Places(b) = Held \cup Queued \cup Pooled
  BY Zenon DEF Places
<1>2. b # 0
  BY SMT DEF Inv, Shape
<1>3. ASSUME NEW p \in Held, NEW q \in Held
      PROVE  p = q
  <2>1. PICK x \in Procs : has[x] = b /\ p = <<"held", x>>
    BY <1>3
  <2>2. PICK y \in Procs : has[y] = b /\ q = <<"held", y>>
    BY <1>3
  <2>3. x = y
    BY <1>2, <2>1, <2>2 DEF Inv, Owned
  <2> QED
    BY <2>1, <2>2, <2>3
<1>4. ASSUME NEW p \in Queued
      PROVE  \E c \in Categories : \E i \in DOMAIN mem[c] : mem[c][i] = b /\ p = <<c, i>>
  BY <1>4
<1>5. ASSUME NEW p \in Queued, NEW q \in Queued
      PROVE  p = q
  <2>1. PICK c \in Categories : \E i \in DOMAIN mem[c] : mem[c][i] = b /\ p = <<c, i>>
    BY <1>4, <1>5
  <2>2. PICK i \in DOMAIN mem[c] : mem[c][i] = b /\ p = <<c, i>>
    BY <2>1
  <2>3. PICK d \in Categories : \E j \in DOMAIN mem[d] : mem[d][j] = b /\ q = <<d, j>>
    BY <1>4, <1>5
  <2>4. PICK j \in DOMAIN mem[d] : mem[d][j] = b /\ q = <<d, j>>
    BY <2>3
  <2>5. b \in Elems(mem[c]) /\ b \in Elems(mem[d])
    BY <2>2, <2>4 DEF Elems
  <2>6. c = d
    BY <2>5 DEF Inv, Owned
  <2>7. i = j
    BY <2>2, <2>4, <2>6 DEF Inv, Owned, Distinct
  <2> QED
    BY <2>2, <2>4, <2>6, <2>7
<1>6. ASSUME NEW p \in Pooled, NEW q \in Pooled
      PROVE  p = q
  <2>1. PICK s \in BOOLEAN : b \in (IF s THEN newBodies ELSE reuseBodies) /\ p = <<"pool", s>>
    BY <1>6
  <2>2. PICK t \in BOOLEAN : b \in (IF t THEN newBodies ELSE reuseBodies) /\ q = <<"pool", t>>
    BY <1>6
  <2>3. ~(b \in newBodies /\ b \in reuseBodies)
    BY DEF Inv, Owned
  <2>4. s = t
    BY <2>1, <2>2, <2>3, SMT
  <2> QED
    BY <2>1, <2>2, <2>4
<1>7. Pooled # {} => b \in Pool
  BY DEF Pool
<1>8. Queued # {} => \E c \in Categories : b \in Elems(mem[c])
  BY <1>4, SMT DEF Elems
<1>9. Held # {} => \E x \in Procs : has[x] = b
  OBVIOUS
<1>10. ~(Held # {} /\ Queued # {}) /\ ~(Held # {} /\ Pooled # {}) /\ ~(Queued # {} /\ Pooled # {})
  <2> HIDE DEF Held, Queued, Pooled
  <2> QED
    BY <1>7, <1>8, <1>9, SMT DEF Inv, Owned
<1> HIDE DEF Held, Queued, Pooled
<1> QED
  BY <1>1, <1>3, <1>5, <1>6, <1>10

\* putBody, sync.Pool: no two goroutines, channels or pools have the same body,
\* and what is pooled is empty and of the kind of its pool.
THEOREM BodiesAreOwned == Spec => []BodiesOwned
<1>1. ASSUME Inv, NEW b \in 1..bodies
      PROVE  /\ Cardinality(Places(b)) <= 1
             /\ b \in newBodies \cup reuseBodies => body[b].data = Empty
             /\ (b \in newBodies => body[b].self) /\ (b \in reuseBodies => ~body[b].self)
             /\ (\E c \in Categories : \E i \in DOMAIN mem[c] : mem[c][i] = b) => body[b].self
  <2>1. Cardinality(Places(b)) <= 1
    <3>1. CASE Places(b) = {}
      BY <3>1, FS_EmptySet, SMT
    <3>2. CASE Places(b) # {}
      <4>1. PICK p : p \in Places(b)
        BY <3>2
      <4>2. Places(b) = {p}
        BY <1>1, <4>1, OnePlace, SMT
      <4> QED
        BY <4>2, FS_Singleton, SMT
    <3> QED
      BY <3>1, <3>2
  <2>2. b \in 1..MaxBodies
    BY <1>1, Numbers, SMT DEF Inv
  <2>3. b \in newBodies \cup reuseBodies => body[b].data = Empty
    BY <1>1, <2>2 DEF Inv, Kinds, Pool
  <2>4. (b \in newBodies => body[b].self) /\ (b \in reuseBodies => ~body[b].self)
    BY <1>1 DEF Inv, Kinds
  <2>5. (\E c \in Categories : \E i \in DOMAIN mem[c] : mem[c][i] = b) => body[b].self
    BY <1>1 DEF Inv, Kinds, Elems
  <2> QED
    BY <2>1, <2>3, <2>4, <2>5
<1>2. Inv => BodiesOwned
  BY <1>1 DEF BodiesOwned
<1> QED
  BY <1>2, Invariance, PTL
=============================================================================

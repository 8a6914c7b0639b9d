--------------------------- MODULE LogTailProofs ---------------------------
(***************************************************************************)
(* Proofs about LogTail, for any number of files and of units written, any *)
(* buffer and line lengths, any multiline pattern, and any number of       *)
(* rotations, truncations, exits and crashes.                              *)
(***************************************************************************)
EXTENDS LogTail, SequenceTheorems, WellFoundedInduction, TLAPS

Units == 1..MaxUnits

Labels == {"off", "key", "seek", "loop", "read", "eof", "reopen", "rekey", "active",
           "close", "flush"}

----------------------------------------------------------------------------
(* The invariant *)

Disks   == [data : [Inodes -> Seq(Units)], path : Keys, dead : BOOLEAN]
Writers == [file : Keys, n : 0..MaxUnits]
Singles == [pc : Labels, file : Keys, offset : Nat, key : Keys, did : BOOLEAN,
            prev : Seq(Units), buff : Seq(Units)]
Records == [mem : [Keys -> Nat], file : [Keys -> Nat]]
Hists   == [used : SUBSET Inodes, crashed : BOOLEAN, astray : BOOLEAN, dropped : SUBSET Units]

\* The types, with the fields that TypeOK leaves out.
Typed ==
    /\ disk \in Disks /\ writer \in Writers /\ single \in Singles /\ rec \in Records
    /\ stop \in {"no", "exit", "done"} /\ faults \in Nat /\ fed \in Seq(Units) /\ hist \in Hists

\* Positions are among the units written, and previousBlock is a short line.
Bounded ==
    /\ \A i \in Inodes : Size(i) <= writer.n
    /\ single.offset <= MaxUnits /\ Len(single.prev) <= MaxLine
    /\ \A k \in Keys : rec.mem[k] <= MaxUnits /\ rec.file[k] <= MaxUnits

\* A Single has an open file, and holds nothing before it reads, nor, that is
\* not noted as dropped, once it is closed.
Phases ==
    /\ single.pc = "off" => single = Off
    /\ single.pc # "off" => single.file # None
    /\ single.pc \in {"key", "seek"} => single.offset = 0 /\ single.prev = <<>> /\ single.buff = <<>>
    /\ single.pc = "flush" => Range(single.prev) \cup Range(single.buff) \subseteq hist.dropped

TypeInv == Typed /\ Bounded /\ Phases

----------------------------------------------------------------------------
(* The order of the units *)

\* One sequence after the other.
Cat(s, t) == s \o t

Increasing(s) == \A j, k \in DOMAIN s : j < k => s[j] < s[k]

\* What was fed and what the Single holds, in the order of the log.
Held == Cat(Cat(fed, single.buff), single.prev)

HeldUnits == Range(fed) \cup Range(single.buff) \cup Range(single.prev)

\* Unit u comes after all of them.
Above(u) == \A x \in HeldUnits : x < u

\* A reader that goes on at position o of file i, or at the beginning when the
\* file is shorter, meets only units that come after those that it holds.
Ahead(i, o) == \A k \in 1..Size(i) : k > o \/ o > Size(i) => Above(disk.data[i][k])

\* A file is written from the first unit to the last, only while it is the one
\* at the path or after it was; a new one has no content and no position.
Files ==
    /\ \A i \in Inodes : Increasing(disk.data[i]) /\ \A u \in Range(disk.data[i]) : u <= writer.n
    /\ {disk.path, writer.file, single.file, single.key} \subseteq hist.used \cup {None}
    /\ \A i \in Inodes \ hist.used : Size(i) = 0 /\ rec.mem[i] = 0 /\ rec.file[i] = 0
    /\ Exists /\ writer.file # disk.path => Size(disk.path) = 0
    /\ Above(writer.n + 1)

\* The file at the path, when it is not the Single's, comes after the Single's.
Later ==
    Exists /\ disk.path # single.file /\ single.pc \notin {"off", "flush"} =>
        \A u \in Range(disk.data[disk.path]) :
            Above(u) /\ \A v \in Range(disk.data[single.file]) : v < u

\* Where reading goes on is ahead, in the Single and in what is recorded for
\* the next one, and the recorder's file is as good as its memory.
Forward ==
    /\ single.pc \in {"off", "flush"} /\ Exists => Ahead(disk.path, rec.mem[disk.path])
    /\ single.pc \in {"key", "seek"} => Ahead(single.file, rec.mem[single.file])
    /\ single.pc \notin {"off", "flush", "key", "seek"} => Ahead(single.file, single.offset)
Rotated ==
    /\ single.pc = "reopen" => single.did
    /\ single.pc \in {"eof", "reopen"} /\ single.did /\ disk.path = single.file =>
            Size(single.file) < single.offset
Saved ==
    Exists /\ ~(single.pc = "flush" /\ single.offset > 0) => rec.file[disk.path] = rec.mem[disk.path]

Ordered == Increasing(Held) /\ Later /\ Forward /\ Rotated /\ Saved

OrderInv == Files /\ (~hist.crashed /\ ~hist.astray => Ordered)

----------------------------------------------------------------------------
(* What is read *)

\* A set of numbers up to n has a largest one.
LEMMA MaxIn ==
    ASSUME NEW n \in Nat, NEW S, S \subseteq 0..n, S # {} PROVE Max(S) \in S
<1>. DEFINE T == {m \in Nat : \A x \in S : x <= m}
<1>1. T \subseteq Nat /\ T # {}
    <2>1. n \in T
        OBVIOUS
    <2>. QED  BY <2>1
<1>2. PICK m \in T : \A y \in T : ~(<<y, m>> \in OpToRel(<, Nat))
    BY <1>1, WFMin, NatLessThanWellFounded, Zenon
<1>3. \A y \in T : ~(y < m)
    BY <1>2, Zenon DEF OpToRel
<1>4. m \in S
    <2>. SUFFICES ASSUME m \notin S PROVE FALSE
        OBVIOUS
    <2>1. \A x \in S : x \in Nat /\ x < m
        OBVIOUS
    <2>2. PICK x \in S : x \in Nat /\ x < m
        BY <2>1, Zenon
    <2>3. m - 1 \in T /\ m - 1 < m
        BY <2>1, <2>2
    <2>. QED  BY <1>3, <2>3
<1>5. \A y \in S : m >= y
    OBVIOUS
<1>. QED  BY <1>4, <1>5, Zenon DEF Max

\* A sequence is what comes before a place and what comes after it.
LEMMA Cut ==
    ASSUME NEW s \in Seq(Units), NEW m \in 0..Len(s)
    PROVE  /\ SubSeq(s, 1, m) \in Seq(Units) /\ SubSeq(s, m + 1, Len(s)) \in Seq(Units)
           /\ Len(SubSeq(s, 1, m)) = m /\ SubSeq(s, 1, m) \o SubSeq(s, m + 1, Len(s)) = s
<1>1. Len(s) \in Nat /\ SubSeq(s, 1, m) \in Seq(Units) /\ SubSeq(s, m + 1, Len(s)) \in Seq(Units)
    OBVIOUS
<1>2. Len(SubSeq(s, 1, m)) = m
    OBVIOUS
<1>3. 1 \in 1..(Len(s) + 1) /\ m \in (1 - 1)..Len(s) /\ Len(s) \in m..Len(s)
    BY <1>1
<1>4. SubSeq(s, 1, m) \o SubSeq(s, m + 1, Len(s)) = SubSeq(s, 1, Len(s))
    BY <1>3, ConcatAdjacentSubSeq, Zenon
<1>5. SubSeq(s, 1, Len(s)) = s
    BY SubSeqFull, Zenon
<1>. QED  BY <1>1, <1>2, <1>4, <1>5, Zenon

\* A block is its whole lines and the rest.
LEMMA WholeRest ==
    ASSUME NEW b \in Seq(Units)
    PROVE  Whole(b) \in Seq(Units) /\ Rest(b) \in Seq(Units) /\ b = Whole(b) \o Rest(b)
<1>. DEFINE S == {0} \cup {k \in DOMAIN b : Ends(b[k])}
<1>1. S \subseteq 0..Len(b) /\ S # {} /\ Len(b) \in Nat
    OBVIOUS
<1>2. PICK m \in 0..Len(b) : m = Max(S)
    BY <1>1, MaxIn, Zenon
<1>3. Whole(b) = SubSeq(b, 1, m)
    BY <1>2 DEF Whole
<1>4. Len(Whole(b)) = m
    BY <1>3, Cut
<1>5. Rest(b) = SubSeq(b, m + 1, Len(b))
    BY <1>4 DEF Rest
<1>. QED  BY <1>3, <1>5, Cut, Zenon

\* splitLineBlock keeps all that it is given, in order.
LEMMA SplitKeeps ==
    ASSUME NEW prev \in Seq(Units), NEW b \in Seq(Units)
    PROVE  LET s == SplitLineBlock(prev, b)
           IN  /\ s.block \in Seq(Units) /\ s.prev \in Seq(Units) /\ Len(s.prev) <= MaxLine
               /\ s.block \o s.prev = prev \o b
<1>1. Whole(b) \in Seq(Units) /\ Rest(b) \in Seq(Units) /\ b = Whole(b) \o Rest(b)
    BY WholeRest, Zenon
<1>2. MaxLine \in Nat
    BY TailAssumption DEF TailAssumption
<1>3. PICK block, rest : /\ block = IF Whole(b) = <<>> THEN <<>> ELSE prev \o Whole(b)
                         /\ rest = IF Whole(b) = <<>> THEN prev \o b ELSE Rest(b)
    BY Zenon
<1>4. block \in Seq(Units) /\ rest \in Seq(Units) /\ block \o rest = prev \o b
    <2>1. CASE Whole(b) = <<>>
        <3>1. block = <<>> /\ rest = prev \o b /\ rest \in Seq(Units)
            BY <1>3, <2>1
        <3>. QED  BY <3>1, ConcatEmptySeq
    <2>2. CASE Whole(b) # <<>>
        <3>1. block = prev \o Whole(b) /\ rest = Rest(b)
            BY <1>3, <2>2
        <3>2. block \in Seq(Units)
            BY <1>1, <3>1
        <3>3. (prev \o Whole(b)) \o Rest(b) = prev \o (Whole(b) \o Rest(b))
            BY <1>1, ConcatAssociative
        <3>. QED  BY <1>1, <3>1, <3>2, <3>3, Zenon
    <2>. QED  BY <2>1, <2>2
<1>5. SplitLineBlock(prev, b) = IF Len(rest) > MaxLine
                                THEN [block |-> block \o rest, prev |-> <<>>]
                                ELSE [block |-> block, prev |-> rest]
    BY <1>3 DEF SplitLineBlock
<1>6. CASE Len(rest) > MaxLine
    <2>1. block \o rest \in Seq(Units)
        BY <1>4
    <2>2. (block \o rest) \o <<>> = block \o rest
        BY <2>1, ConcatEmptySeq
    <2>. QED  BY <1>2, <1>4, <1>5, <1>6, <2>1, <2>2
<1>7. CASE ~(Len(rest) > MaxLine)
    BY <1>2, <1>4, <1>5, <1>7
<1>. QED  BY <1>6, <1>7, Zenon

\* ProcessLine feeds and keeps all that it is given, in order.
LEMMA ProcessKeeps ==
    ASSUME NEW buff \in Seq(Units), NEW block \in Seq(Units), NEW late
    PROVE  LET d == Process(buff, block, late)
           IN  d.out \in Seq(Units) /\ d.buff \in Seq(Units) /\ d.out \o d.buff = buff \o block
<1>. DEFINE heads == {k \in DOMAIN block : LineAt(block, k) /\ block[k] \in Heads}
            h     == IF heads = {} THEN 0 ELSE Max(heads)
            ready == IF h = 0 THEN <<>> ELSE buff \o SubSeq(block, 1, h - 1)
            kept  == IF h = 0 THEN buff \o block ELSE SubSeq(block, h, Len(block))
            added == \E k \in (h + 1)..Len(block) : LineAt(block, k)
            flush == \/ h = 0 /\ buff = <<>>
                     \/ added /\ (late \/ Len(kept) > MaxMultiline)
<1>1. Process(buff, block, late) =
        [out  |-> IF flush THEN ready \o kept ELSE ready,
         buff |-> IF flush THEN <<>> ELSE kept]
    BY DEF Process
<1>2. h \in 0..Len(block)
    <2>1. heads \subseteq 0..Len(block) /\ Len(block) \in Nat
        OBVIOUS
    <2>2. heads # {} => Max(heads) \in heads
        BY <2>1, MaxIn, Zenon
    <2>. QED  BY <2>1, <2>2
<1>3. PICK n \in 0..Len(block) : n = h
    BY <1>2, Zenon
<1>4. PICK r, k : r = ready /\ k = kept
    BY Zenon
<1>5. /\ r = IF n = 0 THEN <<>> ELSE buff \o SubSeq(block, 1, n - 1)
      /\ k = IF n = 0 THEN buff \o block ELSE SubSeq(block, n, Len(block))
    BY <1>3, <1>4
<1>6. PICK o, w : /\ Process(buff, block, late) = [out |-> o, buff |-> w]
                  /\ (o = r \o k /\ w = <<>>) \/ (o = r /\ w = k)
    BY <1>1, <1>4, Zenon
<1>. HIDE DEF heads, h, ready, kept, added, flush
<1>7. r \in Seq(Units) /\ k \in Seq(Units) /\ r \o k = buff \o block
    <2>1. CASE n = 0
        <3>1. r = <<>> /\ k = buff \o block /\ k \in Seq(Units) /\ r \in Seq(Units)
            BY <1>5, <2>1
        <3>. QED  BY <3>1, ConcatEmptySeq, Zenon
    <2>2. CASE n # 0
        <3>1. r = buff \o SubSeq(block, 1, n - 1) /\ k = SubSeq(block, n, Len(block))
            BY <1>5, <2>2
        <3>2. PICK m \in 0..Len(block) : m = n - 1 /\ m + 1 = n
            BY <2>2
        <3>3. PICK s : s = SubSeq(block, 1, m)
            BY Zenon
        <3>4. s \in Seq(Units) /\ k \in Seq(Units) /\ s \o k = block /\ r = buff \o s
            BY <3>1, <3>2, <3>3, Cut
        <3>5. (buff \o s) \o k = buff \o (s \o k)
            <4>1. s \in Seq(Units) /\ k \in Seq(Units)
                BY <3>4
            <4>. QED  BY <4>1, ConcatAssociative
        <3>6. r \in Seq(Units)
            BY <3>4
        <3>. QED  BY <3>4, <3>5, <3>6
    <2>. QED  BY <2>1, <2>2
<1>8. (r \o k) \o <<>> = r \o k /\ r \o k \in Seq(Units) /\ <<>> \in Seq(Units)
    <2>1. r \o k \in Seq(Units) /\ <<>> \in Seq(Units)
        BY <1>7
    <2>. QED  BY <2>1, ConcatEmptySeq, Zenon
<1>9. o \in Seq(Units) /\ w \in Seq(Units) /\ o \o w = buff \o block
    BY <1>6, <1>7, <1>8, Zenon
<1>10. Process(buff, block, late).out = o /\ Process(buff, block, late).buff = w
    BY <1>6
<1>. QED  BY <1>9, <1>10, Zenon

\* Concatenation is associative.
LEMMA CatAssoc ==
    ASSUME NEW s \in Seq(Units), NEW t \in Seq(Units), NEW u \in Seq(Units)
    PROVE  Cat(s, t) \in Seq(Units) /\ Cat(Cat(s, t), u) = Cat(s, Cat(t, u))
BY ConcatAssociative DEF Cat

\* splitLineBlock and ProcessLine keep, together, all that they are given.
KeepAll(prev, buff, new, late) ==
    LET s == SplitLineBlock(prev, new)
        d == Process(buff, s.block, late)
    IN  /\ d.out \in Seq(Units) /\ d.buff \in Seq(Units)
        /\ s.prev \in Seq(Units) /\ Len(s.prev) <= MaxLine
        /\ Cat(Cat(d.out, d.buff), s.prev) = Cat(Cat(buff, prev), new)

\* ReadLineBlock and ProcessLine lose nothing of what they are given.
LEMMA ReadKeeps ==
    ASSUME NEW prev \in Seq(Units), NEW buff \in Seq(Units), NEW new \in Seq(Units), NEW late
    PROVE  KeepAll(prev, buff, new, late)
<1>1. PICK block, p \in Seq(Units) :
        /\ block = SplitLineBlock(prev, new).block /\ p = SplitLineBlock(prev, new).prev
        /\ Len(p) <= MaxLine /\ Cat(block, p) = Cat(prev, new)
    BY SplitKeeps, Zenon DEF Cat
<1>2. PICK o, b : o = Process(buff, block, late).out /\ b = Process(buff, block, late).buff
    OBVIOUS
<1>3. o \in Seq(Units) /\ b \in Seq(Units) /\ o \o b = buff \o block
    BY <1>2, ProcessKeeps, Zenon
<1>4. Cat(o, b) = Cat(buff, block)
    BY <1>3, Zenon DEF Cat
<1>5. Cat(Cat(o, b), p) = Cat(buff, Cat(block, p)) /\ Cat(Cat(buff, prev), new) = Cat(buff, Cat(prev, new))
    BY <1>4, CatAssoc
<1>6. Cat(Cat(o, b), p) = Cat(Cat(buff, prev), new)
    BY <1>1, <1>5, Zenon
<1>. QED  BY <1>1, <1>2, <1>3, <1>6, Zenon DEF KeepAll

\* The smaller of two numbers.
LEMMA MinOfTwo == ASSUME NEW a \in Nat, NEW b \in Nat PROVE Min({a, b}) = IF a <= b THEN a ELSE b
<1>1. \E x \in {a, b} : \A y \in {a, b} : x <= y
    <2>1. CASE a <= b
        BY <2>1
    <2>2. CASE b <= a
        BY <2>2
    <2>. QED  BY <2>1, <2>2
<1>2. PICK m : m = Min({a, b})
    OBVIOUS
<1>3. m \in {a, b} /\ \A y \in {a, b} : m <= y
    BY <1>1, <1>2, Zenon DEF Min
<1>4. m = a \/ m = b
    BY <1>3
<1>5. m <= a /\ m <= b
    BY <1>3
<1>. QED  BY <1>2, <1>4, <1>5

----------------------------------------------------------------------------
(* Types *)

\* readOnce has read new, up to position end; o of it and of what was held is
\* fed, b is in the multiline buffer and p in previousBlock.
ReadUpTo(l, end, new, o, b, p) ==
    /\ single.offset < end /\ end <= Size(single.file)
    /\ new = SubSeq(disk.data[single.file], single.offset + 1, end)
    /\ fed' = fed \o o /\ Len(p) <= MaxLine
    /\ single' = [single EXCEPT !.pc = l, !.offset = end, !.prev = p, !.buff = b]
    /\ Cat(Cat(o, b), p) = Cat(Cat(single.buff, single.prev), new)

\* What readOnce reads goes to the feed, to the multiline buffer and to
\* previousBlock, in this order.
LEMMA ReadSomeIs ==
    ASSUME TypeInv, NEW l, ReadSome(l), single.pc # "off"
    PROVE  \E end \in Nat : \E new, o, b, p \in Seq(Units) : ReadUpTo(l, end, new, o, b, p)
<1>1. PICK f \in Inodes : f = single.file
    BY DEF TypeInv, Typed, Singles, Phases, Keys
<1>2. PICK c \in Seq(Units) : c = disk.data[f]
    BY DEF TypeInv, Typed, Disks
<1>3. PICK off \in Nat, prev \in Seq(Units), buff \in Seq(Units) :
        off = single.offset /\ prev = single.prev /\ buff = single.buff
    BY DEF TypeInv, Typed, Singles
<1>4. off < Len(c)
    BY <1>1, <1>2, <1>3, Zenon DEF ReadSome, Size
<1>5. PICK end \in Nat : end = Min({off + BufSize, Len(c)}) /\ off < end /\ end <= Len(c)
    <2>1. off + BufSize \in Nat /\ Len(c) \in Nat /\ off < off + BufSize
        BY TailAssumption DEF TailAssumption
    <2>2. Min({off + BufSize, Len(c)}) = IF off + BufSize <= Len(c) THEN off + BufSize ELSE Len(c)
        BY <2>1, MinOfTwo, Zenon
    <2>. QED  BY <1>4, <2>1, <2>2
<1>6. PICK new \in Seq(Units) : new = SubSeq(c, off + 1, end)
    <2>1. off < end /\ end <= Len(c)
        BY <1>5
    <2>2. SubSeq(c, off + 1, end) \in Seq(Units)
        BY <2>1
    <2>. QED  BY <2>2, Zenon
<1>7. PICK late \in BOOLEAN :
        LET split == SplitLineBlock(prev, new)
            done  == Process(buff, split.block, late)
        IN  /\ fed' = fed \o done.out
            /\ single' = [single EXCEPT !.pc = l, !.offset = end, !.prev = split.prev, !.buff = done.buff]
    BY <1>1, <1>2, <1>3, <1>5, <1>6, Zenon DEF ReadSome, Size
<1>8. PICK o, b, p \in Seq(Units) :
        /\ p = SplitLineBlock(prev, new).prev /\ Len(p) <= MaxLine
        /\ o = Process(buff, SplitLineBlock(prev, new).block, late).out
        /\ b = Process(buff, SplitLineBlock(prev, new).block, late).buff
        /\ Cat(Cat(o, b), p) = Cat(Cat(buff, prev), new)
    <2>1. PICK o, b, p :
            /\ p = SplitLineBlock(prev, new).prev
            /\ o = Process(buff, SplitLineBlock(prev, new).block, late).out
            /\ b = Process(buff, SplitLineBlock(prev, new).block, late).buff
        BY Zenon
    <2>2. /\ o \in Seq(Units) /\ b \in Seq(Units) /\ p \in Seq(Units)
          /\ Len(p) <= MaxLine /\ Cat(Cat(o, b), p) = Cat(Cat(buff, prev), new)
        <3>1. KeepAll(prev, buff, new, late)
            BY ReadKeeps
        <3>. QED  BY <2>1, <3>1, Zenon DEF KeepAll
    <2>. QED  BY <2>1, <2>2, Zenon
<1>9. /\ fed' = fed \o o
      /\ single' = [single EXCEPT !.pc = l, !.offset = end, !.prev = p, !.buff = b]
    BY <1>7, <1>8, Zenon
<1>. WITNESS end \in Nat
<1>. WITNESS new \in Seq(Units), o \in Seq(Units), b \in Seq(Units), p \in Seq(Units)
<1>. QED  BY <1>1, <1>2, <1>3, <1>5, <1>6, <1>8, <1>9, Zenon DEF Size, ReadUpTo

\* The rest of the system keeps the types.
LEMMA TypedEnvironment == ASSUME TypeInv, Environment \/ CloseAllFiles PROVE Typed'
<1>. USE DEF TypeInv, Typed
<1>1. CASE Write
    <2>1. writer.file \in Inodes /\ writer.n + 1 \in Units /\ writer.n + 1 \in 0..MaxUnits
        BY <1>1, TailAssumption DEF Write, TailAssumption, Writers, Keys, Units
    <2>2. PICK d, a \in BOOLEAN :
            /\ disk' = [disk EXCEPT !.data[writer.file] = Append(@, writer.n + 1), !.dead = d]
            /\ hist' = [hist EXCEPT !.astray = a]
        BY <1>1, Zenon DEF Write
    <2>3. disk' \in Disks
        <3>1. PICK D : D = [disk.data EXCEPT ![writer.file] = Append(@, writer.n + 1)]
            BY Zenon
        <3>2. D \in [Inodes -> Seq(Units)]
            BY <2>1, <3>1 DEF Disks
        <3>3. disk' = [disk EXCEPT !.data = D, !.dead = d]
            BY <2>2, <3>1, Zenon
        <3>. QED  BY <3>2, <3>3, Zenon DEF Disks
    <2>4. hist' \in Hists
        BY <2>2 DEF Hists
    <2>5. writer' \in Writers
        BY <1>1, <2>1 DEF Write, Writers
    <2>. QED  BY <1>1, <2>3, <2>4, <2>5, Zenon DEF Write, tailing
<1>2. CASE Rename
    <2>1. disk' \in Disks /\ faults' \in Nat
        BY <1>2 DEF Rename, Fault, Disks, Keys
    <2>. QED  BY <1>2, <2>1, Zenon DEF Rename, tailing
<1>3. CASE \E i \in Inodes : Create(i)
    <2>1. PICK i \in Inodes, d \in BOOLEAN :
            /\ disk' = [disk EXCEPT !.path = i, !.dead = d]
            /\ hist' = [hist EXCEPT !.used = @ \cup {i}]
            /\ UNCHANGED <<writer, tailing, stop, faults>>
        BY <1>3, Zenon DEF Create
    <2>2. disk' \in Disks
        BY <2>1, Zenon DEF Disks, Keys
    <2>3. hist' \in Hists
        BY <2>1 DEF Hists
    <2>. QED  BY <2>1, <2>2, <2>3, Zenon DEF tailing
<1>4. CASE OpenLog
    <2>1. writer' \in Writers
        BY <1>4 DEF OpenLog, Writers, Disks
    <2>. QED  BY <1>4, <2>1, Zenon DEF OpenLog, tailing
<1>5. CASE Truncate
    <2>1. PICK D : D = [disk.data EXCEPT ![disk.path] = <<>>]
        BY Zenon
    <2>2. D \in [Inodes -> Seq(Units)]
        BY <2>1, EmptySeq, Zenon DEF Disks
    <2>3. PICK d \in BOOLEAN : disk' = [disk EXCEPT !.data = D, !.dead = d]
        BY <1>5, <2>1, Zenon DEF Truncate
    <2>4. disk' \in Disks
        BY <2>2, <2>3, Zenon DEF Disks
    <2>5. faults' \in Nat
        <3>1. faults' = faults + 1
            BY <1>5, Zenon DEF Truncate, Fault
        <3>. QED  BY <3>1
    <2>. QED  BY <1>5, <2>4, <2>5, Zenon DEF Truncate, tailing
<1>6. CASE Expire
    <2>1. PICK d \in BOOLEAN : disk' = [disk EXCEPT !.dead = d]
        BY <1>6, Zenon DEF Expire
    <2>2. disk' \in Disks
        BY <2>1 DEF Disks
    <2>3. faults' \in Nat
        <3>1. faults' = faults + 1
            BY <1>6, Zenon DEF Expire, Fault
        <3>. QED  BY <3>1
    <2>. QED  BY <1>6, <2>2, <2>3, Zenon DEF Expire, tailing
<1>7. CASE Exit
    <2>1. faults' \in Nat
        BY <1>7 DEF Exit, Fault
    <2>. QED  BY <1>7, <2>1, Zenon DEF Exit, tailing
<1>8. CASE Restart
    <2>1. PICK c \in BOOLEAN :
            hist' = [hist EXCEPT !.crashed = c, !.dropped = @ \cup Range(single.prev) \cup Range(single.buff)]
        BY <1>8, Zenon DEF Restart
    <2>2. Range(single.prev) \subseteq Units /\ Range(single.buff) \subseteq Units
        BY DEF Range, Singles
    <2>3. hist' \in Hists
        BY <2>1, <2>2, Zenon DEF Hists
    <2>4. NoPositions \in [Keys -> Nat] /\ rec.file \in [Keys -> Nat] /\ rec.mem \in [Keys -> Nat]
        BY DEF NoPositions, Records
    <2>5. PICK m \in [Keys -> Nat] : rec' = [rec EXCEPT !.mem = m]
        BY <1>8, <2>4, Zenon DEF Restart
    <2>6. rec' \in Records /\ faults' \in Nat
        BY <1>8, <2>5 DEF Restart, Fault, Records
    <2>7. Off \in Singles
        BY DEF Off, Singles, Labels, Keys
    <2>. QED  BY <1>8, <2>3, <2>6, <2>7, Zenon DEF Restart
<1>9. CASE CloseAllFiles
    BY <1>9, Zenon DEF CloseAllFiles, tailing
<1>. QED  BY <1>1, <1>2, <1>3, <1>4, <1>5, <1>6, <1>7, <1>8, <1>9, Zenon DEF Environment

\* The Tailer and its Single keep the types.
LEMMA TypedSingle == ASSUME TypeInv, Single PROVE Typed'
<1>. USE DEF TypeInv, Typed, Outside
<1>0. single.pc # "off" => single.file \in Inodes
    BY DEF Phases, Singles, Keys
<1>1. CASE Open
    <2>1. PICK s, f : /\ s = Off /\ f = disk.path /\ single' = [s EXCEPT !.pc = "key", !.file = f]
        BY <1>1, Zenon DEF Open
    <2>2. s \in Singles
        BY <2>1 DEF Off, Singles, Labels, Keys
    <2>3. single' \in Singles
        BY <2>1, <2>2, Zenon DEF Singles, Labels, Disks
    <2>. QED  BY <1>1, <2>3, Zenon DEF Open
<1>2. CASE Key
    <2>1. single' \in Singles
        BY <1>2, Zenon DEF Key, Singles, Labels, Disks
    <2>. QED  BY <1>2, <2>1, Zenon DEF Key
<1>3. CASE Seek
    <2>1. single.file \in Inodes /\ single.key \in Keys
        BY <1>0, <1>3 DEF Seek, Singles
    <2>2. Size(single.file) \in Nat /\ rec.mem[single.key] \in Nat /\ Range(disk.data[single.file]) \subseteq Units
        BY <2>1, SMTT(40) DEF Size, Disks, Records, Range
    <2>3. PICK o \in Nat, a \in BOOLEAN, d \in SUBSET Units :
            /\ single' = [single EXCEPT !.pc = "loop", !.offset = o]
            /\ hist' = [hist EXCEPT !.astray = a, !.dropped = @ \cup d]
        BY <1>3, <2>2, Zenon DEF Seek
    <2>4. single' \in Singles
        BY <2>3, Zenon DEF Singles, Labels
    <2>5. hist' \in Hists
        BY <2>3, Zenon DEF Hists
    <2>. QED  BY <1>3, <2>4, <2>5, Zenon DEF Seek
<1>4. ASSUME NEW l \in Labels, ReadSome(l), single.pc # "off" PROVE Typed'
    <2>1. PICK end \in Nat : \E new, o, b, p \in Seq(Units) : ReadUpTo(l, end, new, o, b, p)
        BY <1>4, ReadSomeIs, Zenon
    <2>2. PICK new, o, b, p \in Seq(Units) : ReadUpTo(l, end, new, o, b, p)
        BY <2>1
    <2>3. single' \in Singles
        <3>1. single' = [single EXCEPT !.pc = l, !.offset = end, !.prev = p, !.buff = b]
            BY <2>2, Zenon DEF ReadUpTo
        <3>. QED  BY <3>1, Zenon DEF Singles
    <2>4. fed' \in Seq(Units)
        <3>1. fed' = fed \o o
            BY <2>2, Zenon DEF ReadUpTo
        <3>. QED  BY <3>1
    <2>. QED  BY <1>4, <2>3, <2>4, Zenon DEF ReadSome
<1>5. ASSUME NEW l \in Labels, FlushCache(l) PROVE Typed'
    <2>1. PICK e \in Seq(Units) : single' = [single EXCEPT !.pc = l, !.buff = e]
        BY <1>5, EmptySeq, Zenon DEF FlushCache
    <2>2. single' \in Singles
        BY <2>1, Zenon DEF Singles
    <2>3. fed' \in Seq(Units)
        BY <1>5 DEF Singles, FlushCache
    <2>. QED  BY <1>5, <2>2, <2>3, Zenon DEF FlushCache
<1>6. "loop" \in Labels /\ "close" \in Labels /\ "eof" \in Labels
    BY DEF Labels
<1>7. CASE Read
    BY <1>4, <1>6, <1>7 DEF Read, Reading
<1>8. CASE ReadNone \/ Done
    BY <1>5, <1>6, <1>8, Zenon DEF ReadNone, Done
<1>9. CASE Tick
    <2>1. PICK d \in BOOLEAN : d = DidRotate
        BY Zenon DEF DidRotate
    <2>2. PICK l \in Labels : l = IF DidRotate \/ ~Exists THEN "eof" ELSE "active"
        BY DEF Labels
    <2>3. single' = [single EXCEPT !.pc = l, !.did = d]
        BY <1>9, <2>1, <2>2, Zenon DEF Tick
    <2>4. single' \in Singles
        BY <2>3, Zenon DEF Singles
    <2>. QED  BY <1>9, <2>4, Zenon DEF Tick
<1>10. CASE ReadToEOF
    BY <1>4, <1>6, <1>10 DEF ReadToEOF
<1>11. ASSUME NEW l \in Labels, Goto(l) PROVE single' \in Singles
    BY <1>11 DEF Goto, Singles
<1>12. CASE ReadToEOFEnd
    <2>1. single' \in Singles
        BY <1>11, <1>12 DEF ReadToEOFEnd, Labels
    <2>. QED  BY <1>12, <2>1, Zenon DEF ReadToEOFEnd
<1>13. CASE Reopen
    <2>1. single' \in Singles
        BY <1>13, Zenon DEF Reopen, Singles, Labels, Disks
    <2>. QED  BY <1>13, <2>1, Zenon DEF Reopen
<1>14. CASE IsActive
    <2>1. single' \in Singles
        BY <1>11, <1>14 DEF IsActive, Labels
    <2>. QED  BY <1>14, <2>1, Zenon DEF IsActive
<1>15. CASE Close
    <2>1. single' \in Singles
        BY <1>11, <1>15 DEF Close, Labels
    <2>2. Range(single.prev) \subseteq Units /\ Range(single.buff) \subseteq Units
        BY DEF Range, Singles
    <2>3. PICK a \in BOOLEAN :
            hist' = [hist EXCEPT !.dropped = @ \cup Range(single.prev) \cup Range(single.buff), !.astray = a]
        BY <1>15, Zenon DEF Close
    <2>4. hist' \in Hists
        BY <2>2, <2>3, Zenon DEF Hists
    <2>5. PICK m : m = [rec.mem EXCEPT ![single.key] = single.offset]
        BY Zenon
    <2>6. m \in [Keys -> Nat] /\ NoPositions \in [Keys -> Nat]
        BY <2>5 DEF Singles, Records, NoPositions
    <2>7. rec' \in Records
        BY <1>15, <2>5, <2>6 DEF Close, Records
    <2>. QED  BY <1>15, <2>1, <2>4, <2>7, Zenon DEF Close
<1>16. CASE Closed
    <2>1. Off \in Singles
        BY DEF Off, Singles, Labels, Keys
    <2>2. rec' \in Records
        BY <1>16, Zenon DEF Closed, Records
    <2>. QED  BY <1>16, <2>1, <2>2, Zenon DEF Closed
<1>. QED
    BY <1>1, <1>2, <1>3, <1>7, <1>8, <1>9, <1>10, <1>12, <1>13, <1>14, <1>15, <1>16, Zenon DEF Single

\* Every action keeps the types.
LEMMA TypedStep == ASSUME TypeInv, Next PROVE Typed'
BY TypedEnvironment, TypedSingle, Zenon DEF Next

\* The length of a file that is written to.
LEMMA AppendLen ==
    ASSUME NEW c \in Seq(Units), NEW n PROVE Len(Append(c, n)) = Len(c) + 1 /\ Len(c) \in Nat
OBVIOUS

\* What Write does to the contents.
LEMMA WriteIs ==
    ASSUME TypeInv, Write
    PROVE  /\ writer.file \in Inodes /\ writer'.file = writer.file /\ writer.n \in Nat
           /\ writer'.n = writer.n + 1 /\ disk'.path = disk.path /\ Size(writer.file) \in Nat
           /\ disk'.data[writer.file] = Append(disk.data[writer.file], writer.n + 1)
           /\ Size(writer.file)' = Size(writer.file) + 1
           /\ \A i \in Inodes \ {writer.file} : disk'.data[i] = disk.data[i] /\ Size(i)' = Size(i)
<1>. USE DEF TypeInv, Typed
<1>1. writer.file \in Inodes /\ writer'.n = writer.n + 1 /\ writer.n \in Nat /\ writer'.file = writer.file
    BY TailAssumption DEF Write, Writers, Keys, TailAssumption
<1>2. disk'.data = [disk.data EXCEPT ![writer.file] = Append(@, writer.n + 1)] /\ disk'.path = disk.path
    BY DEF Write, Disks
<1>3. PICK c \in Seq(Units) : c = disk.data[writer.file]
    BY <1>1 DEF Disks
<1>4. disk'.data[writer.file] = Append(c, writer.n + 1)
    BY <1>1, <1>2, <1>3 DEF Disks
<1>5. Len(Append(c, writer.n + 1)) = Len(c) + 1 /\ Len(c) \in Nat
    BY AppendLen
<1>6. \A i \in Inodes \ {writer.file} : disk'.data[i] = disk.data[i] /\ Size(i)' = Size(i)
    BY <1>1, <1>2 DEF Disks, Size
<1>7. Size(writer.file)' = Len(disk'.data[writer'.file])
    BY Zenon DEF Size
<1>. QED  BY <1>1, <1>2, <1>3, <1>4, <1>5, <1>6, <1>7, Zenon DEF Size

\* What Truncate does to the contents.
LEMMA TruncateIs ==
    ASSUME TypeInv, Truncate
    PROVE  /\ disk.path \in Inodes /\ disk'.path = disk.path /\ disk'.data[disk.path] = <<>>
           /\ Size(disk.path)' = 0
           /\ \A i \in Inodes \ {disk.path} : disk'.data[i] = disk.data[i] /\ Size(i)' = Size(i)
<1>. USE DEF TypeInv, Typed
<1>1. disk.path \in Inodes
    BY DEF Truncate, Exists, Disks, Keys
<1>2. disk'.data = [disk.data EXCEPT ![disk.path] = <<>>] /\ disk'.path = disk.path
    BY DEF Truncate, Disks
<1>3. disk'.data[disk.path] = <<>>
    BY <1>1, <1>2 DEF Disks
<1>4. \A i \in Inodes \ {disk.path} : disk'.data[i] = disk.data[i] /\ Size(i)' = Size(i)
    BY <1>1, <1>2 DEF Disks, Size
<1>5. Size(disk.path)' = 0
    <2>1. Size(disk.path)' = Len(disk'.data[disk'.path])
        BY Zenon DEF Size
    <2>. QED  BY <1>2, <1>3, <2>1, EmptySeq
<1>. QED  BY <1>1, <1>2, <1>3, <1>4, <1>5

\* The Single and the process's exit leave the files alone.
LEMMA OutsideStep ==
    ASSUME Single \/ CloseAllFiles \/ Exit \/ Restart PROVE disk' = disk /\ writer' = writer
BY Zenon DEF Single, Outside, CloseAllFiles, Exit, Restart, Open, Key, Seek, Read, ReadNone, Done,
       Tick, ReadToEOF, ReadToEOFEnd, Reopen, IsActive, Close, Closed, ReadSome, FlushCache

\* The other programs leave the Tailer alone.
LEMMA TailerStep ==
    ASSUME Environment, ~Restart PROVE single' = single /\ rec' = rec /\ fed' = fed
BY Zenon DEF Environment, Write, Rename, Create, OpenLog, Truncate, Expire, Exit, tailing

\* No file is longer than what was written.
LEMMA SizesStep ==
    ASSUME TypeInv, Next
    PROVE  writer'.n >= writer.n /\ \A i \in Inodes : Size(i)' <= writer'.n
<1>1. writer.n \in Nat /\ \A i \in Inodes : Size(i) \in Nat /\ Size(i) <= writer.n
    BY TailAssumption DEF Writers, Disks, Size, TailAssumption, TypeInv, Typed, Bounded
<1>2. CASE Write
    BY <1>1, <1>2, WriteIs
<1>3. CASE Truncate
    <2>1. writer' = writer
        BY <1>3 DEF Truncate
    <2>. QED  BY <1>1, <1>3, <2>1, TruncateIs
<1>4. CASE disk'.data = disk.data /\ writer'.n = writer.n
    BY <1>1, <1>4 DEF Size
<1>5. CASE Rename \/ Expire \/ OpenLog \/ \E i \in Inodes : Create(i)
    <2>1. disk'.data = disk.data /\ writer'.n = writer.n
        BY <1>5, Zenon DEF Rename, Expire, OpenLog, Create, Disks, Writers, TypeInv, Typed
    <2>. QED  BY <1>4, <2>1, SMTT(40)
<1>6. CASE Single \/ CloseAllFiles \/ Exit \/ Restart
    BY <1>4, <1>6, OutsideStep
<1>. QED  BY <1>2, <1>3, <1>5, <1>6, Zenon DEF Next, Environment

\* Positions stay among the units written.
LEMMA BoundedStep == ASSUME TypeInv, Next PROVE Bounded'
<1>1. \A i \in Inodes : Size(i)' <= writer'.n
    BY SizesStep
<1>2. \A i \in Inodes : Size(i) \in Nat /\ Size(i) <= MaxUnits
    BY TailAssumption DEF Writers, Disks, Size, TailAssumption, TypeInv, Typed, Bounded
<1>3. MaxUnits \in Nat /\ MaxLine \in Nat
    BY TailAssumption DEF TailAssumption
<1>4. single.pc # "off" => single.file \in Inodes
    BY DEF TypeInv, Typed, Phases, Singles, Keys
<1>. DEFINE Pos == single.offset <= MaxUnits /\ Len(single.prev) <= MaxLine
            Rec == \A k \in Keys : rec.mem[k] <= MaxUnits /\ rec.file[k] <= MaxUnits
<1>. USE DEF TypeInv, Typed, Bounded
<1>5. Pos /\ Rec
    OBVIOUS
<1>6. Pos'
    <2>1. CASE Environment /\ ~Restart
        BY <1>5, <2>1, TailerStep
    <2>2. CASE CloseAllFiles
        BY <1>5, <2>2 DEF CloseAllFiles, tailing
    <2>3. CASE single' = Off
        BY <1>3, <2>3, EmptySeq DEF Off
    <2>4. CASE Restart \/ Closed
        BY <2>3, <2>4 DEF Restart, Closed
    <2>5. CASE Open
        BY <1>3, <2>5, EmptySeq DEF Open, Off
    <2>6. CASE Seek
        <3>1. single.file \in Inodes /\ single.key \in Keys
            BY <1>4, <2>6, SMTT(40) DEF Seek, Singles
        <3>2. PICK o : single' = [single EXCEPT !.pc = "loop", !.offset = o] /\ o \in {rec.mem[single.key], 0, Size(single.file)}
            BY <2>6, Zenon DEF Seek
        <3>3. o <= MaxUnits
            BY <1>2, <1>3, <1>5, <3>1, <3>2
        <3>. QED  BY <1>5, <3>2, <3>3 DEF Singles
    <2>7. ASSUME NEW l, ReadSome(l), single.pc # "off" PROVE Pos'
        <3>1. PICK end \in Nat : \E new, o, b, p \in Seq(Units) : ReadUpTo(l, end, new, o, b, p)
            BY <2>7, ReadSomeIs, Zenon
        <3>2. PICK new, o, b, p \in Seq(Units) : ReadUpTo(l, end, new, o, b, p)
            BY <3>1
        <3>3. /\ single' = [single EXCEPT !.pc = l, !.offset = end, !.prev = p, !.buff = b]
              /\ end <= Size(single.file) /\ Len(p) <= MaxLine
            BY <3>2, Zenon DEF ReadUpTo
        <3>4. single'.offset = end /\ single'.prev = p
            BY <3>3 DEF Singles
        <3>. QED  BY <1>2, <1>3, <1>4, <2>7, <3>3, <3>4
    <2>8. CASE Read \/ ReadToEOF
        BY <2>7, <2>8 DEF Read, Reading, ReadToEOF
    <2>9. CASE Key \/ ReadNone \/ Done \/ Tick \/ ReadToEOFEnd \/ IsActive \/ Close
        <3>1. single'.offset = single.offset /\ single'.prev = single.prev
            BY <2>9, Zenon DEF Key, ReadNone, Done, FlushCache, Tick, ReadToEOFEnd, IsActive, Close, Goto, Singles
        <3>. QED  BY <1>5, <3>1
    <2>10. CASE Reopen
        BY <1>3, <1>5, <2>10 DEF Reopen, Singles
    <2>. QED  BY <2>1, <2>2, <2>4, <2>5, <2>6, <2>8, <2>9, <2>10, Zenon DEF Next, Environment, Single
<1>7. Rec'
    <2>1. CASE rec' = rec
        BY <1>5, <2>1
    <2>2. CASE Restart
        BY <1>3, <1>5, <2>2 DEF Restart, NoPositions, Records
    <2>3. CASE Close
        <3>1. single.key \in Keys /\ NoPositions \in [Keys -> Nat] /\ \A k \in Keys : NoPositions[k] = 0
            BY DEF Singles, NoPositions
        <3>2. CASE single.offset > 0
            <4>1. /\ rec'.mem = [rec.mem EXCEPT ![single.key] = single.offset]
                  /\ rec'.file = NoPositions
                BY <2>3, <3>2 DEF Close
            <4>. QED  BY <1>3, <1>5, <3>1, <4>1 DEF Records
        <3>. QED  BY <2>1, <2>3, <3>2 DEF Close
    <2>4. CASE Closed
        BY <1>5, <2>4 DEF Closed, Records
    <2>5. CASE Environment /\ ~Restart
        BY <2>1, <2>5, TailerStep
    <2>6. CASE CloseAllFiles \/ Open \/ Key \/ Seek \/ Read \/ ReadNone \/ Done \/ Tick \/ ReadToEOF
               \/ ReadToEOFEnd \/ Reopen \/ IsActive
        <3>1. rec' = rec
            BY <2>6, Zenon DEF CloseAllFiles, tailing, Open, Key, Seek, Read, ReadNone, Done,
                   Tick, ReadToEOF, ReadToEOFEnd, Reopen, IsActive, ReadSome, FlushCache
        <3>. QED  BY <2>1, <3>1
    <2>. QED  BY <2>2, <2>3, <2>4, <2>5, <2>6, Zenon DEF Next, Environment, Single
<1>. QED  BY <1>1, <1>6, <1>7, Zenon

\* What is noted stays noted.
LEMMA HistStep ==
    ASSUME TypeInv, Next
    PROVE  /\ hist.dropped \subseteq hist'.dropped /\ hist.used \subseteq hist'.used
           /\ (hist.astray => hist'.astray) /\ (hist.crashed => hist'.crashed)
<1>. USE DEF TypeInv, Typed, Hists
<1>1. CASE hist' = hist
    BY <1>1
<1>5. CASE Write
    <2>1. PICK a \in BOOLEAN : /\ hist.astray => a
                             /\ hist' = [hist EXCEPT !.astray = a]
        BY <1>5, Zenon DEF Write
    <2>. QED  BY <2>1
<1>6. CASE Close \/ Seek
    <2>1. PICK a, d : /\ hist.astray => a
                      /\ \/ hist' = [hist EXCEPT !.astray = a, !.dropped = hist.dropped \cup d]
                         \/ hist' = [hist EXCEPT !.dropped = hist.dropped \cup d, !.astray = a]
        <3>1. CASE Seek
            BY <3>1, Zenon DEF Seek
        <3>2. CASE Close
            <4>1. PICK d : d = Range(single.prev) \cup Range(single.buff)
                BY Zenon
            <4>2. hist.dropped \cup d = (hist.dropped \cup Range(single.prev)) \cup Range(single.buff)
                BY <4>1
            <4>. QED  BY <3>2, <4>2, Zenon DEF Close
        <3>. QED  BY <1>6, <3>1, <3>2, Zenon
    <2>. QED  BY <2>1, Zenon
<1>7. CASE Restart
    <2>1. PICK c : /\ hist.crashed => c
                   /\ hist' = [hist EXCEPT !.crashed = c, !.dropped = @ \cup Range(single.prev) \cup Range(single.buff)]
        BY <1>7, Zenon DEF Restart
    <2>. QED  BY <2>1
<1>8. CASE \E i \in Inodes : Create(i)
    BY <1>8 DEF Create
<1>3. CASE CloseAllFiles \/ Open \/ Key \/ Read \/ ReadNone \/ Done \/ Tick \/ ReadToEOF
           \/ ReadToEOFEnd \/ Reopen \/ IsActive \/ Closed
    <2>1. hist' = hist
        BY <1>3, Zenon DEF CloseAllFiles, Open, Key, Read, ReadNone, Done,
               Tick, ReadToEOF, ReadToEOFEnd, Reopen, IsActive, ReadSome, FlushCache, Closed
    <2>. QED  BY <1>1, <2>1
<1>4. CASE Rename \/ OpenLog \/ Truncate \/ Expire \/ Exit
    BY <1>1, <1>4 DEF Rename, OpenLog, Truncate, Expire, Exit
<1>. QED  BY <1>3, <1>4, <1>5, <1>6, <1>7, <1>8, Zenon DEF Next, Environment, Single

\* The phases of a Single.
LEMMA PhasesStep == ASSUME TypeInv, Next PROVE Phases'
<1>. USE DEF TypeInv, Typed, Phases
<1>1. CASE single' = single
    <2>1. hist.dropped \subseteq hist'.dropped
        BY HistStep
    <2>. QED  BY <1>1, <2>1
<1>2. CASE Environment /\ ~Restart
    BY <1>1, <1>2, TailerStep
<1>3. CASE CloseAllFiles
    BY <1>1, <1>3 DEF CloseAllFiles, tailing
<1>4. CASE single' = Off
    BY <1>4 DEF Off
<1>5. CASE Restart \/ Closed
    BY <1>4, <1>5 DEF Restart, Closed
<1>6. CASE Open
    BY <1>6 DEF Open, Active, Exists, Off
<1>7. CASE Key
    BY <1>7 DEF Key, Singles
<1>8. CASE Seek
    <2>1. single'.pc = "loop" /\ single'.file = single.file
        BY <1>8 DEF Seek, Singles
    <2>. QED  BY <1>8, <2>1 DEF Seek
<1>9. ASSUME NEW l \in {"loop", "eof"}, ReadSome(l), single.pc # "off" PROVE Phases'
    <2>1. PICK end \in Nat : \E new, o, b, p \in Seq(Units) : ReadUpTo(l, end, new, o, b, p)
        BY <1>9, ReadSomeIs, Zenon
    <2>2. PICK new, o, b, p \in Seq(Units) : ReadUpTo(l, end, new, o, b, p)
        BY <2>1
    <2>3. single' = [single EXCEPT !.pc = l, !.offset = end, !.prev = p, !.buff = b]
        BY <2>2, Zenon DEF ReadUpTo
    <2>4. single'.pc = l /\ single'.file = single.file
        BY <2>3 DEF Singles
    <2>. QED  BY <1>9, <2>4
<1>10. CASE Read \/ ReadToEOF
    BY <1>9, <1>10 DEF Read, Reading, ReadToEOF
<1>11. CASE ReadNone \/ Done \/ Tick \/ ReadToEOFEnd \/ IsActive
    <2>1. /\ single'.file = single.file /\ single.pc # "off"
          /\ single'.pc \notin {"off", "key", "seek", "flush"}
        BY <1>11, Zenon DEF ReadNone, Reading, Done, FlushCache, Tick, ReadToEOFEnd, IsActive, Goto, Singles
    <2>. QED  BY <2>1
<1>12. CASE Reopen
    <2>1. /\ single'.file # None /\ single.pc # "off"
          /\ single'.pc \notin {"off", "key", "seek", "flush"}
        BY <1>12 DEF Reopen, Singles, Exists
    <2>. QED  BY <2>1
<1>13. CASE Close
    <2>1. /\ single'.file = single.file /\ single.pc # "off" /\ single'.pc = "flush"
          /\ single'.prev = single.prev /\ single'.buff = single.buff
        BY <1>13 DEF Close, Goto, Singles
    <2>2. Range(single.prev) \cup Range(single.buff) \subseteq hist'.dropped
        BY <1>13 DEF Close, Hists
    <2>. QED  BY <2>1, <2>2, Zenon
<1>. QED  BY <1>2, <1>3, <1>5, <1>6, <1>7, <1>8, <1>10, <1>11, <1>12, <1>13, Zenon
             DEF Next, Environment, Single

\* The typing invariant is inductive.
LEMMA TypeStep == ASSUME TypeInv, [Next]_vars PROVE TypeInv'
<1>1. CASE Next
    BY <1>1, TypedStep, BoundedStep, PhasesStep, Zenon DEF TypeInv
<1>2. CASE UNCHANGED vars
    BY <1>2, Zenon DEF vars, TypeInv, Typed, Bounded, Phases, Size
<1>. QED  BY <1>1, <1>2

\* It holds when Datakit has started for the first time.
LEMMA TypeInit == Init => TypeInv
<1>. SUFFICES ASSUME Init PROVE TypeInv
    OBVIOUS
<1>1. MaxUnits \in Nat /\ MaxLine \in Nat
    BY TailAssumption DEF TailAssumption
<1>0. PICK D : D = [i \in Inodes |-> <<>>]
    BY Zenon
<1>2. PICK f \in BOOLEAN : D = [i \in Inodes |-> <<>>] /\ f = FALSE
    BY <1>0, Zenon
<1>3. D \in [Inodes -> Seq(Units)] /\ \A i \in Inodes : D[i] = <<>>
    BY <1>2
<1>4. disk = [data |-> D, path |-> None, dead |-> f]
    BY <1>2, Zenon DEF Init
<1>5. disk \in Disks /\ disk.data = D
    BY <1>3, <1>4 DEF Disks, Keys
<1>6. writer \in Writers /\ writer.n = 0
    BY <1>1 DEF Init, Writers, Keys
<1>7. single \in Singles /\ rec \in Records
    BY DEF Init, Off, Singles, Labels, Keys, Records, NoPositions
<1>8. hist \in Hists
    <2>1. hist = [used |-> {}, crashed |-> f, astray |-> f, dropped |-> {}]
        BY <1>2, Zenon DEF Init
    <2>. QED  BY <2>1 DEF Hists
<1>9. Typed
    BY <1>5, <1>6, <1>7, <1>8 DEF Init, Typed
<1>10. Bounded
    BY <1>1, <1>3, <1>5, <1>6, EmptySeq DEF Init, Bounded, Size, Off, NoPositions, Keys
<1>. QED  BY <1>9, <1>10 DEF TypeInv, Phases, Init, Off

\* The typing invariant holds throughout.
LEMMA TypesHold == Spec => []TypeInv
BY TypeInit, TypeStep, PTL DEF Spec

\* The variables have their types: in particular previousBlock never holds more
\* than maxLineLength and no recorded position is beyond what was written.
THEOREM Types == Spec => []TypeOK
<1>1. TypeInv => TypeOK
    <2>. SUFFICES ASSUME TypeInv PROVE TypeOK
        OBVIOUS
    <2>1. disk.data \in [Inodes -> Seq(1..MaxUnits)] /\ disk.path \in Keys /\ disk.dead \in BOOLEAN
        BY DEF TypeInv, Typed, Disks, Units
    <2>2. writer.file \in Keys /\ writer.n \in 0..MaxUnits /\ stop \in {"no", "exit", "done"}
        BY DEF TypeInv, Typed, Writers
    <2>3. /\ single.pc \in Labels /\ single.file \in Keys /\ single.key \in Keys /\ single.did \in BOOLEAN
          /\ single.prev \in Seq(1..MaxUnits) /\ single.buff \in Seq(1..MaxUnits)
          /\ fed \in Seq(1..MaxUnits) /\ Len(single.prev) <= MaxLine
        BY DEF TypeInv, Typed, Singles, Units, Bounded
    <2>4. single.offset \in 0..MaxUnits
        BY TailAssumption DEF TypeInv, Typed, Singles, Bounded, TailAssumption
    <2>5. rec.mem \in [Keys -> 0..MaxUnits] /\ rec.file \in [Keys -> 0..MaxUnits]
        BY TailAssumption DEF TypeInv, Typed, Records, Bounded, TailAssumption
    <2>. QED  BY <2>1, <2>2, <2>3, <2>4, <2>5, Zenon DEF TypeOK, Labels
<1>. QED  BY <1>1, TypesHold, PTL

----------------------------------------------------------------------------
(* No position is ahead of what is known *)

\* What one sequence after the other holds.
LEMMA CatRange ==
    ASSUME NEW s \in Seq(Units), NEW t \in Seq(Units)
    PROVE  Cat(s, t) \in Seq(Units) /\ Range(Cat(s, t)) = Range(s) \cup Range(t)
<1>1. PICK c : c = s \o t
    BY Zenon
<1>2. /\ c \in Seq(Units) /\ Len(c) = Len(s) + Len(t)
      /\ \A k \in 1..Len(c) : c[k] = IF k <= Len(s) THEN s[k] ELSE t[k - Len(s)]
    BY <1>1
<1>3. Range(c) \subseteq Range(s) \cup Range(t)
    BY <1>2 DEF Range
<1>4. Range(s) \subseteq Range(c)
    <2>. SUFFICES ASSUME NEW k \in 1..Len(s) PROVE s[k] \in Range(c)
        BY DEF Range
    <2>1. k \in DOMAIN c /\ c[k] = s[k]
        BY <1>2
    <2>. QED  BY <2>1, Zenon DEF Range
<1>5. Range(t) \subseteq Range(c)
    <2>. SUFFICES ASSUME NEW k \in 1..Len(t) PROVE t[k] \in Range(c)
        BY DEF Range
    <2>1. k + Len(s) \in DOMAIN c /\ c[k + Len(s)] = t[k]
        BY <1>2
    <2>. QED  BY <2>1, Zenon DEF Range
<1>. QED  BY <1>1, <1>2, <1>3, <1>4, <1>5, Zenon DEF Cat

\* What a part of a file holds.
LEMMA PartOf ==
    ASSUME NEW c \in Seq(Units), NEW a \in Nat, NEW e \in Nat, a < e, e <= Len(c)
    PROVE  /\ Len(SubSeq(c, a + 1, e)) = e - a
           /\ \A j \in 1..(e - a) : SubSeq(c, a + 1, e)[j] = c[a + j]
OBVIOUS

\* A step that changes no content and moves no position but to the beginning
\* or to another one's place, skips nothing.
LEMMA NoneMoved ==
    ASSUME NothingSkipped, hist.astray => hist'.astray, Known \subseteq Known',
           \A i \in Inodes : disk'.data[i] = disk.data[i] /\ Positions(i)' \subseteq Positions(i) \cup {0}
    PROVE  NothingSkipped'
<1>. SUFFICES ASSUME ~hist'.astray, NEW i \in Inodes, NEW p \in Positions(i)', p <= Size(i)', NEW k \in 1..p
     PROVE  disk'.data[i][k] \in Known'
    BY Zenon DEF NothingSkipped
<1>1. Size(i)' = Size(i) /\ disk'.data[i] = disk.data[i]
    BY DEF Size
<1>2. p # 0
    OBVIOUS
<1>3. p \in Positions(i) /\ p <= Size(i) /\ ~hist.astray
    BY <1>1, <1>2
<1>4. disk.data[i][k] \in Known
    BY <1>3, Zenon DEF NothingSkipped
<1>. QED  BY <1>1, <1>4

\* Writing moves no position; it may reach one.
LEMMA SkippedWrite == ASSUME TypeInv, NothingSkipped, Write PROVE NothingSkipped'
<1>1. /\ single' = single /\ rec' = rec /\ fed' = fed /\ hist'.dropped = hist.dropped
      /\ (hist.astray => hist'.astray)
    BY HistStep DEF Write, tailing, TypeInv, Typed, Hists, Next, Environment
<1>2. Known' = Known /\ \A i : Positions(i)' = Positions(i)
    BY <1>1 DEF Known, Positions
<1>. SUFFICES ASSUME ~hist'.astray, NEW i \in Inodes, NEW p \in Positions(i), p <= Size(i)', NEW k \in 1..p
     PROVE  disk'.data[i][k] \in Known
    BY <1>2, Zenon DEF NothingSkipped
<1>3. ~hist.astray /\ Size(writer.file) + 1 \notin Positions(writer.file)
    BY <1>1, Zenon DEF Write, TypeInv, Typed, Hists
<1>4. p \in Nat
    BY DEF Positions, TypeInv, Typed, Records, Singles, Keys
<1>5. CASE i = writer.file
    <2>1. PICK c \in Seq(Units) : c = disk.data[i]
        BY DEF TypeInv, Typed, Disks
    <2>2. Size(i)' = Len(c) + 1 /\ disk'.data[i] = Append(c, writer.n + 1) /\ p # Len(c) + 1
        BY <1>3, <1>5, <2>1, WriteIs DEF Size
    <2>3. p <= Len(c)
        BY <1>4, <2>2
    <2>4. disk'.data[i][k] = disk.data[i][k]
        BY <1>4, <2>1, <2>2, <2>3
    <2>. QED  BY <1>3, <2>1, <2>3, <2>4, Zenon DEF NothingSkipped, Size
<1>6. CASE i # writer.file
    <2>1. disk'.data[i] = disk.data[i] /\ Size(i)' = Size(i)
        BY <1>6, WriteIs
    <2>. QED  BY <1>3, <2>1, Zenon DEF NothingSkipped
<1>. QED  BY <1>5, <1>6

\* In a truncated file there is nothing before a position.
LEMMA SkippedTruncate == ASSUME TypeInv, NothingSkipped, Truncate PROVE NothingSkipped'
<1>1. single' = single /\ rec' = rec /\ fed' = fed /\ hist' = hist
    BY DEF Truncate, tailing
<1>2. Known' = Known /\ \A i : Positions(i)' = Positions(i)
    BY <1>1 DEF Known, Positions
<1>. SUFFICES ASSUME ~hist.astray, NEW i \in Inodes, NEW p \in Positions(i), p <= Size(i)', NEW k \in 1..p
     PROVE  disk'.data[i][k] \in Known
    BY <1>1, <1>2, Zenon DEF NothingSkipped
<1>3. p \in Nat
    BY DEF Positions, TypeInv, Typed, Records, Singles, Keys
<1>4. CASE i = disk.path
    BY <1>3, <1>4, TruncateIs
<1>5. CASE i # disk.path
    <2>1. disk'.data[i] = disk.data[i] /\ Size(i)' = Size(i)
        BY <1>5, TruncateIs
    <2>. QED  BY <2>1, Zenon DEF NothingSkipped
<1>. QED  BY <1>4, <1>5

\* seekOffset goes to a position recorded for this file, to the beginning, or
\* gives up all that the file holds.
LEMMA SkippedSeek == ASSUME TypeInv, NothingSkipped, Seek PROVE NothingSkipped'
<1>1. single.file \in Inodes
    BY DEF Seek, TypeInv, Typed, Phases, Singles, Keys
<1>2. /\ disk' = disk /\ rec' = rec /\ fed' = fed /\ single'.prev = single.prev /\ single'.buff = single.buff
      /\ single'.file = single.file /\ hist.dropped \subseteq hist'.dropped
      /\ (hist.astray => hist'.astray)
    BY HistStep DEF Seek, Outside, TypeInv, Typed, Singles, Next, Single
<1>3. Known \subseteq Known'
    BY <1>2 DEF Known
<1>. SUFFICES ASSUME ~hist'.astray PROVE NothingSkipped'
    BY DEF NothingSkipped
<1>4. single.key = single.file
    BY Zenon DEF Seek, TypeInv, Typed, Hists
<1>5. \A i \in Inodes : disk'.data[i] = disk.data[i]
    BY <1>2
<1>6. CASE single'.offset \in {0, rec.mem[single.file]}
    <2>1. \A i \in Inodes : Positions(i)' \subseteq Positions(i) \cup {0}
        BY <1>2, <1>6 DEF Positions
    <2>. QED  BY <1>2, <1>3, <1>5, <2>1, NoneMoved
<1>7. CASE single'.offset = Size(single.file) /\ Range(disk.data[single.file]) \subseteq hist'.dropped
    <2>. SUFFICES ASSUME NEW i \in Inodes, NEW p \in Positions(i)', p <= Size(i), NEW k \in 1..p
         PROVE  disk.data[i][k] \in Known'
        BY <1>2, Zenon DEF NothingSkipped, Size
    <2>1. CASE p \in Positions(i)
        <3>1. disk.data[i][k] \in Known
            BY <1>2, <2>1, Zenon DEF NothingSkipped
        <3>. QED  BY <1>3, <3>1
    <2>2. CASE i = single.file /\ p = Size(i)
        <3>1. disk.data[i][k] \in Range(disk.data[i])
            BY <2>2 DEF Range, Size, TypeInv, Typed, Disks
        <3>. QED  BY <1>7, <2>2, <3>1 DEF Known
    <2>3. p \in Positions(i) \/ (i = single.file /\ p = Size(i))
        BY <1>2, <1>7 DEF Positions
    <2>. QED  BY <2>1, <2>2, <2>3
<1>8. \/ single'.offset \in {0, rec.mem[single.file]}
      \/ single'.offset = Size(single.file) /\ Range(disk.data[single.file]) \subseteq hist'.dropped
    BY <1>4 DEF Seek, TypeInv, Typed, Singles, Hists
<1>. QED  BY <1>6, <1>7, <1>8

\* readOnce reads from its position on, and keeps or feeds what it reads.
LEMMA SkippedRead ==
    ASSUME TypeInv, NothingSkipped, NEW l, ReadSome(l), single.pc # "off" PROVE NothingSkipped'
<1>1. PICK end \in Nat : \E new, o, b, p \in Seq(Units) : ReadUpTo(l, end, new, o, b, p)
    BY ReadSomeIs, Zenon
<1>2. PICK new, o, b, p \in Seq(Units) : ReadUpTo(l, end, new, o, b, p)
    BY <1>1
<1>3. PICK f \in Inodes : f = single.file
    BY DEF TypeInv, Typed, Phases, Singles, Keys
<1>4. PICK c \in Seq(Units), off \in Nat, prev \in Seq(Units), buff \in Seq(Units) :
        c = disk.data[f] /\ off = single.offset /\ prev = single.prev /\ buff = single.buff
    BY DEF TypeInv, Typed, Disks, Singles
<1>5. /\ off < end /\ end <= Len(c) /\ new = SubSeq(c, off + 1, end)
      /\ fed' = Cat(fed, o) /\ Cat(Cat(o, b), p) = Cat(Cat(buff, prev), new)
      /\ single' = [single EXCEPT !.pc = l, !.offset = end, !.prev = p, !.buff = b]
    BY <1>2, <1>3, <1>4, Zenon DEF ReadUpTo, Size, Cat
<1>6. single'.file = f /\ single'.offset = end /\ single'.prev = p /\ single'.buff = b
    BY <1>3, <1>5, SMTT(40) DEF TypeInv, Typed, Singles
<1>7. disk' = disk /\ rec' = rec /\ hist' = hist
    BY Zenon DEF ReadSome, Outside
<1>8. Range(fed') \cup Range(b) \cup Range(p) = Range(fed) \cup Range(buff) \cup Range(prev) \cup Range(new)
    <2>1. fed \in Seq(Units)
        BY DEF TypeInv, Typed
    <2>2. Range(Cat(Cat(o, b), p)) = Range(o) \cup Range(b) \cup Range(p)
        BY CatRange
    <2>3. Range(Cat(Cat(buff, prev), new)) = Range(buff) \cup Range(prev) \cup Range(new)
        BY CatRange
    <2>4. Range(fed') = Range(fed) \cup Range(o)
        BY <1>5, <2>1, CatRange, SMTT(40)
    <2>5. Range(o) \cup Range(b) \cup Range(p) = Range(buff) \cup Range(prev) \cup Range(new)
        BY <1>5, <2>2, <2>3, Zenon
    <2>. QED  BY <2>4, <2>5
<1>9. Known' = Known \cup Range(new)
    BY <1>4, <1>6, <1>7, <1>8 DEF Known
<1>. SUFFICES ASSUME ~hist.astray, NEW i \in Inodes, NEW q \in Positions(i)', q <= Size(i), NEW k \in 1..q
     PROVE  disk.data[i][k] \in Known'
    BY <1>7, Zenon DEF NothingSkipped, Size
<1>10. CASE q \in Positions(i)
    <2>1. disk.data[i][k] \in Known
        BY <1>10, Zenon DEF NothingSkipped
    <2>. QED  BY <1>9, <2>1
<1>11. CASE i = f /\ q = end
    <2>1. CASE k <= off
        <3>1. off \in Positions(i) /\ off <= Size(i) /\ k \in 1..off
            BY <1>3, <1>4, <1>5, <1>11, <2>1 DEF Positions, Size
        <3>2. disk.data[i][k] \in Known
            BY <3>1, Zenon DEF NothingSkipped
        <3>. QED  BY <1>9, <3>2
    <2>2. CASE k > off
        <3>1. k \in Nat /\ k <= end
            BY <1>11
        <3>2. Len(new) = end - off /\ \A j \in 1..(end - off) : new[j] = c[off + j]
            <4>1. off < end /\ end <= Len(c) /\ new = SubSeq(c, off + 1, end)
                BY <1>5
            <4>. QED  BY <4>1, PartOf
        <3>3. k - off \in 1..(end - off) /\ off + (k - off) = k
            BY <2>2, <3>1
        <3>4. k - off \in DOMAIN new /\ new[k - off] = c[k]
            BY <3>2, <3>3
        <3>5. c[k] \in Range(new)
            BY <3>4, Zenon DEF Range
        <3>. QED  BY <1>4, <1>9, <1>11, <3>5
    <2>. QED  BY <2>1, <2>2
<1>12. q \in Positions(i) \/ (i = f /\ q = end)
    BY <1>6, <1>7 DEF Positions
<1>. QED  BY <1>10, <1>11, <1>12

\* Every step keeps it.
LEMMA SkippedStep == ASSUME TypeInv, NothingSkipped, Next PROVE NothingSkipped'
<1>1. (hist.astray => hist'.astray) /\ hist.dropped \subseteq hist'.dropped
    BY HistStep
<1>2. ASSUME ~hist'.astray,
             /\ \A i \in Inodes : disk'.data[i] = disk.data[i] /\ Positions(i)' \subseteq Positions(i) \cup {0}
             /\ Known \subseteq Known'
      PROVE  NothingSkipped'
    BY <1>1, <1>2, NoneMoved, Zenon
<1>. SUFFICES ASSUME ~hist'.astray PROVE NothingSkipped'
    BY DEF NothingSkipped
<1>3. single.file \in Keys /\ None \notin Inodes
    BY TailAssumption DEF TypeInv, Typed, Singles, TailAssumption, None
<1>4. CASE Rename \/ (\E i \in Inodes : Create(i)) \/ OpenLog \/ Expire \/ Exit \/ CloseAllFiles
    <2>1. single' = single /\ rec' = rec /\ fed' = fed /\ disk'.data = disk.data
        BY <1>4, Zenon DEF Rename, Create, OpenLog, Expire, Exit, CloseAllFiles, tailing, TypeInv, Typed, Disks
    <2>. QED  BY <1>1, <1>2, <2>1, SMTT(40) DEF Known, Positions
<1>5. CASE Restart
    <2>1. /\ disk' = disk /\ fed' = fed /\ single' = Off /\ rec'.file = rec.file
          /\ rec'.mem \in {rec.file, NoPositions}
        BY <1>5 DEF Restart, TypeInv, Typed, Records
    <2>2. Range(single.prev) \cup Range(single.buff) \subseteq hist'.dropped
        BY <1>5 DEF Restart, TypeInv, Typed, Hists
    <2>3. Known \subseteq Known'
        BY <1>1, <2>1, <2>2 DEF Known
    <2>4. \A i \in Inodes : Positions(i)' \subseteq Positions(i) \cup {0}
        BY <1>3, <2>1 DEF Positions, Off, NoPositions, Keys
    <2>. QED  BY <1>2, <2>1, <2>3, <2>4
<1>6. CASE Open
    <2>1. /\ single = Off /\ disk' = disk /\ fed' = fed /\ rec' = rec
          /\ single'.offset = 0 /\ single'.prev = <<>> /\ single'.buff = <<>>
        BY <1>6 DEF Open, Outside, Off, TypeInv, Phases
    <2>2. single.prev = <<>> /\ single.buff = <<>>
        BY <2>1 DEF Off
    <2>3. Known \subseteq Known'
        BY <1>1, <2>1, <2>2 DEF Known
    <2>4. \A i \in Inodes : Positions(i)' \subseteq Positions(i) \cup {0}
        BY <2>1 DEF Positions
    <2>. QED  BY <1>2, <2>1, <2>3, <2>4
<1>7. CASE Key \/ Tick \/ ReadToEOFEnd \/ IsActive
    <2>1. /\ disk' = disk /\ fed' = fed /\ rec' = rec /\ single'.file = single.file
          /\ single'.offset = single.offset /\ single'.prev = single.prev /\ single'.buff = single.buff
        BY <1>7, Zenon DEF Key, Tick, ReadToEOFEnd, IsActive, Goto, Outside, TypeInv, Typed, Singles
    <2>. QED  BY <1>1, <1>2, <2>1 DEF Known, Positions
<1>8. CASE Reopen
    <2>1. /\ disk' = disk /\ fed' = fed /\ rec' = rec
          /\ single'.offset = 0 \/ (single'.offset = single.offset /\ single'.file = single.file)
          /\ single'.prev = single.prev /\ single'.buff = single.buff
        BY <1>8 DEF Reopen, Outside, TypeInv, Typed, Singles
    <2>. QED  BY <1>1, <1>2, <2>1 DEF Known, Positions
<1>9. CASE ReadNone \/ Done
    <2>1. /\ disk' = disk /\ fed' = Cat(fed, single.buff) /\ rec' = rec /\ single'.file = single.file
          /\ single'.offset = single.offset /\ single'.prev = single.prev
        BY <1>9, Zenon DEF ReadNone, Done, FlushCache, Outside, Cat, TypeInv, Typed, Singles
    <2>2. Range(fed') = Range(fed) \cup Range(single.buff)
        BY <2>1, CatRange DEF TypeInv, Typed, Singles
    <2>3. Known \subseteq Known'
        BY <1>1, <2>1, <2>2 DEF Known
    <2>. QED  BY <1>2, <2>1, <2>3 DEF Positions
<1>10. CASE Close
    <2>1. /\ disk' = disk /\ fed' = fed /\ single'.file = single.file
          /\ single'.offset = single.offset /\ single'.prev = single.prev /\ single'.buff = single.buff
        BY <1>10 DEF Close, Goto, Outside, TypeInv, Typed, Singles
    <2>2. single.offset > 0 => single.key = single.file
        BY <1>10, Zenon DEF Close, TypeInv, Typed, Hists
    <2>3. \/ rec' = rec
          \/ rec'.mem = [rec.mem EXCEPT ![single.file] = single.offset] /\ rec'.file = NoPositions
        BY <1>10, <2>2 DEF Close
    <2>4. \A i \in Inodes : Positions(i)' \subseteq Positions(i) \cup {0}
        BY <1>3, <2>1, <2>3 DEF Positions, NoPositions, Keys, TypeInv, Typed, Records
    <2>. QED  BY <1>1, <1>2, <2>1, <2>4 DEF Known
<1>11. CASE Closed
    <2>1. disk' = disk /\ fed' = fed /\ single' = Off /\ rec'.mem = rec.mem /\ rec'.file \in {rec.mem, rec.file}
        BY <1>11 DEF Closed, Outside, TypeInv, Typed, Records
    <2>2. Range(single.prev) \cup Range(single.buff) \subseteq hist.dropped
        BY <1>11 DEF Closed, TypeInv, Phases
    <2>3. Known \subseteq Known'
        BY <1>1, <2>1, <2>2 DEF Known
    <2>4. \A i \in Inodes : Positions(i)' \subseteq Positions(i) \cup {0}
        BY <1>3, <2>1 DEF Positions, Off
    <2>. QED  BY <1>2, <2>1, <2>3, <2>4
<1>12. CASE Read \/ ReadToEOF
    BY <1>12, SkippedRead DEF Read, Reading, ReadToEOF
<1>. QED  BY <1>4, <1>5, <1>6, <1>7, <1>8, <1>9, <1>10, <1>11, <1>12, SkippedWrite, SkippedTruncate,
             SkippedSeek, Zenon DEF Next, Environment, Single

\* No position is ahead of what has been fed, is held, or was given up: after a
\* crash between any two steps, whatever rotations there were, the next Single
\* goes on at a position before which everything is accounted for.
THEOREM NoneSkipped == Spec => []NothingSkipped
<1>1. Init => NothingSkipped
    <2>1. Init => \A i \in Inodes : Positions(i) = {0}
        BY TailAssumption DEF Init, Positions, Off, NoPositions, Keys, None, TailAssumption
    <2>. QED  BY <2>1 DEF NothingSkipped
<1>2. TypeInv /\ NothingSkipped /\ [Next]_vars => NothingSkipped'
    <2>1. ASSUME NothingSkipped, UNCHANGED vars PROVE NothingSkipped'
        BY <2>1, Zenon DEF vars, NothingSkipped, Positions, Known, Size
    <2>. QED  BY <2>1, SkippedStep
<1>. QED  BY <1>1, <1>2, TypesHold, PTL DEF Spec

----------------------------------------------------------------------------
(* What is fed comes in order *)

\* Increasing sequences, one after the other.
LEMMA IncreasingCat ==
    ASSUME NEW s \in Seq(Units), NEW t \in Seq(Units), Increasing(s), Increasing(t),
           \A x \in Range(s), y \in Range(t) : x < y
    PROVE  Increasing(Cat(s, t))
<1>1. PICK c : c = s \o t
    BY Zenon
<1>2. /\ c \in Seq(Units) /\ Len(c) = Len(s) + Len(t) /\ DOMAIN c = 1..Len(c)
      /\ \A k \in 1..Len(c) : c[k] = IF k <= Len(s) THEN s[k] ELSE t[k - Len(s)]
    BY <1>1
<1>. SUFFICES ASSUME NEW j \in 1..Len(c), NEW k \in 1..Len(c), j < k PROVE c[j] < c[k]
    BY <1>1, <1>2, Zenon DEF Increasing, Cat
<1>3. CASE k <= Len(s)
    BY <1>2, <1>3 DEF Increasing
<1>4. CASE j > Len(s)
    <2>1. j - Len(s) \in DOMAIN t /\ k - Len(s) \in DOMAIN t /\ j - Len(s) < k - Len(s)
        BY <1>2, <1>4
    <2>2. t[j - Len(s)] < t[k - Len(s)]
        BY <2>1, Zenon DEF Increasing
    <2>. QED  BY <1>2, <1>4, <2>2
<1>5. CASE j <= Len(s) /\ k > Len(s)
    <2>1. j \in DOMAIN s /\ k - Len(s) \in DOMAIN t
        BY <1>2, <1>5
    <2>2. s[j] \in Range(s) /\ t[k - Len(s)] \in Range(t)
        BY <2>1, Zenon DEF Range
    <2>. QED  BY <1>2, <1>5, <2>2
<1>. QED  BY <1>3, <1>4, <1>5

\* The beginning of an increasing sequence.
LEMMA IncreasingFirst ==
    ASSUME NEW s \in Seq(Units), NEW t \in Seq(Units), Increasing(Cat(s, t)) PROVE Increasing(s)
<1>1. PICK c : c = s \o t
    BY Zenon
<1>2. /\ c \in Seq(Units) /\ Len(c) = Len(s) + Len(t) /\ DOMAIN c = 1..Len(c)
      /\ \A k \in 1..Len(c) : c[k] = IF k <= Len(s) THEN s[k] ELSE t[k - Len(s)]
    BY <1>1
<1>3. Increasing(c)
    BY <1>1, Zenon DEF Cat
<1>. SUFFICES ASSUME NEW j \in DOMAIN s, NEW k \in DOMAIN s, j < k PROVE s[j] < s[k]
    BY Zenon DEF Increasing
<1>4. j \in DOMAIN c /\ k \in DOMAIN c /\ c[j] = s[j] /\ c[k] = s[k]
    BY <1>2
<1>. QED  BY <1>3, <1>4, Zenon DEF Increasing

\* A part of an increasing sequence, and what comes after it.
LEMMA IncreasingPart ==
    ASSUME NEW c \in Seq(Units), NEW a \in Nat, NEW e \in Nat, a < e, e <= Len(c), Increasing(c)
    PROVE  /\ Increasing(SubSeq(c, a + 1, e)) /\ Range(SubSeq(c, a + 1, e)) \subseteq Range(c)
           /\ \A k \in 1..Len(c) : k > e => \A x \in Range(SubSeq(c, a + 1, e)) : x < c[k]
           /\ \A x \in Range(SubSeq(c, a + 1, e)) : \E k \in 1..Len(c) : k > a /\ x = c[k]
<1>1. PICK n \in Seq(Units) : n = SubSeq(c, a + 1, e)
    <2>1. SubSeq(c, a + 1, e) \in Seq(Units)
        OBVIOUS
    <2>. QED  BY <2>1, Zenon
<1>2. Len(n) = e - a /\ DOMAIN n = 1..(e - a) /\ \A j \in 1..(e - a) : n[j] = c[a + j]
    BY <1>1, PartOf
<1>3. Increasing(n)
    <2>. SUFFICES ASSUME NEW j \in 1..(e - a), NEW k \in 1..(e - a), j < k PROVE n[j] < n[k]
        BY <1>2, Zenon DEF Increasing
    <2>1. a + j \in DOMAIN c /\ a + k \in DOMAIN c /\ a + j < a + k
        OBVIOUS
    <2>2. c[a + j] < c[a + k]
        BY <2>1, Zenon DEF Increasing
    <2>. QED  BY <1>2, <2>2
<1>4. \A x \in Range(n) : \E j \in 1..Len(c) : j > a /\ j <= e /\ x = c[j]
    <2>. SUFFICES ASSUME NEW j \in 1..(e - a) PROVE \E m \in 1..Len(c) : m > a /\ m <= e /\ n[j] = c[m]
        BY <1>2, ZenonT(40) DEF Range
    <2>1. a + j \in 1..Len(c) /\ a + j > a /\ a + j <= e /\ n[j] = c[a + j]
        BY <1>2
    <2>. QED  BY <2>1, Zenon
<1>5. ASSUME NEW k \in 1..Len(c), k > e, NEW x \in Range(n) PROVE x < c[k]
    <2>1. PICK j \in 1..Len(c) : j > a /\ j <= e /\ x = c[j]
        BY <1>4
    <2>2. j \in DOMAIN c /\ k \in DOMAIN c /\ j < k
        BY <1>5, <2>1
    <2>. QED  BY <2>1, <2>2, Zenon DEF Increasing
<1>6. Range(n) \subseteq Range(c)
    BY <1>4 DEF Range
<1>. QED  BY <1>1, <1>3, <1>4, <1>5, <1>6, Zenon

\* A new last unit.
LEMMA IncreasingAppend ==
    ASSUME NEW c \in Seq(Units), Increasing(c), NEW u \in Units, \A x \in Range(c) : x < u
    PROVE  Increasing(Append(c, u)) /\ Range(Append(c, u)) = Range(c) \cup {u}
<1>1. PICK a : a = Append(c, u)
    BY Zenon
<1>2. /\ Len(c) \in Nat /\ DOMAIN c = 1..Len(c) /\ DOMAIN a = 1..(Len(c) + 1)
      /\ \A k \in 1..Len(c) : a[k] = c[k]
      /\ a[Len(c) + 1] = u
    BY <1>1
<1>3. \A k \in 1..Len(c) : c[k] < u
    BY <1>2 DEF Range
<1>4. ASSUME NEW j \in DOMAIN a, NEW k \in DOMAIN a, j < k PROVE a[j] < a[k]
    <2>1. CASE k = Len(c) + 1
        BY <1>2, <1>3, <1>4, <2>1
    <2>2. CASE k # Len(c) + 1
        <3>1. j \in DOMAIN c /\ k \in DOMAIN c /\ a[j] = c[j] /\ a[k] = c[k]
            BY <1>2, <1>4, <2>2
        <3>. QED  BY <1>4, <3>1, Zenon DEF Increasing
    <2>. QED  BY <2>1, <2>2
<1>5. Range(a) = Range(c) \cup {u}
    <2>1. \A x : x \in Range(a) <=> \E k \in 1..(Len(c) + 1) : a[k] = x
        BY <1>2 DEF Range
    <2>2. \A x : x \in Range(c) <=> \E k \in 1..Len(c) : c[k] = x
        BY <1>2 DEF Range
    <2>3. \A k \in 1..(Len(c) + 1) : k \in 1..Len(c) \/ k = Len(c) + 1
        BY <1>2
    <2>4. \A k \in 1..Len(c) : k \in 1..(Len(c) + 1)
        BY <1>2
    <2>5. Len(c) + 1 \in 1..(Len(c) + 1)
        BY <1>2
    <2>. QED  BY <1>2, <2>1, <2>2, <2>3, <2>4, <2>5, Zenon
<1>. QED  BY <1>1, <1>4, <1>5, Zenon DEF Increasing

\* The sequences of a state, and what they hold.
LEMMA HeldIs ==
    ASSUME TypeInv
    PROVE  /\ fed \in Seq(Units) /\ single.buff \in Seq(Units) /\ single.prev \in Seq(Units)
           /\ Held \in Seq(Units) /\ Range(Held) = HeldUnits /\ HeldUnits \subseteq Units
           /\ \A i \in Inodes : disk.data[i] \in Seq(Units) /\ Size(i) \in Nat /\ Range(disk.data[i]) \subseteq Units
           /\ Units \subseteq Nat
<1>1. fed \in Seq(Units) /\ single.buff \in Seq(Units) /\ single.prev \in Seq(Units)
    BY DEF TypeInv, Typed, Singles
<1>2. Held \in Seq(Units) /\ Range(Held) = HeldUnits
    <2>1. PICK f, b, p \in Seq(Units) : f = fed /\ b = single.buff /\ p = single.prev
        BY <1>1
    <2>2. Cat(Cat(f, b), p) \in Seq(Units) /\ Range(Cat(Cat(f, b), p)) = Range(f) \cup Range(b) \cup Range(p)
        BY CatRange
    <2>. QED  BY <2>1, <2>2, Zenon DEF Held, HeldUnits
<1>3. \A i \in Inodes : disk.data[i] \in Seq(Units) /\ Size(i) \in Nat
    BY DEF TypeInv, Typed, Disks, Size
<1>4. \A s \in Seq(Units) : Range(s) \subseteq Units
    BY DEF Range
<1>5. Units \subseteq Nat
    BY DEF Units
<1>. QED  BY <1>1, <1>2, <1>3, <1>4, <1>5, Zenon

\* A place in a file.
LEMMA UnitAt ==
    ASSUME TypeInv, NEW i \in Inodes
    PROVE  /\ \A k \in 1..Size(i) : disk.data[i][k] \in Range(disk.data[i])
           /\ \A u \in Range(disk.data[i]) : \E k \in 1..Size(i) : u = disk.data[i][k]
<1>1. DOMAIN disk.data[i] = 1..Size(i)
    BY DEF TypeInv, Typed, Disks, Size
<1>. QED  BY <1>1, Zenon DEF Range

\* How what the Single holds changes with readOnce.
LEMMA HeldRead ==
    ASSUME TypeInv, NEW l, NEW end \in Nat, NEW new \in Seq(Units), NEW o \in Seq(Units),
           NEW b \in Seq(Units), NEW p \in Seq(Units), ReadUpTo(l, end, new, o, b, p)
    PROVE  /\ Held' = Cat(Held, new)
           /\ HeldUnits' = HeldUnits \cup Range(new)
           /\ single'.file = single.file /\ single'.offset = end /\ single'.pc = l /\ single'.did = single.did
           /\ single'.key = single.key
<1>1. PICK f, u, v \in Seq(Units) : f = fed /\ u = single.buff /\ v = single.prev
    BY HeldIs
<1>2. /\ fed' = Cat(f, o) /\ Cat(Cat(o, b), p) = Cat(Cat(u, v), new)
      /\ single' = [single EXCEPT !.pc = l, !.offset = end, !.prev = p, !.buff = b]
    BY <1>1, Zenon DEF ReadUpTo, Cat
<1>3. /\ single'.buff = b /\ single'.prev = p /\ single'.file = single.file /\ single'.offset = end
      /\ single'.pc = l /\ single'.did = single.did /\ single'.key = single.key
    BY <1>2 DEF TypeInv, Typed, Singles
<1>4. Held' = Cat(Cat(Cat(f, o), b), p)
    BY <1>2, <1>3, Zenon DEF Held
<1>5. Cat(Cat(Cat(f, o), b), p) = Cat(f, Cat(Cat(o, b), p))
    <2>1. Cat(o, b) \in Seq(Units) /\ Cat(Cat(f, o), b) = Cat(f, Cat(o, b))
        BY CatAssoc
    <2>. QED  BY <2>1, CatAssoc
<1>6. Cat(Cat(Cat(f, u), v), new) = Cat(f, Cat(Cat(u, v), new))
    <2>1. Cat(u, v) \in Seq(Units) /\ Cat(Cat(f, u), v) = Cat(f, Cat(u, v))
        BY CatAssoc
    <2>. QED  BY <2>1, CatAssoc
<1>7. Held = Cat(Cat(f, u), v) /\ Held \in Seq(Units)
    BY <1>1, HeldIs, Zenon DEF Held
<1>8. Held' = Cat(Held, new)
    BY <1>2, <1>4, <1>5, <1>6, <1>7, Zenon
<1>9. Range(Cat(Cat(Cat(f, o), b), p)) = Range(Cat(f, o)) \cup Range(b) \cup Range(p)
    BY CatRange
<1>10. Range(Cat(Held, new)) = HeldUnits \cup Range(new)
    BY <1>7, HeldIs, CatRange, Zenon
<1>. QED  BY <1>2, <1>3, <1>4, <1>8, <1>9, <1>10, Zenon DEF HeldUnits

\* Writing keeps a reader ahead: the unit written comes after all the others.
LEMMA FilesWrite == ASSUME TypeInv, Files, Write PROVE Files'
<1>1. /\ writer.file \in Inodes /\ writer'.file = writer.file /\ writer.n \in Nat
      /\ writer'.n = writer.n + 1 /\ disk'.path = disk.path
      /\ disk'.data[writer.file] = Append(disk.data[writer.file], writer.n + 1)
      /\ \A i \in Inodes \ {writer.file} : disk'.data[i] = disk.data[i] /\ Size(i)' = Size(i)
    BY WriteIs
<1>2. single' = single /\ rec' = rec /\ fed' = fed /\ hist'.used = hist.used
    BY DEF Write, tailing, TypeInv, Typed, Hists
<1>3. writer.n + 1 \in Units
    BY <1>1, TailAssumption DEF Write, Units, TailAssumption
<1>4. ASSUME NEW i \in Inodes
      PROVE  Increasing(disk'.data[i]) /\ \A u \in Range(disk'.data[i]) : u <= writer'.n
    <2>1. PICK c \in Seq(Units) : c = disk.data[i] /\ Increasing(c) /\ \A u \in Range(c) : u \in Nat /\ u <= writer.n
        BY HeldIs DEF Files
    <2>2. \A u \in Range(c) : u < writer.n + 1
        BY <1>1, <2>1
    <2>3. CASE i = writer.file
        <3>1. PICK a : a = Append(c, writer.n + 1)
            BY Zenon
        <3>2. Increasing(a) /\ Range(a) = Range(c) \cup {writer.n + 1}
            BY <1>3, <2>1, <2>2, <3>1, IncreasingAppend
        <3>3. disk'.data[i] = a
            BY <1>1, <2>1, <2>3, <3>1, Zenon
        <3>4. \A u \in Range(a) : u <= writer.n + 1
            BY <1>1, <2>1, <3>2
        <3>. QED  BY <1>1, <3>2, <3>3, <3>4, Zenon
    <2>4. CASE i # writer.file
        BY <1>1, <2>1, <2>2, <2>4
    <2>. QED  BY <2>3, <2>4
<1>5. {disk'.path, writer'.file, single'.file, single'.key} \subseteq hist'.used \cup {None}
    BY <1>1, <1>2, Zenon DEF Files
<1>6. writer.file \in hist.used
    BY <1>1, TailAssumption DEF Files, None, TailAssumption
<1>7. \A i \in Inodes \ hist'.used : Size(i)' = 0 /\ rec'.mem[i] = 0 /\ rec'.file[i] = 0
    BY <1>1, <1>2, <1>6 DEF Files
<1>8. Exists' /\ writer'.file # disk'.path => Size(disk.path)' = 0
    <2>. SUFFICES ASSUME Exists', writer'.file # disk'.path PROVE Size(disk.path)' = 0
        OBVIOUS
    <2>1. Exists /\ writer.file # disk.path /\ disk.path \in Inodes
        BY <1>1 DEF Exists, TypeInv, Typed, Disks, Keys
    <2>2. disk'.data[disk.path] = disk.data[disk.path] /\ Size(disk.path) = 0
        BY <1>1, <2>1 DEF Files
    <2>. QED  BY <1>1, <2>2 DEF Size
<1>9. Above(writer.n + 1)'
    <2>1. HeldUnits' = HeldUnits /\ HeldUnits \subseteq Nat
        BY <1>2, HeldIs DEF HeldUnits
    <2>. QED  BY <1>1, <2>1 DEF Above, Files
<1>. QED  BY <1>4, <1>5, <1>7, <1>8, <1>9, Zenon DEF Files

\* A step that writes nothing keeps the order of the files.
LEMMA FilesKept ==
    ASSUME TypeInv, Files, writer'.n = writer.n, HeldUnits' \subseteq HeldUnits,
           \A i \in Inodes : disk'.data[i] = disk.data[i],
           {disk'.path, writer'.file, single'.file, single'.key} \subseteq hist'.used \cup {None},
           hist.used \subseteq hist'.used,
           \A i \in Inodes \ hist'.used : rec'.mem[i] = 0 /\ rec'.file[i] = 0,
           disk'.path \in Keys, Exists' /\ writer'.file # disk'.path => Size(disk'.path) = 0
    PROVE  Files'
<1>1. \A i \in Inodes : Size(i)' = Size(i)
    BY DEF Size
<1>2. Exists' => disk'.path \in Inodes
    BY DEF Exists, Keys
<1>3. Exists' /\ writer'.file # disk'.path => Size(disk.path)' = 0
    BY <1>2 DEF Size
<1>4. Above(writer.n + 1)'
    BY Zenon DEF Above, Files
<1>. QED  BY <1>1, <1>3, <1>4, Zenon DEF Files

\* Every step keeps the order of the files.
LEMMA FilesStep == ASSUME TypeInv, Files, Next PROVE Files'
<1>1. TypeInv' /\ hist.used \subseteq hist'.used
    BY TypeStep, HistStep
<1>2. disk'.path \in Keys /\ single.file \in Keys /\ single.key \in Keys /\ rec \in Records /\ rec' \in Records
    BY <1>1 DEF TypeInv, Typed, Disks, Singles
<1>3. /\ {disk.path, writer.file, single.file, single.key} \subseteq hist.used \cup {None}
      /\ \A i \in Inodes \ hist.used : Size(i) = 0 /\ rec.mem[i] = 0 /\ rec.file[i] = 0
      /\ Exists /\ writer.file # disk.path => Size(disk.path) = 0
    BY DEF Files
<1>4. ASSUME disk' = disk, writer' = writer, HeldUnits' \subseteq HeldUnits,
             {single'.file, single'.key} \subseteq hist.used \cup {None},
             \A i \in Inodes \ hist.used : rec'.mem[i] = 0 /\ rec'.file[i] = 0
      PROVE  Files'
    <2>1. {disk'.path, writer'.file, single'.file, single'.key} \subseteq hist'.used \cup {None}
        BY <1>1, <1>3, <1>4
    <2>2. Exists' /\ writer'.file # disk'.path => Size(disk'.path) = 0
        BY <1>3, <1>4 DEF Exists
    <2>3. \A i \in Inodes \ hist'.used : rec'.mem[i] = 0 /\ rec'.file[i] = 0
        BY <1>1, <1>4
    <2>. QED  BY <1>1, <1>2, <1>4, <2>1, <2>2, <2>3, FilesKept, Zenon
<1>5. CASE Rename \/ Expire \/ OpenLog \/ \E i \in Inodes : Create(i)
    <2>1. HeldUnits' = HeldUnits /\ rec' = rec /\ single' = single
        BY <1>5, ZenonT(40) DEF HeldUnits, Rename, Expire, OpenLog, Create, tailing
    <2>2. disk'.data = disk.data /\ writer'.n = writer.n
        BY <1>5, Zenon DEF Rename, Expire, OpenLog, Create, TypeInv, Typed, Disks, Writers
    <2>3. /\ disk'.path \in hist'.used \cup {None} /\ writer'.file \in hist'.used \cup {None}
          /\ Exists' /\ writer'.file # disk'.path => Size(disk'.path) = 0
        <3>1. CASE Rename \/ Expire
            BY <1>3, <3>1 DEF Rename, Expire, Exists, TypeInv, Typed, Disks
        <3>2. CASE OpenLog
            BY <1>3, <3>2 DEF OpenLog, Exists, TypeInv, Typed, Writers
        <3>3. CASE \E i \in Inodes : Create(i)
            BY <1>3, <3>3 DEF Create, Exists, TypeInv, Typed, Disks, Hists
        <3>. QED  BY <1>5, <3>1, <3>2, <3>3, Zenon
    <2>4. {disk'.path, writer'.file, single'.file, single'.key} \subseteq hist'.used \cup {None}
        BY <1>1, <1>3, <2>1, <2>3
    <2>5. \A i \in Inodes \ hist'.used : rec'.mem[i] = 0 /\ rec'.file[i] = 0
        BY <1>1, <1>3, <2>1
    <2>6. HeldUnits' \subseteq HeldUnits /\ \A i \in Inodes : disk'.data[i] = disk.data[i]
        BY <2>1, <2>2
    <2>. QED  BY <1>1, <1>2, <2>2, <2>3, <2>4, <2>5, <2>6, FilesKept, ZenonT(40)
<1>6. CASE Truncate
    <2>1. /\ disk.path \in Inodes /\ disk'.path = disk.path /\ disk'.data[disk.path] = <<>>
          /\ Size(disk.path)' = 0
          /\ \A i \in Inodes \ {disk.path} : disk'.data[i] = disk.data[i] /\ Size(i)' = Size(i)
        BY <1>6, TruncateIs
    <2>2. writer' = writer /\ single' = single /\ rec' = rec /\ fed' = fed /\ hist' = hist
        BY <1>6 DEF Truncate, tailing
    <2>3. Increasing(<<>>) /\ Range(<<>>) = {}
        BY DEF Increasing, Range
    <2>4. \A i \in Inodes : Increasing(disk'.data[i]) /\ \A u \in Range(disk'.data[i]) : u <= writer'.n
        BY <2>1, <2>2, <2>3 DEF Files
    <2>5. \A i \in Inodes \ hist'.used : Size(i)' = 0 /\ rec'.mem[i] = 0 /\ rec'.file[i] = 0
        BY <1>3, <2>1, <2>2
    <2>6. Above(writer.n + 1)'
        BY <2>2 DEF Files, Above, HeldUnits
    <2>7. {disk'.path, writer'.file, single'.file, single'.key} \subseteq hist'.used \cup {None}
        BY <1>3, <2>1, <2>2
    <2>. QED  BY <2>1, <2>4, <2>5, <2>6, <2>7, Zenon DEF Files
<1>7. CASE Exit \/ CloseAllFiles
    <2>1. disk' = disk /\ writer' = writer /\ single' = single /\ rec' = rec /\ fed' = fed
        BY <1>7 DEF Exit, CloseAllFiles, tailing
    <2>. QED  BY <1>3, <1>4, <2>1 DEF HeldUnits
<1>8. CASE Restart \/ Closed
    <2>1. disk' = disk /\ writer' = writer /\ single' = Off /\ fed' = fed
        BY <1>8 DEF Restart, Closed, Outside
    <2>2. HeldUnits' \subseteq HeldUnits
        BY <2>1 DEF HeldUnits, Off, Range
    <2>3. single'.file = None /\ single'.key = None
        BY <2>1 DEF Off
    <2>4. \A i \in Inodes \ hist.used : rec'.mem[i] = 0 /\ rec'.file[i] = 0
        BY <1>2, <1>3, <1>8 DEF Restart, Closed, NoPositions, Records, Keys
    <2>. QED  BY <1>4, <2>1, <2>2, <2>3, <2>4
<1>9. CASE Open \/ Key \/ Seek \/ Tick \/ ReadToEOFEnd \/ IsActive \/ Reopen
    <2>1. disk' = disk /\ writer' = writer /\ fed' = fed /\ rec' = rec
        BY <1>9, Zenon DEF Open, Key, Seek, Tick, ReadToEOFEnd, IsActive, Reopen, Outside
    <2>2. /\ single'.file \in {single.file, disk.path} /\ single'.key \in {single.key, disk.path}
          /\ single'.prev = single.prev /\ single'.buff = single.buff
        <3>1. CASE Open
            <4>1. single = Off
                BY <3>1 DEF Open, TypeInv, Phases
            <4>. QED  BY <3>1, <4>1 DEF Open, Off
        <3>2. CASE Key
            BY <3>2 DEF Key, TypeInv, Typed, Singles
        <3>3. CASE Seek
            BY <3>3 DEF Seek, TypeInv, Typed, Singles
        <3>4. CASE Tick \/ ReadToEOFEnd \/ IsActive
            BY <3>4, Zenon DEF Tick, ReadToEOFEnd, IsActive, Goto, TypeInv, Typed, Singles
        <3>5. CASE Reopen
            BY <3>5 DEF Reopen, TypeInv, Typed, Singles
        <3>. QED  BY <1>9, <3>1, <3>2, <3>3, <3>4, <3>5, Zenon
    <2>3. HeldUnits' \subseteq HeldUnits
        BY <2>1, <2>2 DEF HeldUnits
    <2>. QED  BY <1>3, <1>4, <2>1, <2>2, <2>3
<1>10. CASE ReadNone \/ Done
    <2>1. /\ disk' = disk /\ fed' = Cat(fed, single.buff) /\ rec' = rec /\ single'.file = single.file
          /\ single'.key = single.key /\ single'.prev = single.prev /\ single'.buff = <<>> /\ writer' = writer
        BY <1>10, Zenon DEF ReadNone, Done, FlushCache, Outside, Cat, TypeInv, Typed, Singles
    <2>2. Range(fed') = Range(fed) \cup Range(single.buff)
        BY <2>1, CatRange DEF TypeInv, Typed, Singles
    <2>3. Range(<<>>) = {}
        BY DEF Range
    <2>4. HeldUnits' \subseteq HeldUnits
        BY <2>1, <2>2, <2>3 DEF HeldUnits
    <2>. QED  BY <1>3, <1>4, <2>1, <2>4
<1>11. CASE Close
    <2>1. /\ disk' = disk /\ fed' = fed /\ single'.file = single.file /\ writer' = writer
          /\ single'.key = single.key /\ single'.prev = single.prev /\ single'.buff = single.buff
        BY <1>11 DEF Close, Goto, Outside, TypeInv, Typed, Singles
    <2>2. \/ rec' = rec
          \/ rec'.mem = [rec.mem EXCEPT ![single.key] = single.offset] /\ rec'.file = NoPositions
        BY <1>11 DEF Close
    <2>3. None \notin Inodes
        BY TailAssumption DEF None, TailAssumption
    <2>4. \A i \in Inodes \ hist.used : i # single.key
        BY <1>3, <2>3
    <2>5. \A i \in Inodes \ hist.used : rec'.mem[i] = 0 /\ rec'.file[i] = 0
        BY <1>2, <1>3, <2>2, <2>4 DEF NoPositions, Records, Keys
    <2>6. HeldUnits' \subseteq HeldUnits
        BY <2>1 DEF HeldUnits
    <2>. QED  BY <1>3, <1>4, <2>1, <2>5, <2>6
<1>12. ASSUME NEW l, ReadSome(l), single.pc # "off" PROVE Files'
    <2>1. PICK end \in Nat : \E new, o, b, p \in Seq(Units) : ReadUpTo(l, end, new, o, b, p)
        BY <1>12, ReadSomeIs, Zenon
    <2>2. PICK new, o, b, p \in Seq(Units) : ReadUpTo(l, end, new, o, b, p)
        BY <2>1
    <2>3. HeldUnits' = HeldUnits \cup Range(new) /\ single'.file = single.file /\ single'.key = single.key
        BY <2>2, HeldRead, Zenon
    <2>4. disk' = disk /\ writer' = writer /\ rec' = rec /\ hist' = hist
        BY <1>12, Zenon DEF ReadSome, Outside
    <2>5. PICK f \in Inodes, c \in Seq(Units), off \in Nat : f = single.file /\ c = disk.data[f] /\ off = single.offset
        BY <1>12 DEF TypeInv, Typed, Phases, Singles, Keys, Disks
    <2>6. off < end /\ end <= Len(c) /\ new = SubSeq(c, off + 1, end) /\ Increasing(c)
        BY <2>2, <2>5, Zenon DEF ReadUpTo, Size, Files
    <2>7. Range(new) \subseteq Range(c)
        BY <2>6, IncreasingPart
    <2>8. \A u \in Range(c) : u \in Nat /\ u <= writer.n
        BY <2>5, HeldIs, SMTT(40) DEF Files
    <2>9. Above(writer.n + 1)'
        <3>1. writer.n \in Nat /\ \A x \in HeldUnits : x < writer.n + 1
            BY TailAssumption DEF Files, Above, TypeInv, Typed, Writers, TailAssumption
        <3>. QED  BY <2>3, <2>4, <2>7, <2>8, <3>1 DEF Above
    <2>. QED  BY <2>3, <2>4, <2>9, ZenonT(40) DEF Files, Size, Exists
<1>13. CASE Read \/ ReadToEOF
    BY <1>12, <1>13 DEF Read, Reading, ReadToEOF
<1>. QED  BY <1>5, <1>6, <1>7, <1>8, <1>9, <1>10, <1>11, <1>13, FilesWrite, Zenon
             DEF Next, Environment, Single

\* A reader stays ahead when the file and what is held stay the same.
LEMMA AheadKept ==
    ASSUME NEW i, NEW o, Ahead(i, o), disk'.data[i] = disk.data[i], HeldUnits' \subseteq HeldUnits
    PROVE  Ahead(i, o)'
<1>1. Size(i)' = Size(i)
    BY DEF Size
<1>. QED  BY <1>1, Zenon DEF Ahead, Above

\* A reader for which the whole file is ahead may go on anywhere in it.
LEMMA AheadAll ==
    ASSUME TypeInv, NEW i \in Inodes, \A u \in Range(disk.data[i]) : Above(u) PROVE \A o : Ahead(i, o)
BY UnitAt, Zenon DEF Ahead

\* Writing keeps a reader ahead.
LEMMA AheadWrite ==
    ASSUME TypeInv, Files, Write, NEW i \in Inodes, NEW o \in Nat, Ahead(i, o) PROVE Ahead(i, o)'
<1>1. HeldUnits' = HeldUnits
    BY DEF Write, tailing, HeldUnits
<1>2. CASE i # writer.file
    <2>1. disk'.data[i] = disk.data[i]
        BY <1>2, WriteIs
    <2>. QED  BY <1>1, <2>1, AheadKept
<1>3. CASE i = writer.file
    <2>1. PICK c \in Seq(Units) : c = disk.data[i]
        BY DEF TypeInv, Typed, Disks
    <2>2. Size(i) = Len(c) /\ Len(c) \in Nat
        BY <2>1, SMTT(40) DEF Size
    <2>3. disk'.data[i] = Append(c, writer.n + 1) /\ Size(i)' = Len(c) + 1
        BY <1>3, <2>1, <2>2, WriteIs
    <2>. SUFFICES ASSUME NEW k \in 1..(Len(c) + 1), k > o \/ o > Len(c) + 1 PROVE Above(disk'.data[i][k])
        BY <1>1, <2>3, Zenon DEF Ahead, Above
    <2>4. CASE k = Len(c) + 1
        <3>1. disk'.data[i][k] = writer.n + 1
            BY <2>2, <2>3, <2>4
        <3>. QED  BY <3>1 DEF Files
    <2>5. CASE k # Len(c) + 1
        <3>1. k \in 1..Size(i) /\ (k > o \/ o > Size(i)) /\ disk'.data[i][k] = disk.data[i][k]
            BY <2>1, <2>2, <2>3, <2>5
        <3>. QED  BY <3>1, Zenon DEF Ahead
    <2>. QED  BY <2>4, <2>5
<1>. QED  BY <1>2, <1>3

\* Where a reader goes on after a step.
LEMMA AheadNow ==
    ASSUME NEW i, NEW o, Ahead(i, o)'
    PROVE  /\ i = disk'.path /\ o = rec'.mem[i] => Ahead(disk.path, rec.mem[disk.path])'
           /\ i = single'.file /\ o = rec'.mem[i] => Ahead(single.file, rec.mem[single.file])'
           /\ i = single'.file /\ o = single'.offset => Ahead(single.file, single.offset)'
BY Zenon DEF Ahead, Size

\* A step that moves neither the Single nor a position, nor names another file.
LEMMA ForwardKept ==
    ASSUME TypeInv, Forward, single' = single, rec' = rec, disk'.path = disk.path,
           \A i \in Inodes, o \in Nat : Ahead(i, o) => Ahead(i, o)'
    PROVE  Forward'
<1>1. /\ disk.path \in Keys /\ (single.pc # "off" => single.file \in Inodes)
      /\ (\A k \in Keys : rec.mem[k] \in Nat) /\ single.offset \in Nat
    BY DEF TypeInv, Typed, Disks, Singles, Records, Phases, Keys
<1>2. ASSUME single.pc \in {"off", "flush"}, Exists PROVE Ahead(disk.path, rec.mem[disk.path])'
    <2>1. PICK p \in Inodes, m \in Nat : p = disk.path /\ m = rec.mem[p]
        BY <1>1, <1>2 DEF Keys, Exists
    <2>2. Ahead(p, m)
        BY <1>2, <2>1, Zenon DEF Forward
    <2>. QED  BY <2>1, <2>2, AheadNow
<1>3. ASSUME single.pc \in {"key", "seek"} PROVE Ahead(single.file, rec.mem[single.file])'
    <2>1. PICK p \in Inodes, m \in Nat : p = single.file /\ m = rec.mem[p]
        BY <1>1, <1>3 DEF Keys
    <2>2. Ahead(p, m)
        BY <1>3, <2>1, Zenon DEF Forward
    <2>. QED  BY <2>1, <2>2, AheadNow
<1>4. ASSUME single.pc \notin {"off", "flush", "key", "seek"} PROVE Ahead(single.file, single.offset)'
    <2>1. PICK p \in Inodes, m \in Nat : p = single.file /\ m = single.offset
        BY <1>1, <1>4
    <2>2. Ahead(p, m)
        BY <1>4, <2>1, Zenon DEF Forward
    <2>. QED  BY <2>1, <2>2, AheadNow
<1>. QED  BY <1>2, <1>3, <1>4, Zenon DEF Forward, Exists

\* The order after a write.
LEMMA OrderedWrite ==
    ASSUME TypeInv, Files, Ordered, Write, ~hist'.astray PROVE Ordered'
<1>1. single' = single /\ rec' = rec /\ fed' = fed
    BY DEF Write, tailing
<1>2. HeldUnits' = HeldUnits /\ Held' = Held
    BY <1>1 DEF HeldUnits, Held
<1>3. /\ writer.file \in Inodes /\ disk'.path = disk.path /\ writer.n \in Nat
      /\ disk'.data[writer.file] = Append(disk.data[writer.file], writer.n + 1)
      /\ \A i \in Inodes \ {writer.file} : disk'.data[i] = disk.data[i]
    BY WriteIs
<1>4. /\ disk.path \in Keys /\ (single.pc # "off" => single.file \in Inodes) /\ single.offset \in Nat
    BY DEF TypeInv, Typed, Disks, Singles, Phases, Keys
<1>5. Exists => disk.path \in Inodes
    BY <1>4 DEF Exists, Keys
<1>6. \A i \in Inodes, o \in Nat : Ahead(i, o) => Ahead(i, o)'
    BY AheadWrite
<1>0. /\ writer.n + 1 \in Units
      /\ \A i \in Inodes : \A x \in Range(disk.data[i]) : x < writer.n + 1
    <2>1. writer.n \in Nat
        BY <1>3
    <2>2. writer.n + 1 \in Units
        BY <2>1, TailAssumption DEF Write, Units, TailAssumption
    <2>3. \A i \in Inodes : \A x \in Range(disk.data[i]) : x \in Nat /\ x <= writer.n
        BY HeldIs DEF Files
    <2>4. ASSUME NEW i \in Inodes, NEW x \in Range(disk.data[i]) PROVE x < writer.n + 1
        <3>1. x \in Nat /\ x <= writer.n
            BY <2>3, Zenon
        <3>. QED  BY <2>1, <3>1
    <2>. QED  BY <2>2, <2>4
<1>7. Forward'
    BY <1>1, <1>3, <1>6, ForwardKept DEF Ordered
<1>8. Later'
    <2>. SUFFICES ASSUME Exists, disk.path # single.file, single.pc \notin {"off", "flush"},
                         NEW u \in Range(disk'.data[disk.path])
         PROVE  Above(u) /\ \A v \in Range(disk'.data[single.file]) : v < u
        BY <1>1, <1>2, <1>3, Zenon DEF Later, Exists, Above
    <2>1. PICK p, f \in Inodes : p = disk.path /\ f = single.file
        BY <1>4, <1>5
    <2>2. CASE writer.file = p
        <3>1. disk'.data[f] = disk.data[f]
            BY <1>3, <2>1, <2>2
        <3>2. u \in Range(disk.data[p]) \/ u = writer.n + 1
            <4>1. PICK c \in Seq(Units) : c = disk.data[p] /\ Increasing(c)
                BY HeldIs DEF Files
            <4>2. writer.n + 1 \in Units /\ \A x \in Range(c) : x < writer.n + 1
                BY <1>0, <4>1
            <4>3. Range(Append(c, writer.n + 1)) = Range(c) \cup {writer.n + 1}
                BY <4>1, <4>2, IncreasingAppend
            <4>4. u \in Range(Append(c, writer.n + 1))
                BY <1>3, <2>1, <2>2, <4>1, Zenon
            <4>. QED  BY <4>1, <4>3, <4>4, Zenon
        <3>3. CASE u \in Range(disk.data[p])
            BY <2>1, <3>1, <3>3, Zenon DEF Ordered, Later
        <3>4. CASE u = writer.n + 1
            BY <1>0, <2>1, <3>1, <3>4, Zenon DEF Files
        <3>. QED  BY <3>2, <3>3, <3>4
    <2>3. CASE writer.file # p
        <3>1. Size(p) = 0 /\ disk'.data[p] = disk.data[p]
            BY <1>3, <2>1, <2>3 DEF Files
        <3>2. Range(disk.data[p]) = {}
            BY <3>1, UnitAt
        <3>. QED  BY <2>1, <3>1, <3>2
    <2>. QED  BY <2>2, <2>3
<1>9. Rotated'
    <2>. SUFFICES ASSUME single.pc \in {"eof", "reopen"}, single.did, disk.path = single.file
         PROVE  Size(single.file)' < single.offset
        BY <1>1, <1>3, Zenon DEF Rotated, Ordered
    <2>1. PICK f \in Inodes : f = single.file
        BY <1>4
    <2>2. Size(f) < single.offset /\ Size(f) \in Nat
        BY <2>1, HeldIs DEF Ordered, Rotated
    <2>3. Size(f)' < single.offset
        <3>1. CASE f = writer.file
            <4>1. Size(f) + 1 # single.offset
                BY <2>1, <3>1, Zenon DEF Write, Positions, TypeInv, Typed, Hists
            <4>2. Len(disk'.data[f]) = Size(f) + 1
                BY <3>1, WriteIs DEF Size
            <4>. QED  BY <1>4, <2>2, <4>1, <4>2 DEF Size
        <3>2. CASE f # writer.file
            BY <1>3, <2>2, <3>2 DEF Size
        <3>. QED  BY <3>1, <3>2
    <2>. QED  BY <1>1, <2>1, <2>3 DEF Size
<1>10. Saved'
    BY <1>1, <1>3, Zenon DEF Saved, Exists, Ordered
<1>. QED  BY <1>2, <1>7, <1>8, <1>9, <1>10, Zenon DEF Ordered

\* The order after the other changes of the files.
LEMMA OrderedFiles ==
    ASSUME TypeInv, Files, Ordered,
           Rename \/ Truncate \/ OpenLog \/ Expire \/ Exit \/ CloseAllFiles \/ \E i \in Inodes : Create(i)
    PROVE  Ordered'
<1>1. single' = single /\ rec' = rec /\ fed' = fed
    BY Zenon DEF Rename, Truncate, OpenLog, Expire, Exit, CloseAllFiles, Create, tailing
<1>2. HeldUnits' = HeldUnits /\ Held' = Held
    BY <1>1 DEF HeldUnits, Held
<1>3. /\ disk.path \in Keys /\ (single.pc # "off" => single.file \in Inodes) /\ single.offset \in Nat
      /\ \A k \in Keys : rec.mem[k] \in Nat
    BY DEF TypeInv, Typed, Disks, Singles, Phases, Keys, Records
<1>4. CASE OpenLog \/ Expire \/ Exit \/ CloseAllFiles
    <2>1. disk'.data = disk.data /\ disk'.path = disk.path
        BY <1>4 DEF OpenLog, Expire, Exit, CloseAllFiles, TypeInv, Typed, Disks
    <2>. QED  BY <1>1, <1>2, <2>1, Zenon DEF Ordered, Later, Forward, Rotated, Saved, Ahead, Above, Size, Exists
<1>5. CASE Rename
    <2>1. disk'.data = disk.data /\ disk'.path = None
        BY <1>5 DEF Rename, TypeInv, Typed, Disks
    <2>2. Later' /\ Saved'
        BY <2>1, Zenon DEF Later, Saved, Exists
    <2>3. Forward'
        BY <1>1, <1>2, <2>1, Zenon DEF Ordered, Forward, Exists, Ahead, Above, Size
    <2>4. Rotated'
        <3>1. single.pc \in {"eof", "reopen"} => disk'.path # single'.file
            BY <1>1, <2>1 DEF TypeInv, Phases
        <3>. QED  BY <1>1, <3>1, Zenon DEF Ordered, Rotated
    <2>. QED  BY <1>2, <2>2, <2>3, <2>4, Zenon DEF Ordered
<1>6. CASE \E i \in Inodes : Create(i)
    <2>1. PICK i \in Inodes \ hist.used : ~Exists /\ disk'.data = disk.data /\ disk'.path = i
        BY <1>6, Zenon DEF Create, TypeInv, Typed, Disks
    <2>2. Size(i) = 0 /\ rec.mem[i] = 0 /\ rec.file[i] = 0 /\ Range(disk.data[i]) = {}
        BY UnitAt DEF Files
    <2>3. single.file # i
        BY TailAssumption DEF Files, None, TailAssumption
    <2>4. Later'
        BY <2>1, <2>2, Zenon DEF Later
    <2>5. Saved'
        BY <1>1, <2>1, <2>2, Zenon DEF Saved
    <2>6. Rotated'
        BY <1>1, <2>1, <2>3, Zenon DEF Ordered, Rotated
    <2>7. Forward'
        <3>1. Ahead(disk.path, rec.mem[disk.path])'
            <4>1. Size(disk.path)' = 0
                BY <2>1, <2>2 DEF Size
            <4>. QED  BY <4>1 DEF Ahead
        <3>. QED  BY <1>1, <1>2, <2>1, <3>1, Zenon DEF Ordered, Forward, Ahead, Above, Size
    <2>. QED  BY <1>2, <2>4, <2>5, <2>6, <2>7, ZenonT(40) DEF Ordered
<1>7. CASE Truncate
    <2>1. /\ disk.path \in Inodes /\ disk'.path = disk.path /\ disk'.data[disk.path] = <<>>
          /\ \A i \in Inodes \ {disk.path} : disk'.data[i] = disk.data[i]
        BY <1>7, TruncateIs
    <2>2. Range(<<>>) = {}
        BY DEF Range
    <2>3. Later'
        BY <2>1, <2>2, Zenon DEF Later
    <2>4. Saved'
        BY <1>1, <2>1, Zenon DEF Ordered, Saved, Exists
    <2>5. \A i \in Inodes, o \in Nat : Ahead(i, o) => Ahead(i, o)'
        <3>. SUFFICES ASSUME NEW i \in Inodes, NEW o \in Nat, Ahead(i, o) PROVE Ahead(i, o)'
            OBVIOUS
        <3>1. CASE i = disk.path
            <4>1. Size(i)' = 0
                BY <2>1, <3>1, EmptySeq DEF Size
            <4>. QED  BY <4>1 DEF Ahead
        <3>2. CASE i # disk.path
            BY <1>2, <2>1, <3>2, AheadKept
        <3>. QED  BY <3>1, <3>2
    <2>6. Forward'
        BY <1>1, <2>1, <2>5, ForwardKept DEF Ordered
    <2>7. Rotated'
        <3>. SUFFICES ASSUME single.pc \in {"eof", "reopen"}, single.did, disk.path = single.file
             PROVE  Size(single.file)' < single.offset
            BY <1>1, <2>1, Zenon DEF Rotated, Ordered
        <3>1. PICK f \in Inodes : f = single.file
            BY <1>3
        <3>2. Size(f) < single.offset /\ Size(f) \in Nat
            BY <3>1, HeldIs DEF Ordered, Rotated
        <3>3. Len(disk'.data[f]) = 0
            BY <2>1, <3>1, EmptySeq
        <3>4. Size(single.file)' = 0
            BY <1>1, <3>1, <3>3 DEF Size
        <3>. QED  BY <1>3, <3>2, <3>4
    <2>. QED  BY <1>2, <2>3, <2>4, <2>6, <2>7, Zenon DEF Ordered
<1>. QED  BY <1>4, <1>5, <1>6, <1>7

\* The Single moves on in its file, and what it holds stays the same.
LEMMA OrderedMoves ==
    ASSUME TypeInv, Ordered, Key \/ ReadNone \/ Done \/ Tick \/ ReadToEOFEnd \/ IsActive PROVE Ordered'
<1>1. disk' = disk /\ rec' = rec
    BY Zenon DEF Key, ReadNone, Done, Tick, ReadToEOFEnd, IsActive, FlushCache, Outside
<1>2. single'.file = single.file /\ single'.offset = single.offset /\ single'.prev = single.prev
    BY Zenon DEF Key, ReadNone, Done, Tick, ReadToEOFEnd, IsActive, FlushCache, Goto, TypeInv, Typed, Singles
<1>3. HeldUnits' = HeldUnits /\ Held' = Held
    <2>1. CASE Key \/ Tick \/ ReadToEOFEnd \/ IsActive
        <3>1. fed' = fed /\ single'.buff = single.buff
            BY <2>1, Zenon DEF Key, Tick, ReadToEOFEnd, IsActive, Goto, TypeInv, Typed, Singles
        <3>. QED  BY <1>2, <3>1 DEF Held, HeldUnits
    <2>2. CASE ReadNone \/ Done
        <3>1. PICK f, b, e \in Seq(Units) : f = fed /\ b = single.buff /\ e = <<>>
            BY HeldIs, EmptySeq, Zenon
        <3>2. fed' = Cat(f, b) /\ single'.buff = e
            BY <2>2, <3>1, Zenon DEF ReadNone, Done, FlushCache, Cat, TypeInv, Typed, Singles
        <3>3. Cat(Cat(f, b), e) = Cat(f, b)
            BY <3>1, ConcatEmptySeq DEF Cat
        <3>4. Range(Cat(f, b)) = Range(f) \cup Range(b) /\ Range(e) = {}
            <4>1. Range(Cat(f, b)) = Range(f) \cup Range(b)
                BY CatRange
            <4>2. Range(e) = {}
                BY <3>1 DEF Range
            <4>. QED  BY <4>1, <4>2
        <3>5. HeldUnits' = HeldUnits
            BY <1>2, <3>1, <3>2, <3>4 DEF HeldUnits
        <3>. QED  BY <1>2, <3>1, <3>2, <3>3, <3>5, Zenon DEF Held
    <2>. QED  BY <2>1, <2>2
<1>4. /\ single.pc \notin {"off", "flush"} /\ single'.pc \notin {"off", "flush"}
      /\ single.pc = "key" => single'.pc = "seek"
      /\ single.pc # "key" => single.pc # "seek" /\ single'.pc \notin {"key", "seek"}
    BY Zenon DEF Key, ReadNone, Reading, Done, Tick, ReadToEOFEnd, IsActive, FlushCache, Goto, TypeInv, Typed, Singles
<1>5. Later'
    BY <1>1, <1>2, <1>3, <1>4, Zenon DEF Ordered, Later, Above, Exists
<1>6. Forward'
    <2>1. single'.pc \in {"key", "seek"} => single.pc \in {"key", "seek"}
        BY <1>4
    <2>2. single'.pc \notin {"off", "flush", "key", "seek"} => single.pc \notin {"off", "flush", "key", "seek"}
        BY <1>4
    <2>. QED  BY <1>1, <1>2, <1>3, <1>4, <2>1, <2>2, Zenon DEF Ordered, Forward, Ahead, Above, Size
<1>7. Rotated'
    <2>1. CASE Key \/ ReadNone \/ Done \/ IsActive
        <3>1. single'.pc \notin {"eof", "reopen"}
            BY <2>1, Zenon DEF Key, ReadNone, Done, IsActive, FlushCache, Goto, TypeInv, Typed, Singles
        <3>. QED  BY <3>1, Zenon DEF Rotated
    <2>2. CASE Tick
        <3>1. single'.pc # "reopen" /\ (single'.did <=> DidRotate)
            BY <2>2, Zenon DEF Tick, TypeInv, Typed, Singles
        <3>. QED  BY <1>1, <1>2, <3>1, Zenon DEF Rotated, DidRotate, Size
    <2>3. CASE ReadToEOFEnd
        <3>1. single'.did = single.did /\ single.pc = "eof" /\ (single'.pc = "reopen" => single.did)
              /\ single'.pc # "eof"
            BY <2>3 DEF ReadToEOFEnd, Goto, TypeInv, Typed, Singles
        <3>. QED  BY <1>1, <1>2, <3>1, Zenon DEF Ordered, Rotated, Size
    <2>. QED  BY <2>1, <2>2, <2>3
<1>8. Saved'
    BY <1>1, <1>2, <1>4, Zenon DEF Ordered, Saved, Exists
<1>. QED  BY <1>3, <1>5, <1>6, <1>7, <1>8, Zenon DEF Ordered

\* A new Single goes on where the recorder says.
LEMMA OrderedOpen == ASSUME TypeInv, Ordered, Open PROVE Ordered'
<1>1. disk' = disk /\ rec' = rec /\ fed' = fed /\ single = Off /\ Exists
    BY DEF Open, Outside, TypeInv, Phases, Active
<1>2. /\ single'.pc = "key" /\ single'.file = disk.path /\ single'.prev = single.prev
      /\ single'.buff = single.buff /\ single.pc = "off"
    BY <1>1 DEF Open, Off
<1>3. HeldUnits' = HeldUnits /\ Held' = Held
    BY <1>1, <1>2 DEF Held, HeldUnits
<1>4. Later' /\ Rotated'
    BY <1>1, <1>2 DEF Later, Rotated
<1>5. Saved'
    BY <1>1, <1>2 DEF Ordered, Saved, Exists
<1>6. Ahead(single.file, rec.mem[single.file])'
    BY <1>1, <1>2, <1>3, Zenon DEF Ordered, Forward, Ahead, Above, Size
<1>7. Forward'
    BY <1>2, <1>6 DEF Forward
<1>. QED  BY <1>3, <1>4, <1>5, <1>7, Zenon DEF Ordered

\* seekOffset goes to the recorded position or, when that is none of the
\* file's, anywhere in a file that is ahead as a whole.
LEMMA OrderedSeek == ASSUME TypeInv, Ordered, Seek, ~hist'.astray PROVE Ordered'
<1>1. disk' = disk /\ rec' = rec /\ fed' = fed
    BY DEF Seek, Outside
<1>2. /\ single'.pc = "loop" /\ single'.file = single.file /\ single'.prev = single.prev
      /\ single'.buff = single.buff /\ single.pc = "seek"
    BY DEF Seek, TypeInv, Typed, Singles
<1>3. HeldUnits' = HeldUnits /\ Held' = Held
    BY <1>1, <1>2 DEF Held, HeldUnits
<1>4. PICK f \in Inodes, m \in Nat : f = single.file /\ m = rec.mem[f] /\ single.key = f
    <2>1. single.key = single.file
        BY Zenon DEF Seek, TypeInv, Typed, Hists
    <2>. QED  BY <1>2, <2>1 DEF TypeInv, Typed, Singles, Records, Phases, Keys
<1>5. Later' /\ Rotated'
    BY <1>1, <1>2, <1>3 DEF Ordered, Later, Rotated, Exists, Above
<1>6. Saved'
    BY <1>1, <1>2 DEF Ordered, Saved, Exists
<1>7. Ahead(f, m)
    BY <1>2, <1>4, Zenon DEF Ordered, Forward
<1>8. Size(f) \in Nat
    BY HeldIs
<1>9. PICK o \in Nat : o = single'.offset /\ (o = m \/ ~(0 < m /\ m <= Size(f)))
    BY <1>4, <1>8 DEF Seek, TypeInv, Typed, Singles
<1>10. Ahead(f, o)
    <2>1. CASE o = m
        BY <1>7, <2>1
    <2>2. CASE ~(0 < m /\ m <= Size(f))
        <3>1. \A k \in 1..Size(f) : k > m \/ m > Size(f)
            BY <1>8, <2>2
        <3>. QED  BY <1>7, <3>1, Zenon DEF Ahead
    <2>. QED  BY <1>9, <2>1, <2>2
<1>11. Ahead(f, o)'
    BY <1>1, <1>3, <1>10, AheadKept
<1>12. Ahead(single.file, single.offset)'
    BY <1>2, <1>4, <1>9, <1>11, AheadNow
<1>13. Forward'
    BY <1>2, <1>12 DEF Forward
<1>. QED  BY <1>3, <1>5, <1>6, <1>13, Zenon DEF Ordered

\* reopen begins another file, or the same one that has been truncated.
LEMMA OrderedReopen == ASSUME TypeInv, Ordered, Reopen PROVE Ordered'
<1>1. disk' = disk /\ rec' = rec /\ fed' = fed /\ single.pc = "reopen"
    BY DEF Reopen, Outside
<1>2. single'.prev = single.prev /\ single'.buff = single.buff
    BY DEF Reopen, TypeInv, Typed, Singles
<1>3. HeldUnits' = HeldUnits /\ Held' = Held
    BY <1>1, <1>2 DEF Held, HeldUnits
<1>4. PICK f \in Inodes, o \in Nat : f = single.file /\ o = single.offset
    BY <1>1 DEF TypeInv, Typed, Singles, Phases, Keys
<1>5. Ahead(f, o)
    BY <1>1, <1>4 DEF Ordered, Forward
<1>6. CASE Exists
    <2>1. single'.pc = "rekey" /\ single'.file = disk.path /\ single'.offset = 0
        BY <1>6 DEF Reopen, TypeInv, Typed, Singles
    <2>2. PICK p \in Inodes : p = disk.path
        BY <1>6 DEF Exists, TypeInv, Typed, Disks, Keys
    <2>3. Ahead(p, 0)
        <3>1. CASE p = f
            <4>1. Size(f) < o /\ Size(f) \in Nat
                BY <1>1, <1>4, <2>2, <3>1, HeldIs DEF Ordered, Rotated
            <4>. QED  BY <1>5, <3>1, <4>1 DEF Ahead
        <3>2. CASE p # f
            <4>1. \A u \in Range(disk.data[p]) : Above(u)
                BY <1>1, <1>4, <1>6, <2>2, <3>2 DEF Ordered, Later
            <4>. QED  BY <4>1, AheadAll
        <3>. QED  BY <3>1, <3>2
    <2>4. Ahead(p, 0)'
        BY <1>1, <1>3, <2>3, AheadKept
    <2>5. Ahead(single.file, single.offset)'
        BY <2>1, <2>2, <2>4, AheadNow
    <2>6. Forward' /\ Later' /\ Rotated'
        BY <1>1, <2>1, <2>5 DEF Forward, Later, Rotated
    <2>7. Saved'
        BY <1>1, <2>1 DEF Ordered, Saved, Exists
    <2>. QED  BY <1>3, <2>6, <2>7, Zenon DEF Ordered
<1>7. CASE ~Exists
    <2>1. single'.pc = "close" /\ single'.file = single.file /\ single'.offset = single.offset
        BY <1>7 DEF Reopen, TypeInv, Typed, Singles
    <2>2. Ahead(f, o)'
        BY <1>1, <1>3, <1>5, AheadKept
    <2>3. Ahead(single.file, single.offset)'
        BY <1>4, <2>1, <2>2, AheadNow
    <2>4. Forward' /\ Later' /\ Rotated' /\ Saved'
        BY <1>1, <1>7, <2>1, <2>3 DEF Forward, Later, Rotated, Saved, Exists
    <2>. QED  BY <1>3, <2>4, Zenon DEF Ordered
<1>. QED  BY <1>6, <1>7

\* Close records the Single's position; a file that has come to the path
\* meanwhile is ahead as a whole.
LEMMA OrderedClose == ASSUME TypeInv, Ordered, Close, ~hist'.astray PROVE Ordered'
<1>1. disk' = disk /\ fed' = fed /\ single.pc = "close"
    BY DEF Close, Outside
<1>2. /\ single'.prev = single.prev /\ single'.buff = single.buff /\ single'.pc = "flush"
      /\ single'.offset = single.offset /\ single'.file = single.file
    BY DEF Close, Goto, TypeInv, Typed, Singles
<1>3. HeldUnits' = HeldUnits /\ Held' = Held
    BY <1>1, <1>2 DEF Held, HeldUnits
<1>4. PICK f \in Inodes, o \in Nat : f = single.file /\ o = single.offset
    BY <1>1 DEF TypeInv, Typed, Singles, Phases, Keys
<1>5. Ahead(f, o)
    BY <1>1, <1>4 DEF Ordered, Forward
<1>6. Later' /\ Rotated'
    BY <1>2 DEF Later, Rotated
<1>7. Saved'
    <2>. SUFFICES ASSUME Exists, ~(o > 0) PROVE rec' = rec /\ rec.file[disk.path] = rec.mem[disk.path]
        BY <1>1, <1>2, <1>4, Zenon DEF Saved, Exists
    <2>. QED  BY <1>1, <1>4 DEF Close, Ordered, Saved
<1>8. ASSUME Exists PROVE Ahead(disk.path, rec.mem[disk.path])'
    <2>0. PICK p \in Inodes : p = disk.path
        BY <1>8 DEF Exists, TypeInv, Typed, Disks, Keys
    <2>1. PICK m : p = disk.path /\ m = rec'.mem[p]
        BY <2>0
    <2>2. Ahead(p, m)
        <3>1. CASE p # f
            <4>1. \A u \in Range(disk.data[p]) : Above(u)
                BY <1>1, <1>4, <1>8, <2>1, <3>1 DEF Ordered, Later
            <4>. QED  BY <4>1, AheadAll
        <3>2. CASE p = f /\ o > 0
            <4>1. single.key = single.file
                BY <1>4, <3>2, Zenon DEF Close, TypeInv, Typed, Hists
            <4>2. rec'.mem = [rec.mem EXCEPT ![f] = o]
                BY <1>4, <3>2, <4>1 DEF Close
            <4>3. m = o
                BY <2>1, <3>2, <4>2 DEF TypeInv, Typed, Records, Keys
            <4>. QED  BY <1>5, <3>2, <4>3
        <3>3. CASE p = f /\ o = 0
            <4>1. Size(f) \in Nat
                BY HeldIs
            <4>2. \A k \in 1..Size(f) : k > o
                BY <3>3, <4>1
            <4>. QED  BY <1>5, <3>3, <4>2, Zenon DEF Ahead
        <3>. QED  BY <3>1, <3>2, <3>3
    <2>3. Ahead(p, m)'
        BY <1>1, <1>3, <2>2, AheadKept
    <2>. QED  BY <1>1, <2>1, <2>3, AheadNow
<1>9. Forward'
    BY <1>1, <1>2, <1>8 DEF Forward, Exists
<1>. QED  BY <1>3, <1>6, <1>7, <1>9, Zenon DEF Ordered

\* The Single has ended, or the process has, after its Single.
LEMMA OrderedEnd == ASSUME TypeInv, Ordered, Closed \/ (Restart /\ ~hist'.crashed) PROVE Ordered'
<1>1. disk' = disk /\ fed' = fed /\ single' = Off /\ single.pc \in {"off", "flush"}
    <2>1. CASE Closed
        BY <2>1 DEF Closed, Outside
    <2>2. CASE Restart /\ ~hist'.crashed
        <3>1. single.pc = "off"
            BY <2>2, Zenon DEF Restart, TypeInv, Typed, Hists
        <3>. QED  BY <2>2, <3>1 DEF Restart
    <2>. QED  BY <2>1, <2>2
<1>2. single'.pc = "off" /\ single'.buff = <<>> /\ single'.prev = <<>>
    BY <1>1 DEF Off
<1>3. HeldUnits' \subseteq HeldUnits
    BY <1>1, <1>2 DEF HeldUnits, Range
<1>4. Increasing(Held)'
    <2>1. PICK f, b, p, e \in Seq(Units) : f = fed /\ b = single.buff /\ p = single.prev /\ e = <<>>
        BY HeldIs, EmptySeq, Zenon
    <2>2. Increasing(Cat(Cat(f, b), p))
        BY <2>1, Zenon DEF Ordered, Held
    <2>3. Cat(f, b) \in Seq(Units)
        BY CatRange
    <2>4. Increasing(f)
        BY <2>2, <2>3, IncreasingFirst
    <2>5. Cat(f, e) = f
        BY <2>1, ConcatEmptySeq DEF Cat
    <2>6. Cat(Cat(f, e), e) = f
        BY <2>5, Zenon
    <2>7. Held' = f
        BY <1>1, <1>2, <2>1, <2>6, Zenon DEF Held
    <2>. QED  BY <2>4, <2>7, Zenon DEF Increasing
<1>5. Exists => rec'.mem[disk.path] = rec.mem[disk.path] /\ rec'.file[disk.path] = rec.mem[disk.path]
    <2>1. CASE Closed
        BY <2>1 DEF Closed, Ordered, Saved, TypeInv, Typed, Records
    <2>2. CASE Restart /\ ~hist'.crashed
        <3>1. single.pc = "off"
            BY <2>2, Zenon DEF Restart, TypeInv, Typed, Hists
        <3>. QED  BY <2>2, <3>1 DEF Restart, Ordered, Saved, TypeInv, Typed, Records
    <2>. QED  BY <2>1, <2>2
<1>6. Saved'
    BY <1>1, <1>5, Zenon DEF Saved, Exists
<1>7. Later' /\ Rotated'
    BY <1>2 DEF Later, Rotated
<1>8. ASSUME Exists PROVE Ahead(disk.path, rec.mem[disk.path])'
    <2>0. PICK p \in Inodes : p = disk.path
        BY <1>8 DEF Exists, TypeInv, Typed, Disks, Keys
    <2>1. PICK m : p = disk.path /\ m = rec.mem[p]
        BY <2>0
    <2>2. Ahead(p, m)
        BY <1>1, <1>8, <2>1, Zenon DEF Ordered, Forward
    <2>3. Ahead(p, m)'
        BY <1>1, <1>3, <2>2, AheadKept
    <2>. QED  BY <1>1, <1>5, <1>8, <2>1, <2>3, AheadNow
<1>9. Forward'
    BY <1>1, <1>2, <1>8 DEF Forward, Exists
<1>. QED  BY <1>4, <1>6, <1>7, <1>9, Zenon DEF Ordered

\* readOnce reads on from where it is, and everything else stays ahead.
LEMMA OrderedRead ==
    ASSUME TypeInv, Files, Ordered, NEW l \in {"loop", "eof"}, ReadSome(l),
           single.pc \in {"loop", "read", "eof"}, l = "eof" => single.pc = "eof"
    PROVE  Ordered'
<1>1. PICK end \in Nat : \E new, o, b, p \in Seq(Units) : ReadUpTo(l, end, new, o, b, p)
    BY ReadSomeIs, Zenon
<1>2. PICK new, o, b, p \in Seq(Units) : ReadUpTo(l, end, new, o, b, p)
    BY <1>1
<1>3. /\ Held' = Cat(Held, new) /\ HeldUnits' = HeldUnits \cup Range(new)
      /\ single'.file = single.file /\ single'.offset = end /\ single'.pc = l /\ single'.did = single.did
    BY <1>2, HeldRead, SMTT(40)
<1>4. disk' = disk /\ rec' = rec
    BY Zenon DEF ReadSome, Outside
<1>5. PICK f \in Inodes, c \in Seq(Units), off \in Nat : f = single.file /\ c = disk.data[f] /\ off = single.offset
    BY DEF TypeInv, Typed, Phases, Singles, Keys, Disks
<1>6. off < end /\ end <= Len(c) /\ new = SubSeq(c, off + 1, end) /\ Increasing(c) /\ Size(f) = Len(c)
    BY <1>2, <1>5, Zenon DEF ReadUpTo, Size, Files
<1>7. /\ Increasing(new) /\ Range(new) \subseteq Range(c)
      /\ \A k \in 1..Len(c) : k > end => \A x \in Range(new) : x < c[k]
      /\ \A x \in Range(new) : \E k \in 1..Len(c) : k > off /\ x = c[k]
    <2>1. off < end /\ end <= Len(c) /\ Increasing(c)
        BY <1>6
    <2>. QED  BY <1>6, <2>1, IncreasingPart, Zenon
<1>8. Ahead(f, off)
    BY <1>5 DEF Ordered, Forward
<1>9. \A k \in 1..Len(c) : k > off => Above(c[k])
    BY <1>5, <1>6, <1>8, Zenon DEF Ahead
<1>10. Increasing(Held)'
    <2>1. \A x \in HeldUnits, y \in Range(new) : x < y
        BY <1>7, <1>9, Zenon DEF Above
    <2>2. Held \in Seq(Units) /\ Range(Held) = HeldUnits /\ Increasing(Held)
        BY HeldIs DEF Ordered
    <2>3. Increasing(Cat(Held, new))
        BY <1>7, <2>1, <2>2, IncreasingCat, Zenon
    <2>. QED  BY <1>3, <2>3, Zenon DEF Increasing
<1>11. Later'
    <2>. SUFFICES ASSUME Exists, disk.path # f, NEW u \in Range(disk.data[disk.path])
         PROVE  (\A x \in HeldUnits \cup Range(new) : x < u) /\ \A v \in Range(c) : v < u
        BY <1>3, <1>4, <1>5, Zenon DEF Later, Exists, Above
    <2>1. Above(u) /\ \A v \in Range(c) : v < u
        BY <1>5 DEF Ordered, Later
    <2>. QED  BY <1>7, <2>1, Zenon DEF Above
<1>12. Forward'
    <2>1. Ahead(f, end)'
        <3>. SUFFICES ASSUME NEW k \in 1..Len(c), k > end \/ end > Len(c)
             PROVE  \A x \in HeldUnits \cup Range(new) : x < c[k]
            BY <1>3, <1>4, <1>5, <1>6, Zenon DEF Ahead, Above, Size
        <3>1. k > end /\ k > off
            BY <1>6
        <3>. QED  BY <1>7, <1>9, <3>1, Zenon DEF Above
    <2>2. Ahead(single.file, single.offset)'
        BY <1>3, <1>5, <2>1, AheadNow
    <2>. QED  BY <1>3, <2>2 DEF Forward
<1>13. Rotated'
    <2>. SUFFICES ASSUME l = "eof", single.did, disk.path = f PROVE FALSE
        BY <1>3, <1>4, <1>5, Zenon DEF Rotated
    <2>1. Size(f) < off
        BY <1>5 DEF Ordered, Rotated
    <2>. QED  BY <1>6, <2>1
<1>14. Saved'
    BY <1>3, <1>4 DEF Ordered, Saved, Exists
<1>. QED  BY <1>10, <1>11, <1>12, <1>13, <1>14, Zenon DEF Ordered

\* The order is kept by every step.
LEMMA OrderStep == ASSUME TypeInv, OrderInv, [Next]_vars PROVE OrderInv'
<1>1. CASE Next
    <2>1. Files'
        BY <1>1, FilesStep DEF OrderInv
    <2>2. ASSUME ~hist'.crashed, ~hist'.astray PROVE Ordered'
        <3>1. Files /\ Ordered
            BY <1>1, <2>2, HistStep DEF OrderInv
        <3>2. CASE Read
            BY <3>1, <3>2, OrderedRead DEF Read, Reading
        <3>3. CASE ReadToEOF
            BY <3>1, <3>3, OrderedRead DEF ReadToEOF
        <3>. QED  BY <1>1, <2>2, <3>1, <3>2, <3>3, OrderedWrite, OrderedFiles, OrderedMoves, OrderedOpen,
                     OrderedSeek, OrderedReopen, OrderedClose, OrderedEnd, Zenon
                  DEF Next, Environment, Single
    <2>. QED  BY <2>1, <2>2 DEF OrderInv
<1>2. CASE UNCHANGED vars
    BY <1>2, ZenonT(40) DEF vars, OrderInv, Files, Ordered, Later, Forward, Rotated, Saved, Held, HeldUnits,
           Increasing, Ahead, Above, Size, Exists
<1>. QED  BY <1>1, <1>2

\* It holds when nothing has been written.
LEMMA OrderInit == Init => OrderInv
<1>. SUFFICES ASSUME Init PROVE OrderInv
    OBVIOUS
<1>1. \A i \in Inodes : disk.data[i] = <<>> /\ Size(i) = 0
    BY EmptySeq DEF Init, Size
<1>2. Increasing(<<>>) /\ Range(<<>>) = {}
    BY DEF Increasing, Range
<1>3. fed = <<>> /\ single = Off /\ single.buff = <<>> /\ single.prev = <<>> /\ single.pc = "off"
    BY DEF Init, Off
<1>4. HeldUnits = {}
    BY <1>2, <1>3 DEF HeldUnits
<1>5. Increasing(Held)
    <2>1. <<>> \o <<>> = <<>>
        OBVIOUS
    <2>2. Held = <<>>
        BY <1>3, <2>1, Zenon DEF Held, Cat
    <2>. QED  BY <1>2, <2>2, Zenon
<1>6. Files
    <2>1. \A i \in Inodes : Increasing(disk.data[i]) /\ \A u \in Range(disk.data[i]) : u <= writer.n
        BY <1>1, <1>2
    <2>2. {disk.path, writer.file, single.file, single.key} \subseteq hist.used \cup {None}
        BY DEF Init, Off
    <2>3. \A i \in Inodes : rec.mem[i] = 0 /\ rec.file[i] = 0
        BY DEF Init, NoPositions, Keys
    <2>4. ~Exists
        BY SMTT(40) DEF Init, Exists
    <2>. QED  BY <1>1, <1>4, <2>1, <2>2, <2>3, <2>4, Zenon DEF Files, Above
<1>7. Later /\ Forward /\ Rotated /\ Saved
    BY <1>3, Zenon DEF Later, Forward, Rotated, Saved, Init, Exists
<1>. QED  BY <1>5, <1>6, <1>7, Zenon DEF OrderInv, Ordered

\* What is fed comes in the order of the log and nothing is fed twice, however
\* often the file is rotated or truncated, a Single ends and another one begins
\* at the recorded position, or Datakit exits and starts again.
THEOREM InLogOrder == Spec => []FedInOrder
<1>1. TypeInv /\ OrderInv => FedInOrder
    <2>. SUFFICES ASSUME TypeInv, OrderInv, ~hist.crashed, ~hist.astray PROVE Increasing(fed)
        BY Zenon DEF FedInOrder, Increasing
    <2>1. PICK f, b, p \in Seq(Units) : f = fed /\ b = single.buff /\ p = single.prev
        BY HeldIs
    <2>2. Increasing(Cat(Cat(f, b), p))
        BY <2>1, Zenon DEF OrderInv, Ordered, Held
    <2>3. Cat(f, b) \in Seq(Units)
        BY CatRange
    <2>4. Increasing(f)
        BY <2>2, <2>3, IncreasingFirst
    <2>. QED  BY <2>1, <2>4
<1>2. Init => OrderInv
    BY OrderInit
<1>3. TypeInv /\ OrderInv /\ [Next]_vars => OrderInv'
    BY OrderStep
<1>. QED  BY <1>1, <1>2, <1>3, TypesHold, PTL DEF Spec

=============================================================================

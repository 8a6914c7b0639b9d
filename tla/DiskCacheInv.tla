---------------------------- MODULE DiskCacheInv ----------------------------
(***************************************************************************)
(* The inductive invariant of DiskCache, for any records, sizes, failing   *)
(* writes and crashes; what it rests on (files, their numbers, what one    *)
(* side leaves alone); that the steps of Put, rotate, Get and Restart keep *)
(* it; and what follows: no record that Put accepted gets lost, and Get    *)
(* hands them out in the order of the puts.                                *)
(***************************************************************************)
EXTENDS DiskCache, WellFoundedInduction, TLAPS

\* The leaves of the proofs go to Zenon, which is quick on first-order and set
\* reasoning; those that need arithmetic, sequences or records name SMT.
USE Zenon

\* A cache opened as dataway opens its queues: full, it refuses new data.
Refuses == \A o \in Options : o.filoDrop

\* The buffer of BufGet holds every record that Put accepts.
BufferSuffices == \A r \in Records : TooLarge(r) \/ LenOf[r] <= BufLen

----------------------------------------------------------------------------
(* The inductive invariant *)

\* The last cell of the record whose header is cell h.
LastCell(c, h) == h + LenOf[c[h].rec]

\* The first g cells of a file are records, one after the other.
Prefix(c, g) ==
    /\ g \in 0..Len(c)
    /\ \A i \in 1..g :
        \/ c[i].kind = "hdr" /\ Complete(c, i) /\ LastCell(c, i) <= g
        \/ c[i].kind = "pay" /\ \E h \in 1..(i - 1) :
                                    c[h].kind = "hdr" /\ i <= LastCell(c, h)

\* No record begins at or before cell b and ends behind it.
Boundary(c, b) == \A h \in DOMAIN c : h <= b /\ c[h].kind = "hdr" => LastCell(c, h) <= b

\* Headers and payloads are those of records that Put accepts.
Fit(c) ==
    /\ c \in Seq(Cells)
    /\ \A i \in DOMAIN c : c[i].kind # "eof" =>
            c[i].rec \in Records /\ LenOf[c[i].rec] <= BufLen

\* Every variable but size has its type.
Typed ==
    /\ data \in Seq(Cells) /\ DOMAIN files \subseteq Nat
    /\ \A n \in DOMAIN files : files[n] \in Seq(Cells)
    /\ dataFiles \subseteq Nat /\ curReadfile \in Nat \cup {NoName}
    /\ rfd \in [name : Nat \cup {NoName}, off : Nat]
    /\ pos \in [name : Nat \cup {NoName}, seek : Int]
    /\ posFile \in [name : Nat \cup {NoName}, seek : Int]
    /\ curBatchSize \in Nat
    /\ wlock \in Procs \cup {Free} /\ rwlock \in Procs \cup {Free}
    /\ pc \in [Procs -> PutLabels \cup GetLabels]
    /\ pc["put"] \in PutLabels /\ pc["get"] \in GetLabels
    /\ rec \in Records \cup {NoRecord} /\ nbytes \in Nat
    /\ item \in Records \cup {NoRecord} /\ restarts \in 0..MaxRestarts
    /\ opt \in Options
    /\ tried \subseteq Records /\ put \in Seq(Records)
    /\ got \in Seq(Records \cup {NoRecord}) /\ dropped \subseteq Records
    /\ torn \in BOOLEAN /\ exposed \subseteq Records

\* Who works on the write file holds wlock; nothing is ever dropped.
Locked ==
    /\ pc["put"] # "idle" => wlock = "put" /\ rec \in Records
    /\ pc["get"] \in {"rotate", "rename"} => wlock = "get"
    /\ pc["put"] # "drop"
    /\ pc["put"] = "data" => LenOf[rec] <= BufLen

\* A file that ends with an EOF cell.
Ended(c) == Len(c) > 0 /\ c[Len(c)] = EOFHint

\* Cells of the write file that are not a header or an EOF just written.
Settled ==
    IF pc["put"] = "data" \/ \E q \in Procs : pc[q] = "rename"
    THEN Len(data) - 1 ELSE Len(data)

\* Cell i of the write file is the header of the record being written.
Pending(i) == pc["put"] = "data" /\ i = Len(data)

\* The write file: records, then what a failed write or a crash left, and
\* behind that only records at risk.
WriteFile ==
    /\ Fit(data)
    /\ pc["put"] = "data" => Len(data) > 0 /\ data[Len(data)] = Hdr(rec)
    /\ \E g \in 0..Len(data) :
        /\ Prefix(data, g)
        /\ torn \/ g = Settled
        /\ \A i \in (g + 1)..Len(data) :
            Complete(data, i) => Pending(i) \/ data[i].rec \in exposed

\* Where the record begins that Get reads or has just handed out.
Base ==
    CASE pc["get"] = "payload"               -> rfd.off - 1
      [] pc["get"] \in {"callback", "commit"} -> rfd.off - 1 - nbytes
      [] OTHER                               -> rfd.off

\* The reader is at a boundary of the sound part of its file, and .pos too;
\* or both are behind that part.
InStep(c, g) ==
    /\ Base \in Nat
    /\ Base <= g => Boundary(c, Base)
    /\ pos.seek = Base \/ (pos.seek >= g /\ Base >= g)
    /\ Base < g /\ pc["get"] \in {"payload", "callback", "commit"} =>
            nbytes = LenOf[c[Base + 1].rec]
    /\ Base < g /\ pc["get"] = "callback" => item = c[Base + 1].rec
    /\ pc["get"] \in {"callback", "commit"} => rfd.off <= Len(c)
    /\ pc["get"] = "callback" => item = Content(c, Base + 1, nbytes)
    /\ pc["get"] = "remove" => rfd.off >= g

\* All records of file n are at risk.
AtRisk(n) == RecordsFrom(files[n], 0) \subseteq exposed

\* A rotated file: like the write file, and the reader is in step with it.
ReadFile(n) ==
    /\ Fit(files[n])
    /\ \E g \in 0..Len(files[n]) :
        /\ Prefix(files[n], g)
        /\ RecordsFrom(files[n], g) \subseteq exposed
        /\ n = rfd.name => InStep(files[n], g)

\* The read list and the directory, and the file that is read.
Listed ==
    /\ \E b \in Nat : dataFiles \cup DOMAIN files \subseteq 0..b
    /\ \A n \in DOMAIN files : n \notin dataFiles \/ n < curReadfile => AtRisk(n)
    /\ curReadfile # NoName => curReadfile \in dataFiles
    /\ rfd.name # NoName =>
        /\ rfd.name = curReadfile /\ rfd.name \in DOMAIN files
        /\ posFile = pos /\ pos.name = rfd.name
    /\ rfd.name = NoName =>
        /\ curReadfile \notin DOMAIN files
        /\ pc["get"] # "reset" => posFile.seek <= 0
    /\ posFile.name = NoName => posFile.seek <= 0
    /\ pc["get"] \in {"header", "payload", "callback", "commit"} => rfd.name # NoName
    /\ pc["get"] = "remove" => curReadfile # NoName
    /\ pc["get"] \in {"reset", "switch"} => rfd.name = NoName /\ curReadfile = NoName

Inv ==
    /\ Typed /\ Locked /\ WriteFile /\ Listed
    /\ \A n \in DOMAIN files : ReadFile(n)
    /\ NoRecordLost

\* Record r was put before record s.
Before(r, s) == \E i, j \in DOMAIN put : i < j /\ put[i] = r /\ put[j] = s

\* Put is given every record once; the one it writes is not in put yet.
PutOnce ==
    /\ IsInjective(put) /\ Range(put) \subseteq tried
    /\ pc["put"] # "idle" => rec \in tried
    /\ pc["put"] \in {"header", "data"} => rec \notin Range(put)

\* Where the records of a file begin, and those of the write file that count.
Starts(c) == {i \in DOMAIN c : Complete(c, i)}
Written   == {i \in Starts(data) : ~Pending(i)}

\* Unless one of them is at risk, r was put before s.
Sorted(r, s) == r \in exposed \/ s \in exposed \/ Before(r, s)

\* Files hold records in the order of the puts, within and across files.
Ordered ==
    /\ PutOnce
    /\ \A i \in Written : data[i].rec \in Range(put)
    /\ \A n \in DOMAIN files : \A i \in Starts(files[n]) : files[n][i].rec \in Range(put)
    /\ \A i, j \in Written : i < j => Sorted(data[i].rec, data[j].rec)
    /\ \A n \in DOMAIN files : \A i, j \in Starts(files[n]) :
        i < j => Sorted(files[n][i].rec, files[n][j].rec)
    /\ \A n \in DOMAIN files : \A i \in Starts(files[n]), j \in Written :
        Sorted(files[n][i].rec, data[j].rec)
    /\ \A n, m \in DOMAIN files : n < m =>
        \A i \in Starts(files[n]), j \in Starts(files[m]) : Sorted(files[n][i].rec, files[m][j].rec)

\* Whenever a record is handed out, the ones put before it have been.
HandedOut ==
    /\ Range(got) \subseteq Range(put) \cup {NoRecord} /\ dropped = {}
    /\ \A i, j \in DOMAIN put : i < j /\ put[i] \notin exposed /\ put[j] \notin exposed =>
        \A k \in DOMAIN got : got[k] = put[j] => \E l \in 1..(k - 1) : got[l] = put[i]

\* How often Get handed out r.
Times(r) == Cardinality({i \in DOMAIN got : got[i] = r})

\* A record that can still be read was handed out at most once per restart.
Redelivered ==
    \A r \in Range(put) \ exposed :
        Times(r) <= restarts + (IF r \in Reachable THEN 0 ELSE 1)

----------------------------------------------------------------------------
(* Files *)

\* The constants that the proofs use.
LEMMA Constants ==
    /\ NoRecord \notin Records /\ LenOf \in [Records -> Nat]
    /\ BufLen \in Nat /\ GarbageLens \subseteq Nat /\ MaxRestarts \in Nat
BY DiskCacheAssumption DEF DiskCacheAssumption

\* One sequence behind the other.
LEMMA Joined ==
    ASSUME NEW S, NEW s \in Seq(S), NEW t \in Seq(S)
    PROVE  /\ s \o t \in Seq(S) /\ Len(s \o t) = Len(s) + Len(t)
           /\ \A i \in 1..(Len(s) + Len(t)) : (s \o t)[i] = IF i <= Len(s) THEN s[i] ELSE t[i - Len(s)]
BY SMT

\* Files go, and the others stay as they are.
Fewer == DOMAIN files' \subseteq DOMAIN files /\ \A n \in DOMAIN files' : files'[n] = files[n]

\* The EOF is a cell.
LEMMA EOFCell == EOFHint \in Cells /\ EOFHint.kind = "eof"
BY SMT DEF Cells, EOFHint

\* A handle moved to another offset.
LEMMA Seeks ==
    ASSUME NEW r \in [name : Nat \cup {NoName}, off : Nat], NEW k \in Nat
    PROVE  /\ [r EXCEPT !.off = k] \in [name : Nat \cup {NoName}, off : Nat]
           /\ [r EXCEPT !.off = k].name = r.name /\ [r EXCEPT !.off = k].off = k
OBVIOUS

\* File f goes.
LEMMA RestrictFewer ==
    ASSUME NEW f, files' = Restrict(files, DOMAIN files \ {f})
    PROVE  Fewer /\ DOMAIN files' = DOMAIN files \ {f}
BY DEF Restrict, Fewer

\* What Fit says of one cell.
LEMMA FitCell ==
    ASSUME NEW c, Fit(c), NEW i \in DOMAIN c
    PROVE  /\ Len(c) \in Nat /\ DOMAIN c = 1..Len(c) /\ i \in 1..Len(c)
           /\ c[i] \in Cells
           /\ c[i].kind \in {"hdr", "pay", "eof"}
           /\ c[i].kind # "eof" =>
                /\ c[i].rec \in Records /\ LenOf[c[i].rec] \in Nat
                /\ LenOf[c[i].rec] <= BufLen
                /\ LastCell(c, i) = i + LenOf[c[i].rec] /\ LastCell(c, i) \in Nat
<1>1. /\ Len(c) \in Nat /\ DOMAIN c = 1..Len(c) /\ i \in 1..Len(c) /\ c[i] \in Cells
    BY SMT DEF Fit
<1>2. c[i].kind \in {"hdr", "pay", "eof"}
    BY <1>1 DEF Cells
<1>3. ASSUME c[i].kind # "eof"
      PROVE  c[i].rec \in Records /\ LenOf[c[i].rec] \in Nat /\ LenOf[c[i].rec] <= BufLen
    BY <1>3, Constants DEF Fit
<1>. QED  BY <1>1, <1>2, <1>3, SMT DEF LastCell

\* A complete record, cell by cell.
LEMMA CompleteIs ==
    ASSUME NEW c, Fit(c), NEW i \in DOMAIN c
    PROVE  Complete(c, i) <=>
            /\ c[i].kind = "hdr" /\ LastCell(c, i) <= Len(c)
            /\ \A k \in (i + 1)..LastCell(c, i) : c[k] = Pay(c[i].rec)
<1>. SUFFICES ASSUME c[i].kind = "hdr", LastCell(c, i) <= Len(c)
     PROVE  SubSeq(c, i + 1, LastCell(c, i)) = Payload(c[i].rec, LenOf[c[i].rec])
                <=> \A k \in (i + 1)..LastCell(c, i) : c[k] = Pay(c[i].rec)
    BY FitCell DEF Complete, LastCell
<1>1. PICK n \in Nat : n = LenOf[c[i].rec] /\ LastCell(c, i) = i + n
    BY FitCell
<1>2. i \in Nat /\ i >= 1 /\ i + n <= Len(c) /\ Len(c) \in Nat /\ c \in Seq(Cells)
    BY <1>1, FitCell, SMT DEF Fit
<1>3. PICK x : x = Pay(c[i].rec)
    OBVIOUS
<1>4. Payload(c[i].rec, n) = [k \in 1..n |-> x]
    BY <1>3 DEF Payload
<1>5. PICK a \in Int : a = i + 1
    BY <1>2, SMT
<1>6. PICK b \in Int : b = i + n
    BY <1>2, SMT
<1>7. PICK t : t = SubSeq(c, a, b)
    OBVIOUS
<1>8. t = [k \in 1..n |-> t[k]] /\ \A k \in 1..n : t[k] = c[i + k]
    <2>1. \A k \in a..b : c[k] \in Cells
        BY <1>2, <1>5, <1>6, SMT
    <2>2. /\ SubSeq(c, a, b) \in Seq(Cells)
          /\ Len(SubSeq(c, a, b)) = IF a <= b THEN b-a+1 ELSE 0
          /\ \A k \in 1..b-a+1 : SubSeq(c, a, b)[k] = c[a+k-1]
        BY ONLY <2>1, SMT
    <2>3. b-a+1 = n /\ (IF a <= b THEN b-a+1 ELSE 0) = n
        BY <1>2, <1>5, <1>6, SMT
    <2>4. \A k \in 1..n : a+k-1 = i + k
        BY <1>2, <1>5, SMT
    <2>5. t \in Seq(Cells) /\ Len(t) = n
        BY ONLY <1>7, <2>2, <2>3, Zenon
    <2>6. \A k \in 1..n : t[k] = c[a+k-1]
        BY ONLY <1>7, <2>2, <2>3, Zenon
    <2>7. \A k \in 1..n : t[k] = c[i + k]
        BY ONLY <2>4, <2>6, Zenon
    <2>. QED  BY ONLY <2>5, <2>7, SMT
<1>9. (t = [k \in 1..n |-> x]) <=> \A k \in 1..n : c[i + k] = x
    BY <1>8
<1>10. (\A k \in 1..n : c[i + k] = x) <=> \A k \in (i + 1)..(i + n) : c[k] = x
    <2>1. ASSUME \A k \in 1..n : c[i + k] = x, NEW k \in (i + 1)..(i + n) PROVE c[k] = x
        <3>1. k - i \in 1..n /\ i + (k - i) = k
            BY <1>2, SMT
        <3>. QED  BY <2>1, <3>1
    <2>2. ASSUME \A k \in (i + 1)..(i + n) : c[k] = x, NEW k \in 1..n PROVE c[i + k] = x
        <3>1. i + k \in (i + 1)..(i + n)
            BY <1>2, SMT
        <3>. QED  BY <2>2, <3>1
    <2>. QED  BY <2>1, <2>2
<1>. QED  BY <1>1, <1>3, <1>4, <1>5, <1>6, <1>7, <1>9, <1>10

\* File d is file c, and possibly more.
Extends(c, d) == Fit(c) /\ Fit(d) /\ Len(c) <= Len(d) /\ \A i \in DOMAIN c : d[i] = c[i]

\* What Extends says of a cell of the shorter file.
LEMMA ExtendsCell ==
    ASSUME NEW c, NEW d, Extends(c, d), NEW i \in DOMAIN c
    PROVE  /\ Fit(c) /\ Fit(d) /\ i \in DOMAIN d /\ d[i] = c[i]
           /\ Len(c) \in Nat /\ Len(d) \in Nat /\ Len(c) <= Len(d) /\ i \in 1..Len(c)
           /\ DOMAIN c = 1..Len(c) /\ DOMAIN d = 1..Len(d)
           /\ LastCell(d, i) = LastCell(c, i)
BY SMT DEF Extends, Fit, LastCell

\* A record that is complete stays so when the file grows.
LEMMA StillComplete ==
    ASSUME NEW c, NEW d, Extends(c, d), NEW i \in DOMAIN c, Complete(c, i)
    PROVE  Complete(d, i)
<1>1. /\ c[i].kind = "hdr" /\ LastCell(c, i) <= Len(c)
      /\ \A k \in (i + 1)..LastCell(c, i) : c[k] = Pay(c[i].rec)
    BY ExtendsCell, CompleteIs
<1>2. LastCell(c, i) \in Nat
    BY <1>1, ExtendsCell, FitCell
<1>3. \A k \in (i + 1)..LastCell(c, i) : k \in DOMAIN c /\ d[k] = c[k]
    BY <1>1, <1>2, ExtendsCell, SMT
<1>4. /\ d[i].kind = "hdr" /\ LastCell(d, i) <= Len(d)
      /\ \A k \in (i + 1)..LastCell(d, i) : d[k] = Pay(d[i].rec)
    BY <1>1, <1>2, <1>3, ExtendsCell, SMT
<1>. QED  BY <1>4, ExtendsCell, CompleteIs

\* A header or an EOF behind a record keeps it from being completed later.
LEMMA NotCompletedLater ==
    ASSUME NEW c, NEW d, Extends(c, d), NEW i \in DOMAIN c, Complete(d, i),
           NEW k \in DOMAIN d, i < k, k <= Len(c) + 1, d[k].kind # "pay"
    PROVE  Complete(c, i)
<1>1. /\ d[i].kind = "hdr" /\ LastCell(d, i) <= Len(d)
      /\ \A j \in (i + 1)..LastCell(d, i) : d[j] = Pay(d[i].rec)
    BY ExtendsCell, CompleteIs
<1>2. LastCell(d, i) \in Nat
    BY <1>1, ExtendsCell, FitCell
<1>3. \A j \in (i + 1)..LastCell(d, i) : d[j].kind = "pay"
    BY <1>1, SMT DEF Pay
<1>4. k \in Nat /\ k > LastCell(d, i) /\ LastCell(d, i) <= Len(c)
    BY <1>2, <1>3, ExtendsCell, SMT
<1>5. \A j \in (i + 1)..LastCell(d, i) : j \in DOMAIN c /\ d[j] = c[j]
    BY <1>2, <1>4, ExtendsCell, SMT
<1>6. /\ c[i].kind = "hdr" /\ LastCell(c, i) <= Len(c)
      /\ \A j \in (i + 1)..LastCell(c, i) : c[j] = Pay(c[i].rec)
    BY <1>1, <1>4, <1>5, ExtendsCell, SMT
<1>. QED  BY <1>6, ExtendsCell, CompleteIs

\* The sound part of a file stays so when it grows.
LEMMA PrefixExtends ==
    ASSUME NEW c, NEW d, Extends(c, d), NEW g, Prefix(c, g)
    PROVE  Prefix(d, g)
<1>1. /\ Len(c) \in Nat /\ Len(d) \in Nat /\ Len(c) <= Len(d) /\ g \in 0..Len(c)
      /\ DOMAIN c = 1..Len(c) /\ DOMAIN d = 1..Len(d)
    BY SMT DEF Extends, Fit, Prefix
<1>2. \A i \in 1..g : i \in DOMAIN c /\ \A h \in 1..(i - 1) : h \in DOMAIN c
    BY <1>1, SMT
<1>3. ASSUME NEW i \in 1..g
      PROVE  \/ d[i].kind = "hdr" /\ Complete(d, i) /\ LastCell(d, i) <= g
             \/ d[i].kind = "pay" /\ \E h \in 1..(i - 1) :
                                         d[h].kind = "hdr" /\ i <= LastCell(d, h)
    <2>1. CASE c[i].kind = "hdr" /\ Complete(c, i) /\ LastCell(c, i) <= g
        BY <1>2, <2>1, ExtendsCell, StillComplete, SMT
    <2>2. CASE c[i].kind = "pay" /\ \E h \in 1..(i - 1) :
                                         c[h].kind = "hdr" /\ i <= LastCell(c, h)
        BY <1>2, <2>2, ExtendsCell
    <2>. QED  BY <2>1, <2>2 DEF Prefix
<1>. QED  BY <1>1, <1>3, SMT DEF Prefix

\* The records of a file stay in it when it grows.
LEMMA RecordsExtend ==
    ASSUME NEW c, NEW d, Extends(c, d), NEW o
    PROVE  RecordsFrom(c, o) \subseteq RecordsFrom(d, o)
BY ExtendsCell, StillComplete, SMT DEF RecordsFrom

\* A cell is appended.
LEMMA AppendExtends ==
    ASSUME NEW c, Fit(c), NEW x \in Cells,
           x.kind # "eof" => x.rec \in Records /\ LenOf[x.rec] <= BufLen
    PROVE  /\ Extends(c, Append(c, x)) /\ Fit(Append(c, x)) /\ Len(Append(c, x)) = Len(c) + 1
           /\ DOMAIN Append(c, x) = 1..(Len(c) + 1) /\ Append(c, x)[Len(c) + 1] = x
           /\ Len(c) \in Nat /\ DOMAIN c = 1..Len(c)
<1>1. PICK d : d = Append(c, x)
    OBVIOUS
<1>2. /\ d \in Seq(Cells) /\ Len(d) = Len(c) + 1 /\ Len(c) \in Nat
      /\ DOMAIN d = 1..(Len(c) + 1) /\ DOMAIN c = 1..Len(c)
      /\ \A i \in 1..Len(c) : d[i] = c[i]
      /\ d[Len(c) + 1] = x
    BY <1>1, SMT DEF Fit
<1>3. Fit(d)
    <2>1. ASSUME NEW i \in DOMAIN d, d[i].kind # "eof"
          PROVE  d[i].rec \in Records /\ LenOf[d[i].rec] <= BufLen
        <3>1. CASE i = Len(c) + 1
            BY <1>2, <2>1, <3>1
        <3>2. CASE i \in 1..Len(c)
            BY <1>2, <2>1, <3>2 DEF Fit
        <3>. QED  BY <1>2, <3>1, <3>2, SMT
    <2>. QED  BY <1>2, <2>1 DEF Fit
<1>. QED  BY <1>1, <1>2, <1>3, SMT DEF Extends

\* Payload is appended.
LEMMA PayloadExtends ==
    ASSUME NEW c, Fit(c), NEW r \in Records, LenOf[r] <= BufLen, NEW n \in Nat
    PROVE  /\ Extends(c, c \o Payload(r, n)) /\ Fit(c \o Payload(r, n))
           /\ Len(c \o Payload(r, n)) = Len(c) + n
           /\ DOMAIN (c \o Payload(r, n)) = 1..(Len(c) + n)
           /\ \A k \in (Len(c) + 1)..(Len(c) + n) : (c \o Payload(r, n))[k] = Pay(r)
           /\ Len(c) \in Nat /\ DOMAIN c = 1..Len(c)
<1>1. PICK x : x = Pay(r)
    OBVIOUS
<1>2. x \in Cells /\ x.kind = "pay" /\ x.rec = r
    BY <1>1 DEF Pay, Cells
<1>3. PICK t : t = Payload(r, n)
    OBVIOUS
<1>4. t \in Seq(Cells) /\ Len(t) = n /\ \A k \in 1..n : t[k] = x
    BY <1>1, <1>2, <1>3, SMT DEF Payload
<1>5. PICK d : d = c \o t
    OBVIOUS
<1>6. /\ d \in Seq(Cells) /\ Len(c) \in Nat /\ Len(d) = Len(c) + n
      /\ DOMAIN d = 1..(Len(c) + n) /\ DOMAIN c = 1..Len(c)
      /\ \A i \in 1..Len(c) : d[i] = c[i]
    <2>1. c \in Seq(Cells)
        BY DEF Fit
    <2>2. d \in Seq(Cells) /\ Len(d) = Len(c) + n
        BY ONLY <1>4, <1>5, <2>1, Joined, Zenon
    <2>3. Len(c) \in Nat /\ DOMAIN c = 1..Len(c) /\ DOMAIN d = 1..(Len(c) + n)
        BY ONLY <2>1, <2>2, SMT
    <2>4. \A i \in 1..Len(c) : d[i] = c[i]
        BY ONLY <1>4, <1>5, <2>1, <2>3, SMT
    <2>. QED  BY <2>2, <2>3, <2>4
<1>7. \A k \in (Len(c) + 1)..(Len(c) + n) : d[k] = x
    <2>1. ASSUME NEW k \in (Len(c) + 1)..(Len(c) + n) PROVE d[k] = x
        <3>1. d[k] = t[k - Len(c)] /\ k - Len(c) \in 1..n
            BY <1>4, <1>5, <1>6, SMT DEF Fit
        <3>. QED  BY <1>4, <3>1
    <2>. QED  BY <2>1
<1>8. Fit(d)
    <2>1. ASSUME NEW i \in DOMAIN d, d[i].kind # "eof"
          PROVE  d[i].rec \in Records /\ LenOf[d[i].rec] <= BufLen
        <3>1. CASE i \in (Len(c) + 1)..(Len(c) + n)
            BY <1>2, <1>7, <3>1
        <3>2. CASE i \in 1..Len(c)
            BY <1>6, <2>1, <3>2 DEF Fit
        <3>. QED  BY <1>6, <3>1, <3>2, SMT
    <2>. QED  BY <1>6, <2>1 DEF Fit
<1>. QED  BY <1>1, <1>3, <1>5, <1>6, <1>7, <1>8, SMT DEF Extends

\* The sound part of a file ends at a boundary.
LEMMA PrefixBoundary ==
    ASSUME NEW c, Fit(c), NEW g, Prefix(c, g) PROVE Boundary(c, g)
<1>1. Len(c) \in Nat /\ g \in 0..Len(c) /\ DOMAIN c = 1..Len(c)
    BY SMT DEF Fit, Prefix
<1>2. ASSUME NEW h \in DOMAIN c, h <= g, c[h].kind = "hdr" PROVE LastCell(c, h) <= g
    <2>1. h \in 1..g
        BY <1>1, <1>2, SMT
    <2>. QED  BY <1>2, <2>1 DEF Prefix
<1>. QED  BY <1>2 DEF Boundary

\* At a boundary of the sound part a complete record begins, which ends at the
\* next boundary, and no other record begins in between.
LEMMA AtBoundary ==
    ASSUME NEW c, Fit(c), NEW g, Prefix(c, g), NEW b \in Nat, b < g, Boundary(c, b)
    PROVE  /\ b + 1 \in DOMAIN c /\ c[b + 1].kind = "hdr" /\ Complete(c, b + 1)
           /\ LastCell(c, b + 1) \in Nat /\ LastCell(c, b + 1) <= g
           /\ b + 1 <= LastCell(c, b + 1)
           /\ Boundary(c, LastCell(c, b + 1))
           /\ \A i \in DOMAIN c : i > b /\ Complete(c, i) =>
                i = b + 1 \/ i > LastCell(c, b + 1)
<1>1. Len(c) \in Nat /\ g \in 0..Len(c) /\ DOMAIN c = 1..Len(c) /\ b + 1 \in 1..g
    BY SMT DEF Fit, Prefix
<1>2. c[b + 1].kind = "hdr" /\ Complete(c, b + 1) /\ LastCell(c, b + 1) <= g
    <2>1. SUFFICES ASSUME NEW h \in 1..((b + 1) - 1), c[h].kind = "hdr", b + 1 <= LastCell(c, h)
                   PROVE  FALSE
        BY <1>1 DEF Prefix
    <2>2. h \in DOMAIN c /\ h <= b
        BY <1>1, SMT
    <2>3. LastCell(c, h) \in Nat /\ LastCell(c, h) <= b
        BY <2>1, <2>2, FitCell DEF Boundary
    <2>. QED  BY <2>1, <2>3, SMT
<1>3. PICK l \in Nat : l = LastCell(c, b + 1) /\ b + 1 <= l
    BY <1>1, <1>2, FitCell, SMT
<1>4. \A k \in (b + 2)..l : c[k].kind = "pay"
    <2>1. \A k \in ((b + 1) + 1)..l : c[k] = Pay(c[b + 1].rec)
        BY <1>1, <1>2, <1>3, CompleteIs, SMT
    <2>. QED  BY <2>1, SMT DEF Pay
<1>5. Boundary(c, l)
    <2>1. ASSUME NEW h \in DOMAIN c, h <= l, c[h].kind = "hdr" PROVE LastCell(c, h) <= l
        <3>1. LastCell(c, h) \in Nat
            BY <2>1, FitCell
        <3>2. CASE h <= b
            <4>1. LastCell(c, h) <= b
                BY <2>1, <3>2 DEF Boundary
            <4>. QED  BY <1>3, <3>1, <4>1, SMT
        <3>3. CASE h = b + 1
            BY <1>3, <3>3, SMT
        <3>4. CASE h > b + 1
            <4>1. h \in (b + 2)..l
                BY <1>1, <2>1, <3>4, SMT
            <4>. QED  BY <1>4, <2>1, <4>1
        <3>. QED  BY <1>1, <3>2, <3>3, <3>4, SMT
    <2>. QED  BY <2>1 DEF Boundary
<1>6. ASSUME NEW i \in DOMAIN c, i > b, Complete(c, i) PROVE i = b + 1 \/ i > l
    <2>1. c[i].kind = "hdr"
        BY <1>6 DEF Complete
    <2>. QED  BY <1>1, <1>4, <1>6, <2>1, SMT
<1>. QED  BY <1>1, <1>2, <1>3, <1>5, <1>6, SMT

----------------------------------------------------------------------------
(* Numbers of files *)

\* A set of numbers that is not empty has a least element.
LEMMA LeastOf ==
    ASSUME NEW T, T \subseteq Nat, T # {}
    PROVE  Min(T) \in T /\ \A y \in T : Min(T) <= y
<1>1. PICK x \in T : \A y \in T : ~(<<y, x>> \in OpToRel(<, Nat))
    BY WFMin, NatLessThanWellFounded, Zenon
<1>2. \A y \in T : x <= y
    <2>1. ASSUME NEW y \in T PROVE x <= y
        <3>1. y \in Nat /\ x \in Nat /\ <<y, x>> \notin OpToRel(<, Nat)
            BY <1>1
        <3>2. ~(y < x)
            BY <3>1 DEF OpToRel
        <3>3. y \in Nat /\ x \in Nat
            OBVIOUS
        <3>. QED  BY <3>2, <3>3, SMT
    <2>. QED  BY <2>1
<1>. QED  BY <1>2 DEF Min

\* And a greatest one, if it is bounded.
LEMMA GreatestOf ==
    ASSUME NEW T, NEW b \in Nat, T \subseteq 0..b, T # {}
    PROVE  Max(T) \in T /\ \A y \in T : Max(T) >= y
<1>. DEFINE U == {b - y : y \in T}
<1>1. U \subseteq Nat /\ U # {}
    <2>1. \A y \in T : b - y \in Nat /\ b - y \in U
        BY SMT
    <2>. QED  BY <2>1
<1>2. Min(U) \in U /\ \A u \in U : Min(U) <= u
    <2>. HIDE DEF U
    <2>. QED  BY <1>1, LeastOf
<1>3. PICK x \in T : Min(U) = b - x
    BY <1>2
<1>4. \A y \in T : b - x <= b - y
    BY <1>2, <1>3
<1>5. \A y \in T : x >= y
    BY <1>4, SMT
<1>. QED  BY <1>5 DEF Max

\* A rotated file gets a number above all in the list.
LEMMA NewFileIs ==
    ASSUME NEW b \in Nat, dataFiles \subseteq 0..b
    PROVE  /\ NewFile \in 0..(b + 1) /\ \A n \in dataFiles : n < NewFile
           /\ dataFiles = {} => NewFile = 0
<1>1. CASE dataFiles = {}
    BY <1>1, SMT DEF NewFile
<1>2. CASE dataFiles # {}
    <2>1. Max(dataFiles) \in dataFiles /\ \A y \in dataFiles : Max(dataFiles) >= y
        BY <1>2, GreatestOf
    <2>2. PICK m \in 0..b : m = Max(dataFiles)
        BY <2>1
    <2>3. NewFile = m + 1
        BY <1>2, <2>2 DEF NewFile
    <2>. QED  BY <1>2, <2>1, <2>2, <2>3, SMT
<1>. QED  BY <1>1, <1>2

----------------------------------------------------------------------------
(* What one side leaves alone *)

ReaderSame ==
    /\ UNCHANGED <<files, posFile, dataFiles, curReadfile, rfd, pos, nbytes, item>>

\* Labels of Get that say nothing of the file being read.
Neutral == {"idle", "wakeup", "rotate", "rename", "start", "retry"}

SameStage == pc'["get"] = pc["get"] \/ {pc["get"], pc'["get"]} \subseteq Neutral

\* Where Get is does not depend on the label it is at then.
LEMMA SameBase ==
    ASSUME ReaderSame, SameStage PROVE Base' = Base /\ ReadOff' = ReadOff
<1>1. CASE pc'["get"] = pc["get"]
    BY <1>1 DEF ReaderSame, Base, ReadOff
<1>2. CASE {pc["get"], pc'["get"]} \subseteq Neutral
    <2>1. Base = rfd.off /\ ReadOff = rfd.off
        BY <1>2 DEF Neutral, Base, ReadOff
    <2>2. Base' = rfd'.off /\ ReadOff' = rfd'.off
        BY <1>2 DEF Neutral, Base, ReadOff
    <2>. QED  BY <2>1, <2>2 DEF ReaderSame
<1>. QED  BY <1>1, <1>2 DEF SameStage

\* A step of the other side leaves the reader in step.
LEMMA ReaderKept ==
    ASSUME Inv, ReaderSame, SameStage, exposed \subseteq exposed'
    PROVE  Listed' /\ \A n \in DOMAIN files' : ReadFile(n)'
<1>1. Listed'
    <2>1. \A n \in DOMAIN files : AtRisk(n) => AtRisk(n)'
        BY DEF ReaderSame, AtRisk
    <2>2. Listed /\ UNCHANGED <<files, posFile, dataFiles, curReadfile, rfd, pos>>
        BY DEF Inv, ReaderSame
    <2>3. pc'["get"] = pc["get"] \/ (pc["get"] \in Neutral /\ pc'["get"] \in Neutral)
        BY DEF SameStage
    <2>. QED  BY <2>1, <2>2, <2>3 DEF Listed, Neutral
<1>2. ASSUME NEW n \in DOMAIN files' PROVE ReadFile(n)'
    <2>1. n \in DOMAIN files /\ ReadFile(n) /\ UNCHANGED <<files, rfd, pos, nbytes, item>>
        BY DEF Inv, ReaderSame
    <2>2. ASSUME NEW c, NEW g, InStep(c, g) PROVE InStep(c, g)'
        <3>1. CASE pc'["get"] = pc["get"]
            BY <2>1, <2>2, <3>1, SameBase DEF InStep
        <3>2. CASE pc'["get"] \in Neutral
            BY <2>1, <2>2, <3>2, SameBase DEF InStep, Neutral
        <3>. QED  BY <3>1, <3>2 DEF SameStage
    <2>. QED  BY <2>1, <2>2 DEF ReadFile
<1>. QED  BY <1>1, <1>2

\* Nothing is lost when the write file keeps its records, what is put is in
\* it, and the reader stays where it is.
LEMMA LostKept ==
    ASSUME NoRecordLost, ReaderSame, SameStage, exposed \subseteq exposed',
           UNCHANGED <<got, dropped>>,
           RecordsFrom(data, 0) \subseteq RecordsFrom(data', 0),
           Range(put') \subseteq Range(put) \cup RecordsFrom(data', 0)
    PROVE  NoRecordLost'
<1>1. Reachable \subseteq Reachable'
    BY SameBase, SMT DEF ReaderSame, Reachable
<1>2. RecordsFrom(data', 0) \subseteq Reachable'
    BY DEF Reachable
<1>. QED  BY <1>1, <1>2 DEF NoRecordLost

WriterSame ==
    UNCHANGED <<data, rec, torn, wlock>> /\ pc'["put"] = pc["put"]

\* A step of the reader leaves the write file as it is.
LEMMA WriterKept ==
    ASSUME Inv, WriterSame, exposed \subseteq exposed',
           pc["get"] \notin {"rotate", "rename"}, pc'["get"] \notin {"rotate", "rename"}
    PROVE  Locked' /\ WriteFile'
<1>1. Locked'
    BY DEF Inv, WriterSame, Locked
<1>2. Settled' = Settled /\ \A i : Pending(i)' = Pending(i)
    BY DEF WriterSame, Settled, Pending, Procs
<1>3. WriteFile'
    BY <1>2 DEF Inv, WriterSame, WriteFile
<1>. QED  BY <1>1, <1>3

----------------------------------------------------------------------------
(* Put *)

\* One process goes on, the other stays where it is.
LEMMA GotoIs ==
    ASSUME Typed, NEW p \in Procs, NEW l, Goto(p, l),
           l \in IF p = "put" THEN PutLabels ELSE GetLabels
    PROVE  /\ pc'[p] = l /\ \A q \in Procs : q # p => pc'[q] = pc[q]
           /\ pc' \in [Procs -> PutLabels \cup GetLabels]
           /\ pc'["put"] \in PutLabels /\ pc'["get"] \in GetLabels
<1>1. pc \in [Procs -> PutLabels \cup GetLabels] /\ pc["put"] \in PutLabels /\ pc["get"] \in GetLabels
    BY DEF Typed
<1>2. pc' = [pc EXCEPT ![p] = l] /\ l \in PutLabels \cup GetLabels
    BY DEF Goto
<1>. QED  BY <1>1, <1>2 DEF Procs

\* A Put that is refused, and a step of somebody else.
LEMMA StutterKeeps == ASSUME Inv, UNCHANGED vars PROVE Inv'
<1>1. UNCHANGED <<disk, mem, locks, pc, locals, run, history>>
    BY DEF vars
<1>2. Typed' /\ Locked'
    BY <1>1, SMT DEF disk, mem, locks, locals, run, history, Inv, Typed, Locked
<1>3. WriteFile'
    BY <1>1 DEF disk, locals, history, Inv, WriteFile, Settled, Pending
<1>4. ReaderSame /\ SameStage /\ UNCHANGED <<data, torn, exposed, put, got, dropped>>
    BY <1>1 DEF ReaderSame, SameStage, disk, mem, locals, history
<1>5. NoRecordLost'
    BY <1>4, LostKept DEF Inv
<1>. QED  BY <1>2, <1>3, <1>4, <1>5, ReaderKept DEF Inv

\* Put locks the write file, or refuses.
LEMMA PutBeginKeeps ==
    ASSUME Inv, Refuses, NEW r \in Records, PutBegin(r) PROVE Inv'
<1>1. opt.filoDrop
    BY DEF Inv, Typed, Refuses
<1>2. CASE UNCHANGED vars
    BY <1>2, StutterKeeps
<1>3. CASE ~Full(r)
    <2>1. /\ pc["put"] = "idle" /\ wlock = Free /\ wlock' = "put" /\ rec' = r
          /\ tried' = tried \cup {r} /\ Goto("put", "header")
          /\ UNCHANGED <<disk, mem, rwlock, nbytes, item, run, put, got, dropped, torn, exposed>>
        BY <1>3 DEF PutBegin
    <2>2. /\ pc'["put"] = "header" /\ pc'["get"] = pc["get"]
          /\ pc' \in [Procs -> PutLabels \cup GetLabels]
          /\ pc'["put"] \in PutLabels /\ pc'["get"] \in GetLabels
        BY <2>1, GotoIs DEF Inv, Procs, PutLabels
    <2>3. Typed'
        BY <2>1, <2>2 DEF Inv, Typed, disk, mem, run, Procs
    <2>4. Locked'
        BY <2>1, <2>2 DEF Inv, Locked, Free
    <2>5. ReaderSame /\ SameStage /\ UNCHANGED <<data, torn, exposed, put, got, dropped>>
        BY <2>1, <2>2 DEF ReaderSame, SameStage, disk, mem
    <2>6. WriteFile'
        <3>1. Settled' = Settled /\ \A i : Pending(i)' = Pending(i)
            BY <2>1, <2>2, <2>5 DEF Settled, Pending, Procs
        <3>. QED  BY <2>1, <2>2, <2>5, <3>1, SMT DEF Inv, WriteFile
    <2>7. NoRecordLost'
        BY <2>5, LostKept DEF Inv
    <2>. QED  BY <2>3, <2>4, <2>5, <2>6, <2>7, ReaderKept DEF Inv
<1>. QED  BY <1>1, <1>2, <1>3 DEF PutBegin

\* Put refuses a record that is too large, or writes its header.
LEMMA PutHeaderKeeps ==
    ASSUME Inv, BufferSuffices, PutHeader PROVE Inv'
<1>1. /\ pc["put"] = "header" /\ rec \in Records
      /\ UNCHANGED <<files, posFile, mem, rwlock, locals, run, history>>
    BY DEF Inv, Locked, PutHeader
<1>2. PICK l \in {"idle", "data"} :
        /\ Goto("put", l)
        /\ l = "idle" => wlock' = Free /\ UNCHANGED data
        /\ l = "data" => ~TooLarge(rec) /\ UNCHANGED wlock /\ data' = Append(data, Hdr(rec))
    BY DEF PutHeader
<1>3. /\ pc'["put"] = l /\ pc'["get"] = pc["get"]
      /\ pc' \in [Procs -> PutLabels \cup GetLabels]
      /\ pc'["put"] \in PutLabels /\ pc'["get"] \in GetLabels
    BY <1>2, GotoIs DEF Inv, Procs, PutLabels
<1>4. ReaderSame /\ SameStage /\ UNCHANGED <<rec, torn, exposed, put, got, dropped>>
    BY <1>1, <1>3 DEF ReaderSame, SameStage, mem, locals, history
<1>5. Fit(data) /\ data \in Seq(Cells)
    BY DEF Inv, WriteFile, Fit
<1>6. CASE l = "idle"
    <2>1. Typed'
        BY <1>1, <1>2, <1>3, <1>6 DEF Inv, Typed, mem, locals, run, history
    <2>2. Locked'
        BY <1>1, <1>2, <1>3, <1>6 DEF Inv, Locked
    <2>3. Settled' = Settled /\ \A i : Pending(i)' = Pending(i)
        BY <1>1, <1>2, <1>3, <1>6 DEF Settled, Pending, Procs
    <2>4. WriteFile'
        BY <1>1, <1>2, <1>3, <1>4, <1>6, <2>3 DEF Inv, WriteFile
    <2>5. NoRecordLost'
        BY <1>2, <1>4, <1>6, LostKept DEF Inv
    <2>. QED  BY <1>4, <2>1, <2>2, <2>4, <2>5, ReaderKept DEF Inv
<1>7. CASE l = "data"
    <2>1. LenOf[rec] <= BufLen /\ data' = Append(data, Hdr(rec))
        BY <1>1, <1>2, <1>7 DEF BufferSuffices
    <2>2. Hdr(rec) \in Cells /\ Hdr(rec).kind = "hdr" /\ Hdr(rec).rec = rec
        BY <1>1 DEF Hdr, Cells
    <2>3. /\ Extends(data, data') /\ Fit(data') /\ Len(data') = Len(data) + 1
          /\ DOMAIN data' = 1..(Len(data) + 1) /\ data'[Len(data) + 1] = Hdr(rec)
          /\ Len(data) \in Nat /\ DOMAIN data = 1..Len(data)
        BY <1>1, <1>5, <2>1, <2>2, AppendExtends
    <2>4. Typed'
        BY <1>1, <1>2, <1>3, <1>7, <2>3 DEF Inv, Typed, Fit, mem, locals, run, history
    <2>5. Locked'
        BY <1>1, <1>2, <1>3, <1>4, <1>7, <2>1 DEF Inv, Locked
    <2>6. Settled = Len(data) /\ Settled' = Len(data)
        <3>1. pc["get"] # "rename"
            BY <1>1 DEF Inv, Locked
        <3>2. Settled = Len(data)
            BY <1>1, <3>1 DEF Settled, Procs
        <3>3. Settled' = Len(data') - 1
            BY <1>3, <1>7 DEF Settled
        <3>. QED  BY <2>3, <3>2, <3>3, SMT
    <2>7. WriteFile'
        <3>1. PICK g \in 0..Len(data) :
                /\ Prefix(data, g) /\ (torn \/ g = Settled)
                /\ \A i \in (g + 1)..Len(data) :
                    Complete(data, i) => Pending(i) \/ data[i].rec \in exposed
            BY DEF Inv, WriteFile
        <3>2. Prefix(data', g)
            BY <2>3, <3>1, PrefixExtends
        <3>3. ASSUME NEW i \in (g + 1)..Len(data'), Complete(data', i)
              PROVE  Pending(i)' \/ data'[i].rec \in exposed'
            <4>1. CASE i = Len(data')
                BY <1>3, <1>7, <4>1 DEF Pending
            <4>2. CASE i \in (g + 1)..Len(data)
                <5>1. i \in DOMAIN data /\ Len(data) + 1 \in DOMAIN data' /\ i < Len(data) + 1
                    BY <2>3, <4>2, SMT
                <5>2. Complete(data, i)
                    BY <2>2, <2>3, <3>3, <5>1, NotCompletedLater, SMTT(40)
                <5>3. data[i].rec \in exposed
                    BY <1>1, <3>1, <4>2, <5>2 DEF Pending
                <5>. QED  BY <1>4, <2>3, <5>1, <5>3, ExtendsCell, SMTT(40)
            <4>. QED  BY <2>3, <4>1, <4>2, SMT
        <3>4. g \in 0..Len(data')
            BY <2>3, SMT
        <3>5. torn' \/ g = Settled'
            BY <1>4, <2>6, <3>1, Zenon
        <3>6. pc'["put"] = "data" => Len(data') > 0 /\ data'[Len(data')] = Hdr(rec')
            BY <1>4, <2>3, SMT
        <3>. QED  BY <2>3, <3>2, <3>3, <3>4, <3>5, <3>6 DEF WriteFile
    <2>8. NoRecordLost'
        BY <1>4, <2>3, RecordsExtend, LostKept DEF Inv
    <2>. QED  BY <1>4, <2>4, <2>5, <2>7, <2>8, ReaderKept DEF Inv
<1>. QED  BY <1>6, <1>7

\* The write file when n cells of the payload follow the header.
LEMMA PayloadWritten ==
    ASSUME Inv, pc["put"] = "data", NEW n \in 0..LenOf[rec],
           NEW d, d = data \o Payload(rec, n)
    PROVE  /\ Extends(data, d) /\ Fit(d) /\ Len(d) = Len(data) + n
           /\ Len(data) \in Nat /\ Len(data) > 0 /\ d[Len(data)].rec = rec
           /\ \A i \in DOMAIN d : Complete(d, i) =>
                \/ i \in DOMAIN data /\ i < Len(data) /\ Complete(data, i)
                \/ i = Len(data) /\ n = LenOf[rec]
           /\ n = LenOf[rec] => Complete(d, Len(data))
<1>1. rec \in Records /\ LenOf[rec] \in Nat /\ LenOf[rec] <= BufLen /\ n \in Nat
    BY Constants, SMT DEF Inv, Locked
<1>2. Fit(data) /\ Len(data) > 0 /\ data[Len(data)] = Hdr(rec)
    BY DEF Inv, WriteFile
<1>3. /\ Extends(data, d) /\ Fit(d) /\ Len(d) = Len(data) + n
      /\ DOMAIN d = 1..(Len(data) + n)
      /\ \A k \in (Len(data) + 1)..(Len(data) + n) : d[k] = Pay(rec)
      /\ Len(data) \in Nat /\ DOMAIN data = 1..Len(data)
    BY <1>1, <1>2, PayloadExtends
<1>4. PICK m \in Nat : m = Len(data) /\ m >= 1 /\ m \in DOMAIN data /\ m \in DOMAIN d
    <2>1. n \in Nat /\ Len(data) \in Nat /\ Len(data) > 0
        BY <1>1, <1>2, <1>3
    <2>2. DOMAIN data = 1..Len(data) /\ DOMAIN d = 1..(Len(data) + n)
        BY <1>3
    <2>3. Len(data) >= 1 /\ Len(data) \in DOMAIN data /\ Len(data) \in DOMAIN d
        BY <2>1, <2>2, SMT
    <2>. QED  BY <2>1, <2>3
<1>5. d[m].kind = "hdr" /\ d[m].rec = rec /\ LastCell(d, m) = m + LenOf[rec]
    <2>1. d[m] = Hdr(rec)
        BY <1>2, <1>3, <1>4, ExtendsCell
    <2>. QED  BY <2>1, SMT DEF Hdr, LastCell
<1>6. ASSUME NEW i \in DOMAIN d, Complete(d, i)
      PROVE  \/ i \in DOMAIN data /\ i < m /\ Complete(data, i)
             \/ i = m /\ n = LenOf[rec]
    <2>1. d[i].kind = "hdr" /\ LastCell(d, i) <= Len(d)
        BY <1>3, <1>6, CompleteIs
    <2>2. ~(i \in (m + 1)..(m + n))
        BY <1>3, <1>4, <2>1, SMT DEF Pay
    <2>3. i \in DOMAIN data /\ i <= m
        BY <1>3, <1>4, <2>2, SMT
    <2>4. CASE i < m
        <3>1. m <= Len(data) + 1 /\ d[m].kind # "pay"
            BY <1>4, <1>5, SMT
        <3>. QED  BY <1>3, <1>4, <1>6, <2>3, <2>4, <3>1, NotCompletedLater
    <2>5. CASE i = m
        BY <1>1, <1>3, <1>4, <1>5, <2>1, <2>5, SMTT(40)
    <2>. QED  BY <1>3, <2>3, <2>4, <2>5, SMT
<1>7. ASSUME n = LenOf[rec] PROVE Complete(d, m)
    <2>1. /\ d[m].kind = "hdr" /\ LastCell(d, m) <= Len(d)
          /\ \A k \in (m + 1)..LastCell(d, m) : d[k] = Pay(d[m].rec)
        BY <1>1, <1>3, <1>4, <1>5, <1>7, SMT
    <2>. QED  BY <1>3, <1>4, <2>1, CompleteIs
<1>. QED  BY <1>3, <1>4, <1>5, <1>6, <1>7, SMT

\* The payload written, in full or in part: what is sound and what is at risk.
LEMMA PayloadSound ==
    ASSUME Inv, pc["put"] = "data", NEW n \in 0..LenOf[rec],
           NEW d, d = data \o Payload(rec, n)
    PROVE  \E g \in 0..Len(d) :
            /\ Prefix(d, g)
            /\ torn \/ n # LenOf[rec] \/ g = Len(d)
            /\ \A i \in (g + 1)..Len(d) : Complete(d, i) =>
                    d[i].rec \in exposed \/ (torn /\ n = LenOf[rec] /\ d[i].rec = rec)
<1>1. /\ Extends(data, d) /\ Fit(d) /\ Len(d) = Len(data) + n
      /\ Len(data) \in Nat /\ Len(data) > 0 /\ d[Len(data)].rec = rec
      /\ \A i \in DOMAIN d : Complete(d, i) =>
            \/ i \in DOMAIN data /\ i < Len(data) /\ Complete(data, i)
            \/ i = Len(data) /\ n = LenOf[rec]
      /\ n = LenOf[rec] => Complete(d, Len(data))
    BY PayloadWritten
<1>2. PICK g \in 0..Len(data) :
        /\ Prefix(data, g) /\ (torn \/ g = Settled)
        /\ \A i \in (g + 1)..Len(data) :
            Complete(data, i) => Pending(i) \/ data[i].rec \in exposed
    BY DEF Inv, WriteFile
<1>3. /\ Prefix(d, g) /\ DOMAIN d = 1..Len(d) /\ Len(d) \in Nat /\ n \in Nat
      /\ g \in 0..Len(d)
    <2>1. LenOf[rec] \in Nat
        BY Constants DEF Inv, Locked
    <2>2. Prefix(d, g)
        BY <1>1, <1>2, PrefixExtends
    <2>. QED  BY <1>1, <2>1, <2>2, SMT DEF Fit, Prefix
<1>4. CASE torn \/ n # LenOf[rec]
    <2>1. ASSUME NEW i \in (g + 1)..Len(d), Complete(d, i)
          PROVE  d[i].rec \in exposed \/ (torn /\ n = LenOf[rec] /\ d[i].rec = rec)
        <3>1. i \in DOMAIN d
            BY <1>3, SMT
        <3>2. CASE i = Len(data) /\ n = LenOf[rec]
            BY <1>1, <1>4, <3>2
        <3>3. CASE i \in DOMAIN data /\ i < Len(data) /\ Complete(data, i)
            <4>1. i \in (g + 1)..Len(data) /\ ~Pending(i)
                BY <1>1, <1>3, <3>3, SMT DEF Pending
            <4>. QED  BY <1>1, <1>2, <3>3, <4>1, ExtendsCell, SMTT(40)
        <3>. QED  BY <1>1, <2>1, <3>1, <3>2, <3>3
    <2>. QED  BY <1>3, <1>4, <2>1
<1>5. CASE ~torn /\ n = LenOf[rec]
    <2>1. g = Len(data) - 1
        BY <1>2, <1>5 DEF Settled
    <2>2. PICK m \in Nat : m = Len(data) /\ m >= 1 /\ m \in DOMAIN d /\ Len(d) = m + n
        BY <1>1, <1>3, SMT
    <2>3. Complete(d, m) /\ d[m].kind = "hdr" /\ LastCell(d, m) = Len(d)
        BY <1>1, <1>5, <2>2 DEF Complete, LastCell
    <2>4. \A k \in (m + 1)..Len(d) : d[k].kind = "pay"
        <3>1. \A k \in (m + 1)..Len(d) : d[k] = Pay(d[m].rec)
            BY <1>1, <2>2, <2>3, CompleteIs
        <3>. QED  BY <3>1, SMT DEF Pay
    <2>5. ASSUME NEW i \in 1..Len(d)
          PROVE  \/ d[i].kind = "hdr" /\ Complete(d, i) /\ LastCell(d, i) <= Len(d)
                 \/ d[i].kind = "pay" /\ \E h \in 1..(i - 1) :
                                             d[h].kind = "hdr" /\ i <= LastCell(d, h)
        <3>1. CASE i \in 1..g
            <4>1. CASE d[i].kind = "hdr" /\ Complete(d, i) /\ LastCell(d, i) <= g
                BY <1>1, <1>3, <4>1, CompleteIs
            <4>2. CASE d[i].kind = "pay" /\ \E h \in 1..(i - 1) :
                                                d[h].kind = "hdr" /\ i <= LastCell(d, h)
                BY <4>2
            <4>. QED  BY <1>3, <3>1, <4>1, <4>2 DEF Prefix
        <3>2. CASE i = m
            BY <1>3, <2>3, <3>2, SMTT(40)
        <3>3. CASE i \in (m + 1)..Len(d)
            BY <1>3, <2>2, <2>3, <2>4, <3>3, SMTT(40)
        <3>. QED  BY <1>3, <2>1, <2>2, <3>1, <3>2, <3>3, SMTT(40)
    <2>6. Prefix(d, Len(d))
        BY <1>3, <2>5, SMTT(40) DEF Prefix
    <2>7. Len(d) \in 0..Len(d) /\ \A i : ~(i \in (Len(d) + 1)..Len(d))
        BY <1>3, SMT
    <2>. QED  BY <2>6, <2>7
<1>. QED  BY <1>4, <1>5

\* A sequence with one more element.
LEMMA RangeAppend ==
    ASSUME NEW S, NEW s \in Seq(S), NEW x \in S
    PROVE  Append(s, x) \in Seq(S) /\ Range(Append(s, x)) = Range(s) \cup {x}
<1>1. /\ Append(s, x) \in Seq(S) /\ Len(s) \in Nat
      /\ DOMAIN s = 1..Len(s) /\ DOMAIN Append(s, x) = 1..(Len(s) + 1)
      /\ \A k \in 1..Len(s) : Append(s, x)[k] = s[k]
      /\ Append(s, x)[Len(s) + 1] = x
    BY SMT
<1>. QED  BY <1>1, SMT DEF Range

\* While Put is at the write file, Get does not rotate it.
LEMMA PutAlone ==
    ASSUME Inv, pc["put"] # "idle" PROVE pc["get"] \notin {"rotate", "rename"} /\ wlock = "put"
BY DEF Inv, Locked

\* Put writes the payload.
LEMMA PutDataKeeps == ASSUME Inv, PutData PROVE Inv'
<1>1. /\ pc["put"] = "data" /\ data' = data \o Payload(rec, LenOf[rec])
      /\ put' = Append(put, rec) /\ exposed' = IF torn THEN exposed \cup {rec} ELSE exposed
      /\ curBatchSize' = curBatchSize + LenOf[rec] + 1
      /\ UNCHANGED <<files, posFile, dataFiles, curReadfile, rfd, pos, rwlock,
                     locals, run, tried, got, dropped, torn>>
    BY DEF PutData
<1>2. rec \in Records /\ LenOf[rec] \in Nat /\ LenOf[rec] \in 0..LenOf[rec]
    BY <1>1, Constants, SMT DEF Inv, Locked
<1>3. PICK l \in {"idle", "rotate"} :
        /\ Goto("put", l) /\ (l = "idle" => wlock' = Free) /\ (l = "rotate" => UNCHANGED wlock)
    BY DEF PutData
<1>4. /\ pc'["put"] = l /\ pc'["get"] = pc["get"]
      /\ pc' \in [Procs -> PutLabels \cup GetLabels]
      /\ pc'["put"] \in PutLabels /\ pc'["get"] \in GetLabels
    BY <1>3, GotoIs DEF Inv, Procs, PutLabels
<1>5. ReaderSame /\ SameStage /\ UNCHANGED <<rec, torn, got, dropped>> /\ exposed \subseteq exposed'
    BY <1>1, <1>4 DEF ReaderSame, SameStage, locals
<1>6. /\ Extends(data, data') /\ Fit(data') /\ Len(data') = Len(data) + LenOf[rec]
      /\ Len(data) \in Nat /\ Len(data) > 0 /\ data'[Len(data)].rec = rec
      /\ Complete(data', Len(data))
    BY <1>1, <1>2, PayloadWritten
<1>7. put' \in Seq(Records) /\ Range(put') = Range(put) \cup {rec}
    BY <1>1, <1>2, RangeAppend, SMT DEF Inv, Typed
<1>8. Typed'
    <2>1. data' \in Seq(Cells)
        BY <1>6 DEF Fit
    <2>2. curBatchSize' \in Nat
        BY <1>1, <1>2, SMTT(40) DEF Inv, Typed
    <2>3. exposed' \subseteq Records
        BY <1>1, <1>2 DEF Inv, Typed
    <2>4. wlock' \in Procs \cup {Free}
        BY <1>3 DEF Inv, Typed
    <2>. QED  BY <1>1, <1>4, <1>7, <2>1, <2>2, <2>3, <2>4 DEF Inv, Typed, locals, run
<1>9. Locked'
    BY <1>1, <1>2, <1>3, <1>4, <1>5, PutAlone DEF Inv, Locked
<1>10. WriteFile'
    <2>1. PICK g \in 0..Len(data') :
            /\ Prefix(data', g)
            /\ torn \/ LenOf[rec] # LenOf[rec] \/ g = Len(data')
            /\ \A i \in (g + 1)..Len(data') : Complete(data', i) =>
                    data'[i].rec \in exposed \/ (torn /\ data'[i].rec = rec)
        <3>1. LenOf[rec] \in 0..LenOf[rec]
            BY <1>1, Constants, SMT DEF Inv, Locked
        <3>. QED  BY <1>1, <1>2, <3>1, PayloadSound, ZenonT(40)
    <2>2. Settled' = Len(data')
        BY <1>1, <1>3, <1>4, PutAlone DEF Settled, Procs
    <2>3. torn' \/ g = Settled'
        BY <1>5, <2>1, <2>2, Zenon
    <2>4. \A i \in (g + 1)..Len(data') : Complete(data', i) => data'[i].rec \in exposed'
        BY <1>1, <2>1
    <2>. QED  BY <1>3, <1>4, <1>6, <2>1, <2>3, <2>4 DEF WriteFile
<1>11. NoRecordLost'
    <2>1. Len(data) \in DOMAIN data' /\ Len(data) > 0
        BY <1>2, <1>6, SMT DEF Fit
    <2>2. rec \in RecordsFrom(data', 0)
        BY <1>6, <2>1 DEF RecordsFrom
    <2>. QED  BY <1>5, <1>6, <1>7, <2>2, RecordsExtend, LostKept DEF Inv
<1>. QED  BY <1>5, <1>8, <1>9, <1>10, <1>11, ReaderKept DEF Inv

\* The payload is written in part.
LEMMA PutDataFailsKeeps == ASSUME Inv, PutDataFails PROVE Inv'
<1>1. /\ pc["put"] = "data" /\ wlock' = Free /\ Goto("put", "idle") /\ torn' = TRUE
      /\ UNCHANGED <<files, posFile, mem, rwlock, locals, run, tried, put, got, dropped, exposed>>
    BY DEF PutDataFails
<1>2. rec \in Records /\ LenOf[rec] \in Nat
    BY <1>1, Constants DEF Inv, Locked
<1>3. PICK n \in 0..(LenOf[rec] - 1) : data' = data \o Payload(rec, n)
    BY DEF PutDataFails
<1>4. n \in 0..LenOf[rec] /\ n # LenOf[rec]
    BY <1>2, SMT
<1>5. /\ pc'["put"] = "idle" /\ pc'["get"] = pc["get"]
      /\ pc' \in [Procs -> PutLabels \cup GetLabels]
      /\ pc'["put"] \in PutLabels /\ pc'["get"] \in GetLabels
    BY <1>1, GotoIs DEF Inv, Procs, PutLabels
<1>6. ReaderSame /\ SameStage /\ UNCHANGED <<rec, put, got, dropped, exposed>>
    BY <1>1, <1>5 DEF ReaderSame, SameStage, locals, mem
<1>7. Extends(data, data') /\ Fit(data')
    BY <1>1, <1>3, <1>4, PayloadWritten
<1>8. Typed'
    BY <1>1, <1>5, <1>7 DEF Inv, Typed, Fit, mem, locals, run
<1>9. Locked'
    BY <1>1, <1>5, <1>6, PutAlone DEF Inv, Locked
<1>10. WriteFile'
    <2>1. PICK g \in 0..Len(data') :
            /\ Prefix(data', g)
            /\ \A i \in (g + 1)..Len(data') : Complete(data', i) =>
                    data'[i].rec \in exposed \/ (torn /\ n = LenOf[rec] /\ data'[i].rec = rec)
        BY <1>1, <1>3, <1>4, PayloadSound
    <2>2. \A i \in (g + 1)..Len(data') : Complete(data', i) => data'[i].rec \in exposed'
        BY <1>4, <1>6, <2>1
    <2>. QED  BY <1>1, <1>5, <1>7, <2>1, <2>2 DEF WriteFile
<1>11. NoRecordLost'
    BY <1>6, <1>7, RecordsExtend, LostKept DEF Inv
<1>. QED  BY <1>6, <1>8, <1>9, <1>10, <1>11, ReaderKept DEF Inv

----------------------------------------------------------------------------
(* rotate *)

\* Who rotates is alone at the write file.
LEMMA RotatesAlone ==
    ASSUME Inv, NEW p \in Procs, pc[p] \in {"rotate", "rename"}
    PROVE  /\ \A q \in Procs : q # p => pc[q] \notin {"rotate", "rename"}
           /\ pc["put"] \notin {"header", "data"} /\ wlock = p
BY DEF Inv, Locked, Procs, Typed, PutLabels, Free

\* An EOF is appended.
LEMMA RotateEOFKeeps == ASSUME Inv, NEW p \in Procs, RotateEOF(p) PROVE Inv'
<1>1. /\ pc[p] = "rotate" /\ rwlock' = p /\ data' = Append(data, EOFHint) /\ Goto(p, "rename")
      /\ UNCHANGED <<files, posFile, mem, wlock, locals, run, history>>
    BY DEF RotateEOF
<1>2. /\ pc'[p] = "rename" /\ \A q \in Procs : q # p => pc'[q] = pc[q]
      /\ pc' \in [Procs -> PutLabels \cup GetLabels]
      /\ pc'["put"] \in PutLabels /\ pc'["get"] \in GetLabels
    BY <1>1, GotoIs DEF Inv, PutLabels, GetLabels
<1>3. ReaderSame /\ UNCHANGED <<rec, wlock, torn, exposed, put, got, dropped>>
    BY <1>1 DEF ReaderSame, mem, locals, history
<1>4. SameStage
    BY <1>1, <1>2 DEF SameStage, Procs, Neutral
<1>5. EOFHint \in Cells /\ EOFHint.kind = "eof"
    BY DEF EOFHint, Cells
<1>6. /\ Extends(data, data') /\ Fit(data') /\ Len(data') = Len(data) + 1
      /\ DOMAIN data' = 1..(Len(data) + 1) /\ data'[Len(data) + 1] = EOFHint
      /\ Len(data) \in Nat /\ DOMAIN data = 1..Len(data)
    <2>1. Fit(data)
        BY DEF Inv, WriteFile
    <2>. QED  BY <1>1, <1>5, <2>1, AppendExtends
<1>7. /\ \A q \in Procs : q # p => pc[q] \notin {"rotate", "rename"}
      /\ pc["put"] \notin {"header", "data"} /\ wlock = p
    BY <1>1, RotatesAlone
<1>8. Typed'
    <2>1. data' \in Seq(Cells)
        BY <1>6 DEF Fit
    <2>2. rwlock' \in Procs \cup {Free}
        BY <1>1
    <2>. QED  BY <1>1, <1>2, <2>1, <2>2 DEF Inv, Typed, mem, locals, run, history
<1>9. Locked'
    BY <1>1, <1>2, <1>3, <1>7 DEF Inv, Locked, Procs
<1>10. WriteFile'
    <2>1. PICK g \in 0..Len(data) :
            /\ Prefix(data, g) /\ (torn \/ g = Settled)
            /\ \A i \in (g + 1)..Len(data) :
                Complete(data, i) => Pending(i) \/ data[i].rec \in exposed
        BY DEF Inv, WriteFile
    <2>2. Settled = Len(data)
        BY <1>1, <1>7 DEF Settled, Procs
    <2>3. Settled' = Len(data') - 1
        BY <1>2 DEF Settled
    <2>4. torn' \/ g = Settled'
        <3>1. Settled' = Settled
            BY <1>6, <2>2, <2>3, SMT
        <3>. QED  BY <1>3, <2>1, <3>1, Zenon
    <2>5. Prefix(data', g) /\ g \in 0..Len(data')
        BY <1>6, <2>1, PrefixExtends, SMT
    <2>6. ASSUME NEW i \in (g + 1)..Len(data'), Complete(data', i)
          PROVE  data'[i].rec \in exposed'
        <3>1. i \in DOMAIN data' /\ i # Len(data) + 1
            BY <1>5, <1>6, <2>6, SMT DEF Complete
        <3>2. i \in DOMAIN data /\ i < Len(data) + 1 /\ Len(data) + 1 \in DOMAIN data'
            BY <1>6, <3>1, SMT
        <3>3. Complete(data, i)
            BY <1>5, <1>6, <2>6, <3>2, NotCompletedLater, SMTT(40)
        <3>4. i \in (g + 1)..Len(data) /\ ~Pending(i)
            BY <1>6, <1>7, <3>2, SMT DEF Pending
        <3>5. data[i].rec \in exposed
            BY <2>1, <3>3, <3>4
        <3>. QED  BY <1>3, <1>6, <3>2, <3>5, ExtendsCell
    <2>7. pc'["put"] # "data"
        BY <1>2, <1>7 DEF Procs
    <2>. QED  BY <1>6, <2>4, <2>5, <2>6, <2>7 DEF WriteFile
<1>11. NoRecordLost'
    BY <1>3, <1>4, <1>6, RecordsExtend, LostKept DEF Inv
<1>. QED  BY <1>3, <1>4, <1>8, <1>9, <1>10, <1>11, ReaderKept DEF Inv

\* An empty write file.
LEMMA EmptyFile ==
    ASSUME NEW c, c = <<>>
    PROVE  /\ Fit(c) /\ Len(c) = 0 /\ Prefix(c, 0) /\ DOMAIN c = {}
           /\ \A o : RecordsFrom(c, o) = {}
<1>1. c \in Seq(Cells) /\ Len(c) = 0 /\ DOMAIN c = {}
    BY SMT
<1>. QED  BY <1>1, SMT DEF Fit, Prefix, RecordsFrom

\* The write file joins the read list under a number of its own.
LEMMA RotateRenameKeeps == ASSUME Inv, NEW p \in Procs, RotateRename(p) PROVE Inv'
<1>1. /\ pc[p] = "rename" /\ rwlock' = Free /\ wlock' = Free
      /\ files' = [n \in DOMAIN files \cup {NewFile} |->
                      IF n = NewFile THEN data ELSE files[n]]
      /\ dataFiles' = dataFiles \cup {NewFile}
      /\ data' = <<>> /\ curBatchSize' = 0 /\ torn' = FALSE
      /\ UNCHANGED <<posFile, curReadfile, rfd, pos, size, locals, run,
                     tried, put, got, dropped, exposed>>
    BY DEF RotateRename
<1>2. /\ pc'[p] = IF p = "put" THEN "idle" ELSE "start"
      /\ \A q \in Procs : q # p => pc'[q] = pc[q]
      /\ pc' \in [Procs -> PutLabels \cup GetLabels]
      /\ pc'["put"] \in PutLabels /\ pc'["get"] \in GetLabels
    BY GotoIs DEF RotateRename, Inv, PutLabels, GetLabels
<1>3. /\ \A q \in Procs : q # p => pc[q] \notin {"rotate", "rename"}
      /\ pc["put"] \notin {"header", "data"} /\ wlock = p
    BY <1>1, RotatesAlone
<1>4. PICK b \in Nat : dataFiles \cup DOMAIN files \subseteq 0..b
    BY DEF Inv, Listed
<1>5. PICK N \in 0..(b + 1) : N = NewFile /\ (\A n \in dataFiles : n < N)
    BY <1>4, NewFileIs
<1>6. /\ DOMAIN files' = DOMAIN files \cup {N} /\ files'[N] = data
      /\ \A n \in DOMAIN files : n # N => files'[n] = files[n]
      /\ dataFiles' = dataFiles \cup {N}
    BY <1>1, <1>5
<1>7. N \in Nat /\ N \notin dataFiles /\ N # curReadfile /\ N # rfd.name
    BY <1>4, <1>5, SMT DEF Inv, Listed, NoName
<1>8. Fit(data) /\ \E g \in 0..Len(data) : Prefix(data, g) /\ RecordsFrom(data, g) \subseteq exposed
    <2>1. PICK g \in 0..Len(data) :
            /\ Prefix(data, g)
            /\ \A i \in (g + 1)..Len(data) :
                Complete(data, i) => Pending(i) \/ data[i].rec \in exposed
        BY DEF Inv, WriteFile
    <2>2. \A i \in DOMAIN data : i > g => i \in (g + 1)..Len(data) /\ ~Pending(i)
        BY <1>3, SMT DEF Pending, Inv, Typed
    <2>3. RecordsFrom(data, g) \subseteq exposed
        BY <2>1, <2>2 DEF RecordsFrom
    <2>. QED  BY <2>1, <2>3 DEF Inv, WriteFile
<1>9. Typed'
    <2>1. DOMAIN files' \subseteq Nat /\ dataFiles' \subseteq Nat
        BY <1>6, <1>7 DEF Inv, Typed
    <2>2. \A n \in DOMAIN files' : files'[n] \in Seq(Cells)
        BY <1>6, <1>8 DEF Inv, Typed, Fit
    <2>3. data' \in Seq(Cells)
        BY <1>1, EmptyFile DEF Fit
    <2>. QED  BY <1>1, <1>2, <2>1, <2>2, <2>3 DEF Inv, Typed, locals, run
<1>10. Locked'
    BY <1>1, <1>2, <1>3 DEF Inv, Locked, Procs, locals, Typed, PutLabels
<1>11. WriteFile'
    <2>1. Settled' = Len(data') /\ pc'["put"] # "data"
        BY <1>2, <1>3 DEF Settled, Procs
    <2>2. Fit(data') /\ Len(data') = 0 /\ Prefix(data', 0)
        BY <1>1, EmptyFile
    <2>. QED  BY <2>1, <2>2, SMT DEF WriteFile
<1>12. Base' = Base /\ ReadOff' = ReadOff /\ UNCHANGED <<rfd, pos, nbytes, item, exposed>>
    <2>1. pc'["get"] = pc["get"] \/ {pc["get"], pc'["get"]} \subseteq Neutral
        BY <1>1, <1>2 DEF Procs, Neutral
    <2>2. UNCHANGED <<rfd, pos, nbytes, item, exposed>>
        BY <1>1 DEF locals
    <2>. QED  BY <2>1, <2>2 DEF Base, ReadOff, Neutral
<1>13. ASSUME NEW n \in DOMAIN files' PROVE ReadFile(n)'
    <2>1. CASE n = N
        BY <1>6, <1>7, <1>8, <1>12, <2>1 DEF ReadFile
    <2>2. CASE n # N
        <3>1. n \in DOMAIN files /\ files'[n] = files[n] /\ ReadFile(n)
            BY <1>6, <2>2 DEF Inv
        <3>2. pc'["get"] = pc["get"] \/ pc'["get"] = "start"
            BY <1>2 DEF Procs
        <3>3. ASSUME NEW c, NEW g, InStep(c, g) PROVE InStep(c, g)'
            <4>1. CASE pc'["get"] = pc["get"]
                BY <1>12, <3>3, <4>1 DEF InStep
            <4>2. CASE pc'["get"] = "start"
                BY <1>12, <3>3, <4>2 DEF InStep
            <4>. QED  BY <3>2, <4>1, <4>2
        <3>. QED  BY <1>12, <3>1, <3>3 DEF ReadFile
    <2>. QED  BY <2>1, <2>2
<1>14. Listed'
    <2>1. b + 1 \in Nat /\ dataFiles' \cup DOMAIN files' \subseteq 0..(b + 1)
        BY <1>4, <1>6, SMT
    <2>2. \A n \in DOMAIN files' : n \notin dataFiles' \/ n < curReadfile' => AtRisk(n)'
        <3>1. ASSUME NEW n \in DOMAIN files', n \notin dataFiles' \/ n < curReadfile'
              PROVE  AtRisk(n)'
            <4>1. n # N
                <5>1. curReadfile = NoName \/ curReadfile \in dataFiles
                    BY DEF Inv, Listed
                <5>. QED  BY <1>1, <1>5, <1>6, <3>1, <5>1, SMT DEF NoName, Inv, Typed
            <4>2. n \in DOMAIN files /\ files'[n] = files[n]
                BY <1>6, <4>1
            <4>3. AtRisk(n)
                BY <1>1, <1>6, <3>1, <4>2 DEF Inv, Listed
            <4>. QED  BY <1>12, <4>2, <4>3 DEF AtRisk
        <3>. QED  BY <3>1
    <2>3. pc'["get"] = pc["get"] \/ (pc["get"] = "rename" /\ pc'["get"] = "start")
        BY <1>1, <1>2 DEF Procs
    <2>4. UNCHANGED <<posFile, curReadfile, rfd, pos>>
        BY <1>1
    <2>. QED  BY <1>6, <1>7, <2>1, <2>2, <2>3, <2>4 DEF Inv, Listed
<1>15. NoRecordLost'
    <2>1. RecordsFrom(data, 0) \subseteq Reachable'
        <3>1. N \in (dataFiles' \cap DOMAIN files') \ {curReadfile'}
            BY <1>1, <1>6, <1>7
        <3>. QED  BY <1>6, <3>1 DEF Reachable
    <2>2. rfd.name # NoName => rfd.name \in DOMAIN files /\ files'[rfd.name] = files[rfd.name]
        BY <1>6, <1>7 DEF Inv, Listed
    <2>3. \A n \in (dataFiles \cap DOMAIN files) \ {curReadfile} :
            n \in (dataFiles' \cap DOMAIN files') \ {curReadfile'} /\ files'[n] = files[n]
        BY <1>1, <1>6, <1>7
    <2>4. Reachable \subseteq Reachable'
        BY <1>12, <2>1, <2>2, <2>3, SMT DEF Reachable
    <2>. QED  BY <1>1, <2>4 DEF Inv, NoRecordLost
<1>. QED  BY <1>9, <1>10, <1>11, <1>13, <1>14, <1>15 DEF Inv

----------------------------------------------------------------------------
(* Get *)

\* Labels of Get at which it is between two records.
Between == {"idle", "wakeup", "start", "remove", "reset", "switch", "retry", "header"}

\* Get goes to the next label and changes nothing else.
LEMMA LabelKeeps ==
    ASSUME Inv, UNCHANGED <<disk, mem, locks, locals, run, history>>,
           NEW l \in Between, Goto("get", l), pc["get"] \in Between \ {"reset"},
           l = "remove" => curReadfile # NoName,
           l \in {"reset", "switch"} => rfd.name = NoName /\ curReadfile = NoName,
           l = "header" => rfd.name # NoName,
           l = "remove" /\ rfd.name # NoName =>
                \A g : Prefix(files[rfd.name], g) /\ InStep(files[rfd.name], g) => rfd.off >= g
    PROVE  Inv'
<1>1. /\ pc'["get"] = l /\ pc'["put"] = pc["put"]
      /\ pc' \in [Procs -> PutLabels \cup GetLabels]
      /\ pc'["put"] \in PutLabels /\ pc'["get"] \in GetLabels
    BY GotoIs DEF Inv, Procs, GetLabels, Between
<1>2. /\ UNCHANGED <<data, files, posFile, dataFiles, curReadfile, rfd, pos, curBatchSize,
                     wlock, rwlock, rec, nbytes, item, restarts, opt,
                     tried, put, got, dropped, torn, exposed>>
    BY DEF disk, mem, locks, locals, run, history
<1>3. Typed'
    BY <1>1, <1>2 DEF Inv, Typed
<1>4. Locked' /\ WriteFile'
    BY <1>1, <1>2, WriterKept DEF WriterSame, Between
<1>5. Base = rfd.off /\ ReadOff = rfd.off /\ Base' = rfd.off /\ ReadOff' = rfd.off
    BY <1>1, <1>2 DEF Base, ReadOff, Between
<1>6. Listed'
    BY <1>1, <1>2 DEF Inv, Listed, AtRisk, Between
<1>7. ASSUME NEW n \in DOMAIN files' PROVE ReadFile(n)'
    <2>1. PICK g \in 0..Len(files[n]) :
            /\ Fit(files[n]) /\ Prefix(files[n], g) /\ RecordsFrom(files[n], g) \subseteq exposed
            /\ n = rfd.name => InStep(files[n], g)
        BY <1>2 DEF Inv, ReadFile
    <2>2. n = rfd.name => n # NoName
        BY <1>2, SMT DEF Inv, Typed, NoName
    <2>3. ASSUME n = rfd.name PROVE InStep(files[n], g)'
        <3>1. pc'["get"] = "remove" => rfd.off >= g
            BY <1>1, <2>1, <2>2, <2>3
        <3>2. pc'["get"] \notin {"payload", "callback", "commit"}
            BY <1>1 DEF Between
        <3>. QED  BY <1>2, <1>5, <2>1, <2>3, <3>1, <3>2 DEF InStep
    <2>. QED  BY <1>2, <2>1, <2>3 DEF ReadFile
<1>8. NoRecordLost'
    <2>1. Reachable' = Reachable
        BY <1>2, <1>5, SMT DEF Reachable
    <2>. QED  BY <1>2, <2>1 DEF Inv, NoRecordLost
<1>. QED  BY <1>3, <1>4, <1>6, <1>7, <1>8 DEF Inv

\* Get takes rlock, and looks whether a file is open.
LEMMA LabelsKeep ==
    ASSUME Inv, GetBegin \/ GetSleeping \/ GetStart \/ GetRetry PROVE Inv'
<1>1. CASE GetBegin
    BY <1>1, LabelKeeps DEF GetBegin, Between
<1>2. CASE GetSleeping
    BY <1>2, LabelKeeps DEF GetSleeping, Between
<1>3. CASE GetStart
    <2>1. CASE rfd.name # NoName
        BY <1>3, <2>1, LabelKeeps DEF GetStart, Between
    <2>2. CASE rfd.name = NoName /\ curReadfile # NoName
        BY <1>3, <2>2, LabelKeeps DEF GetStart, SwitchNextFile, Between
    <2>3. CASE rfd.name = NoName /\ curReadfile = NoName
        BY <1>3, <2>3, LabelKeeps DEF GetStart, SwitchNextFile, Between
    <2>. QED  BY <2>1, <2>2, <2>3
<1>4. CASE GetRetry
    BY <1>4, LabelKeeps DEF GetRetry, Between
<1>. QED  BY <1>1, <1>2, <1>3, <1>4

\* There is no header to be read: the file is finished.
LEMMA GetNoHeaderKeeps == ASSUME Inv, GetNoHeader PROVE Inv'
<1>1. /\ pc["get"] = "header" /\ rfd.name # NoName /\ rfd.name = curReadfile
      /\ rfd.name \in DOMAIN files
    BY DEF Inv, Listed, GetNoHeader
<1>2. PICK c : c = files[rfd.name]
    OBVIOUS
<1>3. Fit(c) /\ Len(c) \in Nat /\ DOMAIN c = 1..Len(c) /\ rfd.off \in Nat
    BY <1>1, <1>2, SMT DEF Inv, ReadFile, Fit, Typed
<1>4. rfd.off >= Len(c) \/ (rfd.off < Len(c) /\ c[rfd.off + 1] = EOFHint)
    BY <1>1, <1>2 DEF GetNoHeader
<1>5. ASSUME NEW g, Prefix(c, g), InStep(c, g) PROVE rfd.off >= g
    <2>1. g \in 0..Len(c) /\ Base = rfd.off
        BY <1>1, <1>5 DEF Prefix, Base
    <2>2. SUFFICES ASSUME rfd.off < g PROVE FALSE
        BY <1>3, <2>1, SMT
    <2>3. Boundary(c, rfd.off)
        BY <1>3, <1>5, <2>1, <2>2, SMT DEF InStep
    <2>4. c[rfd.off + 1].kind = "hdr"
        BY <1>3, <1>5, <2>2, <2>3, AtBoundary
    <2>5. c[rfd.off + 1] = EOFHint
        BY <1>3, <1>4, <2>1, <2>2, SMT
    <2>. QED  BY <2>4, <2>5, SMT DEF EOFHint
<1>6. Goto("get", "remove") /\ UNCHANGED <<disk, mem, locks, locals, run, history>>
    BY <1>1 DEF GetNoHeader, SwitchNextFile
<1>. QED  BY <1>1, <1>2, <1>5, <1>6, LabelKeeps DEF Between

\* Get takes wlock to rotate a sleeping write file.
LEMMA GetWakeupKeeps == ASSUME Inv, GetWakeup PROVE Inv'
<1>1. /\ pc["get"] = "wakeup" /\ wlock = Free /\ wlock' = "get" /\ Goto("get", "rotate")
      /\ UNCHANGED <<disk, mem, rwlock, locals, run, history>>
    BY DEF GetWakeup
<1>2. /\ pc'["get"] = "rotate" /\ pc'["put"] = pc["put"]
      /\ pc' \in [Procs -> PutLabels \cup GetLabels]
      /\ pc'["put"] \in PutLabels /\ pc'["get"] \in GetLabels
    BY <1>1, GotoIs DEF Inv, Procs, GetLabels
<1>3. ReaderSame /\ SameStage /\ UNCHANGED <<data, rec, torn, exposed, put, got, dropped>>
    BY <1>1, <1>2 DEF ReaderSame, SameStage, Neutral, disk, mem, locals, history
<1>4. Typed'
    BY <1>1, <1>2 DEF Inv, Typed, disk, mem, locals, run, history, Procs
<1>5. pc["put"] = "idle"
    BY <1>1 DEF Inv, Locked, Free
<1>6. Locked'
    BY <1>1, <1>2, <1>5
    DEF Inv, Locked
<1>7. WriteFile'
    <2>1. Settled' = Settled /\ \A i : Pending(i)' = Pending(i)
        BY <1>1, <1>2, <1>3 DEF Settled, Pending, Procs
    <2>. QED  BY <1>2, <1>3, <2>1 DEF Inv, WriteFile
<1>8. NoRecordLost'
    BY <1>3, LostKept DEF Inv
<1>. QED  BY <1>3, <1>4, <1>6, <1>7, <1>8, ReaderKept DEF Inv

\* Records behind a later offset are behind an earlier one.
LEMMA FurtherOn ==
    ASSUME NEW c, NEW o, NEW h, DOMAIN c \subseteq Nat, o \in Int, h \in Int, h <= o
    PROVE  RecordsFrom(c, o) \subseteq RecordsFrom(c, h)
<1>1. \A j \in DOMAIN c : j > o => j > h
    BY SMT
<1>. QED  BY <1>1 DEF RecordsFrom

\* The finished file goes, and the first of the list.
LEMMA RemoveKeeps == ASSUME Inv, RemoveCurrentReadingFile PROVE Inv'
<1>1. /\ pc["get"] = "remove" /\ rfd' = NilFd /\ curReadfile' = NoName /\ Goto("get", "reset")
      /\ dataFiles' = IF dataFiles = {} THEN {} ELSE dataFiles \ {Min(dataFiles)}
      /\ UNCHANGED <<data, posFile, pos, curBatchSize, locks, locals, run, history>>
    BY DEF RemoveCurrentReadingFile
<1>2. /\ pc'["get"] = "reset" /\ pc'["put"] = pc["put"]
      /\ pc' \in [Procs -> PutLabels \cup GetLabels]
      /\ pc'["put"] \in PutLabels /\ pc'["get"] \in GetLabels
    BY <1>1, GotoIs DEF Inv, Procs, GetLabels
<1>3. /\ UNCHANGED <<data, posFile, pos, curBatchSize, wlock, rwlock, rec, nbytes, item,
                     restarts, opt, tried, put, got, dropped, torn, exposed>>
    BY <1>1 DEF locks, locals, run, history
<1>4. DOMAIN files' = DOMAIN files \ {curReadfile} /\ \A n \in DOMAIN files' : files'[n] = files[n]
    <2>1. CASE curReadfile \in DOMAIN files
        BY <2>1 DEF RemoveCurrentReadingFile, Restrict
    <2>2. CASE curReadfile \notin DOMAIN files
        BY <2>2 DEF RemoveCurrentReadingFile
    <2>. QED  BY <2>1, <2>2
<1>5. /\ curReadfile \in dataFiles /\ dataFiles \subseteq Nat /\ DOMAIN files \subseteq Nat
      /\ rfd.name # NoName => rfd.name = curReadfile /\ rfd.name \in DOMAIN files
    BY <1>1 DEF Inv, Listed, Typed
<1>6. PICK m \in dataFiles : dataFiles' = dataFiles \ {m} /\ m <= curReadfile
    BY <1>1, <1>5, LeastOf
<1>7. rfd'.name = NoName /\ rfd' \in [name : Nat \cup {NoName}, off : Nat] /\ NoName \notin Nat
    BY <1>1, SMT DEF NilFd, Fd, NoName
<1>8. Typed'
    BY <1>1, <1>2, <1>3, <1>4, <1>5, <1>6, <1>7 DEF Inv, Typed
<1>9. Locked' /\ WriteFile'
    BY <1>1, <1>2, <1>3, WriterKept DEF WriterSame
<1>10. \A n \in DOMAIN files' : n \notin dataFiles' => AtRisk(n)
    BY <1>4, <1>5, <1>6, SMT DEF Inv, Listed
<1>11. Listed'
    <2>1. \A n \in DOMAIN files' : n \notin dataFiles' \/ n < curReadfile' => AtRisk(n)'
        BY <1>1, <1>3, <1>4, <1>5, <1>10, SMT DEF AtRisk, NoName
    <2>2. \E b \in Nat : dataFiles' \cup DOMAIN files' \subseteq 0..b
        BY <1>4, <1>6 DEF Inv, Listed
    <2>. QED  BY <1>1, <1>2, <1>3, <1>4, <1>5, <1>7, <2>1, <2>2, ZenonT(40) DEF Inv, Listed
<1>12. ASSUME NEW n \in DOMAIN files' PROVE ReadFile(n)'
    <2>1. n \in DOMAIN files /\ files'[n] = files[n] /\ ReadFile(n) /\ n # rfd'.name
        BY <1>4, <1>5, <1>7 DEF Inv
    <2>. QED  BY <1>3, <2>1 DEF ReadFile
<1>13. NoRecordLost'
    <2>1. ASSUME rfd.name # NoName PROVE RecordsFrom(files[rfd.name], ReadOff) \subseteq exposed
        <3>1. PICK c : c = files[rfd.name]
            OBVIOUS
        <3>2. PICK g \in 0..Len(c) : RecordsFrom(c, g) \subseteq exposed /\ InStep(c, g)
            BY <1>5, <2>1, <3>1 DEF Inv, ReadFile
        <3>3. ReadOff = rfd.off /\ rfd.off >= g /\ rfd.off \in Int /\ DOMAIN c \subseteq Nat /\ g \in Int
            BY <1>1, <1>5, <2>1, <3>1, <3>2, SMTT(40) DEF ReadOff, InStep, Inv, Typed
        <3>4. RecordsFrom(c, rfd.off) \subseteq RecordsFrom(c, g)
            BY <3>3, FurtherOn
        <3>. QED  BY <3>1, <3>2, <3>3, <3>4
    <2>2. ASSUME NEW n \in (dataFiles \cap DOMAIN files) \ {curReadfile}
          PROVE  RecordsFrom(files[n], 0) \subseteq exposed \cup Reachable'
        <3>1. n \in DOMAIN files' /\ files'[n] = files[n] /\ n # NoName
            BY <1>4, <1>5, <1>7
        <3>2. CASE n \in dataFiles'
            <4>1. n \in (dataFiles' \cap DOMAIN files') \ {curReadfile'}
                BY <1>1, <3>1, <3>2
            <4>. QED  BY <3>1, <4>1 DEF Reachable
        <3>3. CASE n \notin dataFiles'
            BY <1>10, <3>1, <3>3 DEF AtRisk
        <3>. QED  BY <3>2, <3>3
    <2>3. Reachable \subseteq exposed \cup Reachable'
        <3>1. RecordsFrom(data, 0) \subseteq Reachable'
            BY <1>3 DEF Reachable
        <3>. QED  BY <2>1, <2>2, <3>1, SMT DEF Reachable
    <2>. QED  BY <1>3, <2>3 DEF Inv, NoRecordLost
<1>. QED  BY <1>8, <1>9, <1>11, <1>12, <1>13 DEF Inv

\* The position is reset.
LEMMA ResetPosKeeps == ASSUME Inv, ResetPos PROVE Inv'
<1>1. /\ pc["get"] = "reset" /\ pos' = Position(NoName, -1) /\ posFile' = pos'
      /\ Goto("get", "switch")
      /\ UNCHANGED <<data, files, dataFiles, curReadfile, rfd, size, curBatchSize,
                     locks, locals, run, history>>
    BY DEF ResetPos
<1>2. /\ pc'["get"] = "switch" /\ pc'["put"] = pc["put"]
      /\ pc' \in [Procs -> PutLabels \cup GetLabels]
      /\ pc'["put"] \in PutLabels /\ pc'["get"] \in GetLabels
    BY <1>1, GotoIs DEF Inv, Procs, GetLabels
<1>3. /\ UNCHANGED <<data, files, dataFiles, curReadfile, rfd, curBatchSize, wlock, rwlock,
                     rec, nbytes, item, restarts, opt, tried, put, got, dropped, torn, exposed>>
    BY <1>1 DEF locks, locals, run, history
<1>4. /\ pos' \in [name : Nat \cup {NoName}, seek : Int] /\ posFile' = pos'
      /\ posFile'.name = NoName /\ posFile'.seek <= 0
    BY <1>1, SMT DEF Position
<1>5. Typed'
    BY <1>2, <1>3, <1>4 DEF Inv, Typed
<1>6. Locked' /\ WriteFile'
    BY <1>1, <1>2, <1>3, WriterKept DEF WriterSame
<1>7. rfd.name = NoName /\ curReadfile = NoName /\ \A n \in DOMAIN files : n # NoName
    BY <1>1, SMT DEF Inv, Listed, Typed, NoName
<1>8. Listed'
    BY <1>1, <1>2, <1>3, <1>4, <1>7 DEF Inv, Listed, AtRisk
<1>9. ASSUME NEW n \in DOMAIN files' PROVE ReadFile(n)'
    BY <1>3, <1>7 DEF Inv, ReadFile
<1>10. NoRecordLost'
    <2>1. Reachable' = Reachable
        BY <1>3, <1>7, SMT DEF Reachable
    <2>. QED  BY <1>3, <2>1 DEF Inv, NoRecordLost
<1>. QED  BY <1>5, <1>6, <1>8, <1>9, <1>10 DEF Inv

\* Get moves on within the file that is open: it stays in step, and what it
\* passes over was handed out or is at risk.
LEMMA ReaderMoves ==
    ASSUME Inv, pc["get"] \in {"header", "payload", "callback", "commit"},
           NEW l \in {"idle", "payload", "callback", "commit"}, Goto("get", l),
           UNCHANGED <<data, files, dataFiles, curReadfile, curBatchSize, locks, rec, run,
                       tried, put, dropped, torn, exposed>>,
           rfd' \in [name : Nat \cup {NoName}, off : Nat], rfd'.name = rfd.name,
           pos' \in [name : Nat \cup {NoName}, seek : Int], pos'.name = pos.name, posFile' = pos',
           nbytes' \in Nat, item' \in Records \cup {NoRecord},
           got' \in Seq(Records \cup {NoRecord}), Range(got) \subseteq Range(got'),
           NEW c, c = files[rfd.name],
           \A g : Fit(c) /\ Prefix(c, g) /\ RecordsFrom(c, g) \subseteq exposed /\ InStep(c, g) =>
                    /\ InStep(c, g)'
                    /\ RecordsFrom(c, ReadOff) \subseteq
                            Range(got') \cup exposed \cup RecordsFrom(c, ReadOff')
    PROVE  Inv'
<1>1. /\ pc'["get"] = l /\ pc'["put"] = pc["put"]
      /\ pc' \in [Procs -> PutLabels \cup GetLabels]
      /\ pc'["put"] \in PutLabels /\ pc'["get"] \in GetLabels
    BY GotoIs DEF Inv, Procs, GetLabels
<1>2. UNCHANGED <<data, files, dataFiles, curReadfile, curBatchSize, wlock, rwlock, rec,
                  restarts, opt, tried, put, dropped, torn, exposed>>
    BY DEF locks, run
<1>3. /\ rfd.name # NoName /\ rfd.name = curReadfile /\ rfd.name \in DOMAIN files
      /\ pos.name = rfd.name
    BY DEF Inv, Listed
<1>4. Typed'
    BY <1>1, <1>2 DEF Inv, Typed
<1>5. Locked' /\ WriteFile'
    BY <1>1, <1>2, WriterKept DEF WriterSame
<1>6. Listed'
    <2>1. \A n \in DOMAIN files : AtRisk(n)' = AtRisk(n)
        BY <1>2 DEF AtRisk
    <2>. QED  BY <1>1, <1>2, <1>3, <2>1 DEF Inv, Listed
<1>7. ASSUME NEW n \in DOMAIN files' PROVE ReadFile(n)'
    <2>1. n \in DOMAIN files /\ ReadFile(n)
        BY <1>2 DEF Inv
    <2>2. PICK g \in 0..Len(files[n]) :
            /\ Fit(files[n]) /\ Prefix(files[n], g) /\ RecordsFrom(files[n], g) \subseteq exposed
            /\ n = rfd.name => InStep(files[n], g)
        BY <2>1 DEF ReadFile
    <2>3. ASSUME n = rfd'.name PROVE InStep(files[n], g)'
        <3>1. InStep(c, g)' /\ files'[n] = c
            BY <1>2, <2>2, <2>3
        <3>. QED  BY <3>1 DEF InStep
    <2>. QED  BY <1>2, <2>2, <2>3 DEF ReadFile
<1>8. NoRecordLost'
    <2>1. PICK g : Fit(c) /\ Prefix(c, g) /\ RecordsFrom(c, g) \subseteq exposed /\ InStep(c, g)
        BY <1>3 DEF Inv, ReadFile
    <2>2. RecordsFrom(c, ReadOff) \subseteq Range(got') \cup exposed \cup RecordsFrom(c, ReadOff')
        BY <2>1
    <2>3. RecordsFrom(c, ReadOff') \subseteq Reachable'
        BY <1>2, <1>3 DEF Reachable
    <2>4. Reachable \subseteq Range(got') \cup exposed \cup Reachable'
        <3>1. RecordsFrom(data, 0) \subseteq Reachable'
            BY <1>2 DEF Reachable
        <3>2. (UNION {RecordsFrom(files[n], 0) :
                    n \in (dataFiles \cap DOMAIN files) \ {curReadfile}}) \subseteq Reachable'
            BY <1>2 DEF Reachable
        <3>. QED  BY <1>3, <2>2, <2>3, <3>1, <3>2, SMTT(40) DEF Reachable
    <2>. QED  BY <1>2, <2>4 DEF Inv, NoRecordLost
<1>. QED  BY <1>4, <1>5, <1>6, <1>7, <1>8 DEF Inv

\* The file that is read, and where Get is in it.
LEMMA OpenFile ==
    ASSUME Inv, pc["get"] \in {"header", "payload", "callback", "commit"},
           NEW c, c = files[rfd.name]
    PROVE  /\ Fit(c) /\ Len(c) \in Nat /\ DOMAIN c = 1..Len(c) /\ rfd.name # NoName
           /\ rfd.off \in Nat /\ nbytes \in Nat /\ pos.seek \in Int /\ posFile = pos
           /\ Base \in Nat
           /\ rfd = [name |-> rfd.name, off |-> rfd.off] /\ rfd.name \in Nat
           /\ pos = [name |-> pos.name, seek |-> pos.seek] /\ pos.name \in Nat
<1>1. /\ rfd.name # NoName /\ rfd.name \in DOMAIN files /\ posFile = pos /\ pos.name = rfd.name
    BY DEF Inv, Listed
<1>2. Fit(c) /\ Base \in Nat
    BY <1>1 DEF Inv, ReadFile, InStep
<1>3. /\ rfd \in [name : Nat \cup {NoName}, off : Nat] /\ nbytes \in Nat
      /\ pos \in [name : Nat \cup {NoName}, seek : Int]
    BY DEF Inv, Typed
<1>4. Len(c) \in Nat /\ DOMAIN c = 1..Len(c)
    BY <1>2, SMT DEF Fit
<1>5. /\ rfd = [name |-> rfd.name, off |-> rfd.off] /\ rfd.name \in Nat /\ rfd.off \in Nat
      /\ pos = [name |-> pos.name, seek |-> pos.seek] /\ pos.name \in Nat /\ pos.seek \in Int
    BY <1>1, <1>3
<1>. QED  BY <1>1, <1>2, <1>3, <1>4, <1>5

\* Get reads a header.
LEMMA GetHeaderKeeps == ASSUME Inv, GetHeader PROVE Inv'
<1>1. PICK c : c = files[rfd.name]
    OBVIOUS
<1>2. /\ pc["get"] = "header" /\ rfd.off < Len(c)
      /\ UNCHANGED <<disk, dataFiles, curReadfile, pos, size, curBatchSize, locks,
                     rec, item, run, history>>
    BY <1>1 DEF GetHeader
<1>3. /\ Fit(c) /\ Len(c) \in Nat /\ DOMAIN c = 1..Len(c) /\ rfd.name # NoName
      /\ rfd.off \in Nat /\ nbytes \in Nat /\ posFile = pos
      /\ rfd = [name |-> rfd.name, off |-> rfd.off] /\ rfd.name \in Nat
    BY <1>1, <1>2, OpenFile
<1>4. PICK o \in Nat : o = rfd.off /\ o + 1 \in DOMAIN c
    BY <1>2, <1>3, SMT
<1>5. PICK n \in Decode(c[o + 1]) :
        \/ n > BufLen /\ rfd' = [rfd EXCEPT !.off = @ + 1 + n] /\ Goto("get", "idle") /\ nbytes' = nbytes
        \/ ~(n > BufLen) /\ rfd' = [rfd EXCEPT !.off = @ + 1] /\ nbytes' = n /\ Goto("get", "payload")
    BY <1>1, <1>4 DEF GetHeader
<1>6. n \in Nat
    <2>1. c[o + 1].kind \in {"hdr", "pay", "eof"}
        BY <1>3, <1>4, FitCell
    <2>2. c[o + 1].kind = "hdr" => LenOf[c[o + 1].rec] \in Nat
        BY <1>3, <1>4, FitCell
    <2>. QED  BY <1>5, <2>1, <2>2, Constants DEF Decode
<1>7. c[o + 1].kind = "hdr" => n = LenOf[c[o + 1].rec] /\ n <= BufLen
    BY <1>3, <1>4, <1>5, FitCell DEF Decode
<1>8. PICK l \in {"idle", "payload"}, t \in Nat :
        /\ Goto("get", l) /\ rfd' = [name |-> rfd.name, off |-> t]
        /\ l = "idle" => n > BufLen /\ t = o + 1 + n /\ nbytes' = nbytes
        /\ l = "payload" => t = o + 1 /\ nbytes' = n
    <2>1. CASE n > BufLen
        BY <1>3, <1>4, <1>5, <1>6, <2>1, SMTT(40)
    <2>2. CASE ~(n > BufLen)
        BY <1>3, <1>4, <1>5, <1>6, <2>2, SMTT(40)
    <2>. QED  BY <2>1, <2>2
<1>9. pc'["get"] = l /\ rfd'.off = t /\ rfd'.name = rfd.name /\ UNCHANGED <<pos, posFile, item, got, exposed>>
    BY <1>2, <1>8, GotoIs DEF Inv, Procs, GetLabels, disk, history
<1>10. Base = o /\ ReadOff = o
    BY <1>2, <1>4 DEF Base, ReadOff
<1>11. /\ l = "idle" => Base' = o + 1 + n /\ ReadOff' = o + 1 + n
       /\ l = "payload" => Base' = o /\ ReadOff' = o
    BY <1>4, <1>8, <1>9, SMT DEF Base, ReadOff
<1>12. ASSUME NEW g, Prefix(c, g), RecordsFrom(c, g) \subseteq exposed, InStep(c, g)
       PROVE  InStep(c, g)' /\ RecordsFrom(c, ReadOff) \subseteq exposed \cup RecordsFrom(c, ReadOff')
    <2>1. g \in 0..Len(c) /\ g \in Int
        BY <1>3, <1>12, SMT DEF Prefix
    <2>2. pos.seek = o \/ (pos.seek >= g /\ o >= g)
        BY <1>10, <1>12 DEF InStep
    <2>3. o <= g => Boundary(c, o)
        BY <1>10, <1>12 DEF InStep
    <2>4. o < g => c[o + 1].kind = "hdr"
        BY <1>3, <1>4, <1>12, <2>1, <2>3, AtBoundary, SMTT(40)
    <2>5. CASE l = "payload"
        <3>1. o < g => nbytes' = LenOf[c[o + 1].rec]
            BY <1>7, <1>8, <2>4, <2>5
        <3>. QED  BY <1>4, <1>9, <1>10, <1>11, <2>2, <2>3, <2>5, <3>1 DEF InStep
    <2>6. CASE l = "idle"
        <3>1. o >= g /\ o + 1 + n > g /\ o + 1 + n \in Nat
            BY <1>6, <1>7, <1>8, <2>1, <2>4, <2>6, Constants, SMTT(40)
        <3>2. pos.seek >= g
            BY <2>2, <3>1
        <3>3. InStep(c, g)'
            BY <1>9, <1>11, <2>1, <2>6, <3>1, <3>2, SMTT(40) DEF InStep
        <3>4. RecordsFrom(c, o) \subseteq RecordsFrom(c, g)
            BY <1>3, <2>1, <3>1, FurtherOn, SMT
        <3>. QED  BY <1>10, <1>12, <3>3, <3>4, ZenonT(40)
    <2>. QED  BY <2>5, <2>6
<1>13. /\ rfd' \in [name : Nat \cup {NoName}, off : Nat] /\ nbytes' \in Nat
       /\ pos' \in [name : Nat \cup {NoName}, seek : Int] /\ item' \in Records \cup {NoRecord}
       /\ got' \in Seq(Records \cup {NoRecord}) /\ posFile' = pos'
    BY <1>3, <1>6, <1>8, <1>9 DEF Inv, Typed
<1>14. UNCHANGED <<data, files, dataFiles, curReadfile, curBatchSize, locks, rec, run,
                   tried, put, dropped, torn, exposed>>
    BY <1>2 DEF disk, history
<1>. QED  BY <1>1, <1>2, <1>8, <1>9, <1>12, <1>13, <1>14, ReaderMoves

\* Get reads a payload, or finds less of it than the header says.
LEMMA GetPayloadKeeps == ASSUME Inv, GetPayload PROVE Inv'
<1>1. PICK c : c = files[rfd.name]
    OBVIOUS
<1>2. /\ pc["get"] = "payload"
      /\ UNCHANGED <<disk, dataFiles, curReadfile, pos, size, curBatchSize, locks,
                     rec, nbytes, run, history>>
    BY <1>1 DEF GetPayload
<1>3. /\ Fit(c) /\ Len(c) \in Nat /\ DOMAIN c = 1..Len(c) /\ rfd.name # NoName
      /\ rfd.off \in Nat /\ nbytes \in Nat /\ posFile = pos /\ Base \in Nat
      /\ rfd = [name |-> rfd.name, off |-> rfd.off] /\ rfd.name \in Nat
    BY <1>1, <1>2, OpenFile
<1>4. Base = rfd.off - 1 /\ ReadOff = rfd.off - 1
    BY <1>2 DEF Base, ReadOff
<1>5. PICK b \in Nat : Base = b /\ ReadOff = b /\ rfd.off = b + 1
    BY <1>3, <1>4, SMT
<1>6. PICK l \in {"idle", "callback"}, t \in Nat :
        /\ Goto("get", l) /\ rfd' = [name |-> rfd.name, off |-> t]
        /\ l = "idle" => b + 1 + nbytes > Len(c) /\ t = Len(c) /\ item' = item
        /\ l = "callback" => /\ b + 1 + nbytes <= Len(c) /\ t = b + 1 + nbytes
                             /\ item' = Content(c, b + 1, nbytes)
    <2>1. CASE b + 1 + nbytes > Len(c)
        <3>1. rfd' = [rfd EXCEPT !.off = Len(c)] /\ Goto("get", "idle") /\ item' = item
            BY <1>1, <1>3, <1>5, <2>1 DEF GetPayload
        <3>. QED  BY <1>3, <2>1, <3>1
    <2>2. CASE ~(b + 1 + nbytes > Len(c))
        <3>1. /\ rfd' = [rfd EXCEPT !.off = @ + nbytes] /\ Goto("get", "callback")
              /\ item' = Content(c, b + 1, nbytes)
            BY <1>1, <1>3, <1>5, <2>2 DEF GetPayload
        <3>2. b + 1 + nbytes \in Nat /\ b + 1 + nbytes <= Len(c)
            BY <1>3, <2>2, SMT
        <3>3. rfd' = [name |-> rfd.name, off |-> b + 1 + nbytes]
            BY <1>3, <1>5, <3>1
        <3>. QED  BY <3>1, <3>2, <3>3, Zenon
    <2>. QED  BY <2>1, <2>2
<1>7. /\ pc'["get"] = l /\ rfd'.off = t /\ rfd'.name = rfd.name
      /\ UNCHANGED <<pos, posFile, nbytes, got, exposed>>
    BY <1>2, <1>6, GotoIs DEF Inv, Procs, GetLabels, disk, history
<1>8. /\ l = "idle" => Base' = Len(c) /\ ReadOff' = Len(c)
      /\ l = "callback" => Base' = b /\ ReadOff' = b
    BY <1>3, <1>6, <1>7, SMT DEF Base, ReadOff
<1>9. ASSUME NEW g, Prefix(c, g), RecordsFrom(c, g) \subseteq exposed, InStep(c, g)
      PROVE  InStep(c, g)' /\ RecordsFrom(c, ReadOff) \subseteq exposed \cup RecordsFrom(c, ReadOff')
    <2>1. g \in 0..Len(c) /\ g \in Int
        BY <1>3, <1>9, SMT DEF Prefix
    <2>2. (pos.seek = b \/ (pos.seek >= g /\ b >= g)) /\ (b <= g => Boundary(c, b))
        BY <1>5, <1>9 DEF InStep
    <2>3. b < g => nbytes = LenOf[c[b + 1].rec]
        BY <1>2, <1>5, <1>9 DEF InStep
    <2>4. ASSUME b < g
          PROVE  /\ c[b + 1].kind = "hdr" /\ Complete(c, b + 1)
                 /\ b + 1 + nbytes <= g
        <3>1. /\ b + 1 \in DOMAIN c /\ c[b + 1].kind = "hdr" /\ Complete(c, b + 1)
              /\ LastCell(c, b + 1) <= g
            BY <1>3, <1>9, <2>1, <2>2, <2>4, AtBoundary, SMTT(40)
        <3>. QED  BY <2>3, <2>4, <3>1 DEF LastCell
    <2>5. CASE l = "callback"
        <3>1. b < g => item' = c[b + 1].rec
            BY <1>6, <2>3, <2>4, <2>5 DEF Content
        <3>2. rfd'.off <= Len(c) /\ item' = Content(c, b + 1, nbytes)
            BY <1>6, <1>7, <2>5
        <3>. QED  BY <1>5, <1>7, <1>8, <2>2, <2>3, <2>5, <3>1, <3>2 DEF InStep
    <2>6. CASE l = "idle"
        <3>1. b >= g
            BY <1>3, <1>6, <2>1, <2>4, <2>6, SMTT(40)
        <3>2. pos.seek >= g /\ Len(c) >= g
            BY <2>1, <2>2, <3>1, SMT
        <3>3. Len(c) <= g => Boundary(c, Len(c))
            <4>1. Len(c) <= g => Len(c) = g
                BY <1>3, <2>1, SMT
            <4>. QED  BY <1>3, <1>9, <4>1, PrefixBoundary
        <3>4. InStep(c, g)'
            BY <1>3, <1>7, <1>8, <2>1, <2>6, <3>2, <3>3, ZenonT(40) DEF InStep
        <3>5. RecordsFrom(c, b) \subseteq RecordsFrom(c, g)
            BY <1>3, <2>1, <3>1, FurtherOn, SMT
        <3>. QED  BY <1>5, <1>9, <3>4, <3>5
    <2>. QED  BY <2>5, <2>6
<1>10. item' \in Records \cup {NoRecord}
    <2>1. CASE l = "idle"
        BY <1>6, <2>1 DEF Inv, Typed
    <2>2. CASE l = "callback"
        <3>1. b + 1 \in DOMAIN c
            BY <1>3, <1>6, <2>2, SMT
        <3>2. c[b + 1].kind = "hdr" => c[b + 1].rec \in Records
            BY <1>3, <3>1, FitCell
        <3>. QED  BY <1>6, <2>2, <3>2 DEF Content
    <2>. QED  BY <2>1, <2>2
<1>11. /\ rfd' \in [name : Nat \cup {NoName}, off : Nat] /\ nbytes' \in Nat
       /\ pos' \in [name : Nat \cup {NoName}, seek : Int]
       /\ got' \in Seq(Records \cup {NoRecord}) /\ posFile' = pos'
    BY <1>3, <1>6, <1>7 DEF Inv, Typed
<1>12. UNCHANGED <<data, files, dataFiles, curReadfile, curBatchSize, locks, rec, run,
                   tried, put, dropped, torn, exposed>>
    BY <1>2 DEF disk, history
<1>. QED  BY <1>1, <1>2, <1>6, <1>7, <1>9, <1>10, <1>11, <1>12, ReaderMoves

\* fn takes the record: of the sound part only this one is passed over.
LEMMA CallbackOKKeeps == ASSUME Inv, CallbackOK PROVE Inv'
<1>1. PICK c : c = files[rfd.name]
    OBVIOUS
<1>2. /\ pc["get"] = "callback" /\ got' = Append(got, item) /\ Goto("get", "commit")
      /\ UNCHANGED <<disk, mem, locks, locals, run, tried, put, dropped, torn, exposed>>
    BY DEF CallbackOK
<1>3. /\ Fit(c) /\ Len(c) \in Nat /\ DOMAIN c = 1..Len(c)
      /\ rfd.off \in Nat /\ nbytes \in Nat /\ posFile = pos /\ Base \in Nat
    BY <1>1, <1>2, OpenFile
<1>4. /\ pc'["get"] = "commit" /\ UNCHANGED <<rfd, pos, posFile, nbytes, item, exposed>>
    BY <1>2, GotoIs DEF Inv, Procs, GetLabels, disk, mem, locals
<1>5. Base = rfd.off - 1 - nbytes /\ ReadOff = rfd.off - 1 - nbytes
    BY <1>2 DEF Base, ReadOff
<1>6. PICK b \in Nat : Base = b /\ ReadOff = b /\ rfd.off = b + 1 + nbytes
    BY <1>3, <1>5, SMT
<1>7. Base' = b /\ ReadOff' = b + 1 + nbytes
    BY <1>3, <1>4, <1>6, SMTT(40) DEF Base, ReadOff
<1>8. got' \in Seq(Records \cup {NoRecord}) /\ Range(got') = Range(got) \cup {item}
    BY <1>2, RangeAppend, SMTT(40) DEF Inv, Typed
<1>9. ASSUME NEW g, Prefix(c, g), RecordsFrom(c, g) \subseteq exposed, InStep(c, g)
      PROVE  /\ InStep(c, g)'
             /\ RecordsFrom(c, ReadOff) \subseteq
                    Range(got') \cup exposed \cup RecordsFrom(c, ReadOff')
    <2>1. g \in 0..Len(c) /\ g \in Int
        BY <1>3, <1>9, SMT DEF Prefix
    <2>2. /\ pos.seek = b \/ (pos.seek >= g /\ b >= g)
          /\ b <= g => Boundary(c, b)
          /\ b < g => nbytes = LenOf[c[b + 1].rec] /\ item = c[b + 1].rec
          /\ rfd.off <= Len(c)
        BY <1>2, <1>6, <1>9 DEF InStep
    <2>3. InStep(c, g)'
        BY <1>4, <1>7, <2>2 DEF InStep
    <2>4. CASE b >= g
        <3>1. RecordsFrom(c, b) \subseteq RecordsFrom(c, g)
            BY <1>3, <2>1, <2>4, FurtherOn, SMT
        <3>. QED  BY <1>6, <1>9, <2>3, <3>1
    <2>5. CASE b < g
        <3>1. \A i \in DOMAIN c : i > b /\ Complete(c, i) => i = b + 1 \/ i > LastCell(c, b + 1)
            BY <1>3, <1>9, <2>1, <2>2, <2>5, AtBoundary, SMTT(40)
        <3>2. LastCell(c, b + 1) = b + 1 + nbytes
            BY <2>2, <2>5 DEF LastCell
        <3>3. ASSUME NEW i \in DOMAIN c, i > b, Complete(c, i)
              PROVE  c[i].rec \in Range(got') \cup RecordsFrom(c, b + 1 + nbytes)
            <4>1. CASE i = b + 1
                BY <1>8, <2>2, <2>5, <4>1
            <4>2. CASE i > b + 1 + nbytes
                BY <3>3, <4>2 DEF RecordsFrom
            <4>. QED  BY <3>1, <3>2, <3>3, <4>1, <4>2
        <3>4. RecordsFrom(c, b) \subseteq Range(got') \cup RecordsFrom(c, b + 1 + nbytes)
            BY <3>3 DEF RecordsFrom
        <3>. QED  BY <1>6, <1>7, <2>3, <3>4
    <2>. QED  BY <1>6, <2>1, <2>4, <2>5, SMTT(40)
<1>10. /\ rfd' \in [name : Nat \cup {NoName}, off : Nat] /\ nbytes' \in Nat
       /\ pos' \in [name : Nat \cup {NoName}, seek : Int] /\ item' \in Records \cup {NoRecord}
       /\ posFile' = pos' /\ rfd'.name = rfd.name /\ pos'.name = pos.name
    BY <1>3, <1>4 DEF Inv, Typed
<1>11. UNCHANGED <<data, files, dataFiles, curReadfile, curBatchSize, locks, rec, run,
                   tried, put, dropped, torn, exposed>>
    BY <1>2 DEF disk, mem, locals
<1>. QED  BY <1>1, <1>2, <1>8, <1>9, <1>10, <1>11, ReaderMoves

\* fn fails: Get is before the record again.
LEMMA CallbackFailsKeeps == ASSUME Inv, CallbackFails PROVE Inv'
<1>1. PICK c : c = files[rfd.name]
    OBVIOUS
<1>2. /\ pc["get"] = "callback" /\ Goto("get", "idle")
      /\ UNCHANGED <<disk, dataFiles, curReadfile, pos, size, curBatchSize, locks,
                     locals, run, history>>
    BY DEF CallbackFails
<1>3. /\ rfd.off \in Nat /\ nbytes \in Nat /\ posFile = pos /\ Base \in Nat
      /\ rfd = [name |-> rfd.name, off |-> rfd.off] /\ rfd.name \in Nat /\ rfd.name # NoName
    BY <1>1, <1>2, OpenFile
<1>4. Base = rfd.off - 1 - nbytes /\ ReadOff = rfd.off - 1 - nbytes
    BY <1>2 DEF Base, ReadOff
<1>5. PICK b \in Nat : Base = b /\ ReadOff = b /\ rfd.off = b + 1 + nbytes
    BY <1>3, <1>4, SMT
<1>6. rfd' = [name |-> rfd.name, off |-> b]
    <2>1. rfd' = [rfd EXCEPT !.off = @ - (1 + nbytes)]
        BY <1>3 DEF CallbackFails
    <2>2. rfd.off - (1 + nbytes) = b
        BY <1>3, <1>5, SMT
    <2>. QED  BY <1>3, <2>1, <2>2
<1>7. /\ pc'["get"] = "idle" /\ rfd'.off = b /\ rfd'.name = rfd.name
      /\ UNCHANGED <<pos, posFile, nbytes, item, got, exposed>>
    BY <1>2, <1>6, GotoIs DEF Inv, Procs, GetLabels, disk, locals, history
<1>8. Base' = b /\ ReadOff' = b
    BY <1>7 DEF Base, ReadOff
<1>9. ASSUME NEW g, InStep(c, g) PROVE InStep(c, g)'
    BY <1>5, <1>7, <1>8, <1>9 DEF InStep
<1>10. /\ rfd' \in [name : Nat \cup {NoName}, off : Nat] /\ nbytes' \in Nat
       /\ pos' \in [name : Nat \cup {NoName}, seek : Int] /\ item' \in Records \cup {NoRecord}
       /\ got' \in Seq(Records \cup {NoRecord}) /\ posFile' = pos' /\ pos'.name = pos.name
    BY <1>3, <1>6, <1>7 DEF Inv, Typed
<1>11. UNCHANGED <<data, files, dataFiles, curReadfile, curBatchSize, locks, rec, run,
                   tried, put, dropped, torn, exposed>>
    BY <1>2 DEF disk, locals, history
<1>. QED  BY <1>1, <1>2, <1>5, <1>7, <1>8, <1>9, <1>10, <1>11, ReaderMoves

\* pos follows the reader.
LEMMA UpdatePosKeeps == ASSUME Inv, UpdatePos PROVE Inv'
<1>1. PICK c : c = files[rfd.name]
    OBVIOUS
<1>2. /\ pc["get"] = "commit" /\ Goto("get", "idle")
      /\ pos' = [pos EXCEPT !.seek = @ + 1 + nbytes] /\ posFile' = pos'
      /\ UNCHANGED <<data, files, dataFiles, curReadfile, rfd, size, curBatchSize,
                     locks, locals, run, history>>
    BY DEF UpdatePos
<1>3. /\ Fit(c) /\ Len(c) \in Nat /\ DOMAIN c = 1..Len(c)
      /\ rfd.off \in Nat /\ nbytes \in Nat /\ Base \in Nat /\ pos.seek \in Int
      /\ pos = [name |-> pos.name, seek |-> pos.seek] /\ pos.name \in Nat
    BY <1>1, <1>2, OpenFile
<1>4. Base = rfd.off - 1 - nbytes /\ ReadOff = rfd.off
    BY <1>2 DEF Base, ReadOff
<1>5. PICK b \in Nat : Base = b /\ rfd.off = b + 1 + nbytes
    BY <1>3, <1>4, SMT
<1>6. pos'.seek = pos.seek + 1 + nbytes /\ pos'.name = pos.name /\ pos'.seek \in Int
      /\ pos' \in [name : Nat \cup {NoName}, seek : Int]
    BY <1>2, <1>3, SMT
<1>7. pc'["get"] = "idle" /\ UNCHANGED <<rfd, nbytes, item, got, exposed>>
    BY <1>2, GotoIs DEF Inv, Procs, GetLabels, locals, history
<1>8. Base' = b + 1 + nbytes /\ ReadOff' = ReadOff
    BY <1>4, <1>5, <1>7 DEF Base, ReadOff
<1>9. ASSUME NEW g, Prefix(c, g), InStep(c, g) PROVE InStep(c, g)'
    <2>1. g \in 0..Len(c) /\ g \in Int
        BY <1>3, <1>9, SMT DEF Prefix
    <2>2. /\ pos.seek = b \/ (pos.seek >= g /\ b >= g)
          /\ b <= g => Boundary(c, b)
          /\ b < g => nbytes = LenOf[c[b + 1].rec]
        BY <1>2, <1>5, <1>9 DEF InStep
    <2>3. ASSUME b + 1 + nbytes <= g PROVE Boundary(c, b + 1 + nbytes)
        <3>1. b < g
            BY <1>3, <2>1, <2>3, SMTT(40)
        <3>2. Boundary(c, LastCell(c, b + 1))
            BY <1>3, <1>9, <2>1, <2>2, <3>1, AtBoundary, SMTT(40)
        <3>3. LastCell(c, b + 1) = b + 1 + nbytes
            BY <2>2, <3>1 DEF LastCell
        <3>. QED  BY <3>2, <3>3
    <2>4. \/ pos'.seek = b + 1 + nbytes
          \/ pos'.seek >= g /\ b + 1 + nbytes >= g
        BY <1>3, <1>6, <2>1, <2>2, SMTT(40)
    <2>5. b + 1 + nbytes \in Nat
        BY <1>3, SMT
    <2>. QED  BY <1>7, <1>8, <2>3, <2>4, <2>5 DEF InStep
<1>10. /\ rfd' \in [name : Nat \cup {NoName}, off : Nat] /\ nbytes' \in Nat
       /\ item' \in Records \cup {NoRecord} /\ rfd'.name = rfd.name
       /\ got' \in Seq(Records \cup {NoRecord})
    BY <1>7 DEF Inv, Typed
<1>11. UNCHANGED <<data, files, dataFiles, curReadfile, curBatchSize, locks, rec, run,
                   tried, put, dropped, torn, exposed>>
    BY <1>2 DEF locals, history
<1>. QED  BY <1>1, <1>2, <1>6, <1>7, <1>8, <1>9, <1>10, <1>11, ReaderMoves

\* The first file of the list is opened, if there is one.
LEMMA SwitchKeeps == ASSUME Inv, DoSwitchNextFile PROVE Inv'
<1>1. /\ pc["get"] = "switch"
      /\ UNCHANGED <<data, files, dataFiles, size, curBatchSize, locks, locals, run, history>>
    BY DEF DoSwitchNextFile
<1>2. /\ rfd.name = NoName /\ curReadfile = NoName /\ posFile.seek <= 0
      /\ dataFiles \subseteq Nat /\ DOMAIN files \subseteq Nat /\ NoName \notin Nat
    BY <1>1, SMT DEF Inv, Listed, Typed, NoName
<1>3. CASE dataFiles = {}
    BY <1>1, <1>3, LabelKeeps DEF DoSwitchNextFile, Between, disk, mem
<1>4. CASE dataFiles # {}
    <2>1. PICK f \in dataFiles : f = Min(dataFiles) /\ \A n \in dataFiles : f <= n
        BY <1>2, <1>4, LeastOf
    <2>2. curReadfile' = f
        BY <1>4, <2>1 DEF DoSwitchNextFile
    <2>3. \/ /\ f \in DOMAIN files /\ rfd' = Fd(f, 0) /\ pos' = Position(f, 0) /\ posFile' = pos'
             /\ Goto("get", "retry")
          \/ f \notin DOMAIN files /\ UNCHANGED <<rfd, pos, posFile>> /\ Goto("get", "idle")
        BY <1>4, <2>1 DEF DoSwitchNextFile
    <2>4. PICK l \in {"retry", "idle"} : Goto("get", l)
        BY <2>3
    <2>5. /\ pc'["get"] = l /\ pc'["put"] = pc["put"]
          /\ pc' \in [Procs -> PutLabels \cup GetLabels]
          /\ pc'["put"] \in PutLabels /\ pc'["get"] \in GetLabels
        BY <2>4, GotoIs DEF Inv, Procs, GetLabels
    <2>6. UNCHANGED <<data, files, dataFiles, curBatchSize, wlock, rwlock, rec, nbytes, item,
                      restarts, opt, tried, put, got, dropped, torn, exposed>>
        BY <1>1 DEF locks, locals, run, history
    <2>7. /\ rfd' \in [name : Nat \cup {NoName}, off : Nat] /\ f \in Nat
          /\ pos' \in [name : Nat \cup {NoName}, seek : Int]
          /\ posFile' \in [name : Nat \cup {NoName}, seek : Int]
        <3>1. f \in Nat
            BY <1>2
        <3>2. CASE rfd' = Fd(f, 0) /\ pos' = Position(f, 0) /\ posFile' = pos'
            BY <3>1, <3>2, SMT DEF Fd, Position
        <3>3. CASE UNCHANGED <<rfd, pos, posFile>>
            BY <3>1, <3>3 DEF Inv, Typed
        <3>. QED  BY <2>3, <3>1, <3>2, <3>3
    <2>8. Typed'
        BY <2>2, <2>5, <2>6, <2>7 DEF Inv, Typed
    <2>9. Locked' /\ WriteFile'
        BY <1>1, <2>5, <2>6, WriterKept DEF WriterSame
    <2>10. \A n \in DOMAIN files' : n \notin dataFiles' \/ n < curReadfile' => AtRisk(n)'
        <3>1. ASSUME NEW n \in DOMAIN files, n \notin dataFiles \/ n < f PROVE AtRisk(n)
            <4>1. n \in Nat /\ n \notin dataFiles
                BY <1>2, <2>1, <3>1, SMT
            <4>. QED  BY <4>1 DEF Inv, Listed
        <3>. QED  BY <2>2, <2>6, <3>1 DEF AtRisk
    <2>11. CASE f \in DOMAIN files
        <3>1. /\ rfd'.name = f /\ rfd'.off = 0 /\ pos'.name = f /\ pos'.seek = 0 /\ posFile' = pos'
              /\ f # NoName
            BY <1>2, <2>3, <2>11, SMT DEF Fd, Position
        <3>2. Base' = 0 /\ ReadOff' = 0
            BY <2>5, <3>1 DEF Base, ReadOff
        <3>3. Listed'
            BY <2>1, <2>2, <2>5, <2>6, <2>10, <2>11, <3>1 DEF Inv, Listed
        <3>4. ASSUME NEW n \in DOMAIN files' PROVE ReadFile(n)'
            <4>1. PICK g \in 0..Len(files[n]) :
                    /\ Fit(files[n]) /\ Prefix(files[n], g) /\ RecordsFrom(files[n], g) \subseteq exposed
                BY <2>6 DEF Inv, ReadFile
            <4>2. Boundary(files[n], 0)
                <5>1. DOMAIN files[n] = 1..Len(files[n]) /\ Len(files[n]) \in Nat
                    BY <4>1, SMT DEF Fit
                <5>. QED  BY <5>1, SMTT(40) DEF Boundary
            <4>3. ASSUME n = rfd'.name PROVE InStep(files[n], g)'
                BY <2>5, <2>6, <3>1, <3>2, <4>2 DEF InStep
            <4>. QED  BY <2>6, <4>1, <4>3 DEF ReadFile
        <3>5. NoRecordLost'
            <4>1. ASSUME NEW n \in dataFiles \cap DOMAIN files
                  PROVE  RecordsFrom(files[n], 0) \subseteq Reachable'
                <5>1. CASE n = f
                    BY <2>6, <3>1, <3>2, <5>1 DEF Reachable
                <5>2. CASE n # f
                    <6>1. n \in (dataFiles' \cap DOMAIN files') \ {curReadfile'}
                        BY <2>2, <2>6, <5>2
                    <6>. QED  BY <2>6, <6>1 DEF Reachable
                <5>. QED  BY <5>1, <5>2
            <4>2. RecordsFrom(data, 0) \subseteq Reachable'
                BY <2>6 DEF Reachable
            <4>3. Reachable \subseteq Reachable'
                BY <1>2, <4>1, <4>2, SMTT(40) DEF Reachable
            <4>. QED  BY <2>6, <4>3 DEF Inv, NoRecordLost
        <3>. QED  BY <2>8, <2>9, <3>3, <3>4, <3>5 DEF Inv
    <2>12. CASE f \notin DOMAIN files
        <3>1. UNCHANGED <<rfd, pos, posFile>>
            BY <2>3, <2>12
        <3>2. Listed'
            BY <1>1, <1>2, <2>1, <2>2, <2>5, <2>6, <2>10, <2>12, <3>1, ZenonT(40) DEF Inv, Listed
        <3>3. ASSUME NEW n \in DOMAIN files' PROVE ReadFile(n)'
            <4>1. n # rfd'.name /\ n \in DOMAIN files
                BY <1>2, <2>6, <3>1
            <4>. QED  BY <2>6, <4>1 DEF Inv, ReadFile
        <3>4. NoRecordLost'
            <4>1. (dataFiles \cap DOMAIN files) \ {curReadfile}
                      = (dataFiles' \cap DOMAIN files') \ {curReadfile'}
                BY <1>2, <2>2, <2>6, <2>12
            <4>2. Reachable' = Reachable
                BY <1>2, <2>6, <3>1, <4>1, SMTT(40) DEF Reachable
            <4>. QED  BY <2>6, <4>2 DEF Inv, NoRecordLost
        <3>. QED  BY <2>8, <2>9, <3>2, <3>3, <3>4 DEF Inv
    <2>. QED  BY <2>11, <2>12
<1>. QED  BY <1>3, <1>4

----------------------------------------------------------------------------
(* The order of the records *)

\* What is put is kept, and possibly x is put behind it.
Grows(x) == put' = put \/ (x \in Records /\ x \notin Range(put) /\ put' = Append(put, x))

\* The positions in put.
LEMMA GrowsIs ==
    ASSUME Typed, NEW x, Grows(x)
    PROVE  /\ Len(put) \in Nat /\ DOMAIN put = 1..Len(put)
           /\ DOMAIN put \subseteq DOMAIN put' /\ \A i \in DOMAIN put : put'[i] = put[i]
           /\ put' # put => /\ put' = Append(put, x) /\ x \in Records /\ x \notin Range(put)
                            /\ DOMAIN put' = 1..(Len(put) + 1) /\ put'[Len(put) + 1] = x
<1>1. put \in Seq(Records)
    BY DEF Typed
<1>2. Len(put) \in Nat /\ DOMAIN put = 1..Len(put)
    BY <1>1, SMT
<1>3. CASE put' = put
    BY <1>2, <1>3
<1>4. CASE put' = Append(put, x) /\ x \in Records /\ x \notin Range(put)
    <2>1. /\ DOMAIN put' = 1..(Len(put) + 1) /\ put'[Len(put) + 1] = x
          /\ \A i \in 1..Len(put) : put'[i] = put[i]
        BY <1>1, <1>4, SMT
    <2>2. 1..Len(put) \subseteq 1..(Len(put) + 1)
        BY <1>2, SMT
    <2>. QED  BY <1>2, <1>4, <2>1, <2>2
<1>. QED  BY <1>3, <1>4 DEF Grows

\* Records keep their places in put.
LEMMA BeforeKept ==
    ASSUME Typed, NEW x, Grows(x)
    PROVE  /\ \A r, s : Before(r, s) => Before(r, s)'
           /\ put' # put => \A r \in Range(put) : Before(r, x)'
           /\ Range(put) \subseteq Range(put') /\ Range(put') \subseteq Range(put) \cup {x}
           /\ IsInjective(put) => IsInjective(put')
<1>1. /\ Len(put) \in Nat /\ DOMAIN put = 1..Len(put)
      /\ DOMAIN put \subseteq DOMAIN put' /\ \A i \in DOMAIN put : put'[i] = put[i]
    BY GrowsIs
<1>2. \A r, s : Before(r, s) => Before(r, s)'
    BY <1>1 DEF Before
<1>3. CASE put' = put
    BY <1>2, <1>3
<1>4. CASE put' # put
    <2>1. PICK m \in Nat : m = Len(put) + 1 /\ \A i \in DOMAIN put : i < m
        BY <1>1, SMT
    <2>2. put'[m] = x /\ x \notin Range(put) /\ DOMAIN put' = 1..m
        BY <1>4, <2>1, GrowsIs
    <2>3. m \in DOMAIN put' /\ DOMAIN put' = DOMAIN put \cup {m}
        BY <1>1, <2>1, <2>2, SMT
    <2>4. ASSUME NEW r \in Range(put) PROVE Before(r, x)'
        BY <1>1, <2>1, <2>2, <2>3 DEF Before, Range
    <2>5. Range(put) \subseteq Range(put') /\ Range(put') \subseteq Range(put) \cup {x}
        BY <1>1, <2>2, <2>3 DEF Range
    <2>6. ASSUME IsInjective(put) PROVE IsInjective(put')
        <3>1. \A a, b \in DOMAIN put : put'[a] = put'[b] => a = b
            BY <1>1, <2>6 DEF IsInjective
        <3>2. \A a \in DOMAIN put : put'[a] # put'[m]
            BY <1>1, <2>2 DEF Range
        <3>. QED  BY <2>3, <3>1, <3>2 DEF IsInjective
    <2>. QED  BY <1>2, <2>4, <2>5, <2>6
<1>. QED  BY <1>3, <1>4

\* No record is put before itself, and of two only one is first.
LEMMA BeforeStrict ==
    ASSUME Typed, IsInjective(put), NEW r, NEW s, Before(r, s)
    PROVE  r # s /\ ~Before(s, r)
<1>1. PICK i, j \in DOMAIN put : i < j /\ put[i] = r /\ put[j] = s
    BY DEF Before
<1>2. \A k \in DOMAIN put : (put[k] = r => k = i) /\ (put[k] = s => k = j)
    BY <1>1 DEF IsInjective
<1>3. i \in Nat /\ j \in Nat /\ ~(j < i) /\ i # j
    BY <1>1, SMT DEF Typed
<1>. QED  BY <1>1, <1>2, <1>3 DEF Before

\* The write file gets at most the record x that is put then, behind all others.
Appends(x) ==
    \A i \in Written' :
        \/ i \in Written /\ data'[i] = data[i]
        \/ put' # put /\ data'[i].rec = x /\ \A j \in Written' : ~(i < j)

\* Files stay or go, and the write file is appended to: the order is kept.
LEMMA OrderKept ==
    ASSUME Typed, Ordered, NEW x, Grows(x), PutOnce', exposed \subseteq exposed',
           DOMAIN files' \subseteq DOMAIN files, \A n \in DOMAIN files' : files'[n] = files[n],
           Appends(x)
    PROVE  Ordered'
<1> USE DEF Appends
<1>1. \A r, s : Sorted(r, s) => Sorted(r, s)'
    BY BeforeKept DEF Sorted
<1>2. \A r \in Range(put) : put' # put => Sorted(r, x)'
    BY BeforeKept DEF Sorted
<1>3. Range(put) \subseteq Range(put') /\ (put' # put => x \in Range(put'))
    <2>1. put' # put => Len(put) + 1 \in DOMAIN put' /\ put'[Len(put) + 1] = x
        BY GrowsIs, SMT
    <2>. QED  BY <2>1, BeforeKept DEF Range
<1>4. \A i \in Written' : data'[i].rec \in Range(put')
    BY <1>3 DEF Ordered
<1>5. \A n \in DOMAIN files' : \A i \in Starts(files'[n]) : files'[n][i].rec \in Range(put')
    BY <1>3 DEF Ordered
<1>6. ASSUME NEW i \in Written', NEW j \in Written', i < j
      PROVE  Sorted(data[i].rec, data[j].rec)'
    <2>1. i \in Written /\ data'[i] = data[i] /\ data[i].rec \in Range(put)
        BY <1>6 DEF Ordered
    <2>2. CASE j \in Written /\ data'[j] = data[j]
        BY <1>1, <1>6, <2>1, <2>2 DEF Ordered
    <2>3. CASE put' # put /\ data'[j].rec = x
        BY <1>2, <2>1, <2>3
    <2>. QED  BY <2>2, <2>3
<1>7. ASSUME NEW n \in DOMAIN files', NEW i \in Starts(files'[n]), NEW j \in Starts(files'[n]), i < j
      PROVE  Sorted(files[n][i].rec, files[n][j].rec)'
    BY <1>1, <1>7 DEF Ordered
<1>8. ASSUME NEW n \in DOMAIN files', NEW i \in Starts(files'[n]), NEW j \in Written'
      PROVE  Sorted(files[n][i].rec, data[j].rec)'
    <2>1. n \in DOMAIN files /\ files'[n] = files[n] /\ files[n][i].rec \in Range(put)
        BY DEF Ordered
    <2>2. CASE j \in Written /\ data'[j] = data[j]
        BY <1>1, <2>1, <2>2 DEF Ordered
    <2>3. CASE put' # put /\ data'[j].rec = x
        BY <1>2, <2>1, <2>3
    <2>. QED  BY <2>2, <2>3
<1>9. ASSUME NEW n \in DOMAIN files', NEW m \in DOMAIN files', n < m,
             NEW i \in Starts(files'[n]), NEW j \in Starts(files'[m])
      PROVE  Sorted(files[n][i].rec, files[m][j].rec)'
    BY <1>1, <1>9 DEF Ordered
<1>10. \A c : Starts(c)' = Starts(c)
    OBVIOUS
<1>. QED  BY <1>4, <1>5, <1>6, <1>7, <1>8, <1>9, <1>10 DEF Ordered

\* The write file and what is put stay as they are; files may go.
LEMMA OrderSame ==
    ASSUME Typed, Ordered, UNCHANGED <<data, put>>, PutOnce', exposed \subseteq exposed',
           DOMAIN files' \subseteq DOMAIN files, \A n \in DOMAIN files' : files'[n] = files[n],
           (pc'["put"] = "data") = (pc["put"] = "data")
    PROVE  Ordered' /\ \A x : Grows(x) /\ Appends(x)
<1>1. Written' = Written
    BY DEF Written, Pending
<1>2. \A x : Grows(x) /\ Appends(x)
    BY <1>1 DEF Grows, Appends
<1>. QED  BY <1>1, <1>2, OrderKept

\* Put begins.
LEMMA PutBeginOrders ==
    ASSUME Inv, Ordered, NEW r \in Records, PutBegin(r) PROVE Ordered' /\ Grows(rec) /\ Appends(rec)
<1>1. CASE UNCHANGED vars
    <2>1. UNCHANGED <<data, put, files, exposed, pc, rec, tried>>
        BY <1>1 DEF vars, disk, history, locals
    <2>2. PutOnce'
        BY <2>1 DEF Ordered, PutOnce
    <2>. QED  BY <2>1, <2>2, OrderSame DEF Inv
<1>2. CASE ~UNCHANGED vars
    <2>1. /\ pc["put"] = "idle" /\ rec' = r /\ r \notin tried /\ tried' = tried \cup {r}
          /\ Goto("put", IF Full(r) THEN "drop" ELSE "header")
          /\ UNCHANGED <<data, files, put, exposed>>
        BY <1>2 DEF PutBegin, disk
    <2>2. pc'["put"] \in {"drop", "header"}
        BY <2>1, GotoIs DEF Inv, Procs, PutLabels
    <2>3. PutOnce'
        BY <2>1 DEF Ordered, PutOnce
    <2>. QED  BY <2>1, <2>2, <2>3, OrderSame DEF Inv
<1>. QED  BY <1>1, <1>2

\* A header or an EOF is appended to the write file.
LEMMA CellAppended ==
    ASSUME Inv, Inv', NEW x \in Cells, x.kind # "pay", data' = Append(data, x),
           NEW i \in Starts(data'), i # Len(data') \/ x.kind = "eof"
    PROVE  i \in Starts(data) /\ data'[i] = data[i]
<1>1. Fit(data) /\ Fit(data') /\ data \in Seq(Cells)
    BY DEF Inv, WriteFile, Fit
<1>2. /\ Len(data) \in Nat /\ DOMAIN data = 1..Len(data) /\ Len(data') = Len(data) + 1
      /\ DOMAIN data' = 1..(Len(data) + 1) /\ data'[Len(data) + 1] = x
      /\ \A j \in DOMAIN data : data'[j] = data[j]
    BY <1>1, SMT
<1>3. Extends(data, data')
    BY <1>1, <1>2, SMT DEF Extends
<1>4. i \in DOMAIN data' /\ Complete(data', i)
    BY DEF Starts
<1>5. i # Len(data) + 1
    BY <1>2, <1>4 DEF Complete
<1>6. PICK k : k = Len(data) + 1
    OBVIOUS
<1>7. i \in DOMAIN data /\ k \in DOMAIN data' /\ i < k /\ k <= Len(data) + 1
    BY <1>2, <1>4, <1>5, <1>6, SMT
<1>8. Complete(data, i)
    BY <1>2, <1>3, <1>4, <1>6, <1>7, NotCompletedLater
<1>. QED  BY <1>2, <1>7, <1>8 DEF Starts

\* The header is written: its record does not count yet.
LEMMA PutHeaderOrders ==
    ASSUME Inv, Inv', Ordered, PutHeader PROVE Ordered' /\ Grows(rec) /\ Appends(rec)
<1>1. /\ pc["put"] = "header" /\ rec \in Records /\ UNCHANGED <<files, rec, tried, put, exposed>>
    BY DEF Inv, Locked, PutHeader, locals, history
<1>2. PICK l \in {"idle", "data"} :
        /\ Goto("put", l)
        /\ l = "idle" => UNCHANGED data
        /\ l = "data" => data' = Append(data, Hdr(rec))
    BY DEF PutHeader
<1>3. pc'["put"] = l
    BY <1>2, GotoIs DEF Inv, Procs, PutLabels
<1>4. PutOnce'
    BY <1>1, <1>3 DEF Ordered, PutOnce
<1>5. CASE l = "idle"
    BY <1>1, <1>2, <1>3, <1>4, <1>5, OrderSame DEF Inv
<1>6. CASE l = "data"
    <2>1. Hdr(rec) \in Cells /\ Hdr(rec).kind = "hdr"
        BY <1>1 DEF Hdr, Cells
    <2>2. ASSUME NEW i \in Written' PROVE i \in Written /\ data'[i] = data[i]
        <3>1. i \in Starts(data') /\ i # Len(data')
            BY <1>3, <1>6 DEF Written, Pending
        <3>2. i \in Starts(data) /\ data'[i] = data[i]
            BY <1>2, <1>6, <2>1, <3>1, CellAppended
        <3>. QED  BY <1>1, <3>2 DEF Written, Pending
    <2>3. Grows(rec) /\ Appends(rec)
        BY <1>1, <2>2 DEF Grows, Appends
    <2>. QED  BY <1>1, <1>4, <2>3, OrderKept DEF Inv
<1>. QED  BY <1>5, <1>6

\* The payload is written: its record is the last one of the write file.
LEMMA PutDataOrders ==
    ASSUME Inv, Ordered, PutData PROVE Ordered' /\ Grows(rec) /\ Appends(rec)
<1>1. /\ pc["put"] = "data" /\ data' = data \o Payload(rec, LenOf[rec])
      /\ put' = Append(put, rec) /\ exposed \subseteq exposed' /\ UNCHANGED <<files, rec, tried>>
    BY DEF PutData, locals
<1>2. rec \in Records /\ LenOf[rec] \in 0..LenOf[rec]
    BY <1>1, Constants, SMT DEF Inv, Locked
<1>3. PICK l \in {"idle", "rotate"} : Goto("put", l)
    BY DEF PutData
<1>4. pc'["put"] = l
    BY <1>3, GotoIs DEF Inv, Procs, PutLabels
<1>5. Grows(rec)
    BY <1>1, <1>2 DEF Ordered, PutOnce, Grows
<1>6. put' # put
    <2>1. Range(put') = Range(put) \cup {rec}
        BY <1>1, <1>2, RangeAppend, SMTT(40) DEF Inv, Typed
    <2>2. rec \notin Range(put)
        BY <1>1 DEF Ordered, PutOnce
    <2>. QED  BY <2>1, <2>2
<1>7. PutOnce'
    <2>1. Range(put') \subseteq Range(put) \cup {rec} /\ IsInjective(put')
        <3>1. PICK x : x = rec
            OBVIOUS
        <3>. QED  BY <1>5, <3>1, BeforeKept DEF Inv, Ordered, PutOnce
    <2>. QED  BY <1>1, <1>4, <2>1 DEF Ordered, PutOnce
<1>8. /\ Extends(data, data') /\ data'[Len(data)].rec = rec /\ Len(data) \in Nat
      /\ \A i \in DOMAIN data' : Complete(data', i) =>
            \/ i \in DOMAIN data /\ i < Len(data) /\ Complete(data, i)
            \/ i = Len(data)
    BY <1>1, <1>2, PayloadWritten
<1>9. ASSUME NEW i \in Written'
      PROVE  \/ i \in Written /\ data'[i] = data[i]
             \/ put' # put /\ data'[i].rec = rec /\ \A j \in Written' : ~(i < j)
    <2>1. i \in DOMAIN data' /\ Complete(data', i)
        BY DEF Written, Starts
    <2>2. CASE i \in DOMAIN data /\ i < Len(data) /\ Complete(data, i)
        <3>1. i # Len(data) /\ data'[i] = data[i]
            BY <1>8, <2>2, ExtendsCell, SMT
        <3>. QED  BY <2>2, <3>1 DEF Written, Starts, Pending
    <2>3. CASE i = Len(data)
        <3>1. ASSUME NEW j \in Written', i < j PROVE FALSE
            <4>1. j \in DOMAIN data' /\ Complete(data', j)
                BY DEF Written, Starts
            <4>2. j <= Len(data) /\ j \in Nat
                BY <1>8, <4>1, SMT DEF Extends, Fit
            <4>. QED  BY <1>8, <2>3, <3>1, <4>2, SMTT(40)
        <3>. QED  BY <1>6, <1>8, <2>3, <3>1
    <2>. QED  BY <1>8, <2>1, <2>2, <2>3
<1>10. Appends(rec)
    BY <1>1, <1>9 DEF Appends
<1>. QED  BY <1>1, <1>5, <1>7, <1>10, OrderKept DEF Inv

\* A part of the payload makes no record.
LEMMA PutDataFailsOrders ==
    ASSUME Inv, Ordered, PutDataFails PROVE Ordered' /\ Grows(rec) /\ Appends(rec)
<1>1. /\ pc["put"] = "data" /\ Goto("put", "idle") /\ UNCHANGED <<files, put, tried, exposed>>
    BY DEF PutDataFails
<1>2. rec \in Records /\ LenOf[rec] \in Nat
    BY <1>1, Constants DEF Inv, Locked
<1>3. PICK n \in 0..(LenOf[rec] - 1) : data' = data \o Payload(rec, n)
    BY DEF PutDataFails
<1>4. n \in 0..LenOf[rec] /\ n # LenOf[rec]
    BY <1>2, SMT
<1>5. pc'["put"] = "idle"
    BY <1>1, GotoIs DEF Inv, Procs, PutLabels
<1>6. /\ Extends(data, data') /\ Len(data) \in Nat
      /\ \A i \in DOMAIN data' : Complete(data', i) =>
            i \in DOMAIN data /\ i < Len(data) /\ Complete(data, i)
    BY <1>1, <1>3, <1>4, PayloadWritten
<1>7. ASSUME NEW i \in Written' PROVE i \in Written /\ data'[i] = data[i]
    <2>1. i \in DOMAIN data /\ i < Len(data) /\ Complete(data, i)
        BY <1>6 DEF Written, Starts
    <2>2. i # Len(data) /\ data'[i] = data[i]
        BY <1>6, <2>1, ExtendsCell, SMT
    <2>. QED  BY <2>1, <2>2 DEF Written, Starts, Pending
<1>8. Grows(rec) /\ Appends(rec) /\ PutOnce'
    BY <1>1, <1>5, <1>7 DEF Grows, Appends, Ordered, PutOnce
<1>. QED  BY <1>1, <1>8, OrderKept DEF Inv

\* The EOF is no record either.
LEMMA RotateEOFOrders ==
    ASSUME Inv, Inv', Ordered, NEW p \in Procs, RotateEOF(p) PROVE Ordered' /\ Grows(rec) /\ Appends(rec)
<1>1. /\ pc[p] = "rotate" /\ data' = Append(data, EOFHint) /\ Goto(p, "rename")
      /\ UNCHANGED <<files, rec, tried, put, exposed>>
    BY DEF RotateEOF, locals, history
<1>2. pc'[p] = "rename" /\ \A q \in Procs : q # p => pc'[q] = pc[q]
    BY <1>1, GotoIs DEF Inv, PutLabels, GetLabels
<1>3. pc["put"] # "data"
    BY <1>1, RotatesAlone
<1>4. EOFHint \in Cells /\ EOFHint.kind = "eof"
    BY DEF EOFHint, Cells
<1>5. ASSUME NEW i \in Written' PROVE i \in Written /\ data'[i] = data[i]
    <2>1. i \in Starts(data) /\ data'[i] = data[i]
        BY <1>1, <1>4, CellAppended DEF Written
    <2>. QED  BY <1>3, <2>1 DEF Written, Pending
<1>6. Grows(rec) /\ Appends(rec) /\ PutOnce'
    <2>1. /\ pc'["put"] # "idle" => pc["put"] # "idle"
          /\ pc'["put"] \in {"header", "data"} => pc["put"] \in {"header", "data"}
        BY <1>1, <1>2 DEF Procs
    <2>. QED  BY <1>1, <1>5, <2>1 DEF Grows, Appends, Ordered, PutOnce
<1>. QED  BY <1>1, <1>6, OrderKept DEF Inv

\* The write file becomes the last file: what has a higher number is at risk.
LEMMA RotateRenameOrders ==
    ASSUME Inv, Ordered, NEW p \in Procs, RotateRename(p) PROVE Ordered'
<1>1. /\ pc[p] = "rename" /\ data' = <<>>
      /\ files' = [n \in DOMAIN files \cup {NewFile} |->
                      IF n = NewFile THEN data ELSE files[n]]
      /\ UNCHANGED <<rec, tried, put, exposed>>
    BY DEF RotateRename, locals
<1>2. /\ pc'[p] = IF p = "put" THEN "idle" ELSE "start"
      /\ \A q \in Procs : q # p => pc'[q] = pc[q]
    BY GotoIs DEF RotateRename, Inv, PutLabels, GetLabels
<1>3. pc["put"] \notin {"header", "data"}
    BY <1>1, RotatesAlone
<1>4. PICK b \in Nat : dataFiles \cup DOMAIN files \subseteq 0..b
    BY DEF Inv, Listed
<1>5. PICK N \in 0..(b + 1) : N = NewFile /\ (\A n \in dataFiles : n < N)
    BY <1>4, NewFileIs
<1>6. /\ DOMAIN files' = DOMAIN files \cup {N} /\ files'[N] = data
      /\ \A n \in DOMAIN files : n # N => files'[n] = files[n]
    BY <1>1, <1>5
<1>7. \A i \in Starts(data) : i \in Written
    BY <1>3 DEF Written, Pending
<1>8. PutOnce'
    <2>1. pc'["put"] # "idle" => pc["put"] # "idle" /\ pc'["put"] = pc["put"]
        BY <1>1, <1>2 DEF Procs
    <2>. QED  BY <1>1, <2>1 DEF Ordered, PutOnce
<1>9. Written' = {} /\ \A c : Starts(c)' = Starts(c)
    <2>1. DOMAIN data' = {}
        BY <1>1, EmptyFile
    <2>. QED  BY <2>1 DEF Written, Starts
<1>10. \A r, s : Sorted(r, s)' = Sorted(r, s)
    BY <1>1 DEF Sorted, Before
<1>11. ASSUME NEW n \in DOMAIN files, N < n, NEW i \in Starts(files[n])
       PROVE  files[n][i].rec \in exposed
    <2>1. n \notin dataFiles /\ AtRisk(n)
        BY <1>4, <1>5, <1>11, SMTT(40) DEF Inv, Listed
    <2>2. i > 0
        BY SMT DEF Starts, Inv, Typed
    <2>. QED  BY <2>1, <2>2 DEF AtRisk, RecordsFrom, Starts
<1>12. \A n \in DOMAIN files' : \A i \in Starts(files'[n]) : files'[n][i].rec \in Range(put')
    BY <1>1, <1>6, <1>7 DEF Ordered
<1>13. ASSUME NEW n \in DOMAIN files', NEW i \in Starts(files'[n]), NEW j \in Starts(files'[n]), i < j
       PROVE  Sorted(files'[n][i].rec, files'[n][j].rec)
    BY <1>6, <1>7, <1>13 DEF Ordered
<1>14. ASSUME NEW n \in DOMAIN files', NEW m \in DOMAIN files', n < m,
              NEW i \in Starts(files'[n]), NEW j \in Starts(files'[m])
       PROVE  Sorted(files'[n][i].rec, files'[m][j].rec)
    <2>1. CASE n = N
        <3>1. m \in DOMAIN files /\ m # N
            BY <1>4, <1>5, <1>6, <1>14, <2>1, SMTT(40)
        <3>. QED  BY <1>6, <1>11, <1>14, <2>1, <3>1, ZenonT(40) DEF Sorted
    <2>2. CASE m = N /\ n # N
        BY <1>6, <1>7, <2>2 DEF Ordered
    <2>3. CASE m # N /\ n # N
        BY <1>6, <1>14, <2>3 DEF Ordered
    <2>. QED  BY <2>1, <2>2, <2>3
<1>. QED  BY <1>8, <1>9, <1>10, <1>12, <1>13, <1>14 DEF Ordered

----------------------------------------------------------------------------
(* Restart *)

\* What a crash, or a stop, leaves of the write file.
LEMMA CrashedFile ==
    ASSUME Inv, NEW n \in (IF pc["put"] = "data" THEN 0..LenOf[rec] ELSE {0}),
           NEW d, d = IF pc["put"] = "data" THEN data \o Payload(rec, n) ELSE data,
           NEW t, t = (torn \/ (pc["put"] = "data" /\ n < LenOf[rec]) \/ \E q \in Procs : pc[q] = "rename"),
           NEW e, exposed \subseteq e, pc["put"] = "data" /\ n = LenOf[rec] /\ torn => rec \in e
    PROVE  /\ Fit(d) /\ RecordsFrom(data, 0) \subseteq RecordsFrom(d, 0)
           /\ pc["put"] = "data" /\ n = LenOf[rec] => rec \in RecordsFrom(d, 0)
           /\ \E g \in 0..Len(d) :
                /\ Prefix(d, g) /\ (t \/ g = Len(d))
                /\ \A i \in (g + 1)..Len(d) : Complete(d, i) => d[i].rec \in e
<1>1. CASE pc["put"] = "data"
    <2>1. n \in 0..LenOf[rec] /\ d = data \o Payload(rec, n)
        BY <1>1
    <2>2. /\ Extends(data, d) /\ Fit(d) /\ Len(d) = Len(data) + n
          /\ Len(data) \in Nat /\ Len(data) > 0 /\ d[Len(data)].rec = rec
          /\ n = LenOf[rec] => Complete(d, Len(data))
        BY <1>1, <2>1, PayloadWritten
    <2>3. n = LenOf[rec] => rec \in RecordsFrom(d, 0)
        <3>1. LenOf[rec] \in Nat
            BY <1>1, Constants DEF Inv, Locked
        <3>2. Len(data) \in DOMAIN d /\ Len(data) > 0
            BY <2>1, <2>2, <3>1, SMT DEF Fit
        <3>. QED  BY <2>2, <3>2 DEF RecordsFrom
    <2>4. PICK g \in 0..Len(d) :
            /\ Prefix(d, g)
            /\ torn \/ n # LenOf[rec] \/ g = Len(d)
            /\ \A i \in (g + 1)..Len(d) : Complete(d, i) =>
                    d[i].rec \in exposed \/ (torn /\ n = LenOf[rec] /\ d[i].rec = rec)
        BY <1>1, <2>1, PayloadSound
    <2>5. n # LenOf[rec] => n < LenOf[rec]
        BY <1>1, <2>1, Constants, SMT DEF Inv, Locked
    <2>6. t \/ g = Len(d)
        BY <1>1, <2>4, <2>5, Zenon
    <2>7. \A i \in (g + 1)..Len(d) : Complete(d, i) => d[i].rec \in e
        BY <1>1, <2>4
    <2>. QED  BY <1>1, <2>2, <2>3, <2>4, <2>6, <2>7, RecordsExtend
<1>2. CASE pc["put"] # "data"
    <2>1. d = data /\ Fit(data)
        BY <1>2 DEF Inv, WriteFile
    <2>2. PICK g \in 0..Len(data) :
            /\ Prefix(data, g) /\ (torn \/ g = Settled)
            /\ \A i \in (g + 1)..Len(data) :
                Complete(data, i) => Pending(i) \/ data[i].rec \in exposed
        BY DEF Inv, WriteFile
    <2>3. ~(\E q \in Procs : pc[q] = "rename") => Settled = Len(data)
        BY <1>2 DEF Settled
    <2>4. t \/ g = Len(data)
        BY <2>2, <2>3, Zenon
    <2>5. \A i \in (g + 1)..Len(data) : Complete(data, i) => data[i].rec \in e
        BY <1>2, <2>2 DEF Pending
    <2>. QED  BY <1>2, <2>1, <2>2, <2>4, <2>5
<1>. QED  BY <1>1, <1>2

\* Where Get goes on after Open: in the file that it was reading, not behind
\* the place it had reached, or in a file whose records are at risk.
LEMMA GoesOn ==
    ASSUME Inv, NEW p, p = posFile \/ p = Position(NoName, 0),
           p.name \in DOMAIN files, p.seek > 0
    PROVE  /\ p = posFile /\ p.name \in Nat
           /\ \/ pc["get"] = "reset"
              \/ rfd.name = p.name /\ curReadfile = p.name /\ pos = p /\ rfd.name # NoName
<1>1. p = posFile /\ p.name \in Nat
    BY SMT DEF Inv, Typed, Position, NoName
<1>2. CASE rfd.name = NoName
    <2>1. posFile.seek \in Int /\ ~(posFile.seek <= 0)
        BY <1>1, SMT DEF Inv, Typed
    <2>2. pc["get"] # "reset" => posFile.seek <= 0
        BY <1>2, Zenon DEF Inv, Listed
    <2>. QED  BY <1>1, <2>1, <2>2, Zenon
<1>3. CASE rfd.name # NoName
    <2>1. rfd.name = curReadfile /\ posFile = pos /\ pos.name = rfd.name
        BY <1>3, Zenon DEF Inv, Listed
    <2>. QED  BY <1>1, <1>3, <2>1, Zenon
<1>. QED  BY <1>2, <1>3

\* The new process: what it finds is in order, and nothing is lost but what is
\* at risk.
LEMMA RestartKeeps == ASSUME Inv, Restart PROVE Inv'
<1>1. PICK p \in {posFile} \cup (IF pc["get"] = "commit" THEN {Position(NoName, 0)} ELSE {}),
           n \in (IF pc["put"] = "data" THEN 0..LenOf[rec] ELSE {0}) :
        /\ Open(IF pc["put"] = "data" THEN data \o Payload(rec, n) ELSE data, p)
        /\ put' = IF pc["put"] = "data" /\ n = LenOf[rec] THEN Append(put, rec) ELSE put
        /\ torn' = (torn \/ (pc["put"] = "data" /\ n < LenOf[rec]) \/ \E q \in Procs : pc[q] = "rename")
        /\ exposed' = exposed
               \cup (IF (pc["put"] = "data" /\ n = LenOf[rec]) /\ torn THEN {rec} ELSE {})
               \cup (IF pc["get"] = "reset" /\ p.name \in DOMAIN files THEN UpTo(p.name) ELSE {})
    BY DEF Restart
<1>2. /\ restarts < MaxRestarts /\ restarts' = restarts + 1 /\ wlock' = Free /\ rwlock' = Free
      /\ pc' = [q \in Procs |-> "idle"] /\ rec' = NoRecord /\ nbytes' = 0 /\ item' = NoRecord
      /\ UNCHANGED <<opt, tried, got, dropped>>
    BY DEF Restart
<1>3. /\ data' = (IF pc["put"] = "data" THEN data \o Payload(rec, n) ELSE data) /\ files' = files
      /\ curBatchSize' = Len(data') /\ dataFiles' = DOMAIN files /\ LoadUnfinishedFile(p)
    BY <1>1 DEF Open
<1>4. pc'["put"] = "idle" /\ pc'["get"] = "idle"
    BY <1>2 DEF Procs
<1>5. p = posFile \/ p = Position(NoName, 0)
    BY <1>1
<1>6. exposed \subseteq exposed' /\ (pc["put"] = "data" /\ n = LenOf[rec] /\ torn => rec \in exposed')
    BY <1>1
<1>7. /\ Fit(data') /\ RecordsFrom(data, 0) \subseteq RecordsFrom(data', 0)
      /\ pc["put"] = "data" /\ n = LenOf[rec] => rec \in RecordsFrom(data', 0)
      /\ \E g \in 0..Len(data') :
            /\ Prefix(data', g) /\ (torn' \/ g = Len(data'))
            /\ \A i \in (g + 1)..Len(data') : Complete(data', i) => data'[i].rec \in exposed'
    <2>1. PICK d : d = data'
        OBVIOUS
    <2>2. PICK t : t = (torn \/ (pc["put"] = "data" /\ n < LenOf[rec]) \/ \E q \in Procs : pc[q] = "rename")
        OBVIOUS
    <2>3. PICK e : e = exposed'
        OBVIOUS
    <2>4. d = IF pc["put"] = "data" THEN data \o Payload(rec, n) ELSE data
        BY <1>3, <2>1, Zenon
    <2>5. exposed \subseteq e /\ (pc["put"] = "data" /\ n = LenOf[rec] /\ torn => rec \in e)
        BY <1>6, <2>3, Zenon
    <2>6. /\ Fit(d) /\ RecordsFrom(data, 0) \subseteq RecordsFrom(d, 0)
          /\ pc["put"] = "data" /\ n = LenOf[rec] => rec \in RecordsFrom(d, 0)
          /\ \E g \in 0..Len(d) :
                /\ Prefix(d, g) /\ (t \/ g = Len(d))
                /\ \A i \in (g + 1)..Len(d) : Complete(d, i) => d[i].rec \in e
        BY <2>2, <2>4, <2>5, CrashedFile, Zenon
    <2>7. t = torn'
        BY <1>1, <2>2, Zenon
    <2>. QED  BY <2>1, <2>3, <2>6, <2>7, Zenon
<1>8. pc["put"] = "data" => rec \in Records
    BY DEF Inv, Locked
<1>9. /\ put' \in Seq(Records)
      /\ Range(put') \subseteq Range(put) \cup RecordsFrom(data', 0)
    <2>1. put \in Seq(Records)
        BY ZenonT(40) DEF Inv, Typed
    <2>2. CASE pc["put"] = "data" /\ n = LenOf[rec]
        <3>1. put' = Append(put, rec) /\ rec \in Records
            BY <1>1, <1>8, <2>2
        <3>2. Append(put, rec) \in Seq(Records) /\ Range(Append(put, rec)) = Range(put) \cup {rec}
            BY ONLY <2>1, <3>1, RangeAppend, SMT
        <3>. QED  BY <1>7, <2>2, <3>1, <3>2
    <2>3. CASE ~(pc["put"] = "data" /\ n = LenOf[rec])
        BY <1>1, <2>1, <2>3
    <2>. QED  BY <2>2, <2>3
<1>10. \A m \in DOMAIN files : RecordsFrom(files[m], 0) \subseteq Records
    <2>1. ASSUME NEW m \in DOMAIN files, NEW i \in DOMAIN files[m], Complete(files[m], i)
          PROVE  files[m][i].rec \in Records
        <3>1. Fit(files[m]) /\ files[m][i].kind = "hdr"
            BY <2>1 DEF Inv, ReadFile, Complete
        <3>. QED  BY <3>1, FitCell
    <2>. QED  BY <2>1 DEF RecordsFrom
<1>11. /\ rfd' \in [name : Nat \cup {NoName}, off : Nat] /\ curReadfile' \in Nat \cup {NoName}
       /\ pos' \in [name : Nat \cup {NoName}, seek : Int]
       /\ posFile' \in [name : Nat \cup {NoName}, seek : Int]
       /\ p \in [name : Nat \cup {NoName}, seek : Int]
    <2>1. p \in [name : Nat \cup {NoName}, seek : Int]
        BY <1>5, SMT DEF Inv, Typed, Position
    <2>2. Position(NoName, 0) \in [name : Nat \cup {NoName}, seek : Int]
        BY SMT DEF Position
    <2>3. Position(NoName, -1) \in [name : Nat \cup {NoName}, seek : Int]
        BY SMT DEF Position
    <2>4. NilFd \in [name : Nat \cup {NoName}, off : Nat]
        BY DEF NilFd, Fd
    <2>5. p.seek > 0 => Fd(p.name, p.seek) \in [name : Nat \cup {NoName}, off : Nat]
        BY <2>1, SMT DEF Fd
    <2>. QED  BY <1>3, <2>1, <2>2, <2>3, <2>4, <2>5, ZenonT(40) DEF LoadUnfinishedFile
<1>12. Typed'
    <2>1. exposed' \subseteq Records
        <3>1. UpTo(p.name) \subseteq Records
            BY <1>10 DEF UpTo
        <3>. QED  BY <1>1, <1>8, <3>1 DEF Inv, Typed
    <2>2. torn' \in BOOLEAN
        BY <1>1
    <2>3. data' \in Seq(Cells) /\ Len(data') \in Nat
        BY <1>7, SMT DEF Fit
    <2>4. restarts' \in 0..MaxRestarts
        BY <1>2, Constants, SMTT(40) DEF Inv, Typed
    <2>5. pc' \in [Procs -> PutLabels \cup GetLabels]
        BY <1>2 DEF PutLabels
    <2>. QED  BY <1>2, <1>3, <1>4, <1>9, <1>11, <2>1, <2>2, <2>3, <2>4, <2>5, ZenonT(40)
              DEF Inv, Typed, PutLabels, GetLabels
<1>13. Locked'
    BY <1>4 DEF Locked
<1>14. WriteFile'
    <2>1. Settled' = Len(data')
        BY <1>4 DEF Settled, Procs
    <2>. QED  BY <1>4, <1>7, <2>1 DEF WriteFile
<1>15. Base' = rfd'.off /\ ReadOff' = rfd'.off
    BY <1>4 DEF Base, ReadOff
<1>16. CASE p.name \in DOMAIN files /\ p.seek > 0
    <2>1. /\ rfd' = Fd(p.name, p.seek) /\ curReadfile' = p.name /\ pos' = p /\ posFile' = p
        BY <1>3, <1>11, <1>16, SMTT(40) DEF LoadUnfinishedFile
    <2>2. /\ rfd'.name = p.name /\ rfd'.off = p.seek /\ p.name # NoName /\ p.name \in Nat
        BY <1>5, <1>16, <2>1, GoesOn, SMTT(40) DEF Fd, NoName
    <2>3. /\ p = posFile
          /\ \/ pc["get"] = "reset"
             \/ rfd.name = p.name /\ curReadfile = p.name /\ pos = p /\ rfd.name # NoName
        BY <1>5, <1>16, GoesOn
    <2>4. pc["get"] = "reset" =>
            \A m \in DOMAIN files : m <= p.name => RecordsFrom(files[m], 0) \subseteq exposed'
        BY <1>1, <1>16 DEF UpTo
    <2>5. Listed'
        <3>1. ASSUME NEW m \in DOMAIN files, m < p.name PROVE AtRisk(m)'
            <4>1. CASE pc["get"] = "reset"
                <5>1. m <= p.name
                    BY <2>2, <3>1, SMTT(40) DEF Inv, Typed
                <5>. QED  BY <1>3, <2>4, <4>1, <5>1 DEF AtRisk
            <4>2. CASE curReadfile = p.name
                BY <1>3, <1>6, <3>1, <4>2 DEF Inv, Listed, AtRisk
            <4>. QED  BY <2>3, <4>1, <4>2
        <3>2. \E b \in Nat : dataFiles' \cup DOMAIN files' \subseteq 0..b
            BY <1>3 DEF Inv, Listed
        <3>. QED  BY <1>3, <1>4, <1>16, <2>1, <2>2, <3>1, <3>2, ZenonT(40) DEF Listed
    <2>6. ASSUME NEW m \in DOMAIN files' PROVE ReadFile(m)'
        <3>1. PICK g \in 0..Len(files[m]) :
                /\ Fit(files[m]) /\ Prefix(files[m], g) /\ RecordsFrom(files[m], g) \subseteq exposed
                /\ m = rfd.name => InStep(files[m], g)
            BY <1>3, <2>6 DEF Inv, ReadFile
        <3>2. Len(files[m]) \in Nat /\ DOMAIN files[m] = 1..Len(files[m]) /\ g \in Int /\ p.seek \in Nat
            BY <1>11, <1>16, <3>1, SMTT(40) DEF Fit
        <3>3. CASE m # p.name
            BY <1>3, <1>6, <2>2, <3>1, <3>3 DEF ReadFile
        <3>4. CASE m = p.name /\ pc["get"] = "reset"
            <4>1. Prefix(files[m], 0) /\ 0 \in 0..Len(files[m])
                BY <3>2, SMT DEF Prefix
            <4>2. RecordsFrom(files[m], 0) \subseteq exposed'
                <5>1. m <= p.name
                    BY <2>2, <3>4, SMTT(40)
                <5>. QED  BY <1>3, <2>4, <2>6, <3>4, <5>1, ZenonT(40)
            <4>3. InStep(files[m], 0)'
                BY <1>4, <1>15, <1>16, <2>1, <2>2, <3>2, SMTT(40) DEF InStep
            <4>. QED  BY <1>3, <3>1, <4>1, <4>2, <4>3, ZenonT(40) DEF ReadFile
        <3>5. CASE m = p.name /\ rfd.name = p.name /\ pos = p
            <4>1. /\ p.seek = Base \/ (p.seek >= g /\ Base >= g)
                  /\ Base <= g => Boundary(files[m], Base)
                BY <3>1, <3>5 DEF InStep
            <4>2. p.seek <= g => Boundary(files[m], p.seek)
                <5>1. CASE p.seek = Base
                    BY <4>1, <5>1
                <5>2. CASE p.seek >= g
                    <6>1. p.seek <= g => p.seek = g
                        BY <3>2, <5>2, SMTT(40)
                    <6>. QED  BY <3>1, <6>1, PrefixBoundary
                <5>. QED  BY <4>1, <5>1, <5>2
            <4>3. InStep(files[m], g)'
                BY <1>3, <1>4, <1>15, <2>1, <2>2, <3>2, <4>2, ZenonT(40) DEF InStep
            <4>. QED  BY <1>3, <1>6, <3>1, <4>3 DEF ReadFile
        <3>. QED  BY <2>3, <3>3, <3>4, <3>5
    <2>7. NoRecordLost'
        <3>1. RecordsFrom(data', 0) \subseteq Reachable' /\ RecordsFrom(files[p.name], p.seek) \subseteq Reachable'
            BY <1>3, <1>15, <2>2 DEF Reachable
        <3>2. ASSUME NEW m \in DOMAIN files, m # p.name PROVE RecordsFrom(files[m], 0) \subseteq Reachable'
            <4>1. m \in (dataFiles' \cap DOMAIN files') \ {curReadfile'}
                BY <1>3, <2>1, <3>2
            <4>. QED  BY <1>3, <4>1 DEF Reachable
        <3>3. CASE pc["get"] = "reset"
            <4>1. rfd.name = NoName
                BY <3>3 DEF Inv, Listed
            <4>2. RecordsFrom(files[p.name], 0) \subseteq exposed'
                BY <1>16, <2>2, <2>4, <3>3, SMTT(40)
            <4>3. Reachable \subseteq exposed' \cup Reachable'
                BY <1>7, <3>1, <3>2, <4>1, <4>2, SMTT(40) DEF Reachable
            <4>. QED  BY <1>2, <1>6, <1>9, <3>1, <4>3, ZenonT(40) DEF Inv, NoRecordLost
        <3>4. CASE rfd.name = p.name /\ curReadfile = p.name /\ pos = p /\ rfd.name # NoName
            <4>1. PICK c : c = files[p.name]
                OBVIOUS
            <4>2. PICK g \in 0..Len(c) :
                    Fit(c) /\ RecordsFrom(c, g) \subseteq exposed /\ InStep(c, g)
                BY <1>16, <3>4, <4>1, ZenonT(40) DEF Inv, ReadFile
            <4>3. DOMAIN c = 1..Len(c) /\ Len(c) \in Nat /\ g \in Int /\ Base \in Nat /\ p.seek \in Int
                BY <1>11, <4>2, SMTT(40) DEF Fit, InStep
            <4>4. ReadOff \in Int /\ ReadOff >= Base
                <5>1. rfd.off \in Nat /\ nbytes \in Nat
                    BY DEF Inv, Typed
                <5>. QED  BY <5>1, SMT DEF ReadOff, Base
            <4>5. p.seek = Base \/ Base >= g
                BY <3>4, <4>2 DEF InStep
            <4>6. RecordsFrom(c, ReadOff) \subseteq exposed \cup RecordsFrom(c, p.seek)
                <5>1. CASE p.seek = Base
                    BY <4>3, <4>4, <5>1, FurtherOn, SMTT(40)
                <5>2. CASE Base >= g
                    <6>1. ReadOff >= g
                        BY <4>3, <4>4, <5>2, SMTT(40)
                    <6>2. RecordsFrom(c, ReadOff) \subseteq RecordsFrom(c, g)
                        BY <4>3, <4>4, <6>1, FurtherOn, SMTT(40)
                    <6>. QED  BY <4>2, <6>2
                <5>. QED  BY <4>5, <5>1, <5>2
            <4>7. Reachable \subseteq exposed' \cup Reachable'
                BY <1>6, <1>7, <3>1, <3>2, <3>4, <4>1, <4>6, SMTT(40) DEF Reachable
            <4>. QED  BY <1>2, <1>6, <1>9, <3>1, <4>7, ZenonT(40) DEF Inv, NoRecordLost
        <3>. QED  BY <2>3, <3>3, <3>4
    <2>. QED  BY <1>12, <1>13, <1>14, <2>5, <2>6, <2>7 DEF Inv
<1>17. CASE ~(p.name \in DOMAIN files /\ p.seek > 0)
    <2>1. /\ rfd' = NilFd /\ curReadfile' = NoName
          /\ IF p.name = NoName \/ p.name \in DOMAIN files THEN posFile' = p ELSE posFile' = Position(NoName, -1)
        BY <1>3, <1>17 DEF LoadUnfinishedFile
    <2>2. rfd'.name = NoName /\ NoName \notin Nat
        BY <2>1, SMT DEF NilFd, Fd, NoName
    <2>3. posFile'.seek <= 0
        <3>1. CASE p.name = NoName
            <4>1. p.seek <= 0
                BY <1>5, <3>1, SMTT(40) DEF Inv, Listed, Position
            <4>. QED  BY <2>1, <3>1, <4>1, ZenonT(40)
        <3>2. CASE p.name \in DOMAIN files
            BY <1>11, <1>17, <2>1, <3>2, SMTT(40)
        <3>3. CASE p.name # NoName /\ p.name \notin DOMAIN files
            BY <2>1, <3>3, SMTT(40) DEF Position
        <3>. QED  BY <3>1, <3>2, <3>3
    <2>4. \A m \in DOMAIN files : m \in Nat /\ m # NoName
        BY <2>2 DEF Inv, Typed
    <2>5. Listed'
        <3>1. \E b \in Nat : dataFiles' \cup DOMAIN files' \subseteq 0..b
            BY <1>3 DEF Inv, Listed
        <3>2. \A m \in DOMAIN files : ~(m < NoName)
            BY <2>4, SMT DEF NoName
        <3>. QED  BY <1>3, <1>4, <2>1, <2>2, <2>3, <2>4, <3>1, <3>2, ZenonT(40) DEF Listed
    <2>6. ASSUME NEW m \in DOMAIN files' PROVE ReadFile(m)'
        <3>1. m \in DOMAIN files /\ m # rfd'.name
            BY <1>3, <2>2, <2>4
        <3>. QED  BY <1>3, <1>6, <3>1 DEF Inv, ReadFile
    <2>7. NoRecordLost'
        <3>1. RecordsFrom(data', 0) \subseteq Reachable'
            BY DEF Reachable
        <3>2. ASSUME NEW m \in DOMAIN files PROVE RecordsFrom(files[m], 0) \subseteq Reachable'
            <4>1. m \in (dataFiles' \cap DOMAIN files') \ {curReadfile'}
                BY <1>3, <2>1, <2>4
            <4>. QED  BY <1>3, <4>1 DEF Reachable
        <3>3. ASSUME rfd.name # NoName
              PROVE  RecordsFrom(files[rfd.name], ReadOff) \subseteq Reachable'
            <4>1. rfd.name \in DOMAIN files
                BY <3>3 DEF Inv, Listed
            <4>2. Fit(files[rfd.name]) /\ Base \in Nat
                BY <4>1 DEF Inv, ReadFile, InStep
            <4>3. DOMAIN files[rfd.name] \subseteq Nat /\ ReadOff \in Int /\ ReadOff >= 0
                <5>1. rfd.off \in Nat /\ nbytes \in Nat
                    BY DEF Inv, Typed
                <5>2. ReadOff \in Int /\ ReadOff >= 0
                    BY <4>2, <5>1, SMTT(40) DEF ReadOff, Base
                <5>. QED  BY <4>2, <5>2, SMTT(40) DEF Fit
            <4>4. RecordsFrom(files[rfd.name], ReadOff) \subseteq RecordsFrom(files[rfd.name], 0)
                BY <4>3, FurtherOn, SMTT(40)
            <4>. QED  BY <3>2, <4>1, <4>4
        <3>4. Reachable \subseteq Reachable'
            BY <1>7, <3>1, <3>2, <3>3, SMTT(40) DEF Reachable
        <3>. QED  BY <1>2, <1>6, <1>9, <3>1, <3>4 DEF Inv, NoRecordLost
    <2>. QED  BY <1>12, <1>13, <1>14, <2>5, <2>6, <2>7 DEF Inv
<1>. QED  BY <1>16, <1>17

----------------------------------------------------------------------------
(* Nothing is lost *)

\* An empty directory, just opened.
LEMMA InitHolds == Init => Inv
<1> SUFFICES ASSUME Init PROVE Inv
    OBVIOUS
<1> USE DEF Init
<1>1. pc["put"] = "idle" /\ pc["get"] = "idle" /\ DOMAIN files = {} /\ rfd.name = NoName
    BY DEF Procs, NilFd, Fd
<1>2. Typed
    <2>1. Position(NoName, 0) \in [name : Nat \cup {NoName}, seek : Int] /\ NilFd \in [name : Nat \cup {NoName}, off : Nat]
        BY SMT DEF Position, NilFd, Fd
    <2>2. pc \in [Procs -> PutLabels \cup GetLabels] /\ "idle" \in PutLabels /\ "idle" \in GetLabels
        BY DEF PutLabels, GetLabels
    <2>3. 0 \in 0..MaxRestarts /\ \A S : <<>> \in Seq(S)
        BY Constants, SMT
    <2>. QED  BY <1>1, <2>1, <2>2, <2>3 DEF Typed
<1>3. Locked
    BY <1>1 DEF Locked
<1>4. WriteFile
    <2>1. Fit(data) /\ Len(data) = 0
        BY SMT DEF Fit
    <2>2. Prefix(data, 0)
        BY <2>1, SMT DEF Prefix
    <2>3. Settled = 0
        BY <1>1, <2>1 DEF Settled, Procs
    <2>. QED  BY <1>1, <2>1, <2>2, <2>3, SMTT(40) DEF WriteFile
<1>5. Listed
    BY <1>1, SMT DEF Listed, Position
<1>6. NoRecordLost
    BY DEF NoRecordLost, Range
<1>. QED  BY <1>1, <1>2, <1>3, <1>4, <1>5, <1>6 DEF Inv

\* Every step keeps the invariant.
LEMMA NextKeeps == ASSUME Inv, Refuses, BufferSuffices, Next PROVE Inv'
<1>1. CASE \E r \in Records : PutBegin(r)
    BY <1>1, PutBeginKeeps
<1>2. CASE PutNext
    <2>1. ~DropBatch
        BY DEF DropBatch, Inv, Locked
    <2>. QED  BY <1>2, <2>1, PutHeaderKeeps, PutDataKeeps, PutDataFailsKeeps, RotateEOFKeeps,
                 RotateRenameKeeps, ZenonT(40) DEF PutNext, Procs
<1>3. CASE GetNext
    BY <1>3, LabelsKeep, GetWakeupKeeps, RotateEOFKeeps, RotateRenameKeeps, RemoveKeeps, ResetPosKeeps,
       SwitchKeeps, GetNoHeaderKeeps, GetHeaderKeeps, GetPayloadKeeps, CallbackOKKeeps,
       CallbackFailsKeeps, UpdatePosKeeps, ZenonT(40) DEF GetNext, SwitchNext, Procs
<1>4. CASE Restart
    BY <1>4, RestartKeeps
<1>. QED  BY <1>1, <1>2, <1>3, <1>4 DEF Next

\* A record that Put accepted is handed out by Get or can still be reached by
\* it (put.go, get.go, rotate.go, switch.go, pos.go), for any records, sizes
\* and buffers, whatever writes fail and wherever the process dies: what can
\* get lost is only what the history calls exposed.  The cache refuses data
\* when it is full, as dataway's queues do (nothing is dropped by dropBatch,
\* then), and the reader's buffer holds what Put accepts.
THEOREM NoneLost == ASSUME Refuses, BufferSuffices PROVE Spec => []NoRecordLost
<1>1. Inv /\ [Next]_vars => Inv'
    BY NextKeeps, StutterKeeps
<1>2. Inv => NoRecordLost
    BY DEF Inv
<1>. QED  BY <1>1, <1>2, InitHolds, PTL DEF Spec

----------------------------------------------------------------------------
(* The order in which Get hands out the records *)

\* A step of Get leaves the order on the disk alone; it may remove a file.
LEMMA GetOrders ==
    ASSUME Inv, Ordered, UNCHANGED <<data, rec, tried, put, exposed>>, NEW l \in GetLabels, Goto("get", l),
           DOMAIN files' \subseteq DOMAIN files, \A n \in DOMAIN files' : files'[n] = files[n]
    PROVE  Ordered'
<1>1. pc'["put"] = pc["put"]
    BY GotoIs DEF Inv, Procs
<1>2. PutOnce'
    BY <1>1 DEF Ordered, PutOnce
<1>. QED  BY <1>1, <1>2, OrderSame DEF Inv

\* What a crash leaves of the write file is in order.
LEMMA RestartOrders ==
    ASSUME Inv, Ordered, Restart PROVE Ordered' /\ Grows(rec) /\ exposed \subseteq exposed'
<1>1. PICK p \in {posFile} \cup (IF pc["get"] = "commit" THEN {Position(NoName, 0)} ELSE {}),
           n \in (IF pc["put"] = "data" THEN 0..LenOf[rec] ELSE {0}) :
        /\ Open(IF pc["put"] = "data" THEN data \o Payload(rec, n) ELSE data, p)
        /\ put' = IF pc["put"] = "data" /\ n = LenOf[rec] THEN Append(put, rec) ELSE put
        /\ exposed \subseteq exposed'
    BY DEF Restart
<1>2. pc'["put"] = "idle" /\ tried' = tried
    BY DEF Restart, Procs
<1>3. data' = (IF pc["put"] = "data" THEN data \o Payload(rec, n) ELSE data) /\ files' = files
    BY <1>1 DEF Open
<1>4. Grows(rec)
    BY <1>1 DEF Grows, Inv, Locked, Ordered, PutOnce
<1>5. PutOnce'
    <2>1. Range(put') \subseteq tried /\ IsInjective(put')
        <3>1. CASE put' = put
            BY <3>1 DEF Ordered, PutOnce
        <3>2. CASE put' # put
            <4>1. rec \in tried
                BY <1>1, <3>2 DEF Ordered, PutOnce
            <4>2. PICK x : x = rec
                OBVIOUS
            <4>. QED  BY <1>4, <4>1, <4>2, BeforeKept, ZenonT(40) DEF Inv, Ordered, PutOnce
        <3>. QED  BY <3>1, <3>2
    <2>. QED  BY <1>2, <2>1 DEF PutOnce
<1>6. CASE pc["put"] = "data"
    <2>1. n \in 0..LenOf[rec] /\ data' = data \o Payload(rec, n) /\ put' = IF n = LenOf[rec] THEN Append(put, rec) ELSE put
        BY <1>1, <1>3, <1>6
    <2>2. PICK d : d = data'
        OBVIOUS
    <2>3. /\ Extends(data, d) /\ d[Len(data)].rec = rec /\ Len(data) \in Nat
          /\ \A i \in DOMAIN d : Complete(d, i) =>
                \/ i \in DOMAIN data /\ i < Len(data) /\ Complete(data, i)
                \/ i = Len(data) /\ n = LenOf[rec]
        BY <1>6, <2>1, <2>2, PayloadWritten
    <2>4. n = LenOf[rec] => put' # put
        <3>1. rec \in Records /\ put \in Seq(Records) /\ rec \notin Range(put)
            BY <1>6 DEF Inv, Locked, Typed, Ordered, PutOnce
        <3>2. rec \in Range(Append(put, rec))
            BY <3>1, RangeAppend, SMT
        <3>. QED  BY <2>1, <3>1, <3>2
    <2>5. ASSUME NEW i \in Written'
          PROVE  \/ i \in Written /\ data'[i] = data[i]
                 \/ put' # put /\ data'[i].rec = rec /\ \A j \in Written' : ~(i < j)
        <3>1. i \in DOMAIN d /\ Complete(d, i)
            BY <2>2 DEF Written, Starts
        <3>2. CASE i \in DOMAIN data /\ i < Len(data) /\ Complete(data, i)
            <4>1. i # Len(data) /\ d[i] = data[i]
                BY <2>3, <3>2, ExtendsCell, SMTT(40)
            <4>. QED  BY <2>2, <3>2, <4>1 DEF Written, Starts, Pending
        <3>3. CASE i = Len(data) /\ n = LenOf[rec]
            <4>1. ASSUME NEW j \in Written', i < j PROVE FALSE
                <5>1. j \in DOMAIN d /\ Complete(d, j)
                    BY <2>2 DEF Written, Starts
                <5>2. j <= Len(data) /\ j \in Nat
                    BY <2>3, <5>1, SMT DEF Extends, Fit
                <5>. QED  BY <2>3, <3>3, <4>1, <5>2, SMTT(40)
            <4>. QED  BY <2>2, <2>3, <2>4, <3>3, <4>1
        <3>. QED  BY <2>3, <3>1, <3>2, <3>3
    <2>6. Appends(rec)
        BY <2>5 DEF Appends
    <2>. QED  BY <1>1, <1>3, <1>4, <1>5, <2>6, OrderKept DEF Inv
<1>7. CASE pc["put"] # "data"
    <2>1. UNCHANGED <<data, put>>
        BY <1>1, <1>3, <1>7
    <2>. QED  BY <1>1, <1>2, <1>3, <1>4, <1>5, <1>7, <2>1, OrderSame, ZenonT(40) DEF Inv
<1>. QED  BY <1>6, <1>7

\* What Get is about to hand out, if it is a record: all that it can still
\* read, that record aside, was put after it.
LEMMA Foremost ==
    ASSUME Inv, Ordered, pc["get"] = "callback", item # NoRecord
    PROVE  /\ rfd.name \in DOMAIN files /\ Base + 1 \in Starts(files[rfd.name])
           /\ files[rfd.name][Base + 1].rec = item /\ item \in Range(put)
           /\ Base \in Nat /\ Base + 1 + nbytes = rfd.off
           /\ \A s \in RecordsFrom(data, 0) \cap Range(put) : Sorted(item, s)
           /\ \A i \in Starts(files[rfd.name]) : i > Base + 1 => Sorted(item, files[rfd.name][i].rec)
           /\ \A n \in (dataFiles \cap DOMAIN files) \ {curReadfile} :
                \A s \in RecordsFrom(files[n], 0) : Sorted(item, s)
<1>1. PICK f \in DOMAIN files : f = rfd.name /\ f = curReadfile /\ f # NoName
    BY DEF Inv, Listed
<1>2. PICK c : c = files[f]
    OBVIOUS
<1>3. PICK g \in 0..Len(c) : Fit(c) /\ InStep(c, g)
    BY <1>1, <1>2 DEF Inv, ReadFile
<1>4. Base = rfd.off - 1 - nbytes
    BY DEF Base
<1>5. Base \in Nat /\ rfd.off <= Len(c) /\ item = Content(c, Base + 1, nbytes)
    BY <1>3 DEF InStep
<1>6. PICK h : h = Base + 1
    OBVIOUS
<1>7. h \in DOMAIN c /\ h \in Nat /\ Base + 1 + nbytes = rfd.off
    <2>1. PICK o \in Nat : o = rfd.off
        BY SMT DEF Inv, Typed
    <2>2. nbytes \in Nat /\ c \in Seq(Cells)
        BY <1>3 DEF Inv, Typed, Fit
    <2>3. PICK b \in Nat : b = Base
        BY <1>5
    <2>4. h = b + 1 /\ b = o - 1 - nbytes /\ o <= Len(c)
        BY <1>4, <1>5, <1>6, <2>1, <2>3
    <2>5. h \in DOMAIN c /\ h \in Nat /\ b + 1 + nbytes = o
        BY <2>2, <2>4, SMTT(40)
    <2>. QED  BY <2>1, <2>3, <2>5
<1>8. Complete(c, h) /\ item = c[h].rec
    BY <1>5, <1>6 DEF Content
<1>9. h \in Starts(c)
    BY <1>7, <1>8 DEF Starts
<1>10. item \in Range(put)
    BY <1>1, <1>2, <1>8, <1>9 DEF Ordered
<1>11. ASSUME NEW s \in RecordsFrom(data, 0) \cap Range(put) PROVE Sorted(item, s)
    <2>1. PICK i \in DOMAIN data : Complete(data, i) /\ s = data[i].rec
        BY DEF RecordsFrom
    <2>2. ~Pending(i)
        <3>1. ASSUME Pending(i) PROVE FALSE
            <4>1. pc["put"] = "data" /\ data[i] = Hdr(rec)
                BY <3>1 DEF Pending, Inv, WriteFile
            <4>2. s = rec
                BY <2>1, <4>1, SMT DEF Hdr
            <4>. QED  BY <4>1, <4>2 DEF Ordered, PutOnce
        <3>. QED  BY <3>1
    <2>3. i \in Written
        BY <2>1, <2>2 DEF Written, Starts
    <2>. QED  BY <1>1, <1>2, <1>8, <1>9, <2>1, <2>3 DEF Ordered
<1>12. ASSUME NEW i \in Starts(c), i > h PROVE Sorted(item, c[i].rec)
    <2>1. h < i
        BY <1>3, <1>7, <1>12, SMTT(40) DEF Starts, Fit
    <2>. QED  BY <1>1, <1>2, <1>8, <1>9, <2>1 DEF Ordered
<1>13. ASSUME NEW n \in (dataFiles \cap DOMAIN files) \ {curReadfile}, NEW s \in RecordsFrom(files[n], 0)
       PROVE  Sorted(item, s)
    <2>1. PICK i \in Starts(files[n]) : s = files[n][i].rec
        BY DEF RecordsFrom, Starts
    <2>2. CASE n < curReadfile
        BY <2>2 DEF Inv, Listed, AtRisk, Sorted
    <2>3. CASE f < n
        BY <1>1, <1>2, <1>8, <1>9, <2>1, <2>3, ZenonT(40) DEF Ordered
    <2>4. n < curReadfile \/ f < n
        BY <1>1, SMTT(40) DEF Inv, Typed
    <2>. QED  BY <2>2, <2>3, <2>4
<1>. QED  BY <1>1, <1>2, <1>5, <1>6, <1>7, <1>8, <1>9, <1>10, <1>11, <1>12, <1>13, ZenonT(40)

\* Nothing is handed out, and at most a new record is put.
LEMMA HandedKept ==
    ASSUME Typed, HandedOut, NEW x, Grows(x), UNCHANGED <<got, dropped>>, exposed \subseteq exposed'
    PROVE  HandedOut'
<1>1. /\ DOMAIN put \subseteq DOMAIN put' /\ \A i \in DOMAIN put : put'[i] = put[i]
      /\ Len(put) \in Nat /\ DOMAIN put = 1..Len(put)
    BY GrowsIs
<1>2. Range(put) \subseteq Range(put')
    BY BeforeKept
<1>3. ASSUME NEW i \in DOMAIN put', NEW j \in DOMAIN put', i < j, put'[i] \notin exposed', put'[j] \notin exposed',
             NEW k \in DOMAIN got, got[k] = put'[j]
      PROVE  \E l \in 1..(k - 1) : got[l] = put'[i]
    <2>1. CASE j \in DOMAIN put
        <3>1. i \in DOMAIN put
            <4>1. CASE put' = put
                BY <4>1
            <4>2. CASE put' # put
                <5>1. DOMAIN put' = 1..(Len(put) + 1)
                    BY <4>2, GrowsIs
                <5>. QED  BY <1>1, <1>3, <2>1, <5>1, SMTT(40)
            <4>. QED  BY <4>1, <4>2
        <3>. QED  BY <1>1, <1>3, <2>1, <3>1, ZenonT(40) DEF HandedOut
    <2>2. CASE j \notin DOMAIN put
        <3>1. put' # put
            BY <2>2
        <3>2. DOMAIN put' = 1..(Len(put) + 1) /\ put'[Len(put) + 1] = x /\ x \in Records /\ x \notin Range(put)
            BY <3>1, GrowsIs
        <3>3. j = Len(put) + 1
            BY <1>1, <2>2, <3>2, SMTT(40)
        <3>4. x \in Range(got)
            BY <1>3, <3>2, <3>3 DEF Range
        <3>. QED  BY <3>2, <3>4, Constants DEF HandedOut
    <2>. QED  BY <2>1, <2>2
<1>. QED  BY <1>2, <1>3, ZenonT(40) DEF HandedOut

\* What Get still reaches, besides the record it hands out, was put later.
LEMMA ReachableLater ==
    ASSUME Inv, Ordered, pc["get"] = "callback", item # NoRecord, NEW s \in Range(put)
    PROVE  /\ s \in Reachable => s = item \/ Sorted(item, s)
           /\ CallbackOK /\ s \in Reachable' => Sorted(item, s)
<1>1. PICK c : c = files[rfd.name]
    OBVIOUS
<1>2. PICK b \in Nat : b = Base
    BY Foremost
<1>3. /\ c[b + 1].rec = item /\ b + 1 + nbytes = rfd.off
      /\ \A t \in RecordsFrom(data, 0) \cap Range(put) : Sorted(item, t)
      /\ \A i \in Starts(c) : i > b + 1 => Sorted(item, c[i].rec)
      /\ \A n \in (dataFiles \cap DOMAIN files) \ {curReadfile} :
            \A t \in RecordsFrom(files[n], 0) : Sorted(item, t)
    BY <1>1, <1>2, Foremost
<1>4. nbytes \in Nat /\ \A i \in Starts(c) : i \in Nat
    <2>1. c \in Seq(Cells)
        BY <1>1, Foremost DEF Inv, Typed
    <2>. QED  BY <2>1, SMTT(40) DEF Inv, Typed, Starts
<1>5. ReadOff = b
    BY <1>2 DEF ReadOff, Base
<1>6. ASSUME s \in Reachable PROVE s = item \/ Sorted(item, s)
    <2>1. CASE s \in RecordsFrom(c, b)
        <3>1. PICK i \in Starts(c) : i > b /\ s = c[i].rec
            BY <2>1 DEF RecordsFrom, Starts
        <3>2. i = b + 1 \/ i > b + 1
            BY <1>4, <3>1, SMTT(40)
        <3>. QED  BY <1>3, <3>1, <3>2
    <2>. QED  BY <1>1, <1>3, <1>5, <1>6, <2>1 DEF Reachable
<1>7. ASSUME CallbackOK, s \in Reachable' PROVE Sorted(item, s)
    <2>1. pc'["get"] = "commit" /\ UNCHANGED <<data, files, rfd, dataFiles, curReadfile>>
        BY <1>7, GotoIs DEF CallbackOK, Inv, Procs, GetLabels, disk, mem
    <2>2. ReadOff' = b + 1 + nbytes
        BY <1>3, <2>1 DEF ReadOff
    <2>3. CASE s \in RecordsFrom(c, b + 1 + nbytes)
        <3>1. PICK i \in Starts(c) : i > b + 1 + nbytes /\ s = c[i].rec
            BY <2>3 DEF RecordsFrom, Starts
        <3>2. i > b + 1
            BY <1>4, <3>1, SMTT(40)
        <3>. QED  BY <1>3, <3>1, <3>2
    <2>4. \/ s \in RecordsFrom(data', 0) \/ s \in RecordsFrom(files'[rfd'.name], ReadOff')
          \/ \E n \in (dataFiles' \cap DOMAIN files') \ {curReadfile'} : s \in RecordsFrom(files'[n], 0)
        BY <1>7 DEF Reachable
    <2>5. \/ s \in RecordsFrom(data, 0) \/ s \in RecordsFrom(c, b + 1 + nbytes)
          \/ \E n \in (dataFiles \cap DOMAIN files) \ {curReadfile} : s \in RecordsFrom(files[n], 0)
        BY <1>1, <2>1, <2>2, <2>4
    <2>. QED  BY <1>3, <2>3, <2>5
<1>. QED  BY <1>6, <1>7

\* When Get hands out a record, those put before it have been handed out.
LEMMA CallbackOKHands == ASSUME Inv, Ordered, HandedOut, CallbackOK PROVE HandedOut'
<1>1. pc["get"] = "callback" /\ got' = Append(got, item) /\ UNCHANGED <<put, dropped, exposed>>
    BY DEF CallbackOK
<1>2. got \in Seq(Records \cup {NoRecord}) /\ item \in Records \cup {NoRecord}
    BY DEF Inv, Typed
<1>3. /\ Len(got) \in Nat /\ DOMAIN got = 1..Len(got) /\ DOMAIN got' = 1..(Len(got) + 1)
      /\ got'[Len(got) + 1] = item /\ \A k \in DOMAIN got : got'[k] = got[k]
      /\ \A k \in DOMAIN got' : k \in DOMAIN got \/ k = Len(got) + 1
      /\ \A k \in DOMAIN got : 1..(k - 1) \subseteq DOMAIN got
      /\ 1..(Len(got) + 1 - 1) = DOMAIN got
    BY <1>1, <1>2, SMTT(40)
<1>4. item # NoRecord => item \in Range(put)
    BY <1>1, Foremost
<1>5. Range(got') \subseteq Range(put') \cup {NoRecord}
    <2>1. ASSUME NEW k \in DOMAIN got' PROVE got'[k] \in Range(put) \cup {NoRecord}
        BY <1>3, <1>4 DEF HandedOut, Range
    <2>. QED  BY <1>1, <2>1 DEF Range
<1>6. ASSUME NEW i \in DOMAIN put, NEW j \in DOMAIN put, i < j, put[i] \notin exposed, put[j] \notin exposed,
             NEW k \in DOMAIN got', got'[k] = put[j]
      PROVE  \E l \in 1..(k - 1) : got'[l] = put[i]
    <2>1. CASE k \in DOMAIN got
        <3>1. PICK l \in 1..(k - 1) : got[l] = put[i]
            BY <1>3, <1>6, <2>1, ZenonT(40) DEF HandedOut
        <3>. QED  BY <1>3, <2>1, <3>1
    <2>2. CASE k = Len(got) + 1
        <3>1. item = put[j] /\ item # NoRecord
            <4>1. put[j] \in Records
                BY SMT DEF Inv, Typed
            <4>. QED  BY <1>3, <1>6, <2>2, <4>1, Constants, ZenonT(40)
        <3>2. Before(put[i], item)
            BY <1>6, <3>1 DEF Before
        <3>3. put[i] # item /\ ~Before(item, put[i])
            BY <3>2, BeforeStrict DEF Inv, Ordered, PutOnce
        <3>4. put[i] \notin Reachable
            BY <1>1, <1>6, <3>1, <3>3, ReachableLater DEF Sorted, Range
        <3>5. put[i] \in Range(got)
            BY <1>6, <3>4 DEF Inv, NoRecordLost, HandedOut, Range
        <3>6. PICK l \in DOMAIN got : got[l] = put[i]
            BY <3>5 DEF Range
        <3>7. l \in 1..(k - 1)
            BY <1>3, <2>2, SMTT(40)
        <3>. QED  BY <1>3, <3>6, <3>7
    <2>. QED  BY <1>3, <2>1, <2>2
<1>7. \A i, j \in DOMAIN put' : i < j /\ put'[i] \notin exposed' /\ put'[j] \notin exposed' =>
        \A k \in DOMAIN got' : got'[k] = put'[j] => \E l \in 1..(k - 1) : got'[l] = put'[i]
    BY <1>1, <1>6, SMTT(40)
<1>8. dropped' = {}
    BY <1>1 DEF HandedOut
<1>. QED  BY <1>5, <1>7, <1>8 DEF HandedOut

\* Every step keeps the order on the disk.
LEMMA NextOrders ==
    ASSUME Inv, Inv', Ordered, Next PROVE Ordered' /\ Grows(rec) /\ exposed \subseteq exposed'
<1>1. CASE \E r \in Records : PutBegin(r)
    <2>1. exposed' = exposed
        BY <1>1 DEF PutBegin, vars, history
    <2>. QED  BY <1>1, <2>1, PutBeginOrders
<1>2. CASE PutHeader
    BY <1>2, PutHeaderOrders DEF PutHeader, history
<1>3. CASE PutData
    BY <1>3, PutDataOrders DEF PutData
<1>4. CASE PutDataFails
    BY <1>4, PutDataFailsOrders DEF PutDataFails
<1>5. CASE \E p \in Procs : RotateEOF(p)
    BY <1>5, RotateEOFOrders DEF RotateEOF, history
<1>6. CASE \E p \in Procs : RotateRename(p)
    BY <1>6, RotateRenameOrders DEF RotateRename, Grows
<1>7. CASE RemoveCurrentReadingFile
    <2>1. DOMAIN files' \subseteq DOMAIN files /\ \A n \in DOMAIN files' : files'[n] = files[n]
        BY <1>7 DEF RemoveCurrentReadingFile, Restrict
    <2>2. UNCHANGED <<data, rec, tried, put, exposed>> /\ Goto("get", "reset")
        BY <1>7 DEF RemoveCurrentReadingFile, locals, history
    <2>. QED  BY <2>1, <2>2, GetOrders DEF Grows, GetLabels
<1>8. CASE \/ GetBegin \/ GetSleeping \/ GetWakeup \/ GetStart \/ ResetPos \/ DoSwitchNextFile
           \/ GetRetry \/ GetNoHeader \/ GetHeader \/ GetPayload
           \/ CallbackOK \/ CallbackFails \/ UpdatePos
    <2>1. UNCHANGED <<data, files, rec, tried, put, exposed>>
        BY <1>8 DEF GetBegin, GetSleeping, GetWakeup, GetStart, ResetPos, DoSwitchNextFile,
            GetRetry, GetNoHeader, GetHeader, GetPayload, CallbackOK, CallbackFails, UpdatePos,
            disk, locals, history
    <2>2. \E l \in GetLabels : Goto("get", l)
        BY <1>8 DEF GetBegin, GetSleeping, GetWakeup, GetStart, ResetPos, DoSwitchNextFile,
            GetRetry, GetNoHeader, GetHeader, GetPayload, CallbackOK, CallbackFails, UpdatePos,
            SwitchNextFile, GetLabels
    <2>. QED  BY <2>1, <2>2, GetOrders DEF Grows
<1>9. CASE Restart
    BY <1>9, RestartOrders
<1>10. ~DropBatch
    BY DEF DropBatch, Inv, Locked
<1>. QED  BY <1>1, <1>2, <1>3, <1>4, <1>5, <1>6, <1>7, <1>8, <1>9, <1>10, ZenonT(40)
             DEF Next, PutNext, GetNext, SwitchNext, Procs

\* Only the callback hands out a record, and only Restart counts up.
LEMMA OnlyThere ==
    ASSUME Inv, Next, ~CallbackOK, ~Restart PROVE UNCHANGED <<got, dropped, restarts>>
<1>1. CASE \E r \in Records : PutBegin(r)
    BY <1>1 DEF PutBegin, vars, history, run
<1>2. CASE PutNext
    <2>1. ~DropBatch
        BY DEF DropBatch, Inv, Locked
    <2>. QED  BY <1>2, <2>1 DEF PutNext, PutHeader, PutData, PutDataFails, RotateEOF, RotateRename, history, run
<1>3. CASE GetNext
    BY <1>3 DEF GetNext, SwitchNext, GetBegin, GetSleeping, GetWakeup, GetStart,
        RotateEOF, RotateRename, RemoveCurrentReadingFile, ResetPos, DoSwitchNextFile,
        GetRetry, GetNoHeader, GetHeader, GetPayload, CallbackFails, UpdatePos, history, run
<1>. QED  BY <1>1, <1>2, <1>3 DEF Next

\* What was handed out stays in order.
LEMMA NextHands ==
    ASSUME Inv, Ordered, HandedOut, Next, Grows(rec), exposed \subseteq exposed' PROVE HandedOut'
<1>1. CASE CallbackOK
    BY <1>1, CallbackOKHands
<1>2. CASE ~CallbackOK
    <2>1. UNCHANGED <<got, dropped>>
        BY <1>2, OnlyThere DEF Restart
    <2>2. PICK x : x = rec
        OBVIOUS
    <2>. QED  BY <2>1, <2>2, HandedKept DEF Inv
<1>. QED  BY <1>1, <1>2

\* At first nothing is put.
LEMMA InitOrdered == ASSUME Init PROVE Ordered /\ HandedOut
<1>1. DOMAIN data = {} /\ DOMAIN files = {} /\ DOMAIN put = {} /\ DOMAIN got = {}
    BY EmptyFile, SMT DEF Init
<1>2. pc["put"] = "idle" /\ dropped = {}
    BY DEF Init, Procs
<1>. QED  BY <1>1, <1>2 DEF Ordered, PutOnce, HandedOut, Written, Starts, Range, IsInjective

\* A step of somebody else changes nothing.
LEMMA StutterOrders ==
    ASSUME Inv, Ordered, HandedOut, UNCHANGED vars PROVE Ordered' /\ HandedOut'
<1>1. UNCHANGED <<data, files, put, got, exposed, dropped, rec, tried, pc>>
    BY DEF vars, disk, locals, history
<1>2. PutOnce'
    BY <1>1 DEF Ordered, PutOnce
<1>3. Ordered'
    BY <1>1, <1>2, OrderSame DEF Inv
<1>4. HandedOut'
    BY <1>1, HandedKept DEF Inv, Grows
<1>. QED  BY <1>3, <1>4

\* The place at which a record is handed out first.
LEMMA IndexIs ==
    ASSUME Typed, NEW r \in Range(got)
    PROVE  /\ Index(got, r) \in DOMAIN got /\ got[Index(got, r)] = r
           /\ \A k \in 1..(Index(got, r) - 1) : got[k] # r
<1>. DEFINE T == {k \in DOMAIN got : got[k] = r}
<1>1. T # {} /\ T \subseteq Nat
    <2>1. DOMAIN got \subseteq Nat
        BY SMT DEF Typed
    <2>. QED  BY <2>1 DEF Range
<1>2. PICK m \in T : \A k \in T : m <= k
    BY <1>1, LeastOf
<1>3. \A k \in 1..(m - 1) : got[k] # r
    <2>1. ASSUME NEW k \in 1..(m - 1) PROVE k \notin T /\ k \in DOMAIN got
        <3>1. DOMAIN got = 1..Len(got) /\ Len(got) \in Nat /\ m \in DOMAIN got
            BY SMT DEF Typed
        <3>2. k \in DOMAIN got /\ ~(m <= k)
            BY <3>1, SMT
        <3>. QED  BY <1>2, <3>2
    <2>. QED  BY <2>1
<1>. QED  BY <1>2, <1>3 DEF Index

\* Get first hands out the records in the order Put wrote them (the numbers
\* rotate.go gives, the sorted list that switch.go reads from and the position
\* of pos.go), for any records, sizes and buffers, over any number of
\* rotations, failed writes and crashes; a record that a crash or a failed
\* write put at risk aside.  A record is never handed out before one that was
\* accepted before it.
THEOREM InOrder == ASSUME Refuses, BufferSuffices PROVE Spec => []FirstReadInOrder
<1>1. Init => Inv /\ Ordered /\ HandedOut
    BY InitHolds, InitOrdered
<1>2. Inv /\ Ordered /\ HandedOut /\ [Next]_vars => (Inv /\ Ordered /\ HandedOut)'
    <2>1. ASSUME Inv, Ordered, HandedOut, Next PROVE (Inv /\ Ordered /\ HandedOut)'
        BY <2>1, NextKeeps, NextOrders, NextHands
    <2>2. ASSUME Inv, Ordered, HandedOut, UNCHANGED vars PROVE (Inv /\ Ordered /\ HandedOut)'
        BY <2>2, StutterKeeps, StutterOrders
    <2>. QED  BY <2>1, <2>2
<1>3. Inv /\ Ordered /\ HandedOut => FirstReadInOrder
    <2>. SUFFICES ASSUME Inv, HandedOut, NEW i \in DOMAIN put, NEW j \in DOMAIN put, i < j,
                         put[i] \notin exposed, put[j] \notin exposed, put[j] \in Range(got)
         PROVE  put[i] \in Range(got) /\ Index(got, put[i]) < Index(got, put[j])
        BY DEF FirstReadInOrder
    <2>1. PICK k : k = Index(got, put[j])
        OBVIOUS
    <2>2. k \in DOMAIN got /\ got[k] = put[j]
        BY <2>1, IndexIs DEF Inv
    <2>3. PICK l \in 1..(k - 1) : got[l] = put[i]
        BY <2>2 DEF HandedOut
    <2>4. DOMAIN got = 1..Len(got) /\ Len(got) \in Nat
        BY SMT DEF Inv, Typed
    <2>5. l \in DOMAIN got /\ l \in Nat /\ k \in Nat /\ l < k
        BY <2>2, <2>4, SMTT(40)
    <2>6. put[i] \in Range(got)
        BY <2>3, <2>5 DEF Range
    <2>7. PICK m : m = Index(got, put[i])
        OBVIOUS
    <2>8. m \in DOMAIN got /\ \A q \in 1..(m - 1) : got[q] # put[i]
        BY <2>6, <2>7, IndexIs DEF Inv
    <2>9. ~(l \in 1..(m - 1))
        BY <2>3, <2>8
    <2>10. m < k
        BY <2>4, <2>5, <2>8, <2>9, SMTT(40)
    <2>. QED  BY <2>1, <2>6, <2>7, <2>10
<1>. QED  BY <1>1, <1>2, <1>3, PTL DEF Spec

=============================================================================

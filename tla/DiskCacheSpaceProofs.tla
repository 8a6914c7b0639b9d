------------------------ MODULE DiskCacheSpaceProofs ------------------------
(***************************************************************************)
(* The disk queue of DiskCache and the space it takes.  For any cache:     *)
(* every variable keeps its type.  For one that refuses data when it is    *)
(* full and whose writes do not fail: the files stay within the capacity,  *)
(* wherever the process dies.                                              *)
(***************************************************************************)
EXTENDS DiskCacheInv, FiniteSetTheorems

\* As in DiskCacheInv, the leaves of the proofs go to Zenon unless they name SMT.
USE Zenon

\* The write of a payload does not fail.
NoFailure == ~WriteFails

----------------------------------------------------------------------------
(* The inductive invariants *)

\* The headers and payloads of a file are those of records.
Named(c) == \A i \in DOMAIN c : c[i].kind # "eof" => c[i].rec \in Records

\* What the types rest on: there are finitely many files and cells; the open
\* file is there and is the current one; and Get stands behind what it has read.
TypeInv ==
    /\ Typed /\ size \in Int
    /\ IsFiniteSet(Stored) /\ \E b \in Nat : dataFiles \cup DOMAIN files \subseteq 0..b
    /\ Named(data) /\ \A n \in DOMAIN files : Named(files[n])
    /\ pc["put"] # "idle" => rec \in Records
    /\ rfd.name # NoName => rfd.name = curReadfile /\ rfd.name \in DOMAIN files
    /\ pc["get"] \in {"reset", "switch"} => curReadfile = NoName
    /\ pc["get"] = "payload" /\ rfd.name # NoName => rfd.off >= 1
    /\ pc["get"] = "callback" /\ rfd.name # NoName => rfd.off >= 1 + nbytes

\* The cells that size has to count: not the last one of a rotated file.
Body    == {x \in Stored : x[2] < Len(files[x[1]])}
Counted == Settled + Cardinality(Body)

\* Who works on the write file holds wlock, and rotated files end with an EOF.
SpaceLocked ==
    /\ pc["put"] # "idle" => wlock = "put"
    /\ pc["get"] \in {"rotate", "rename"} => wlock = "get"
    /\ pc["put"] # "drop"
    /\ \A n \in DOMAIN files : Ended(files[n])
    /\ (\E q \in Procs : pc[q] = "rename") => Ended(data)
    /\ pc["put"] = "data" => Len(data) > 0

\* size counts at least what is there, and leaves room for the record that Put
\* writes.
Room ==
    /\ size >= Counted
    /\ Capacity > 0 =>
        /\ pc["put"] \in {"header", "data"} => size + LenOf[rec] <= Capacity
        /\ LiveCells <= Capacity + 1

SpaceInv == SpaceLocked /\ Room

----------------------------------------------------------------------------
(* Types *)

\* A stored cell is a place in a file.
LEMMA StoredIs ==
    /\ \A x : x \in Stored <=> \E n \in DOMAIN files : \E i \in DOMAIN files[n] : x = <<n, i>>
    /\ \A x : x \in Stored' <=> \E n \in DOMAIN files' : \E i \in DOMAIN files'[n] : x = <<n, i>>
<1>1. \A x : x \in Stored <=> \E n \in DOMAIN files : \E i \in DOMAIN files[n] : x = <<n, i>>
    BY SMT DEF Stored
<1>2. \A x : x \in Stored' <=> \E n \in DOMAIN files' : \E i \in DOMAIN files'[n] : x = <<n, i>>
    BY SMT DEF Stored
<1>. QED  BY <1>1, <1>2

\* Only the label of p changes.
LEMMA OnlyLabel ==
    ASSUME Typed, NEW p \in Procs, NEW l, Goto(p, l), l \in IF p = "put" THEN PutLabels ELSE GetLabels,
           UNCHANGED <<data, files, posFile, dataFiles, curReadfile, rfd, pos, curBatchSize,
                       wlock, rwlock, rec, nbytes, item, restarts, opt, history>>
    PROVE  Typed'
<1>1. /\ pc' \in [Procs -> PutLabels \cup GetLabels]
      /\ pc'["put"] \in PutLabels /\ pc'["get"] \in GetLabels
    BY GotoIs
<1>. QED  BY <1>1 DEF Typed, history

\* The names that a file had are those of the longer one.
LEMMA NamedGrows ==
    ASSUME NEW c \in Seq(Cells), Named(c), NEW r \in Records, NEW n \in Nat
    PROVE  /\ Append(c, Hdr(r)) \in Seq(Cells) /\ Named(Append(c, Hdr(r)))
           /\ Append(c, EOFHint) \in Seq(Cells) /\ Named(Append(c, EOFHint))
           /\ c \o Payload(r, n) \in Seq(Cells) /\ Named(c \o Payload(r, n))
<1>0. /\ Hdr(r) \in Cells /\ Hdr(r).kind = "hdr" /\ Hdr(r).rec = r
      /\ EOFHint \in Cells /\ EOFHint.kind = "eof"
      /\ Pay(r) \in Cells /\ Pay(r).kind = "pay" /\ Pay(r).rec = r
    BY SMT DEF Cells, Hdr, EOFHint, Pay
<1>1. PICK h \in Cells : h = Hdr(r) /\ h.kind = "hdr" /\ h.rec = r
    BY <1>0
<1>2. PICK e \in Cells : e = EOFHint /\ e.kind = "eof"
    BY <1>0
<1>3. PICK y \in Cells : y = Pay(r) /\ y.kind = "pay" /\ y.rec = r
    BY <1>0
<1>4. ASSUME NEW x \in Cells, x.kind # "eof" => x.rec \in Records
      PROVE  Append(c, x) \in Seq(Cells) /\ Named(Append(c, x))
    <2>1. PICK d : d = Append(c, x)
        OBVIOUS
    <2>2. /\ d \in Seq(Cells) /\ DOMAIN d = 1..(Len(c) + 1) /\ d[Len(c) + 1] = x /\ Len(c) \in Nat
          /\ DOMAIN c = 1..Len(c) /\ \A i \in 1..Len(c) : d[i] = c[i]
        BY <2>1, SMT
    <2>3. \A i \in DOMAIN d : d[i] = x \/ (i \in DOMAIN c /\ d[i] = c[i])
        BY <2>2, SMT
    <2>. QED  BY <1>4, <2>1, <2>2, <2>3 DEF Named
<1>5. PICK t : t = Payload(r, n)
    OBVIOUS
<1>6. t \in Seq(Cells) /\ DOMAIN t = 1..n /\ Len(t) = n /\ \A i \in 1..n : t[i] = y
    <2>1. t = [i \in 1..n |-> y]
        BY <1>3, <1>5 DEF Payload
    <2>. QED  BY <2>1, SMT
<1>7. PICK d : d = c \o t
    OBVIOUS
<1>8. /\ d \in Seq(Cells) /\ DOMAIN d = 1..(Len(c) + n) /\ Len(c) \in Nat /\ DOMAIN c = 1..Len(c)
      /\ \A i \in 1..Len(c) : d[i] = c[i]
      /\ \A i \in 1..n : d[Len(c) + i] = y
    <2>0. Len(c) \in Nat /\ DOMAIN c = 1..Len(c)
        BY SMT
    <2>1. d \in Seq(Cells) /\ Len(d) = Len(c) + n
        BY <1>6, <1>7, Joined
    <2>2. \A i \in 1..Len(d) : d[i] = IF i <= Len(c) THEN c[i] ELSE t[i - Len(c)]
        BY <1>6, <1>7, <2>1, Joined
    <2>3. DOMAIN d = 1..(Len(c) + n) /\ \A i \in 1..Len(c) : d[i] = c[i]
        BY <2>0, <2>1, <2>2, SMT
    <2>4. ASSUME NEW i \in 1..n PROVE d[Len(c) + i] = y
        <3>1. /\ Len(c) + i \in 1..Len(d) /\ ~(Len(c) + i <= Len(c))
              /\ (Len(c) + i) - Len(c) = i
            BY <2>0, <2>1, SMT
        <3>. QED  BY <1>6, <2>2, <3>1
    <2>. QED  BY <2>0, <2>1, <2>3, <2>4
<1>9. \A i \in DOMAIN d : d[i] = y \/ (i \in DOMAIN c /\ d[i] = c[i])
    <2>1. ASSUME NEW i \in DOMAIN d, i \notin DOMAIN c PROVE d[i] = y
        <3>1. i - Len(c) \in 1..n /\ Len(c) + (i - Len(c)) = i
            BY <1>8, <2>1, SMT
        <3>. QED  BY <1>8, <3>1
    <2>. QED  BY <1>8, <2>1
<1>10. d \in Seq(Cells) /\ Named(d)
    BY <1>3, <1>8, <1>9 DEF Named
<1>. QED  BY <1>1, <1>2, <1>4, <1>5, <1>7, <1>10

\* What TypeInv says of the reader.
ReaderAt ==
    /\ rfd.name # NoName => rfd.name = curReadfile /\ rfd.name \in DOMAIN files
    /\ pc["get"] \in {"reset", "switch"} => curReadfile = NoName
    /\ pc["get"] = "payload" /\ rfd.name # NoName => rfd.off >= 1
    /\ pc["get"] = "callback" /\ rfd.name # NoName => rfd.off >= 1 + nbytes

\* A step that leaves the files and their list.
LEMMA SameFilesType ==
    ASSUME TypeInv, Typed', size' \in Int, UNCHANGED <<files, dataFiles>>, Named(data'),
           pc'["put"] # "idle" => rec' \in Records, ReaderAt'
    PROVE  TypeInv'
<1>1. Stored' = Stored
    BY DEF Stored
<1>. QED  BY <1>1 DEF TypeInv, ReaderAt

\* A step of Put leaves the reader where it is.
LEMMA ReaderStays ==
    ASSUME TypeInv, UNCHANGED <<files, curReadfile, rfd, nbytes>>,
           pc'["get"] = pc["get"] \/ pc'["get"] \in {"rename", "start", "idle"}
    PROVE  ReaderAt'
BY DEF TypeInv, ReaderAt

\* Stuttering keeps the types.
LEMMA StutterTypes == ASSUME TypeInv, UNCHANGED vars PROVE TypeInv'
<1>1. UNCHANGED <<disk, mem, locks, pc, locals, run, history>>
    BY DEF vars
<1>2. Typed'
    BY <1>1 DEF disk, mem, locks, locals, run, history, TypeInv, Typed
<1>3. ReaderAt'
    BY <1>1, ReaderStays DEF disk, mem, locals
<1>. QED  BY <1>1, <1>2, <1>3, SameFilesType DEF disk, mem, locals, TypeInv

\* Put takes a record.
LEMMA PutBeginTypes == ASSUME TypeInv, NEW r \in Records, PutBegin(r) PROVE TypeInv'
<1>1. CASE UNCHANGED vars
    BY <1>1, StutterTypes
<1>2. CASE ~UNCHANGED vars
    <2>1. /\ wlock' = "put" /\ rec' = r /\ tried' = tried \cup {r}
          /\ UNCHANGED <<disk, mem, rwlock, nbytes, item, run, put, got, dropped, torn, exposed>>
        BY <1>2 DEF PutBegin
    <2>2. PICK l \in {"drop", "header"} : Goto("put", l)
        BY <1>2 DEF PutBegin
    <2>3. /\ pc' \in [Procs -> PutLabels \cup GetLabels] /\ pc'["get"] = pc["get"]
          /\ pc'["put"] \in PutLabels /\ pc'["get"] \in GetLabels
        BY <2>2, GotoIs DEF TypeInv, Procs, PutLabels
    <2>4. Typed'
        BY <2>1, <2>3 DEF disk, mem, run, TypeInv, Typed, Procs
    <2>5. ReaderAt'
        BY <2>1, <2>3, ReaderStays DEF disk, mem
    <2>. QED  BY <2>1, <2>4, <2>5, SameFilesType DEF disk, mem, TypeInv
<1>. QED  BY <1>1, <1>2

\* Put writes the header, or refuses.
LEMMA PutHeaderTypes == ASSUME TypeInv, PutHeader PROVE TypeInv'
<1>1. /\ pc["put"] = "header" /\ rec \in Records /\ wlock' \in {wlock, Free}
      /\ UNCHANGED <<files, posFile, mem, rwlock, locals, run, history>>
    BY DEF PutHeader, TypeInv
<1>2. PICK l \in {"idle", "data"} : Goto("put", l)
    BY DEF PutHeader
<1>3. /\ pc' \in [Procs -> PutLabels \cup GetLabels] /\ pc'["get"] = pc["get"]
      /\ pc'["put"] \in PutLabels /\ pc'["get"] \in GetLabels
    BY <1>2, GotoIs DEF TypeInv, Procs, PutLabels
<1>4. data' \in Seq(Cells) /\ Named(data')
    <2>1. PICK c \in Seq(Cells) : c = data /\ Named(c)
        BY DEF TypeInv, Typed
    <2>2. PICK r \in Records : r = rec
        BY <1>1
    <2>3. Append(c, Hdr(r)) \in Seq(Cells) /\ Named(Append(c, Hdr(r)))
        <3>1. 0 \in Nat
            BY SMT
        <3>. QED  BY <2>1, <3>1, NamedGrows
    <2>. QED  BY <2>1, <2>2, <2>3 DEF PutHeader
<1>5. Typed'
    BY <1>1, <1>3, <1>4 DEF mem, locals, run, history, TypeInv, Typed
<1>6. ReaderAt'
    BY <1>1, <1>3, ReaderStays DEF mem, locals
<1>. QED  BY <1>1, <1>4, <1>5, <1>6, SameFilesType DEF mem, locals, TypeInv

\* Put writes the payload, or a part of it.
LEMMA PutDataTypes == ASSUME TypeInv, PutData \/ PutDataFails PROVE TypeInv'
<1>1. /\ pc["put"] = "data" /\ wlock' \in {wlock, Free}
      /\ UNCHANGED <<files, posFile, dataFiles, curReadfile, rfd, pos, rwlock, locals, run,
                     tried, got, dropped>>
    BY DEF PutData, PutDataFails, mem
<1>2. PICK r \in Records : r = rec /\ LenOf[r] \in Nat
    BY <1>1, Constants DEF TypeInv
<1>3. PICK l \in {"idle", "rotate"} : Goto("put", l)
    BY DEF PutData, PutDataFails
<1>4. /\ pc' \in [Procs -> PutLabels \cup GetLabels] /\ pc'["get"] = pc["get"]
      /\ pc'["put"] \in PutLabels /\ pc'["get"] \in GetLabels
    BY <1>3, GotoIs DEF TypeInv, Procs, PutLabels
<1>5. data' \in Seq(Cells) /\ Named(data')
    <2>1. PICK n \in Nat : data' = data \o Payload(rec, n)
        <3>1. \A n \in 0..(LenOf[r] - 1) : n \in Nat
            BY <1>2, SMT
        <3>. QED  BY <1>2, <3>1 DEF PutData, PutDataFails
    <2>2. PICK c \in Seq(Cells) : c = data /\ Named(c)
        BY DEF TypeInv, Typed
    <2>3. c \o Payload(r, n) \in Seq(Cells) /\ Named(c \o Payload(r, n))
        BY <2>2, NamedGrows
    <2>. QED  BY <1>2, <2>1, <2>2, <2>3
<1>6. curBatchSize' \in Nat /\ size' \in Int
    <2>1. PICK s \in Int : s = size
        BY DEF TypeInv
    <2>2. PICK b \in Nat : b = curBatchSize
        BY DEF TypeInv, Typed
    <2>3. PICK k \in Nat : k = LenOf[rec]
        BY <1>2
    <2>4. s + k + 1 \in Int /\ b + k + 1 \in Nat
        BY SMT
    <2>. QED  BY <2>1, <2>2, <2>3, <2>4 DEF PutData, PutDataFails, mem
<1>7. put' \in Seq(Records) /\ torn' \in BOOLEAN /\ exposed' \subseteq Records
    <2>1. PICK s \in Seq(Records) : s = put
        BY DEF TypeInv, Typed
    <2>2. Append(s, r) \in Seq(Records)
        BY RangeAppend
    <2>3. CASE PutData
        BY <1>2, <2>1, <2>2, <2>3 DEF PutData, TypeInv, Typed
    <2>4. CASE PutDataFails
        BY <2>4 DEF PutDataFails, TypeInv, Typed
    <2>. QED  BY <2>3, <2>4
<1>8. Typed'
    BY <1>1, <1>4, <1>5, <1>6, <1>7 DEF locals, run, TypeInv, Typed
<1>9. ReaderAt'
    BY <1>1, <1>4, ReaderStays DEF locals
<1>. QED  BY <1>1, <1>2, <1>5, <1>6, <1>8, <1>9, SameFilesType DEF locals

\* The EOF is written.
LEMMA RotateEOFTypes == ASSUME TypeInv, NEW p \in Procs, RotateEOF(p) PROVE TypeInv'
<1>1. /\ pc[p] = "rotate" /\ rwlock' = p /\ data' = Append(data, EOFHint) /\ Goto(p, "rename")
      /\ UNCHANGED <<files, posFile, mem, wlock, locals, run, history>>
    BY DEF RotateEOF
<1>2. /\ pc' \in [Procs -> PutLabels \cup GetLabels] /\ pc'[p] = "rename"
      /\ \A q \in Procs : q # p => pc'[q] = pc[q]
      /\ pc'["put"] \in PutLabels /\ pc'["get"] \in GetLabels
    BY <1>1, GotoIs DEF TypeInv, PutLabels, GetLabels
<1>3. pc'["put"] # "idle" => rec' \in Records
    <2>1. pc["put"] # "idle" => rec \in Records
        BY DEF TypeInv
    <2>2. CASE p = "put"
        BY <1>1, <2>1, <2>2 DEF locals
    <2>3. CASE p # "put"
        BY <1>1, <1>2, <2>1, <2>3 DEF locals, Procs
    <2>. QED  BY <2>2, <2>3
<1>4. data' \in Seq(Cells) /\ Named(data')
    <2>1. data \in Seq(Cells) /\ Named(data)
        BY DEF TypeInv, Typed
    <2>2. PICK e \in Cells : e = EOFHint /\ e.kind = "eof"
        BY EOFCell
    <2>3. /\ Append(data, e) \in Seq(Cells) /\ Len(data) \in Nat /\ DOMAIN data = 1..Len(data)
          /\ DOMAIN Append(data, e) = 1..(Len(data) + 1) /\ Append(data, e)[Len(data) + 1] = e
          /\ \A i \in 1..Len(data) : Append(data, e)[i] = data[i]
        BY <2>1, SMT
    <2>4. \A i \in DOMAIN Append(data, e) : i \in DOMAIN data \/ i = Len(data) + 1
        BY <2>3, SMT
    <2>. QED  BY <1>1, <2>1, <2>2, <2>3, <2>4 DEF Named
<1>5. Typed'
    BY <1>1, <1>2, <1>4 DEF mem, locals, run, history, TypeInv, Typed
<1>6. ReaderAt'
    BY <1>1, <1>2, ReaderStays DEF mem, locals, Procs
<1>. QED  BY <1>1, <1>3, <1>4, <1>5, <1>6, SameFilesType DEF mem, TypeInv

\* The cells when data becomes file f.
LEMMA StoredAdds ==
    ASSUME NEW f, files' = [n \in DOMAIN files \cup {f} |-> IF n = f THEN data ELSE files[n]]
    PROVE  /\ DOMAIN files' = DOMAIN files \cup {f} /\ files'[f] = data
           /\ \A n \in DOMAIN files : n # f => files'[n] = files[n]
           /\ \A x \in Stored' : \/ x \in {f} \X DOMAIN data
                                 \/ x \in Stored /\ files'[x[1]] = files[x[1]]
<1>1. /\ DOMAIN files' = DOMAIN files \cup {f} /\ files'[f] = data
      /\ \A n \in DOMAIN files : n # f => files'[n] = files[n]
    OBVIOUS
<1>2. ASSUME NEW x \in Stored'
      PROVE  x \in {f} \X DOMAIN data \/ (x \in Stored /\ files'[x[1]] = files[x[1]])
    <2>0. PICK n \in DOMAIN files' : \E i \in DOMAIN files'[n] : x = <<n, i>>
        BY StoredIs, ZenonT(40)
    <2>1. PICK i \in DOMAIN files'[n] : x = <<n, i>>
        BY <2>0
    <2>2. x[1] = n
        BY <2>1, SMT
    <2>3. CASE n = f
        <3>1. <<n, i>> \in {f} \X DOMAIN data
            BY <1>1, <2>1, <2>3
        <3>. QED  BY <2>1, <3>1
    <2>4. CASE n # f
        BY <1>1, <2>1, <2>2, <2>4, StoredIs
    <2>. QED  BY <2>3, <2>4
<1>. QED  BY <1>1, <1>2

\* A part of a finite set.
LEMMA Part ==
    ASSUME NEW S, IsFiniteSet(S), NEW T, T \subseteq S
    PROVE  /\ IsFiniteSet(T) /\ Cardinality(T) \in Nat /\ Cardinality(S) \in Nat
           /\ Cardinality(T) <= Cardinality(S)
BY FS_Subset, FS_CardinalityType

\* The cells of one file.
LEMMA OneFile ==
    ASSUME NEW f, NEW D, IsFiniteSet(D)
    PROVE  IsFiniteSet({f} \X D) /\ Cardinality({f} \X D) = Cardinality(D) /\ Cardinality(D) \in Nat
<1>1. IsFiniteSet({f}) /\ Cardinality({f}) = 1 /\ Cardinality(D) \in Nat
    BY FS_Singleton, FS_CardinalityType
<1>2. IsFiniteSet({f} \X D) /\ Cardinality({f} \X D) = Cardinality({f}) * Cardinality(D)
    BY <1>1, FS_Product
<1>3. 1 * Cardinality(D) = Cardinality(D)
    BY <1>1, SMT
<1>. QED  BY <1>1, <1>2, <1>3

\* The write file becomes a file of the read list.
LEMMA RotateRenameTypes == ASSUME TypeInv, NEW p \in Procs, RotateRename(p) PROVE TypeInv'
<1>1. PICK f : f = NewFile
    OBVIOUS
<1>2. /\ pc[p] = "rename" /\ dataFiles' = dataFiles \cup {f} /\ rwlock' = Free /\ wlock' = Free
      /\ files' = [n \in DOMAIN files \cup {f} |-> IF n = f THEN data ELSE files[n]]
      /\ data' = <<>> /\ curBatchSize' = 0 /\ torn' = FALSE
      /\ UNCHANGED <<posFile, curReadfile, rfd, pos, size, locals, run, tried, put, got, dropped, exposed>>
    BY <1>1 DEF RotateRename
<1>3. PICK l \in {"idle", "start"} : Goto(p, l) /\ (p = "put" <=> l = "idle")
    BY DEF RotateRename
<1>4. /\ pc' \in [Procs -> PutLabels \cup GetLabels] /\ pc'[p] = l
      /\ \A q \in Procs : q # p => pc'[q] = pc[q]
      /\ pc'["put"] \in PutLabels /\ pc'["get"] \in GetLabels
    BY <1>3, GotoIs DEF TypeInv, PutLabels, GetLabels
<1>5. PICK b \in Nat : dataFiles \cup DOMAIN files \subseteq 0..b
    BY DEF TypeInv
<1>6. f \in 0..(b + 1) /\ f \in Nat
    <2>1. f \in 0..(b + 1)
        BY <1>1, <1>5, NewFileIs
    <2>. QED  BY <2>1, SMT
<1>7. \E u \in Nat : dataFiles' \cup DOMAIN files' \subseteq 0..u
    <2>1. b + 1 \in Nat /\ 0..b \subseteq 0..(b + 1)
        BY SMT
    <2>. QED  BY <1>2, <1>5, <1>6, <2>1
<1>8. /\ DOMAIN files' = DOMAIN files \cup {f} /\ files'[f] = data
      /\ \A n \in DOMAIN files : n # f => files'[n] = files[n]
      /\ \A x \in Stored' : x \in {f} \X DOMAIN data \/ x \in Stored
    BY <1>2, StoredAdds
<1>9. IsFiniteSet(Stored')
    <2>1. IsFiniteSet(DOMAIN data)
        <3>1. Len(data) \in Nat /\ DOMAIN data = 1..Len(data)
            BY SMT DEF TypeInv, Typed
        <3>2. IsFiniteSet(1..Len(data))
            BY <3>1, FS_Interval, SMT
        <3>. QED  BY <3>1, <3>2
    <2>2. IsFiniteSet(Stored \cup ({f} \X DOMAIN data))
        BY <2>1, OneFile, FS_Union DEF TypeInv
    <2>3. PICK T : T = Stored'
        OBVIOUS
    <2>4. PICK S : S = Stored \cup ({f} \X DOMAIN data)
        OBVIOUS
    <2>5. T \subseteq S
        BY <1>8, <2>3, <2>4
    <2>. QED  BY <2>2, <2>3, <2>4, <2>5, Part
<1>10. data' \in Seq(Cells) /\ Named(data')
    <2>1. data' \in Seq(Cells) /\ DOMAIN data' = {}
        BY <1>2, EmptyFile DEF Fit
    <2>. QED  BY <2>1 DEF Named
<1>11. /\ DOMAIN files' \subseteq Nat /\ dataFiles' \subseteq Nat
       /\ \A n \in DOMAIN files' : files'[n] \in Seq(Cells) /\ Named(files'[n])
    BY <1>2, <1>6, <1>8 DEF TypeInv, Typed
<1>12. Typed'
    <2>1. 0 \in Nat /\ FALSE \in BOOLEAN
        BY SMT
    <2>. QED  BY <1>2, <1>4, <1>10, <1>11, <2>1 DEF locals, run, TypeInv, Typed
<1>13. ReaderAt'
    <2>1. pc'["get"] = pc["get"] \/ pc'["get"] = "start"
        BY <1>3, <1>4 DEF Procs
    <2>. QED  BY <1>2, <1>8, <2>1 DEF TypeInv, ReaderAt, locals
<1>14. pc'["put"] # "idle" => rec' \in Records
    BY <1>2, <1>3, <1>4 DEF TypeInv, locals, Procs
<1>. QED  BY <1>2, <1>7, <1>9, <1>10, <1>11, <1>12, <1>13, <1>14 DEF TypeInv, ReaderAt

\* The cells of the files that stay.
LEMMA StoredFewer ==
    ASSUME Fewer
    PROVE  \A x \in Stored' : x \in Stored /\ files'[x[1]] = files[x[1]] /\ x[1] \in DOMAIN files'
<1>. SUFFICES ASSUME NEW x \in Stored'
     PROVE  x \in Stored /\ files'[x[1]] = files[x[1]] /\ x[1] \in DOMAIN files'
    OBVIOUS
<1>1. PICK n \in DOMAIN files' : \E i \in DOMAIN files'[n] : x = <<n, i>>
    BY StoredIs
<1>2. PICK i \in DOMAIN files'[n] : x = <<n, i>>
    BY <1>1
<1>3. x[1] = n
    BY <1>2, SMT
<1>. QED  BY <1>1, <1>2, <1>3, StoredIs DEF Fewer

\* A step that removes a file at most, and shortens the list.
LEMMA FewerFilesType ==
    ASSUME TypeInv, Fewer, dataFiles' \subseteq dataFiles, Typed', size' \in Int, UNCHANGED data,
           pc'["put"] # "idle" => rec' \in Records, ReaderAt'
    PROVE  TypeInv'
<1>1. IsFiniteSet(Stored')
    <2>1. PICK T : T = Stored'
        OBVIOUS
    <2>2. T \subseteq Stored
        BY <2>1, StoredFewer
    <2>. QED  BY <2>1, <2>2, Part DEF TypeInv
<1>2. \E b \in Nat : dataFiles' \cup DOMAIN files' \subseteq 0..b
    BY DEF TypeInv, Fewer
<1>. QED  BY <1>1, <1>2 DEF TypeInv, ReaderAt, Fewer

\* What dropBatch and removeCurrentReadingFile take off size is a number.
LEMMA LessSize ==
    ASSUME TypeInv, NEW f \in DOMAIN files
    PROVE  /\ Len(files[f]) \in Nat /\ DOMAIN files[f] = 1..Len(files[f])
           /\ size - Len(files[f]) \in Int /\ size - (Len(files[f]) - 1) \in Int
<1>1. PICK c \in Seq(Cells) : c = files[f]
    BY DEF TypeInv, Typed
<1>2. Len(c) \in Nat /\ DOMAIN c = 1..Len(c)
    BY SMT
<1>3. PICK s \in Int : s = size
    BY DEF TypeInv
<1>4. s - Len(c) \in Int /\ s - (Len(c) - 1) \in Int
    BY <1>2, SMT
<1>. QED  BY <1>1, <1>2, <1>3, <1>4

\* The records of named files.
LEMMA NamedRecords ==
    ASSUME NEW c, Named(c), NEW o PROVE RecordsFrom(c, o) \subseteq Records
<1>1. ASSUME NEW i \in DOMAIN c, Complete(c, i) PROVE c[i].rec \in Records
    <2>1. c[i].kind = "hdr"
        BY <1>1 DEF Complete
    <2>. QED  BY <2>1 DEF Named
<1>. QED  BY <1>1 DEF RecordsFrom

\* The oldest file is dropped, and closed if it is the one being read.
LEMMA DropBatchTypes == ASSUME TypeInv, DropBatch PROVE TypeInv'
<1>1. /\ pc["put"] = "drop" /\ Goto("put", "header")
      /\ UNCHANGED <<data, posFile, curReadfile, pos, curBatchSize, locks, locals,
                     run, tried, put, got, torn, exposed>>
    BY DEF DropBatch
<1>2. /\ pc' \in [Procs -> PutLabels \cup GetLabels] /\ pc'["get"] = pc["get"]
      /\ pc'["put"] \in PutLabels /\ pc'["get"] \in GetLabels
    BY <1>1, GotoIs DEF TypeInv, Procs, PutLabels
<1>3. PICK f : f = Min(dataFiles)
    OBVIOUS
<1>4. CASE UNCHANGED <<files, dataFiles, rfd, size, dropped>>
    <2>1. Typed'
        BY <1>1, <1>2, <1>4 DEF locks, locals, run, TypeInv, Typed
    <2>2. ReaderAt'
        BY <1>1, <1>2, <1>4, ReaderStays DEF locals
    <2>. QED  BY <1>1, <1>4, <2>1, <2>2, SameFilesType DEF TypeInv, locals
<1>5. CASE rfd' = (IF curReadfile = f THEN NilFd ELSE rfd) /\ f \in DOMAIN files
           /\ files' = Restrict(files, DOMAIN files \ {f}) /\ size' = size - Len(files[f])
           /\ dataFiles' = dataFiles \ {f} /\ dropped' = dropped \cup RecordsFrom(files[f], 0)
    <2>1. Fewer /\ DOMAIN files' = DOMAIN files \ {f}
        BY <1>5, RestrictFewer
    <2>2. rfd' \in [name : Nat \cup {NoName}, off : Nat] /\ (rfd' = rfd \/ rfd'.name = NoName)
        <3>1. NilFd \in [name : Nat \cup {NoName}, off : Nat] /\ NilFd.name = NoName
            BY SMT DEF NilFd, Fd
        <3>. QED  BY <1>5, <3>1 DEF TypeInv, Typed
    <2>3. Typed'
        <3>1. dropped' \subseteq Records
            BY <1>5, NamedRecords DEF TypeInv, Typed
        <3>. QED  BY <1>1, <1>2, <1>5, <2>1, <2>2, <3>1 DEF Fewer, locks, locals, run, TypeInv, Typed
    <2>4. ReaderAt'
        <3>1. rfd'.name # NoName => rfd' = rfd /\ curReadfile # f
            <4>1. NilFd.name = NoName
                BY SMT DEF NilFd, Fd
            <4>. QED  BY <1>5, <4>1
        <3>. QED  BY <1>1, <1>2, <2>1, <3>1 DEF TypeInv, ReaderAt, locals
    <2>. QED  BY <1>1, <1>5, <2>1, <2>3, <2>4, FewerFilesType, LessSize DEF TypeInv, locals
<1>6. CASE /\ rfd' = (IF curReadfile = f THEN NilFd ELSE rfd) /\ f \notin DOMAIN files
           /\ UNCHANGED <<files, size, dataFiles, dropped>>
    <2>1. rfd' = rfd \/ (rfd' = NilFd /\ rfd.name = NoName)
        BY <1>6 DEF TypeInv
    <2>2. NilFd \in [name : Nat \cup {NoName}, off : Nat] /\ NilFd.name = NoName
        BY SMT DEF NilFd, Fd
    <2>3. Typed'
        BY <1>1, <1>2, <1>6, <2>1, <2>2 DEF locks, locals, run, TypeInv, Typed
    <2>4. ReaderAt'
        BY <1>1, <1>2, <1>6, <2>1, <2>2 DEF TypeInv, ReaderAt, locals
    <2>. QED  BY <1>1, <1>6, <2>3, <2>4, SameFilesType DEF TypeInv, locals
<1>. QED  BY <1>3, <1>4, <1>5, <1>6 DEF DropBatch

\* The file that was read goes, and the first of the list.
LEMMA RemoveTypes == ASSUME TypeInv, RemoveCurrentReadingFile PROVE TypeInv'
<1>1. /\ pc["get"] = "remove" /\ rfd' = NilFd /\ curReadfile' = NoName /\ Goto("get", "reset")
      /\ dataFiles' \subseteq dataFiles
      /\ UNCHANGED <<data, posFile, pos, curBatchSize, locks, locals, run, history>>
    BY DEF RemoveCurrentReadingFile
<1>2. /\ pc' \in [Procs -> PutLabels \cup GetLabels] /\ pc'["get"] = "reset" /\ pc'["put"] = pc["put"]
      /\ pc'["put"] \in PutLabels /\ pc'["get"] \in GetLabels
    BY <1>1, GotoIs DEF TypeInv, Procs, GetLabels
<1>3. NilFd \in [name : Nat \cup {NoName}, off : Nat] /\ NilFd.name = NoName
    BY SMT DEF NilFd, Fd
<1>4. Fewer /\ size' \in Int
    <2>1. CASE curReadfile \in DOMAIN files
        <3>1. files' = Restrict(files, DOMAIN files \ {curReadfile})
            BY <2>1 DEF RemoveCurrentReadingFile
        <3>2. PICK f \in DOMAIN files : f = curReadfile
            BY <2>1
        <3>3. Fewer
            BY <3>1, <3>2, RestrictFewer
        <3>4. size' = size \/ size' = size - (Len(files[f]) - 1)
            BY <2>1, <3>2 DEF RemoveCurrentReadingFile
        <3>. QED  BY <3>3, <3>4, LessSize DEF TypeInv
    <2>2. CASE curReadfile \notin DOMAIN files
        BY <2>2 DEF RemoveCurrentReadingFile, Fewer, TypeInv
    <2>. QED  BY <2>1, <2>2
<1>5. Typed'
    BY <1>1, <1>2, <1>3, <1>4 DEF Fewer, locks, locals, run, history, TypeInv, Typed
<1>6. ReaderAt'
    BY <1>1, <1>2, <1>3 DEF ReaderAt
<1>. QED  BY <1>1, <1>2, <1>4, <1>5, <1>6, FewerFilesType DEF TypeInv, locals

\* Steps of Get that change nothing but its label.
LEMMA GetLabelTypes ==
    ASSUME TypeInv, GetBegin \/ GetSleeping \/ GetStart \/ GetRetry \/ GetNoHeader PROVE TypeInv'
<1>1. UNCHANGED <<disk, mem, locks, locals, run, history>>
    BY DEF GetBegin, GetSleeping, GetStart, GetRetry, GetNoHeader
<1>2. PICK l \in GetLabels : /\ Goto("get", l) /\ l \notin {"payload", "callback", "switch"}
                             /\ l = "reset" => curReadfile = NoName
    BY DEF GetBegin, GetSleeping, GetStart, GetRetry, GetNoHeader, SwitchNextFile, GetLabels
<1>3. pc'["get"] = l /\ pc'["put"] = pc["put"]
    BY <1>2, GotoIs DEF TypeInv, Procs
<1>4. Typed'
    BY <1>1, <1>2, OnlyLabel DEF TypeInv, disk, mem, locks, locals, run, Procs
<1>5. ReaderAt'
    BY <1>1, <1>2, <1>3 DEF TypeInv, ReaderAt, disk, mem, locals
<1>. QED  BY <1>1, <1>3, <1>4, <1>5, SameFilesType DEF TypeInv, disk, mem, locals

\* A step of Get that leaves the files, with its new label l.
LEMMA GetKeepsTypes ==
    ASSUME TypeInv, NEW l \in GetLabels, Goto("get", l),
           UNCHANGED <<data, files, dataFiles, size, curBatchSize, rwlock, rec, run,
                       tried, put, dropped, torn, exposed>>,
           wlock' \in Procs \cup {Free},
           curReadfile' \in Nat \cup {NoName},
           rfd' \in [name : Nat \cup {NoName}, off : Nat],
           pos' \in [name : Nat \cup {NoName}, seek : Int],
           posFile' \in [name : Nat \cup {NoName}, seek : Int],
           nbytes' \in Nat, item' \in Records \cup {NoRecord},
           got' \in Seq(Records \cup {NoRecord}),
           rfd'.name # NoName => rfd'.name = curReadfile' /\ rfd'.name \in DOMAIN files,
           l \in {"reset", "switch"} => curReadfile' = NoName,
           l = "payload" /\ rfd'.name # NoName => rfd'.off >= 1,
           l = "callback" /\ rfd'.name # NoName => rfd'.off >= 1 + nbytes'
    PROVE  TypeInv'
<1>1. /\ pc' \in [Procs -> PutLabels \cup GetLabels] /\ pc'["get"] = l /\ pc'["put"] = pc["put"]
      /\ pc'["put"] \in PutLabels /\ pc'["get"] \in GetLabels
    BY GotoIs DEF TypeInv, Procs
<1>2. Typed'
    BY <1>1 DEF run, TypeInv, Typed
<1>3. ReaderAt'
    BY <1>1 DEF ReaderAt
<1>. QED  BY <1>1, <1>2, <1>3, SameFilesType DEF TypeInv

\* Get waits for the write file, resets pos, or opens the next file.
LEMMA GetSwitchTypes == ASSUME TypeInv, GetWakeup \/ ResetPos \/ DoSwitchNextFile PROVE TypeInv'
<1>1. CASE GetWakeup
    <2>1. /\ Goto("get", "rotate") /\ wlock' = "get"
          /\ UNCHANGED <<disk, mem, rwlock, locals, run, history>>
        BY <1>1 DEF GetWakeup
    <2>. QED  BY <2>1, GetKeepsTypes DEF TypeInv, Typed, GetLabels, Procs, disk, mem, locals, history
<1>2. CASE ResetPos
    <2>1. /\ pc["get"] = "reset" /\ Goto("get", "switch") /\ pos' = Position(NoName, -1) /\ posFile' = pos'
          /\ UNCHANGED <<data, files, dataFiles, curReadfile, rfd, size, curBatchSize, locks, locals, run, history>>
        BY <1>2 DEF ResetPos
    <2>2. pos' \in [name : Nat \cup {NoName}, seek : Int]
        BY <2>1, SMT DEF Position
    <2>. QED  BY <2>1, <2>2, GetKeepsTypes DEF TypeInv, Typed, GetLabels, locks, locals, history
<1>3. CASE DoSwitchNextFile
    <2>1. /\ pc["get"] = "switch"
          /\ UNCHANGED <<data, files, dataFiles, size, curBatchSize, locks, locals, run, history>>
        BY <1>3 DEF DoSwitchNextFile
    <2>2. PICK f : f = Min(dataFiles)
        OBVIOUS
    <2>3. dataFiles # {} => f \in Nat
        BY <2>2, LeastOf DEF TypeInv, Typed
    <2>4. rfd.name = NoName /\ curReadfile = NoName
        BY <2>1 DEF TypeInv
    <2>5. CASE Goto("get", "retry") /\ UNCHANGED <<curReadfile, rfd, pos, posFile>>
        BY <2>1, <2>4, <2>5, GetKeepsTypes DEF TypeInv, Typed, GetLabels, locks, locals, history
    <2>6. CASE /\ dataFiles # {} /\ f \in DOMAIN files /\ curReadfile' = f /\ rfd' = Fd(f, 0)
               /\ pos' = Position(f, 0) /\ posFile' = pos' /\ Goto("get", "retry")
        <3>1. /\ rfd' \in [name : Nat \cup {NoName}, off : Nat] /\ rfd'.name = f
              /\ pos' \in [name : Nat \cup {NoName}, seek : Int]
            BY <2>3, <2>6, SMT DEF Fd, Position
        <3>. QED  BY <2>1, <2>3, <2>6, <3>1, GetKeepsTypes DEF TypeInv, Typed, GetLabels, locks, locals, history
    <2>7. CASE /\ dataFiles # {} /\ curReadfile' = f /\ Goto("get", "idle") /\ UNCHANGED <<rfd, pos, posFile>>
        BY <2>1, <2>3, <2>4, <2>7, GetKeepsTypes DEF TypeInv, Typed, GetLabels, locks, locals, history
    <2>. QED  BY <1>3, <2>2, <2>5, <2>6, <2>7 DEF DoSwitchNextFile
<1>. QED  BY <1>1, <1>2, <1>3

\* What the header of a named file decodes to.
LEMMA DecodeIs ==
    ASSUME NEW c \in Seq(Cells), Named(c), NEW i \in DOMAIN c PROVE Decode(c[i]) \subseteq Nat
<1>1. c[i] \in Cells
    BY SMT
<1>2. c[i].kind \in {"hdr", "pay", "eof"}
    BY <1>1 DEF Cells
<1>3. c[i].kind = "hdr" => LenOf[c[i].rec] \in Nat
    BY Constants DEF Named
<1>. QED  BY <1>2, <1>3, Constants DEF Decode

\* Get reads a header or a payload.
LEMMA GetReadTypes == ASSUME TypeInv, GetHeader \/ GetPayload PROVE TypeInv'
<1>1. CASE GetHeader
    <2>1. /\ pc["get"] = "header" /\ rfd.name # NoName /\ rfd.off < Len(files[rfd.name])
          /\ UNCHANGED <<disk, dataFiles, curReadfile, pos, size, curBatchSize, locks, rec, item, run, history>>
        BY <1>1 DEF GetHeader
    <2>2. PICK c \in Seq(Cells) : c = files[rfd.name] /\ Named(c)
        BY <2>1 DEF TypeInv, Typed
    <2>3. PICK o \in Nat : o = rfd.off
        BY SMT DEF TypeInv, Typed
    <2>4. o + 1 \in DOMAIN c
        BY <2>1, <2>2, <2>3, SMT
    <2>5. PICK n \in Decode(c[o + 1]) :
            IF n > BufLen
            THEN rfd' = [rfd EXCEPT !.off = @ + 1 + n] /\ Goto("get", "idle") /\ UNCHANGED nbytes
            ELSE rfd' = [rfd EXCEPT !.off = @ + 1] /\ nbytes' = n /\ Goto("get", "payload")
        BY <1>1, <2>2, <2>3 DEF GetHeader
    <2>6. n \in Nat
        BY <2>2, <2>4, <2>5, DecodeIs
    <2>7. PICK k \in Nat : rfd' = [rfd EXCEPT !.off = k] /\ k >= 1
        <3>1. o + 1 + n \in Nat /\ o + 1 \in Nat /\ o + 1 + n >= 1 /\ o + 1 >= 1
            BY <2>6, SMT
        <3>. QED  BY <2>3, <2>5, <3>1
    <2>8. /\ rfd' \in [name : Nat \cup {NoName}, off : Nat] /\ rfd'.name = rfd.name /\ rfd'.off = k
        BY <2>7, Seeks DEF TypeInv, Typed
    <2>9. nbytes' \in Nat /\ \E l \in {"idle", "payload"} : Goto("get", l)
        BY <2>5, <2>6 DEF TypeInv, Typed
    <2>. QED  BY <2>1, <2>7, <2>8, <2>9, GetKeepsTypes DEF TypeInv, Typed, GetLabels, disk, locks, history
<1>2. CASE GetPayload
    <2>1. /\ pc["get"] = "payload"
          /\ UNCHANGED <<disk, dataFiles, curReadfile, pos, size, curBatchSize, locks, rec, nbytes, run, history>>
        BY <1>2 DEF GetPayload
    <2>2. CASE rfd.name = NoName
        <3>1. Goto("get", "idle") /\ UNCHANGED <<rfd, item>>
            BY <1>2, <2>2 DEF GetPayload
        <3>. QED  BY <2>1, <2>2, <3>1, GetKeepsTypes DEF TypeInv, Typed, GetLabels, disk, locks, history
    <2>3. CASE rfd.name # NoName
        <3>1. PICK c \in Seq(Cells) : c = files[rfd.name] /\ Named(c)
            BY <2>3 DEF TypeInv, Typed
        <3>2. PICK o \in Nat : o = rfd.off /\ o >= 1
            BY <2>1, <2>3, SMT DEF TypeInv, Typed
        <3>3. PICK k \in Nat : k = nbytes
            BY DEF TypeInv, Typed
        <3>4. Len(c) \in Nat /\ o + k \in Nat /\ o + k >= 1 + k
            BY <3>2, SMT
        <3>5. CASE rfd' = [rfd EXCEPT !.off = Len(c)] /\ Goto("get", "idle") /\ UNCHANGED item
            <4>1. rfd' \in [name : Nat \cup {NoName}, off : Nat] /\ rfd'.name = rfd.name
                BY <3>4, <3>5, Seeks DEF TypeInv, Typed
            <4>. QED  BY <2>1, <3>5, <4>1, GetKeepsTypes, ZenonT(40) DEF TypeInv, Typed, GetLabels, disk, locks, history
        <3>6. CASE /\ ~(o + k > Len(c)) /\ rfd' = [rfd EXCEPT !.off = o + k]
                   /\ item' = Content(c, o, k) /\ Goto("get", "callback")
            <4>1. /\ rfd' \in [name : Nat \cup {NoName}, off : Nat] /\ rfd'.name = rfd.name
                  /\ rfd'.off = o + k
                BY <3>4, <3>6, Seeks DEF TypeInv, Typed
            <4>2. o \in DOMAIN c
                BY <3>2, <3>4, <3>6, SMT
            <4>3. item' \in Records \cup {NoRecord}
                BY <3>1, <3>6, <4>2 DEF Content, Named
            <4>4. rfd'.off >= 1 + nbytes'
                BY <2>1, <3>3, <3>4, <4>1
            <4>. QED  BY <2>1, <3>6, <4>1, <4>3, <4>4, GetKeepsTypes DEF TypeInv, Typed, GetLabels, disk, locks, history
        <3>. QED  BY <1>2, <2>3, <3>1, <3>2, <3>3, <3>5, <3>6 DEF GetPayload
    <2>. QED  BY <2>2, <2>3
<1>. QED  BY <1>1, <1>2

\* fn takes the record, or fails; and .pos moves past it.
LEMMA CallbackTypes == ASSUME TypeInv, CallbackOK \/ CallbackFails \/ UpdatePos PROVE TypeInv'
<1>1. CASE CallbackOK
    <2>1. /\ got' = Append(got, item) /\ Goto("get", "commit")
          /\ UNCHANGED <<disk, mem, locks, locals, run, tried, put, dropped, torn, exposed>>
        BY <1>1 DEF CallbackOK
    <2>2. got' \in Seq(Records \cup {NoRecord})
        BY <2>1, SMT DEF TypeInv, Typed
    <2>. QED  BY <2>1, <2>2, GetKeepsTypes DEF TypeInv, Typed, GetLabels, disk, mem, locks, locals
<1>2. CASE CallbackFails
    <2>1. /\ pc["get"] = "callback" /\ Goto("get", "idle")
          /\ UNCHANGED <<disk, dataFiles, curReadfile, pos, size, curBatchSize, locks, locals, run, history>>
        BY <1>2 DEF CallbackFails
    <2>2. CASE rfd.name = NoName
        BY <1>2, <2>1, <2>2, GetKeepsTypes
        DEF CallbackFails, TypeInv, Typed, GetLabels, disk, locks, locals, history
    <2>3. CASE rfd.name # NoName
        <3>1. PICK o \in Nat, k \in Nat : o = rfd.off /\ k = nbytes /\ o >= 1 + k
            BY <2>1, <2>3, SMT DEF TypeInv, Typed
        <3>2. o - (1 + k) \in Nat
            BY <3>1, SMT
        <3>3. rfd' = [rfd EXCEPT !.off = o - (1 + k)]
            BY <1>2, <2>3, <3>1 DEF CallbackFails
        <3>4. rfd' \in [name : Nat \cup {NoName}, off : Nat] /\ rfd'.name = rfd.name
            BY <3>2, <3>3, Seeks DEF TypeInv, Typed
        <3>. QED  BY <2>1, <3>4, GetKeepsTypes, ZenonT(40) DEF TypeInv, Typed, GetLabels, disk, locks, locals, history
    <2>. QED  BY <2>2, <2>3
<1>3. CASE UpdatePos
    <2>1. /\ pos' = [pos EXCEPT !.seek = @ + 1 + nbytes] /\ posFile' = pos' /\ Goto("get", "idle")
          /\ UNCHANGED <<data, files, dataFiles, curReadfile, rfd, size, curBatchSize, locks, locals, run, history>>
        BY <1>3 DEF UpdatePos
    <2>2. pos' \in [name : Nat \cup {NoName}, seek : Int]
        <3>1. ASSUME NEW q \in [name : Nat \cup {NoName}, seek : Int], NEW k \in Nat
              PROVE  [q EXCEPT !.seek = @ + 1 + k] \in [name : Nat \cup {NoName}, seek : Int]
            BY SMT
        <3>. QED  BY <2>1, <3>1 DEF TypeInv, Typed
    <2>. QED  BY <2>1, <2>2, GetKeepsTypes DEF TypeInv, Typed, GetLabels, locks, locals, history
<1>. QED  BY <1>1, <1>2, <1>3

\* The process opens the directory again.
LEMMA RestartTypes == ASSUME TypeInv, Restart PROVE TypeInv'
<1>1. PICK p \in {posFile, Position(NoName, 0)}, n \in Nat :
        /\ Open(IF pc["put"] = "data" THEN data \o Payload(rec, n) ELSE data, p)
        /\ put' = IF pc["put"] = "data" /\ n = LenOf[rec] THEN Append(put, rec) ELSE put
        /\ torn' = (torn \/ (pc["put"] = "data" /\ n < LenOf[rec]) \/ \E q \in Procs : pc[q] = "rename")
        /\ exposed' = exposed
               \cup (IF pc["put"] = "data" /\ n = LenOf[rec] /\ torn THEN {rec} ELSE {})
               \cup (IF pc["get"] = "reset" /\ p.name \in DOMAIN files THEN UpTo(p.name) ELSE {})
    <2>1. pc["put"] = "data" => LenOf[rec] \in Nat
        BY Constants DEF TypeInv
    <2>2. 0 \in Nat /\ (pc["put"] = "data" => 0..LenOf[rec] \subseteq Nat)
        BY <2>1, SMT
    <2>3. {posFile} \cup (IF pc["get"] = "commit" THEN {Position(NoName, 0)} ELSE {})
              \subseteq {posFile, Position(NoName, 0)}
        OBVIOUS
    <2>4. (IF pc["put"] = "data" THEN 0..LenOf[rec] ELSE {0}) \subseteq Nat
        BY <2>2
    <2>. QED  BY <2>3, <2>4 DEF Restart
<1>2. /\ wlock' = Free /\ rwlock' = Free /\ pc' = [q \in Procs |-> "idle"]
      /\ rec' = NoRecord /\ nbytes' = 0 /\ item' = NoRecord /\ UNCHANGED <<opt, tried, got, dropped>>
      /\ restarts < MaxRestarts /\ restarts' = restarts + 1
    BY DEF Restart
<1>3. PICK d \in Seq(Cells) : /\ d = IF pc["put"] = "data" THEN data \o Payload(rec, n) ELSE data
                              /\ Named(d)
    BY NamedGrows DEF TypeInv, Typed
<1>4. /\ data' = d /\ UNCHANGED files /\ curBatchSize' = Len(d) /\ dataFiles' = DOMAIN files
      /\ size' = Len(d) + Cardinality(Stored) /\ LoadUnfinishedFile(p)
    BY <1>1, <1>3 DEF Open
<1>5. Len(d) \in Nat /\ size' \in Int
    <2>1. Cardinality(Stored) \in Nat
        BY FS_CardinalityType DEF TypeInv
    <2>2. Len(d) \in Nat
        BY SMT
    <2>. QED  BY <1>4, <2>1, <2>2, SMT
<1>6. p \in [name : Nat \cup {NoName}, seek : Int]
    <2>1. Position(NoName, 0) \in [name : Nat \cup {NoName}, seek : Int]
        BY SMT DEF Position
    <2>. QED  BY <2>1 DEF TypeInv, Typed
<1>7. /\ rfd' \in [name : Nat \cup {NoName}, off : Nat] /\ curReadfile' \in Nat \cup {NoName}
      /\ pos' \in [name : Nat \cup {NoName}, seek : Int]
      /\ posFile' \in [name : Nat \cup {NoName}, seek : Int]
      /\ rfd'.name # NoName => rfd'.name = curReadfile' /\ rfd'.name \in DOMAIN files
    <2>1. CASE /\ p.name \in DOMAIN files /\ p.seek > 0 /\ rfd' = Fd(p.name, p.seek)
               /\ curReadfile' = p.name /\ pos' = p /\ posFile' = p
        <3>1. PICK m \in Nat \cup {NoName}, k \in Nat : m = p.name /\ k = p.seek
            BY <1>6, <2>1, SMT
        <3>2. Fd(m, k) \in [name : Nat \cup {NoName}, off : Nat] /\ Fd(m, k).name = m
            BY SMT DEF Fd
        <3>. QED  BY <1>6, <2>1, <3>1, <3>2
    <2>2. CASE /\ rfd' = NilFd /\ curReadfile' = NoName
               /\ \/ pos' = Position(NoName, 0) /\ posFile' = p
                  \/ pos' = Position(NoName, -1) /\ posFile' = pos'
        <3>1. /\ NilFd \in [name : Nat \cup {NoName}, off : Nat] /\ NilFd.name = NoName
              /\ Position(NoName, 0) \in [name : Nat \cup {NoName}, seek : Int]
              /\ Position(NoName, -1) \in [name : Nat \cup {NoName}, seek : Int]
            BY SMT DEF NilFd, Fd, Position
        <3>. QED  BY <1>6, <2>2, <3>1
    <2>. QED  BY <1>4, <2>1, <2>2 DEF LoadUnfinishedFile
<1>8. put' \in Seq(Records)
    <2>1. ASSUME NEW s \in Seq(Records), NEW r \in Records PROVE Append(s, r) \in Seq(Records)
        BY SMT
    <2>. QED  BY <1>1, <2>1 DEF TypeInv, Typed
<1>9. exposed' \subseteq Records
    <2>1. UpTo(p.name) \subseteq Records
        BY NamedRecords DEF UpTo, TypeInv
    <2>2. pc["put"] = "data" => rec \in Records
        BY DEF TypeInv
    <2>. QED  BY <1>1, <2>1, <2>2 DEF TypeInv, Typed
<1>10. restarts' \in 0..MaxRestarts /\ torn' \in BOOLEAN
    <2>1. restarts' \in 0..MaxRestarts
        BY <1>2, Constants, SMT DEF TypeInv, Typed
    <2>. QED  BY <1>1, <2>1
<1>11. /\ pc' \in [Procs -> PutLabels \cup GetLabels] /\ pc'["put"] = "idle" /\ pc'["get"] = "idle"
       /\ pc'["put"] \in PutLabels /\ pc'["get"] \in GetLabels
    BY <1>2 DEF Procs, PutLabels, GetLabels
<1>12. Typed'
    <2>1. nbytes' \in Nat /\ curBatchSize' \in Nat
        BY <1>2, <1>4, <1>5, SMT
    <2>. QED  BY <1>2, <1>3, <1>4, <1>7, <1>8, <1>9, <1>10, <1>11, <2>1 DEF TypeInv, Typed
<1>13. Stored' = Stored
    BY <1>4 DEF Stored
<1>14. \E b \in Nat : dataFiles' \cup DOMAIN files' \subseteq 0..b
    BY <1>4 DEF TypeInv
<1>15. Named(data') /\ \A m \in DOMAIN files' : Named(files'[m])
    BY <1>3, <1>4 DEF TypeInv
<1>. QED  BY <1>4, <1>5, <1>7, <1>11, <1>12, <1>13, <1>14, <1>15 DEF TypeInv

\* A step of Put or of Get, a rotation included.
LEMMA NextTypes == ASSUME TypeInv, [Next]_vars PROVE TypeInv'
<1>1. CASE UNCHANGED vars
    BY <1>1, StutterTypes
<1>2. CASE \E r \in Records : PutBegin(r)
    BY <1>2, PutBeginTypes
<1>3. CASE PutNext
    BY <1>3, DropBatchTypes, PutHeaderTypes, PutDataTypes, RotateEOFTypes, RotateRenameTypes DEF PutNext, Procs
<1>4. CASE GetNext
    BY <1>4, GetLabelTypes, GetSwitchTypes, GetReadTypes, CallbackTypes, RemoveTypes, RotateEOFTypes,
       RotateRenameTypes DEF GetNext, SwitchNext, Procs
<1>5. CASE Restart
    BY <1>5, RestartTypes
<1>. QED  BY <1>1, <1>2, <1>3, <1>4, <1>5 DEF Next

\* A new directory.
LEMMA InitTypes == ASSUME Init PROVE TypeInv
<1>1. /\ data = <<>> /\ files = [n \in {} |-> <<>>] /\ dataFiles = {} /\ curReadfile = NoName /\ rfd = NilFd
      /\ posFile = Position(NoName, 0) /\ pos = Position(NoName, 0) /\ size = 0 /\ curBatchSize = 0
      /\ pc = [p \in Procs |-> "idle"] /\ nbytes = 0 /\ restarts = 0 /\ put = <<>> /\ got = <<>>
    BY DEF Init
<1>2. DOMAIN files = {}
    BY <1>1
<1>3. Stored = {} /\ IsFiniteSet(Stored)
    <2>1. Stored = {}
        BY <1>2 DEF Stored
    <2>. QED  BY <2>1, FS_EmptySet
<1>4. /\ NilFd \in [name : Nat \cup {NoName}, off : Nat] /\ NilFd.name = NoName
      /\ Position(NoName, 0) \in [name : Nat \cup {NoName}, seek : Int]
    BY SMT DEF NilFd, Fd, Position
<1>5. /\ data \in Seq(Cells) /\ DOMAIN data = {} /\ put \in Seq(Records) /\ got \in Seq(Records \cup {NoRecord})
      /\ size \in Int /\ curBatchSize \in Nat /\ nbytes \in Nat /\ restarts \in 0..MaxRestarts /\ 0 \in Nat
    BY <1>1, Constants, SMT
<1>6. /\ pc \in [Procs -> PutLabels \cup GetLabels] /\ pc["put"] = "idle" /\ pc["get"] = "idle"
      /\ pc["put"] \in PutLabels /\ pc["get"] \in GetLabels
    BY <1>1 DEF Procs, PutLabels, GetLabels
<1>7. Typed
    BY <1>1, <1>2, <1>4, <1>5, <1>6 DEF Init, Typed
<1>8. Named(data)
    BY <1>5 DEF Named
<1>9. \E b \in Nat : dataFiles \cup DOMAIN files \subseteq 0..b
    BY <1>1, <1>2, <1>5
<1>. QED  BY <1>1, <1>2, <1>3, <1>4, <1>5, <1>6, <1>7, <1>8, <1>9 DEF TypeInv

\* What Typed says of records, field by field.
LEMMA TypesShown == ASSUME TypeInv PROVE TypeOK
<1>1. ASSUME NEW r \in [name : Nat \cup {NoName}, off : Nat]
      PROVE  r.name \in Nat \cup {NoName} /\ r.off \in Nat
    OBVIOUS
<1>2. ASSUME NEW r \in [name : Nat \cup {NoName}, seek : Int]
      PROVE  r.name \in Nat \cup {NoName} /\ r.seek \in Int
    OBVIOUS
<1>. QED  BY <1>1, <1>2 DEF TypeInv, Typed, TypeOK

\* Every variable of the disk queue keeps its type, with any options, and
\* wherever writes fail and the process dies: size stays a number because the
\* files and their cells stay finitely many, and the offset that a failed
\* callback seeks back to is never negative, since Get stands behind the header
\* and the payload it has read whenever its file is still open.
THEOREM QueueTypes == Spec => []TypeOK
<1>1. Init => TypeInv
    BY InitTypes
<1>2. TypeInv /\ [Next]_vars => TypeInv'
    BY NextTypes
<1>3. TypeInv => TypeOK
    BY TypesShown
<1>. QED  BY <1>1, <1>2, <1>3, PTL DEF Spec

----------------------------------------------------------------------------
(* Space *)

\* The cells of a file that are no EOF, and those of the rotated files.
Filled(c) == {i \in DOMAIN c : c[i] # EOFHint}
Live       == {x \in Stored : files[x[1]][x[2]] # EOFHint}
Heads      == IF pc["put"] = "data" THEN 1 ELSE 0

\* The cells of one file are finitely many.
LEMMA DataCellsIs ==
    ASSUME NEW c \in Seq(Cells)
    PROVE  /\ Len(c) \in Nat /\ DOMAIN c = 1..Len(c) /\ IsFiniteSet(DOMAIN c)
           /\ IsFiniteSet(Filled(c)) /\ DataCells(c) = Cardinality(Filled(c))
           /\ DataCells(c) \in Nat /\ DataCells(c) <= Len(c)
           /\ Ended(c) => DataCells(c) <= Len(c) - 1
<1>1. Len(c) \in Nat /\ DOMAIN c = 1..Len(c)
    BY SMT
<1>2. IsFiniteSet(1..Len(c)) /\ Cardinality(1..Len(c)) = Len(c)
    <2>1. /\ IsFiniteSet(1..Len(c))
          /\ Cardinality(1..Len(c)) = IF 1 > Len(c) THEN 0 ELSE Len(c) - 1 + 1
        BY <1>1, FS_Interval, SMT
    <2>. QED  BY <1>1, <2>1, SMT
<1>3. Filled(c) \subseteq 1..Len(c) /\ DataCells(c) = Cardinality(Filled(c))
    BY <1>1 DEF Filled, DataCells
<1>4. /\ IsFiniteSet(Filled(c)) /\ Cardinality(Filled(c)) \in Nat
      /\ Cardinality(Filled(c)) <= Len(c)
    BY <1>2, <1>3, Part
<1>5. ASSUME Ended(c) PROVE Cardinality(Filled(c)) <= Len(c) - 1
    <2>1. Len(c) \in 1..Len(c) /\ Len(c) \notin Filled(c)
        <3>1. Len(c) \in 1..Len(c)
            BY <1>1, <1>5, SMT DEF Ended
        <3>. QED  BY <1>5, <3>1 DEF Ended, Filled
    <2>2. /\ IsFiniteSet((1..Len(c)) \ {Len(c)})
          /\ Cardinality((1..Len(c)) \ {Len(c)}) = Len(c) - 1
        BY <1>2, <2>1, FS_RemoveElement
    <2>3. Filled(c) \subseteq (1..Len(c)) \ {Len(c)}
        BY <1>3, <2>1
    <2>. QED  BY <2>2, <2>3, Part
<1>. QED  BY <1>1, <1>2, <1>3, <1>4, <1>5

\* One more cell at the end of a file.
LEMMA OneCellMore ==
    ASSUME NEW c \in Seq(Cells), NEW x \in Cells
    PROVE  /\ Append(c, x) \in Seq(Cells) /\ Len(Append(c, x)) = Len(c) + 1
           /\ Append(c, x)[Len(c) + 1] = x
           /\ x = EOFHint => DataCells(Append(c, x)) = DataCells(c)
           /\ x # EOFHint => DataCells(Append(c, x)) = DataCells(c) + 1
<1>0. Append(c, x) \in Seq(Cells)
    BY SMT
<1>1. PICK d \in Seq(Cells) : d = Append(c, x)
    BY <1>0
<1>2. /\ Len(d) = Len(c) + 1 /\ DOMAIN d = DOMAIN c \cup {Len(c) + 1} /\ Len(c) + 1 \notin DOMAIN c
      /\ d[Len(c) + 1] = x /\ \A i \in DOMAIN c : d[i] = c[i]
    BY <1>1, SMT
<1>3. CASE x = EOFHint
    <2>1. Filled(d) = Filled(c)
        BY <1>2, <1>3 DEF Filled
    <2>. QED  BY <1>1, <1>2, <1>3, <2>1, DataCellsIs
<1>4. CASE x # EOFHint
    <2>1. Filled(d) = Filled(c) \cup {Len(c) + 1} /\ Len(c) + 1 \notin Filled(c)
        BY <1>2, <1>4 DEF Filled
    <2>2. Cardinality(Filled(d)) = Cardinality(Filled(c)) + 1
        BY <2>1, DataCellsIs, FS_AddElement
    <2>. QED  BY <1>1, <1>2, <1>4, <2>2, DataCellsIs
<1>. QED  BY <1>3, <1>4

\* What lies in one of two finite sets.
LEMMA Together ==
    ASSUME NEW S, IsFiniteSet(S), NEW T, IsFiniteSet(T), NEW U, U \subseteq S \cup T
    PROVE  /\ IsFiniteSet(U) /\ Cardinality(U) \in Nat
           /\ Cardinality(U) <= Cardinality(S) + Cardinality(T)
<1>1. /\ IsFiniteSet(S \cup T)
      /\ Cardinality(S \cup T) = Cardinality(S) + Cardinality(T) - Cardinality(S \cap T)
    BY FS_Union
<1>2. /\ Cardinality(S) \in Nat /\ Cardinality(T) \in Nat /\ Cardinality(S \cap T) \in Nat
      /\ IsFiniteSet(U) /\ Cardinality(U) \in Nat /\ Cardinality(U) <= Cardinality(S \cup T)
    <2>1. S \cap T \subseteq S
        OBVIOUS
    <2>. QED  BY <1>1, <2>1, Part, FS_CardinalityType
<1>3. Cardinality(S) + Cardinality(T) - Cardinality(S \cap T) <= Cardinality(S) + Cardinality(T)
    BY <1>2, SMT
<1>. QED  BY <1>1, <1>2, <1>3, SMT

\* A payload, or a part of it, at the end of a file.
LEMMA PayloadAppended ==
    ASSUME NEW c \in Seq(Cells), NEW r \in Records, NEW n \in Nat
    PROVE  /\ c \o Payload(r, n) \in Seq(Cells) /\ Len(c \o Payload(r, n)) = Len(c) + n
           /\ DataCells(c \o Payload(r, n)) <= DataCells(c) + n
<1>1. PICK t : t = Payload(r, n)
    OBVIOUS
<1>2. Pay(r) \in Cells
    BY SMT DEF Pay, Cells
<1>3. t \in Seq(Cells) /\ Len(t) = n
    BY <1>1, <1>2, SMT DEF Payload
<1>4. PICK d \in Seq(Cells) : d = c \o t
    BY <1>3, Joined
<1>5. /\ Len(d) = Len(c) + n /\ Len(c) \in Nat /\ DOMAIN d = DOMAIN c \cup ((Len(c) + 1)..(Len(c) + n))
      /\ \A i \in DOMAIN c : d[i] = c[i]
    <2>1. /\ Len(d) = Len(c) + n
          /\ \A i \in 1..(Len(c) + n) : d[i] = IF i <= Len(c) THEN c[i] ELSE t[i - Len(c)]
        BY <1>3, <1>4, Joined
    <2>. QED  BY <2>1, SMT
<1>6. PICK w : w = (Len(c) + 1)..(Len(c) + n)
    OBVIOUS
<1>7. IsFiniteSet(w) /\ Cardinality(w) = n
    <2>1. PICK a \in Int, b \in Int : a = Len(c) + 1 /\ b = Len(c) + n
        BY <1>5, SMT
    <2>2. IsFiniteSet(a..b) /\ Cardinality(a..b) = IF a > b THEN 0 ELSE b - a + 1
        BY FS_Interval
    <2>3. (IF a > b THEN 0 ELSE b - a + 1) = n
        BY <1>5, <2>1, SMT
    <2>. QED  BY <1>6, <2>1, <2>2, <2>3
<1>8. Filled(d) \subseteq Filled(c) \cup w
    BY <1>5, <1>6 DEF Filled
<1>9. PICK A : A = Filled(c) /\ IsFiniteSet(A) /\ Cardinality(A) = DataCells(c) /\ Cardinality(A) \in Nat
    BY DataCellsIs
<1>10. Cardinality(Filled(d)) <= Cardinality(A) + n
    BY <1>7, <1>8, <1>9, Together
<1>. QED  BY <1>1, <1>4, <1>5, <1>9, <1>10, DataCellsIs

\* The sets of cells, and what LiveCells counts.
LEMMA LiveIs ==
    ASSUME TypeInv
    PROVE  /\ IsFiniteSet(Live) /\ Cardinality(Live) \in Nat
           /\ IsFiniteSet(Body) /\ Cardinality(Body) \in Nat
           /\ DataCells(data) \in Nat /\ Len(data) \in Nat /\ size \in Int /\ Heads \in {0, 1}
           /\ LiveCells = DataCells(data) - Heads + Cardinality(Live) /\ LiveCells \in Int
<1>1. Live \subseteq Stored /\ Body \subseteq Stored /\ IsFiniteSet(Stored)
    BY DEF TypeInv, Live, Body
<1>2. /\ IsFiniteSet(Live) /\ Cardinality(Live) \in Nat
      /\ IsFiniteSet(Body) /\ Cardinality(Body) \in Nat
    BY <1>1, Part
<1>3. DataCells(data) \in Nat /\ Len(data) \in Nat /\ size \in Int /\ Heads \in {0, 1}
    BY DataCellsIs DEF TypeInv, Typed, Heads
<1>4. LiveCells = DataCells(data) - Heads + Cardinality(Live)
    BY DEF LiveCells, Heads, Live
<1>5. \A x \in Nat, y \in Nat, h \in {0, 1} : x - h + y \in Int
    BY SMT
<1>. QED  BY <1>2, <1>3, <1>4, <1>5

\* What the records take is counted, since a rotated file ends with an EOF.
LEMMA LiveCounted ==
    ASSUME TypeInv, SpaceInv PROVE LiveCells <= Counted /\ LiveCells <= size /\ Counted \in Int
<1>1. Live \subseteq Body
    <2>1. ASSUME NEW x \in Stored, files[x[1]][x[2]] # EOFHint PROVE x[2] < Len(files[x[1]])
        <3>1. PICK n \in DOMAIN files : \E i \in DOMAIN files[n] : x = <<n, i>>
            BY StoredIs
        <3>2. PICK i \in DOMAIN files[n] : x = <<n, i>>
            BY <3>1
        <3>3. x[1] = n /\ x[2] = i
            BY <3>2, SMT
        <3>4. Len(files[n]) \in Nat /\ DOMAIN files[n] = 1..Len(files[n])
            BY LessSize
        <3>5. files[n][Len(files[n])] = EOFHint
            BY DEF SpaceInv, SpaceLocked, Ended
        <3>6. i # Len(files[n])
            BY <2>1, <3>3, <3>5
        <3>7. i < Len(files[n])
            BY <3>2, <3>4, <3>6, SMT
        <3>. QED  BY <3>3, <3>7
    <2>. QED  BY <2>1 DEF Live, Body
<1>2. Cardinality(Live) <= Cardinality(Body)
    BY <1>1, LiveIs, Part
<1>3. DataCells(data) <= Len(data) /\ (Ended(data) => DataCells(data) <= Len(data) - 1)
    BY DataCellsIs DEF TypeInv, Typed
<1>4. \/ Heads = 1 /\ Settled = Len(data) - 1
      \/ Heads = 0 /\ Settled = Len(data)
      \/ Heads = 0 /\ Settled = Len(data) - 1 /\ Ended(data)
    BY DEF Heads, Settled, SpaceInv, SpaceLocked
<1>5. DataCells(data) - Heads <= Settled /\ Settled \in Int
    BY <1>3, <1>4, LiveIs, SMT
<1>6. PICK s \in Int, b \in Nat, w \in Int, l \in Nat, z \in Int :
        /\ s = Settled /\ b = Cardinality(Body) /\ w = DataCells(data) - Heads
        /\ l = Cardinality(Live) /\ z = size
    <2>1. DataCells(data) - Heads \in Int
        BY LiveIs, SMT
    <2>. QED  BY <1>5, <2>1, LiveIs
<1>7. LiveCells = w + l /\ Counted = s + b /\ z >= s + b /\ w <= s /\ l <= b
    BY <1>2, <1>5, <1>6, LiveIs DEF Counted, SpaceInv, Room
<1>8. w + l <= s + b /\ w + l <= z /\ s + b \in Int
    BY <1>7, SMT
<1>. QED  BY <1>6, <1>7, <1>8

\* A step that leaves the files and size, and the labels of the write file.
LEMMA SpaceStays ==
    ASSUME TypeInv, SpaceInv, SpaceLocked', UNCHANGED <<data, files, size>>,
           pc'["put"] = "data" <=> pc["put"] = "data",
           \A q \in Procs : pc'[q] = "rename" <=> pc[q] = "rename",
           Capacity > 0 /\ pc'["put"] \in {"header", "data"} => size + LenOf[rec'] <= Capacity
    PROVE  SpaceInv'
<1>1. Stored' = Stored
    BY DEF Stored
<1>2. Body' = Body /\ Live' = Live
    BY <1>1 DEF Body, Live
<1>3. Settled' = Settled /\ Counted' = Counted
    BY <1>2 DEF Settled, Counted
<1>4. LiveCells' = LiveCells
    BY <1>1 DEF LiveCells
<1>. QED  BY <1>3, <1>4 DEF SpaceInv, Room

\* A step of Get that leaves the files, with its new label l.
LEMMA GetSpace ==
    ASSUME TypeInv, SpaceInv, NEW l \in GetLabels, l # "rename", pc["get"] # "rename", Goto("get", l),
           UNCHANGED <<data, files, size, rec>>,
           \/ wlock' = wlock /\ l # "rotate"
           \/ wlock = Free /\ wlock' = "get"
    PROVE  SpaceInv'
<1>1. pc'["get"] = l /\ pc'["put"] = pc["put"]
    BY GotoIs DEF TypeInv, Procs
<1>2. pc["put"] # "idle" => wlock' = "put"
    BY DEF SpaceInv, SpaceLocked, Free
<1>3. \A q \in Procs : pc'[q] = "rename" <=> pc[q] = "rename"
    BY <1>1 DEF Procs
<1>4. SpaceLocked'
    BY <1>1, <1>2, <1>3 DEF SpaceInv, SpaceLocked
<1>. QED  BY <1>1, <1>3, <1>4, SpaceStays DEF SpaceInv, Room

\* Get reads, or opens its next file.
LEMMA GetStepsSpace ==
    ASSUME TypeInv, SpaceInv,
           \/ GetBegin \/ GetSleeping \/ GetStart \/ GetRetry \/ GetNoHeader
           \/ GetWakeup \/ ResetPos \/ DoSwitchNextFile
           \/ GetHeader \/ GetPayload \/ CallbackOK \/ CallbackFails \/ UpdatePos
    PROVE  SpaceInv'
<1>1. CASE GetWakeup
    BY <1>1, GetSpace DEF GetWakeup, GetLabels, disk, mem, locals
<1>2. CASE ~GetWakeup
    <2>1. UNCHANGED <<data, files, size, rec, wlock>> /\ pc["get"] # "rename"
        BY <1>2 DEF GetBegin, GetSleeping, GetStart, GetRetry, GetNoHeader, ResetPos, DoSwitchNextFile,
                    GetHeader, GetPayload, CallbackOK, CallbackFails, UpdatePos, disk, mem, locals, locks
    <2>2. \E l \in GetLabels \ {"rotate", "rename"} : Goto("get", l)
        BY <1>2 DEF GetBegin, GetSleeping, GetStart, GetRetry, GetNoHeader, ResetPos, DoSwitchNextFile,
                    GetHeader, GetPayload, CallbackOK, CallbackFails, UpdatePos, SwitchNextFile, GetLabels
    <2>. QED  BY <2>1, <2>2, GetSpace
<1>. QED  BY <1>1, <1>2

\* Put begins: it has checked the capacity.
LEMMA PutBeginSpace ==
    ASSUME TypeInv, SpaceInv, Refuses, NEW r \in Records, PutBegin(r) PROVE SpaceInv'
<1>0. opt.filoDrop
    BY DEF Refuses, TypeInv, Typed
<1>1. CASE UNCHANGED vars
    <2>1. UNCHANGED <<data, files, size, pc, wlock, rec>>
        BY <1>1 DEF vars, disk, mem, locks, locals
    <2>2. SpaceLocked'
        BY <2>1 DEF SpaceInv, SpaceLocked
    <2>. QED  BY <2>1, <2>2, SpaceStays DEF SpaceInv, Room
<1>2. CASE ~UNCHANGED vars
    <2>1. /\ pc["put"] = "idle" /\ wlock = Free /\ wlock' = "put" /\ rec' = r /\ ~Full(r) /\ Goto("put", "header")
          /\ UNCHANGED <<data, files, size>>
        BY <1>0, <1>2 DEF PutBegin, disk, mem
    <2>2. pc'["put"] = "header" /\ pc'["get"] = pc["get"]
        BY <2>1, GotoIs DEF TypeInv, Procs, PutLabels
    <2>3. pc["get"] \notin {"rotate", "rename"}
        BY <2>1 DEF SpaceInv, SpaceLocked, Free
    <2>4. \A q \in Procs : pc'[q] # "rename" /\ pc[q] # "rename"
        BY <2>1, <2>2, <2>3 DEF Procs
    <2>5. SpaceLocked'
        BY <2>1, <2>2, <2>3, <2>4 DEF SpaceInv, SpaceLocked
    <2>6. Capacity > 0 => size + LenOf[r] <= Capacity
        <3>1. PICK a \in Int, b \in Int : a = size + LenOf[r] /\ b = Capacity
            <4>1. LenOf[r] \in Nat /\ Capacity \in Nat
                BY Constants, DiskCacheAssumption DEF DiskCacheAssumption
            <4>2. size + LenOf[r] \in Int /\ Capacity \in Int
                BY <4>1, LiveIs, SMT
            <4>. QED  BY <4>2
        <3>2. ~(a > b) => a <= b
            BY SMT
        <3>. QED  BY <2>1, <3>1, <3>2 DEF Full
    <2>. QED  BY <2>1, <2>2, <2>4, <2>5, <2>6, SpaceStays
<1>. QED  BY <1>1, <1>2

\* While Put is at the write file, Get is not.
LEMMA PutHasIt ==
    ASSUME TypeInv, SpaceInv, pc["put"] \notin {"idle", "rename"}
    PROVE  /\ pc["get"] # "rotate" /\ \A q \in Procs : pc[q] # "rename"
           /\ Settled = IF pc["put"] = "data" THEN Len(data) - 1 ELSE Len(data)
<1>1. pc["get"] \notin {"rotate", "rename"}
    BY DEF SpaceInv, SpaceLocked
<1>2. \A q \in Procs : pc[q] # "rename"
    BY <1>1 DEF Procs
<1>. QED  BY <1>1, <1>2 DEF Settled

\* What the files hold while only the write file changes.
LEMMA SameFiles ==
    ASSUME UNCHANGED files PROVE Stored' = Stored /\ Body' = Body /\ Live' = Live
<1>1. Stored' = Stored
    BY DEF Stored
<1>. QED  BY <1>1 DEF Body, Live

\* Put writes a header, which size does not count yet.
LEMMA PutHeaderSpace == ASSUME TypeInv, TypeInv', SpaceInv, PutHeader PROVE SpaceInv'
<1>1. pc["put"] = "header" /\ UNCHANGED <<files, size, rec>> /\ rec \in Records
    BY DEF PutHeader, mem, locals, TypeInv
<1>2. (\A q \in Procs : pc[q] # "rename") /\ pc["get"] # "rotate" /\ Settled = Len(data) /\ wlock = "put"
    BY <1>1, PutHasIt DEF SpaceInv, SpaceLocked
<1>3. CASE TooLarge(rec)
    <2>1. wlock' = Free /\ Goto("put", "idle") /\ UNCHANGED data
        BY <1>3 DEF PutHeader
    <2>2. pc'["put"] = "idle" /\ pc'["get"] = pc["get"]
        BY <2>1, GotoIs DEF TypeInv, Procs, PutLabels
    <2>3. \A q \in Procs : pc'[q] # "rename"
        BY <1>2, <2>2 DEF Procs
    <2>4. pc'["get"] \notin {"rotate", "rename"}
        BY <1>2, <2>2 DEF Procs
    <2>5. SpaceLocked'
        BY <1>1, <2>1, <2>2, <2>3, <2>4 DEF SpaceInv, SpaceLocked
    <2>. QED  BY <1>1, <1>2, <2>1, <2>2, <2>3, <2>5, SpaceStays
<1>4. CASE ~TooLarge(rec)
    <2>1. data' = Append(data, Hdr(rec)) /\ Goto("put", "data") /\ UNCHANGED wlock
        BY <1>4 DEF PutHeader
    <2>2. pc'["put"] = "data" /\ pc'["get"] = pc["get"]
        BY <2>1, GotoIs DEF TypeInv, Procs, PutLabels
    <2>3. \A q \in Procs : pc'[q] # "rename"
        BY <1>2, <2>2 DEF Procs
    <2>4. pc'["get"] \notin {"rotate", "rename"}
        BY <1>2, <2>2 DEF Procs
    <2>5. Hdr(rec) \in Cells /\ Hdr(rec) # EOFHint
        <3>1. Hdr(rec) \in Cells /\ Hdr(rec).kind = "hdr" /\ EOFHint.kind = "eof"
            BY <1>1, SMT DEF Cells, Hdr, EOFHint
        <3>. QED  BY <3>1
    <2>6. Len(data') = Len(data) + 1 /\ DataCells(data') = DataCells(data) + 1
        BY <2>1, <2>5, OneCellMore DEF TypeInv, Typed
    <2>7. /\ Len(data) \in Nat /\ DataCells(data) \in Nat /\ Len(data') > 0
          /\ Len(data') - 1 = Len(data) /\ DataCells(data') - 1 = DataCells(data) - 0
        BY <2>6, LiveIs, SMT
    <2>8. SpaceLocked'
        BY <1>1, <1>2, <2>1, <2>2, <2>3, <2>4, <2>7 DEF SpaceInv, SpaceLocked
    <2>9. Settled' = Settled /\ Heads = 0 /\ Heads' = 1
        BY <1>1, <1>2, <2>2, <2>7 DEF Settled, Heads
    <2>10. Body' = Body /\ Live' = Live /\ Counted' = Counted
        BY <1>1, <2>9, SameFiles DEF Counted
    <2>11. LiveCells' = LiveCells
        <3>1. LiveCells' = DataCells(data') - Heads' + Cardinality(Live')
            BY DEF LiveCells, Heads, Live
        <3>. QED  BY <2>7, <2>9, <2>10, <3>1, LiveIs
    <2>. QED  BY <1>1, <2>2, <2>8, <2>10, <2>11 DEF SpaceInv, Room
<1>. QED  BY <1>3, <1>4

\* The payload is there, and size counts it and the header.
LEMMA PutDataSpace == ASSUME TypeInv, TypeInv', SpaceInv, PutData PROVE SpaceInv'
<1>1. PICK r \in Records : r = rec /\ LenOf[r] \in Nat
    BY Constants DEF PutData, TypeInv
<1>2. /\ pc["put"] = "data" /\ data' = data \o Payload(r, LenOf[r]) /\ size' = size + LenOf[r] + 1
      /\ UNCHANGED <<files, rec>> /\ wlock' \in {wlock, Free}
    BY <1>1 DEF PutData, locals
<1>3. /\ (\A q \in Procs : pc[q] # "rename") /\ pc["get"] # "rotate" /\ Settled = Len(data) - 1
      /\ wlock = "put"
    BY <1>2, PutHasIt DEF SpaceInv, SpaceLocked
<1>4. PICK l \in {"idle", "rotate"} : Goto("put", l) /\ (l = "rotate" => wlock' = wlock)
    BY DEF PutData
<1>5. pc'["put"] = l /\ pc'["get"] = pc["get"]
    BY <1>4, GotoIs DEF TypeInv, Procs, PutLabels
<1>6. pc'["get"] \notin {"rotate", "rename"} /\ \A q \in Procs : pc'[q] # "rename"
    BY <1>3, <1>4, <1>5 DEF Procs
<1>7. SpaceLocked'
    BY <1>2, <1>3, <1>4, <1>5, <1>6 DEF SpaceInv, SpaceLocked
<1>8. Heads = 1 /\ Heads' = 0 /\ Settled' = Len(data')
    BY <1>2, <1>4, <1>5, <1>6 DEF Heads, Settled
<1>9. Len(data') = Len(data) + LenOf[r] /\ DataCells(data') <= DataCells(data) + LenOf[r]
    BY <1>1, <1>2, PayloadAppended, ZenonT(40) DEF TypeInv, Typed
<1>10. Body' = Body /\ Live' = Live
    BY <1>2, SameFiles
<1>11. PICK n \in Nat, e \in Nat, m \in Nat, c \in Nat, z \in Int, b \in Nat, v \in Nat :
        /\ n = LenOf[r] /\ e = Len(data) /\ m = DataCells(data) /\ c = DataCells(data') /\ z = size
        /\ b = Cardinality(Body) /\ v = Cardinality(Live)
    <2>1. DataCells(data') \in Nat
        BY DataCellsIs DEF TypeInv, Typed
    <2>. QED  BY <1>1, <2>1, LiveIs
<1>12. /\ Counted = e - 1 + b /\ Counted' = e + n + b /\ size' = z + n + 1 /\ z >= e - 1 + b
    BY <1>2, <1>3, <1>8, <1>9, <1>10, <1>11 DEF Counted, SpaceInv, Room
<1>13. LiveCells' = c - 0 + v /\ LiveCells = m - 1 + v /\ c <= m + n /\ m - 1 + v <= z
    <2>1. LiveCells' = DataCells(data') - Heads' + Cardinality(Live')
        BY DEF LiveCells, Heads, Live
    <2>2. LiveCells = m - 1 + v
        BY <1>8, <1>11, LiveIs
    <2>. QED  BY <1>8, <1>9, <1>10, <1>11, <2>1, <2>2, LiveCounted
<1>14. Capacity > 0 => z + n <= Capacity
    BY <1>1, <1>2, <1>11 DEF SpaceInv, Room
<1>15. Capacity \in Nat
    BY DiskCacheAssumption DEF DiskCacheAssumption
<1>16. size' >= Counted' /\ (Capacity > 0 => LiveCells' <= Capacity + 1)
    BY <1>12, <1>13, <1>14, <1>15, SMT
<1>. QED  BY <1>4, <1>5, <1>7, <1>16 DEF SpaceInv, Room

\* Only one of Put and Get is at the write file when it is rotated.
LEMMA RotatesIt ==
    ASSUME TypeInv, SpaceInv, NEW p \in Procs, pc[p] \in {"rotate", "rename"}
    PROVE  /\ wlock = p /\ pc["put"] # "data" /\ Heads = 0
           /\ \A q \in Procs : q # p => pc[q] \notin {"rotate", "rename"}
           /\ p = "get" => pc["put"] = "idle"
<1>1. wlock = p
    BY DEF SpaceInv, SpaceLocked, Procs
<1>2. p = "get" => pc["put"] = "idle"
    BY <1>1 DEF SpaceInv, SpaceLocked
<1>3. p = "put" => pc["get"] \notin {"rotate", "rename"}
    BY <1>1 DEF SpaceInv, SpaceLocked
<1>. QED  BY <1>1, <1>2, <1>3 DEF Procs, Heads

\* rotate writes the EOF, which size does not count.
LEMMA RotateEOFSpace ==
    ASSUME TypeInv, TypeInv', SpaceInv, NEW p \in Procs, RotateEOF(p) PROVE SpaceInv'
<1>1. /\ pc[p] = "rotate" /\ data' = Append(data, EOFHint) /\ Goto(p, "rename")
      /\ UNCHANGED <<files, size, wlock, rec>>
    BY DEF RotateEOF, mem, locals
<1>2. /\ wlock = p /\ pc["put"] # "data" /\ Heads = 0
      /\ \A q \in Procs : q # p => pc[q] \notin {"rotate", "rename"}
      /\ p = "get" => pc["put"] = "idle"
    BY <1>1, RotatesIt
<1>3. pc'[p] = "rename" /\ \A q \in Procs : q # p => pc'[q] = pc[q]
    BY <1>1, GotoIs DEF TypeInv, PutLabels, GetLabels
<1>4. Len(data') = Len(data) + 1 /\ data'[Len(data) + 1] = EOFHint /\ DataCells(data') = DataCells(data)
    BY <1>1, EOFCell, OneCellMore DEF TypeInv, Typed
<1>5. Len(data') > 0 /\ Len(data') - 1 = Len(data)
    BY <1>4, LiveIs, SMT
<1>6. Ended(data')
    BY <1>4, <1>5 DEF Ended
<1>7. SpaceLocked'
    <2>1. pc'["put"] \in {"idle", "rename"} \/ (pc'["put"] = pc["put"] /\ p = "get")
        BY <1>3 DEF Procs
    <2>2. pc'["put"] # "idle" => wlock = "put"
        BY <1>2, <1>3 DEF Procs
    <2>3. pc'["get"] \in {"rotate", "rename"} => wlock = "get"
        BY <1>2, <1>3 DEF Procs
    <2>. QED  BY <1>1, <1>2, <1>6, <2>1, <2>2, <2>3 DEF SpaceInv, SpaceLocked
<1>8. Settled = Len(data) /\ Settled' = Len(data)
    <2>1. \A q \in Procs : pc[q] # "rename"
        BY <1>1, <1>2
    <2>2. Settled = Len(data)
        BY <1>2, <2>1 DEF Settled
    <2>. QED  BY <1>3, <1>5, <2>2 DEF Settled
<1>9. Heads' = 0 /\ pc'["put"] \notin {"header", "data"}
    BY <1>2, <1>3 DEF Heads, Procs
<1>10. Body' = Body /\ Live' = Live /\ Counted' = Counted
    BY <1>1, <1>8, SameFiles DEF Counted
<1>11. LiveCells' = LiveCells
    <2>1. LiveCells' = DataCells(data') - Heads' + Cardinality(Live')
        BY DEF LiveCells, Heads, Live
    <2>. QED  BY <1>2, <1>4, <1>9, <1>10, <2>1, LiveIs
<1>. QED  BY <1>1, <1>7, <1>9, <1>10, <1>11 DEF SpaceInv, Room

\* The cells of data come to those of the files.
LEMMA BodyAdds ==
    ASSUME TypeInv, NEW f, files' = [n \in DOMAIN files \cup {f} |-> IF n = f THEN data ELSE files[n]],
           Ended(data)
    PROVE  /\ Cardinality(Body') \in Nat /\ Cardinality(Live') \in Nat
           /\ Cardinality(Body') <= Cardinality(Body) + (Len(data) - 1)
           /\ Cardinality(Live') <= Cardinality(Live) + DataCells(data)
<1>1. Len(data) \in Nat /\ DOMAIN data = 1..Len(data) /\ IsFiniteSet(Filled(data))
      /\ DataCells(data) = Cardinality(Filled(data))
    BY DataCellsIs DEF TypeInv, Typed
<1>2. PICK k \in Nat : k = Len(data) - 1
    <2>1. Len(data) \in Nat /\ Len(data) > 0
        BY <1>1 DEF Ended
    <2>2. Len(data) - 1 \in Nat
        BY <2>1, SMT
    <2>. QED  BY <2>2
<1>3. IsFiniteSet(1..k) /\ Cardinality(1..k) = k
    <2>1. IsFiniteSet(1..k) /\ Cardinality(1..k) = IF 1 > k THEN 0 ELSE k - 1 + 1
        BY FS_Interval, SMT
    <2>. QED  BY <2>1, SMT
<1>4. files'[f] = data /\ \A x \in Stored' : \/ x \in {f} \X DOMAIN data
                                             \/ x \in Stored /\ files'[x[1]] = files[x[1]]
    BY StoredAdds
<1>5. ASSUME NEW x \in {f} \X DOMAIN data
      PROVE  /\ x[1] = f /\ x[2] \in DOMAIN data
             /\ x[2] < Len(data) => x \in {f} \X (1..k)
             /\ data[x[2]] # EOFHint => x \in {f} \X Filled(data)
    <2>1. PICK i \in DOMAIN data : x = <<f, i>>
        BY SMT
    <2>2. x[1] = f /\ x[2] = i
        BY <2>1, SMT
    <2>3. i < Len(data) => i \in 1..k
        BY <1>1, <1>2, SMT
    <2>4. data[i] # EOFHint => i \in Filled(data)
        BY DEF Filled
    <2>. QED  BY <2>1, <2>2, <2>3, <2>4
<1>6. PICK B : B = Body' /\ B \subseteq Body \cup ({f} \X (1..k))
    <2>1. ASSUME NEW x \in Stored', x[2] < Len(files'[x[1]]) PROVE x \in Body \/ x \in {f} \X (1..k)
        BY <1>4, <1>5, <2>1 DEF Body
    <2>. QED  BY <2>1 DEF Body
<1>7. PICK L : L = Live' /\ L \subseteq Live \cup ({f} \X Filled(data))
    <2>1. ASSUME NEW x \in Stored', files'[x[1]][x[2]] # EOFHint
          PROVE  x \in Live \/ x \in {f} \X Filled(data)
        BY <1>4, <1>5, <2>1 DEF Live
    <2>. QED  BY <2>1 DEF Live
<1>8. /\ IsFiniteSet({f} \X (1..k)) /\ Cardinality({f} \X (1..k)) = k
      /\ IsFiniteSet({f} \X Filled(data)) /\ Cardinality({f} \X Filled(data)) = DataCells(data)
    BY <1>1, <1>3, OneFile
<1>9. Cardinality(B) \in Nat /\ Cardinality(B) <= Cardinality(Body) + k
    BY <1>6, <1>8, LiveIs, Together
<1>10. Cardinality(L) \in Nat /\ Cardinality(L) <= Cardinality(Live) + DataCells(data)
    BY <1>7, <1>8, LiveIs, Together
<1>. QED  BY <1>2, <1>6, <1>7, <1>9, <1>10

\* The write file becomes a file of the list.
LEMMA RotateRenameSpace ==
    ASSUME TypeInv, TypeInv', SpaceInv, NEW p \in Procs, RotateRename(p) PROVE SpaceInv'
<1>1. PICK f : f = NewFile
    OBVIOUS
<1>2. /\ pc[p] = "rename" /\ wlock' = Free /\ data' = <<>> /\ UNCHANGED <<size, rec>>
      /\ files' = [n \in DOMAIN files \cup {f} |-> IF n = f THEN data ELSE files[n]]
      /\ Goto(p, IF p = "put" THEN "idle" ELSE "start")
    BY <1>1 DEF RotateRename, locals
<1>3. /\ Heads = 0 /\ Ended(data)
      /\ p = "get" => pc["put"] = "idle"
      /\ \A q \in Procs : q # p => pc[q] \notin {"rotate", "rename"}
    BY <1>2, RotatesIt DEF SpaceInv, SpaceLocked
<1>4. pc'[p] \in {"idle", "start"} /\ \A q \in Procs : q # p => pc'[q] = pc[q]
    BY <1>2, GotoIs DEF TypeInv, PutLabels, GetLabels, Procs
<1>5. pc'["put"] = "idle" /\ pc'["get"] \notin {"rotate", "rename"} /\ \A q \in Procs : pc'[q] # "rename"
    <2>1. pc'["put"] = "idle"
        BY <1>2, <1>3, <1>4, GotoIs DEF TypeInv, PutLabels, GetLabels, Procs
    <2>. QED  BY <1>3, <1>4, <2>1 DEF Procs
<1>6. \A n \in DOMAIN files' : Ended(files'[n])
    <2>1. /\ DOMAIN files' = DOMAIN files \cup {f} /\ files'[f] = data
          /\ \A n \in DOMAIN files : n # f => files'[n] = files[n]
        BY <1>2, StoredAdds
    <2>. QED  BY <1>3, <2>1 DEF SpaceInv, SpaceLocked
<1>7. SpaceLocked'
    BY <1>5, <1>6 DEF SpaceLocked
<1>8. Settled = Len(data) - 1 /\ Settled' = 0 /\ Heads' = 0 /\ DataCells(data') = 0
    <2>1. Settled = Len(data) - 1
        BY <1>2 DEF Settled
    <2>2. Len(data') = 0 /\ data' \in Seq(Cells)
        BY <1>2, SMT DEF TypeInv, Typed
    <2>3. Settled' = 0
        BY <1>5, <2>2 DEF Settled
    <2>4. DataCells(data') \in Nat /\ DataCells(data') <= 0
        BY <2>2, DataCellsIs
    <2>5. DataCells(data') = 0
        BY <2>4, SMT
    <2>. QED  BY <1>5, <2>1, <2>3, <2>5 DEF Heads
<1>9. /\ Cardinality(Body') \in Nat /\ Cardinality(Live') \in Nat
      /\ Cardinality(Body') <= Cardinality(Body) + (Len(data) - 1)
      /\ Cardinality(Live') <= Cardinality(Live) + DataCells(data)
    BY <1>2, <1>3, BodyAdds
<1>10. PICK u \in Nat, v \in Nat, b \in Nat, l \in Nat, k \in Int, m \in Nat, z \in Int :
        /\ u = Cardinality(Body') /\ v = Cardinality(Live') /\ b = Cardinality(Body)
        /\ l = Cardinality(Live) /\ k = Len(data) - 1 /\ m = DataCells(data) /\ z = size
    <2>1. Len(data) - 1 \in Int
        BY LiveIs, SMT
    <2>. QED  BY <1>9, <2>1, LiveIs
<1>11. Counted = k + b /\ Counted' = 0 + u /\ z >= k + b /\ u <= b + k /\ v <= l + m
    BY <1>8, <1>9, <1>10 DEF Counted, SpaceInv, Room
<1>12. LiveCells = m - 0 + l /\ LiveCells' = 0 - 0 + v
    <2>1. LiveCells' = DataCells(data') - Heads' + Cardinality(Live')
        BY DEF LiveCells, Heads, Live
    <2>. QED  BY <1>3, <1>8, <1>10, <2>1, LiveIs
<1>13. z >= Counted' /\ LiveCells' <= LiveCells /\ LiveCells' \in Int /\ LiveCells \in Int
    BY <1>11, <1>12, SMT
<1>14. Capacity > 0 => LiveCells' <= Capacity + 1
    <2>1. Capacity \in Nat
        BY DiskCacheAssumption DEF DiskCacheAssumption
    <2>2. Capacity > 0 => LiveCells <= Capacity + 1
        BY DEF SpaceInv, Room
    <2>. QED  BY <1>13, <2>1, <2>2, SMT
<1>. QED  BY <1>2, <1>5, <1>7, <1>10, <1>13, <1>14 DEF SpaceInv, Room

\* The cells of file f go.
LEMMA BodyLoses ==
    ASSUME TypeInv, NEW f \in DOMAIN files, files' = Restrict(files, DOMAIN files \ {f}), Ended(files[f])
    PROVE  /\ Cardinality(Body') \in Nat /\ Cardinality(Live') \in Nat /\ Len(files[f]) - 1 \in Nat
           /\ Cardinality(Body') <= Cardinality(Body) - (Len(files[f]) - 1)
           /\ Cardinality(Live') <= Cardinality(Live)
<1>1. /\ Fewer /\ DOMAIN files' = DOMAIN files \ {f}
      /\ \A x \in Stored' : x \in Stored /\ files'[x[1]] = files[x[1]] /\ x[1] \in DOMAIN files'
    BY RestrictFewer, StoredFewer
<1>2. Len(files[f]) \in Nat /\ DOMAIN files[f] = 1..Len(files[f]) /\ Len(files[f]) > 0
    BY LessSize DEF Ended
<1>3. PICK k \in Nat : k = Len(files[f]) - 1
    <2>1. Len(files[f]) - 1 \in Nat
        BY <1>2, SMT
    <2>. QED  BY <2>1
<1>4. IsFiniteSet(1..k) /\ Cardinality(1..k) = k
    <2>1. IsFiniteSet(1..k) /\ Cardinality(1..k) = IF 1 > k THEN 0 ELSE k - 1 + 1
        BY FS_Interval, SMT
    <2>. QED  BY <2>1, SMT
<1>5. PICK P : P = {f} \X (1..k) /\ IsFiniteSet(P) /\ Cardinality(P) = k
    BY <1>4, OneFile
<1>6. PICK B : B = Body' /\ B \subseteq Body
    <2>1. \A x \in Body' : x \in Body
        BY <1>1 DEF Body
    <2>. QED  BY <2>1
<1>7. PICK L : L = Live' /\ L \subseteq Live
    <2>1. \A x \in Live' : x \in Live
        BY <1>1 DEF Live
    <2>. QED  BY <2>1
<1>8. ASSUME NEW x \in P PROVE x \in Body /\ x \notin B
    <2>1. PICK i \in 1..k : x = <<f, i>>
        BY <1>5, SMT
    <2>2. x[1] = f /\ x[2] = i
        BY <2>1, SMT
    <2>3. i \in DOMAIN files[f] /\ i < Len(files[f])
        BY <1>2, <1>3, SMT
    <2>4. x \in Stored
        BY <2>1, <2>3, StoredIs
    <2>5. x \notin B
        BY <1>1, <1>6, <2>2 DEF Body
    <2>. QED  BY <2>2, <2>3, <2>4, <2>5 DEF Body
<1>9. /\ IsFiniteSet(B) /\ Cardinality(B) \in Nat /\ IsFiniteSet(Body) /\ Cardinality(Body) \in Nat
      /\ Cardinality(L) \in Nat /\ Cardinality(L) <= Cardinality(Live)
    BY <1>6, <1>7, LiveIs, Part
<1>10. B \cup P \subseteq Body /\ B \cap P = {}
    BY <1>6, <1>8
<1>11. Cardinality(B \cup P) = Cardinality(B) + Cardinality(P) - Cardinality(B \cap P)
    BY <1>5, <1>9, FS_Union
<1>12. Cardinality(B \cup P) \in Nat /\ Cardinality(B \cup P) <= Cardinality(Body) /\ Cardinality(B \cap P) = 0
    BY <1>9, <1>10, Part, FS_EmptySet
<1>13. Cardinality(B) <= Cardinality(Body) - k
    BY <1>5, <1>9, <1>11, <1>12, SMT
<1>. QED  BY <1>3, <1>6, <1>7, <1>9, <1>13

\* The file that was read is removed, and its cells but for the EOF go off size.
LEMMA RemoveSpace ==
    ASSUME TypeInv, TypeInv', SpaceInv, RemoveCurrentReadingFile PROVE SpaceInv'
<1>1. pc["get"] = "remove" /\ Goto("get", "reset") /\ UNCHANGED <<data, wlock, rec>>
    BY DEF RemoveCurrentReadingFile, locks, locals
<1>2. pc'["get"] = "reset" /\ pc'["put"] = pc["put"]
    BY <1>1, GotoIs DEF TypeInv, GetLabels, Procs
<1>3. \A q \in Procs : pc'[q] = "rename" <=> pc[q] = "rename"
    BY <1>1, <1>2 DEF Procs
<1>4. CASE curReadfile \notin DOMAIN files
    <2>1. UNCHANGED <<files, size>>
        BY <1>4 DEF RemoveCurrentReadingFile
    <2>. QED  BY <1>1, <2>1, GetSpace DEF GetLabels
<1>5. CASE curReadfile \in DOMAIN files
    <2>1. PICK f \in DOMAIN files : f = curReadfile
        BY <1>5
    <2>2. /\ files' = Restrict(files, DOMAIN files \ {f})
          /\ size' = IF Len(files[f]) > 1 THEN size - (Len(files[f]) - 1) ELSE size
        BY <2>1 DEF RemoveCurrentReadingFile
    <2>3. Fewer /\ Ended(files[f])
        BY <2>2, RestrictFewer DEF SpaceInv, SpaceLocked
    <2>4. SpaceLocked'
        BY <1>1, <1>2, <1>3, <2>3 DEF SpaceInv, SpaceLocked, Fewer
    <2>5. /\ Cardinality(Body') \in Nat /\ Cardinality(Live') \in Nat /\ Len(files[f]) - 1 \in Nat
          /\ Cardinality(Body') <= Cardinality(Body) - (Len(files[f]) - 1)
          /\ Cardinality(Live') <= Cardinality(Live)
        BY <2>2, <2>3, BodyLoses
    <2>6. Settled' = Settled /\ Heads' = Heads
        BY <1>1, <1>2, <1>3 DEF Settled, Heads
    <2>7. PICK u \in Nat, v \in Nat, b \in Nat, l \in Nat, k \in Nat, e \in Nat, m \in Int, z \in Int, s \in Int :
            /\ u = Cardinality(Body') /\ v = Cardinality(Live') /\ b = Cardinality(Body)
            /\ l = Cardinality(Live) /\ k = Len(files[f]) - 1 /\ e = Len(files[f])
            /\ m = DataCells(data) - Heads /\ z = size /\ s = Settled
        <3>1. DataCells(data) - Heads \in Int /\ Len(data) - 1 \in Int /\ Len(data) \in Int
            BY LiveIs, SMT
        <3>2. Settled \in Int
            BY <3>1 DEF Settled
        <3>. QED  BY <2>5, <3>1, <3>2, LiveIs, LessSize
    <2>8. /\ Counted = s + b /\ Counted' = s + u /\ z >= s + b /\ u <= b - k /\ v <= l /\ k = e - 1
          /\ size' = IF e > 1 THEN z - k ELSE z
        BY <2>2, <2>5, <2>6, <2>7 DEF Counted, SpaceInv, Room
    <2>9. LiveCells = m + l /\ LiveCells' = m + v
        <3>1. LiveCells' = DataCells(data') - Heads' + Cardinality(Live')
            BY DEF LiveCells, Heads, Live
        <3>. QED  BY <1>1, <2>6, <2>7, <3>1, LiveIs
    <2>10. /\ size' >= Counted' /\ size' <= z /\ size' \in Int
           /\ LiveCells' <= LiveCells /\ LiveCells' \in Int /\ LiveCells \in Int
        BY <2>8, <2>9, SMT
    <2>11. Capacity > 0 => LiveCells' <= Capacity + 1
        <3>1. Capacity \in Nat
            BY DiskCacheAssumption DEF DiskCacheAssumption
        <3>2. Capacity > 0 => LiveCells <= Capacity + 1
            BY DEF SpaceInv, Room
        <3>. QED  BY <2>10, <3>1, <3>2, SMT
    <2>12. ASSUME Capacity > 0, pc'["put"] \in {"header", "data"} PROVE size' + LenOf[rec'] <= Capacity
        <3>1. PICK n \in Nat : n = LenOf[rec']
            BY <1>1, <1>2, <2>12, Constants DEF TypeInv
        <3>2. z + n <= Capacity
            BY <1>1, <1>2, <2>7, <2>12, <3>1 DEF SpaceInv, Room
        <3>3. Capacity \in Nat
            BY DiskCacheAssumption DEF DiskCacheAssumption
        <3>. QED  BY <2>10, <3>1, <3>2, <3>3, SMT
    <2>. QED  BY <2>4, <2>10, <2>11, <2>12 DEF SpaceInv, Room
<1>. QED  BY <1>4, <1>5

\* Open counts every cell of the directory; a payload that Put was writing may be there.
LEMMA RestartSpace == ASSUME TypeInv, TypeInv', SpaceInv, Restart PROVE SpaceInv'
<1>1. PICK p \in {posFile, Position(NoName, 0)}, n \in IF pc["put"] = "data" THEN 0..LenOf[rec] ELSE {0} :
        Open(IF pc["put"] = "data" THEN data \o Payload(rec, n) ELSE data, p)
    <2>1. {posFile} \cup (IF pc["get"] = "commit" THEN {Position(NoName, 0)} ELSE {})
              \subseteq {posFile, Position(NoName, 0)}
        OBVIOUS
    <2>. QED  BY <2>1 DEF Restart
<1>2. pc' = [q \in Procs |-> "idle"]
    BY DEF Restart
<1>3. /\ data' = IF pc["put"] = "data" THEN data \o Payload(rec, n) ELSE data
      /\ UNCHANGED files /\ size' = Len(data') + Cardinality(Stored)
    BY <1>1 DEF Open
<1>4. \A q \in Procs : pc'[q] = "idle"
    BY <1>2
<1>5. SpaceLocked'
    BY <1>3, <1>4 DEF SpaceInv, SpaceLocked, Procs
<1>6. Settled' = Len(data') /\ Heads' = 0 /\ pc'["put"] = "idle"
    BY <1>4 DEF Settled, Heads, Procs
<1>7. Stored' = Stored /\ Body' = Body /\ Live' = Live
    BY <1>3, SameFiles
<1>8. Cardinality(Stored) \in Nat /\ Cardinality(Body) <= Cardinality(Stored)
    <2>1. Body \subseteq Stored /\ IsFiniteSet(Stored)
        BY DEF Body, TypeInv
    <2>. QED  BY <2>1, Part
<1>9. DataCells(data') \in Nat /\ Len(data') \in Nat
    BY DataCellsIs DEF TypeInv, Typed
<1>10. PICK e \in Nat, t \in Nat, b \in Nat, c \in Nat, m \in Nat, l \in Nat, z \in Int :
        /\ e = Len(data') /\ t = Cardinality(Stored) /\ b = Cardinality(Body) /\ c = DataCells(data')
        /\ m = DataCells(data) /\ l = Cardinality(Live) /\ z = size
    BY <1>8, <1>9, LiveIs
<1>11. size' = e + t /\ Counted' = e + b /\ b <= t
    BY <1>3, <1>6, <1>7, <1>8, <1>10 DEF Counted
<1>12. LiveCells' = c - 0 + l
    <2>1. LiveCells' = DataCells(data') - Heads' + Cardinality(Live')
        BY DEF LiveCells, Heads, Live
    <2>. QED  BY <1>6, <1>7, <1>10, <2>1
<1>13. size' >= Counted'
    BY <1>11, SMT
<1>14. Capacity \in Nat /\ (Capacity > 0 => LiveCells <= Capacity + 1)
    BY DiskCacheAssumption DEF DiskCacheAssumption, SpaceInv, Room
<1>15. CASE pc["put"] = "data"
    <2>1. PICK r \in Records, k \in Nat : r = rec /\ k = LenOf[r] /\ n \in 0..k
        BY <1>1, <1>15, Constants DEF TypeInv
    <2>2. n \in Nat /\ n <= k
        BY <2>1, SMT
    <2>3. c <= m + n
        BY <1>3, <1>10, <1>15, <2>1, <2>2, PayloadAppended DEF TypeInv, Typed
    <2>4. m - 1 + l <= z
        BY <1>10, <1>15, LiveIs, LiveCounted DEF Heads
    <2>5. Capacity > 0 => z + k <= Capacity
        BY <1>10, <1>15, <2>1 DEF SpaceInv, Room
    <2>6. Capacity > 0 => c - 0 + l <= Capacity + 1
        BY <1>14, <2>2, <2>3, <2>4, <2>5, SMT
    <2>. QED  BY <1>5, <1>6, <1>12, <1>13, <2>6 DEF SpaceInv, Room
<1>16. CASE pc["put"] # "data"
    <2>1. c = m /\ LiveCells = m - 0 + l
        BY <1>3, <1>10, <1>16, LiveIs DEF Heads
    <2>. QED  BY <1>5, <1>6, <1>12, <1>13, <1>14, <2>1 DEF SpaceInv, Room
<1>. QED  BY <1>15, <1>16

\* Every step, when the cache refuses data and writes do not fail.
LEMMA NextSpace ==
    ASSUME Refuses, NoFailure, TypeInv, TypeInv', SpaceInv, [Next]_vars PROVE SpaceInv'
<1>1. CASE UNCHANGED vars
    <2>1. UNCHANGED <<data, files, size, pc, wlock, rec>>
        BY <1>1 DEF vars, disk, mem, locks, locals
    <2>2. SpaceLocked'
        BY <2>1 DEF SpaceInv, SpaceLocked
    <2>. QED  BY <2>1, <2>2, SpaceStays DEF SpaceInv, Room
<1>2. CASE \E r \in Records : PutBegin(r)
    BY <1>2, PutBeginSpace
<1>3. CASE PutNext
    <2>1. ~DropBatch /\ ~PutDataFails
        BY DEF DropBatch, PutDataFails, NoFailure, SpaceInv, SpaceLocked
    <2>. QED  BY <1>3, <2>1, PutHeaderSpace, PutDataSpace, RotateEOFSpace, RotateRenameSpace DEF PutNext, Procs
<1>4. CASE GetNext
    BY <1>4, GetStepsSpace, RemoveSpace, RotateEOFSpace, RotateRenameSpace DEF GetNext, SwitchNext, Procs
<1>5. CASE Restart
    BY <1>5, RestartSpace
<1>. QED  BY <1>1, <1>2, <1>3, <1>4, <1>5 DEF Next

\* An empty directory.
LEMMA InitSpace == ASSUME Init, TypeInv PROVE SpaceInv
<1>1. data = <<>> /\ files = [n \in {} |-> <<>>] /\ size = 0 /\ pc = [p \in Procs |-> "idle"]
    BY DEF Init
<1>2. DOMAIN files = {} /\ \A q \in Procs : pc[q] = "idle"
    BY <1>1
<1>3. Stored = {}
    BY <1>2 DEF Stored
<1>4. Cardinality(Body) = 0 /\ Cardinality(Live) = 0
    <2>1. Body = {} /\ Live = {}
        BY <1>3 DEF Body, Live
    <2>. QED  BY <2>1, FS_EmptySet
<1>5. Len(data) = 0
    BY <1>1, SMT
<1>6. DataCells(data) \in Nat /\ DataCells(data) <= 0
    BY <1>5, DataCellsIs DEF TypeInv, Typed
<1>7. Settled = 0 /\ Heads = 0 /\ pc["put"] = "idle"
    BY <1>2, <1>5 DEF Settled, Heads, Procs
<1>8. Counted = 0 + 0 /\ LiveCells = DataCells(data) - 0 + 0 /\ Capacity \in Nat
    BY <1>4, <1>7, LiveIs, DiskCacheAssumption DEF Counted, DiskCacheAssumption
<1>9. size >= Counted /\ LiveCells <= Capacity + 1
    BY <1>1, <1>6, <1>8, SMT
<1>10. SpaceLocked
    BY <1>2 DEF SpaceLocked, Procs
<1>. QED  BY <1>7, <1>9, <1>10 DEF SpaceInv, Room

\* The records on disk never take more than the capacity and one header, for
\* any lengths, batch size and capacity, wherever the process dies: Put checks
\* size before it writes, and size, which Put adds to, remove takes from and
\* Open counts anew, is never below the cells that are there.
THEOREM WithinCapacity == ASSUME Refuses, NoFailure PROVE Spec => []CapacityRespected
<1>1. Init => TypeInv /\ SpaceInv
    BY InitTypes, InitSpace
<1>2. TypeInv /\ SpaceInv /\ [Next]_vars => TypeInv' /\ SpaceInv'
    BY NextTypes, NextSpace
<1>3. SpaceInv => CapacityRespected
    BY DEF SpaceInv, Room, CapacityRespected
<1>. QED  BY <1>1, <1>2, <1>3, PTL DEF Spec

=============================================================================

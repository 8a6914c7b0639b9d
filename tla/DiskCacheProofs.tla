-------------------------- MODULE DiskCacheProofs --------------------------
(***************************************************************************)
(* More about the disk queue of DiskCache, from the invariants in          *)
(* DiskCacheInv.  With failing writes and crashes: a record is handed out  *)
(* again at most once for a restart.  While the process stops only between *)
(* two calls: the directory is a FIFO queue, .pos is a place to go on      *)
(* from, and no record is handed out twice.                                *)
(***************************************************************************)
EXTENDS DiskCacheInv, FiniteSetTheorems

\* As there, the leaves of the proofs go to Zenon unless they name SMT.
USE Zenon

----------------------------------------------------------------------------
(* How often a record is handed out *)

\* How often a record was handed out is a number.
LEMMA TimesIs ==
    ASSUME Typed, NEW r
    PROVE  /\ IsFiniteSet({i \in DOMAIN got : got[i] = r}) /\ Times(r) \in Nat
           /\ r \notin Range(got) => Times(r) = 0
<1>. DEFINE T == {i \in DOMAIN got : got[i] = r}
<1>1. Len(got) \in Nat /\ DOMAIN got = 1..Len(got)
    BY SMT DEF Typed
<1>2. IsFiniteSet(1..Len(got))
    BY <1>1, FS_Interval, SMTT(40)
<1>3. IsFiniteSet(T)
    BY <1>1, <1>2, FS_Subset
<1>4. Cardinality(T) \in Nat
    BY <1>3, FS_CardinalityType
<1>5. ASSUME r \notin Range(got) PROVE Cardinality(T) = 0
    <2>1. T = {}
        BY <1>5 DEF Range
    <2>. QED  BY <2>1, FS_EmptySet
<1>. QED  BY <1>3, <1>4, <1>5 DEF Times

\* One more record is handed out.
LEMMA TimesAppend ==
    ASSUME Typed, NEW r, NEW x \in Records \cup {NoRecord}, got' = Append(got, x)
    PROVE  Times(r)' = Times(r) + (IF x = r THEN 1 ELSE 0)
<1>. DEFINE T == {i \in DOMAIN got : got[i] = r}
<1>1. got \in Seq(Records \cup {NoRecord}) /\ Len(got) \in Nat /\ DOMAIN got = 1..Len(got)
    BY SMT DEF Typed
<1>2. /\ DOMAIN got' = 1..(Len(got) + 1) /\ got'[Len(got) + 1] = x
      /\ \A i \in 1..Len(got) : got'[i] = got[i]
    BY <1>1, SMT
<1>3. PICK m : m = Len(got) + 1
    OBVIOUS
<1>4. DOMAIN got' = DOMAIN got \cup {m} /\ m \notin DOMAIN got
    BY <1>1, <1>2, <1>3, SMTT(40)
<1>5. CASE x = r
    <2>1. {i \in DOMAIN got' : got'[i] = r} = T \cup {m} /\ m \notin T
        BY <1>1, <1>2, <1>3, <1>4, <1>5, ZenonT(40)
    <2>2. Cardinality(T \cup {m}) = Cardinality(T) + 1
        <3>1. IsFiniteSet(T)
            BY TimesIs
        <3>. HIDE DEF T
        <3>. QED  BY <2>1, <3>1, FS_AddElement
    <2>. QED  BY <1>5, <2>1, <2>2 DEF Times
<1>6. CASE x # r
    <2>1. {i \in DOMAIN got' : got'[i] = r} = T
        BY <1>1, <1>2, <1>3, <1>4, <1>6, ZenonT(40)
    <2>2. Times(r)' = Times(r)
        BY <2>1 DEF Times
    <2>3. PICK k \in Nat : k = Times(r)
        BY TimesIs
    <2>4. k + (IF x = r THEN 1 ELSE 0) = k
        BY <1>6, SMT
    <2>. QED  BY <2>2, <2>3, <2>4
<1>. QED  BY <1>5, <1>6

\* The three places where Get finds a record.
LEMMA ReachableIs ==
    ASSUME NEW s
    PROVE  /\ s \in Reachable <=>
                \/ s \in RecordsFrom(data, 0)
                \/ rfd.name # NoName /\ s \in RecordsFrom(files[rfd.name], ReadOff)
                \/ \E n \in (dataFiles \cap DOMAIN files) \ {curReadfile} : s \in RecordsFrom(files[n], 0)
           /\ s \in Reachable' <=>
                \/ s \in RecordsFrom(data', 0)
                \/ rfd'.name # NoName /\ s \in RecordsFrom(files'[rfd'.name], ReadOff')
                \/ \E n \in (dataFiles' \cap DOMAIN files') \ {curReadfile'} : s \in RecordsFrom(files'[n], 0)
<1>1. s \in Reachable <=>
        \/ s \in RecordsFrom(data, 0)
        \/ rfd.name # NoName /\ s \in RecordsFrom(files[rfd.name], ReadOff)
        \/ \E n \in (dataFiles \cap DOMAIN files) \ {curReadfile} : s \in RecordsFrom(files[n], 0)
    BY DEF Reachable
<1>2. s \in Reachable' <=>
        \/ s \in RecordsFrom(data', 0)
        \/ rfd'.name # NoName /\ s \in RecordsFrom(files'[rfd'.name], ReadOff')
        \/ \E n \in (dataFiles' \cap DOMAIN files') \ {curReadfile'} : s \in RecordsFrom(files'[n], 0)
    BY DEF Reachable
<1>. QED  BY <1>1, <1>2

\* Get reads on in the same file.
LEMMA Narrower ==
    ASSUME Typed, UNCHANGED <<data, files, dataFiles, curReadfile>>, rfd'.name = rfd.name,
           rfd.name # NoName => /\ ReadOff \in Int /\ ReadOff' \in Int /\ ReadOff <= ReadOff'
                                /\ rfd.name \in DOMAIN files
    PROVE  Reachable' \subseteq Reachable
<1>1. ASSUME NEW s, s \in Reachable'
      PROVE  \/ s \in RecordsFrom(data, 0)
             \/ rfd.name # NoName /\ s \in RecordsFrom(files[rfd.name], ReadOff')
             \/ \E n \in (dataFiles \cap DOMAIN files) \ {curReadfile} : s \in RecordsFrom(files[n], 0)
    BY <1>1, ReachableIs
<1>2. ASSUME rfd.name # NoName
      PROVE  RecordsFrom(files[rfd.name], ReadOff') \subseteq RecordsFrom(files[rfd.name], ReadOff)
    <2>1. PICK c : c = files[rfd.name]
        OBVIOUS
    <2>2. DOMAIN c \subseteq Nat
        BY <1>2, <2>1, SMTT(40) DEF Typed
    <2>3. PICK o \in Int, h \in Int : o = ReadOff' /\ h = ReadOff /\ h <= o
        BY <1>2
    <2>4. RecordsFrom(c, o) \subseteq RecordsFrom(c, h)
        BY <2>2, <2>3, FurtherOn
    <2>. QED  BY <2>1, <2>3, <2>4
<1>3. ASSUME NEW s, s \in Reachable' PROVE s \in Reachable
    BY <1>1, <1>2, <1>3, ReachableIs
<1>. QED  BY <1>3

\* Get does not come to reach again what it could not reach.
Narrows == \A s \in Range(put) \ exposed' : s \in Reachable' => s \in Reachable

\* Nothing is handed out, and what is reachable was so before or is new.
LEMMA RedeliveredKept ==
    ASSUME Inv, HandedOut, Redelivered, NEW x, Grows(x), UNCHANGED got, exposed \subseteq exposed',
           restarts' \in Nat, restarts' >= restarts, restarts' = restarts => Narrows
    PROVE  Redelivered'
<1>. SUFFICES ASSUME NEW r \in Range(put'), r \notin exposed'
     PROVE  Times(r)' <= restarts' + (IF r \in Reachable' THEN 0 ELSE 1)
    BY DEF Redelivered
<1>1. restarts \in Nat
    BY Constants, SMTT(40) DEF Inv, Typed
<1>2. Times(r)' = Times(r) /\ Times(r) \in Nat
    BY TimesIs DEF Times, Inv
<1>3. CASE r \in Range(put)
    <2>1. Times(r) <= restarts + (IF r \in Reachable THEN 0 ELSE 1)
        BY <1>3 DEF Redelivered
    <2>2. restarts' = restarts => (r \in Reachable' => r \in Reachable)
        BY <1>3 DEF Narrows
    <2>. QED  BY <1>1, <1>2, <2>1, <2>2, SMTT(40)
<1>4. CASE r \notin Range(put)
    <2>1. r = x /\ put' # put
        BY <1>4, BeforeKept DEF Inv
    <2>2. r \in Records
        BY <2>1, GrowsIs DEF Inv
    <2>3. r \notin Range(got)
        BY <1>4, <2>2, Constants DEF HandedOut
    <2>4. Times(r)' = 0
        BY <1>2, <2>3, TimesIs DEF Inv
    <2>5. PICK z \in Nat : z = IF r \in Reachable' THEN 0 ELSE 1
        BY SMT
    <2>6. PICK k \in Nat : k = restarts'
        OBVIOUS
    <2>7. 0 <= k + z
        BY ONLY SMT
    <2>. QED  BY <2>4, <2>5, <2>6, <2>7
<1>. QED  BY <1>3, <1>4

\* The record that Get hands out cannot be reached any more.
LEMMA CallbackOKCounts ==
    ASSUME Inv, Ordered, Redelivered, CallbackOK PROVE Redelivered'
<1>1. /\ pc["get"] = "callback" /\ got' = Append(got, item) /\ UNCHANGED <<put, exposed, restarts>>
      /\ UNCHANGED <<data, files, rfd, dataFiles, curReadfile, nbytes>>
    BY DEF CallbackOK, run, disk, mem, locals
<1>. SUFFICES ASSUME NEW r \in Range(put), r \notin exposed
     PROVE  Times(r)' <= restarts + (IF r \in Reachable' THEN 0 ELSE 1)
    BY <1>1 DEF Redelivered
<1>2. restarts \in Nat /\ item \in Records \cup {NoRecord} /\ r \in Records
    <2>1. restarts \in Nat
        BY Constants, SMTT(40) DEF Inv, Typed
    <2>2. r \in Records
        BY SMT DEF Inv, Typed, Range
    <2>. QED  BY <2>1, <2>2, ZenonT(40) DEF Inv, Typed
<1>3. Times(r) \in Nat /\ Times(r) <= restarts + (IF r \in Reachable THEN 0 ELSE 1)
    BY TimesIs DEF Inv, Redelivered
<1>4. Times(r)' = Times(r) + (IF item = r THEN 1 ELSE 0)
    <2>1. PICK x : x = item
        OBVIOUS
    <2>. QED  BY <1>1, <1>2, <2>1, TimesAppend DEF Inv
<1>5. Reachable' \subseteq Reachable
    <2>1. pc'["get"] = "commit"
        BY GotoIs DEF CallbackOK, Inv, Procs, GetLabels
    <2>2. ReadOff' = rfd.off /\ ReadOff = rfd.off - 1 - nbytes
        BY <1>1, <2>1 DEF ReadOff
    <2>3. PICK o \in Nat : o = rfd.off /\ nbytes \in Nat
        BY SMT DEF Inv, Typed
    <2>4. o \in Int /\ o - 1 - nbytes \in Int /\ o - 1 - nbytes <= o
        BY <2>3, SMT
    <2>5. rfd.name # NoName => rfd.name \in DOMAIN files
        BY DEF Inv, Listed
    <2>. QED  BY <1>1, <2>2, <2>3, <2>4, <2>5, Narrower, ZenonT(40) DEF Inv
<1>6. CASE item = r
    <2>1. item # NoRecord
        BY <1>2, <1>6, Constants
    <2>2. r \in Reachable
        <3>1. PICK b \in Nat : b = Base
            BY <1>1, <2>1, Foremost
        <3>2. ReadOff = b
            BY <1>1, <3>1 DEF ReadOff, Base
        <3>3. b + 1 \in Starts(files[rfd.name]) /\ files[rfd.name][b + 1].rec = r /\ b + 1 > b /\ rfd.name # NoName
            <4>1. rfd.name # NoName
                BY <1>1 DEF Inv, Listed
            <4>2. b + 1 > b
                BY SMT
            <4>. QED  BY <1>1, <1>6, <2>1, <3>1, <4>1, <4>2, Foremost
        <3>. QED  BY <3>2, <3>3 DEF Reachable, RecordsFrom, Starts
    <2>3. r \notin Reachable'
        <3>1. ~Sorted(item, r)
            BY <1>6, BeforeStrict DEF Sorted, Inv, Ordered, PutOnce
        <3>. QED  BY <1>1, <2>1, <3>1, ReachableLater
    <2>. QED  BY <1>2, <1>3, <1>4, <1>6, <2>2, <2>3, SMTT(40)
<1>7. CASE item # r
    BY <1>2, <1>3, <1>4, <1>5, <1>7, SMTT(40)
<1>. QED  BY <1>6, <1>7

\* A step at the write file makes nothing reachable but a record that is new.
LEMMA WriterNarrows ==
    ASSUME Inv, Inv', Ordered', ReaderSame, SameStage, NEW x, Grows(x), Appends(x) PROVE Narrows
<1>. SUFFICES ASSUME NEW s \in Range(put), s \in Reachable' PROVE s \in Reachable
    BY DEF Narrows
<1>1. CASE s \in RecordsFrom(data', 0)
    <2>1. PICK i \in DOMAIN data' : Complete(data', i) /\ s = data'[i].rec
        BY <1>1 DEF RecordsFrom
    <2>2. s \in Range(put')
        BY BeforeKept DEF Inv
    <2>3. ASSUME Pending(i)' PROVE FALSE
        <3>1. pc'["put"] = "data" /\ data'[i] = Hdr(rec')
            BY <2>3 DEF Pending, Inv, WriteFile
        <3>2. s = rec'
            BY <2>1, <3>1, SMT DEF Hdr
        <3>. QED  BY <2>2, <3>1, <3>2 DEF Ordered, PutOnce
    <2>4. i \in Written'
        BY <2>1, <2>3 DEF Written, Starts
    <2>5. i \in Written /\ data'[i] = data[i]
        <3>1. put' # put => x \notin Range(put)
            BY GrowsIs DEF Inv
        <3>. QED  BY <2>1, <2>4, <3>1 DEF Appends
    <2>6. i \in DOMAIN data /\ Complete(data, i) /\ i > 0
        BY <2>5, SMTT(40) DEF Written, Starts, Inv, Typed
    <2>7. s \in RecordsFrom(data, 0)
        BY <2>1, <2>5, <2>6 DEF RecordsFrom
    <2>. QED  BY <2>7, ReachableIs
<1>2. CASE s \notin RecordsFrom(data', 0)
    <2>1. UNCHANGED <<files, rfd, dataFiles, curReadfile>> /\ ReadOff' = ReadOff
        BY SameBase DEF ReaderSame
    <2>. QED  BY <1>2, <2>1, ReachableIs
<1>. QED  BY <1>1, <1>2

\* The write file stays within reach when it is renamed.
LEMMA RenameNarrows == ASSUME Inv, NEW p \in Procs, RotateRename(p) PROVE Narrows
<1>1. /\ pc[p] = "rename" /\ data' = <<>>
      /\ files' = [n \in DOMAIN files \cup {NewFile} |->
                      IF n = NewFile THEN data ELSE files[n]]
      /\ dataFiles' = dataFiles \cup {NewFile} /\ UNCHANGED <<rfd, curReadfile, nbytes>>
    BY DEF RotateRename, locals
<1>2. /\ pc'[p] = IF p = "put" THEN "idle" ELSE "start"
      /\ \A q \in Procs : q # p => pc'[q] = pc[q]
    BY GotoIs DEF RotateRename, Inv, PutLabels, GetLabels
<1>3. PICK b \in Nat : dataFiles \cup DOMAIN files \subseteq 0..b
    BY DEF Inv, Listed
<1>4. PICK N \in 0..(b + 1) : N = NewFile /\ (\A n \in dataFiles : n < N)
    BY <1>3, NewFileIs
<1>5. N \notin dataFiles /\ (rfd.name # NoName => rfd.name # N /\ rfd.name \in DOMAIN files)
    <2>1. N \notin dataFiles
        BY <1>4, SMT
    <2>. QED  BY <2>1 DEF Inv, Listed
<1>6. /\ DOMAIN files' = DOMAIN files \cup {N} /\ files'[N] = data
      /\ \A n \in DOMAIN files : n # N => files'[n] = files[n]
    BY <1>1, <1>4
<1>7. ReadOff' = ReadOff
    <2>1. pc'["get"] = pc["get"] \/ {pc["get"], pc'["get"]} \subseteq Neutral
        BY <1>1, <1>2 DEF Procs, Neutral
    <2>. QED  BY <1>1, <2>1 DEF ReadOff, Neutral
<1>8. ASSUME NEW s, s \in Reachable' PROVE s \in Reachable
    <2>1. s \notin RecordsFrom(data', 0)
        BY <1>1, EmptyFile
    <2>2. CASE rfd'.name # NoName /\ s \in RecordsFrom(files'[rfd'.name], ReadOff')
        BY <1>1, <1>5, <1>6, <1>7, <2>2, ReachableIs, ZenonT(40)
    <2>3. ASSUME NEW n \in (dataFiles' \cap DOMAIN files') \ {curReadfile'}, s \in RecordsFrom(files'[n], 0)
          PROVE  s \in Reachable
        <3>1. CASE n = N
            BY <1>6, <2>3, <3>1, ReachableIs
        <3>2. CASE n # N
            BY <1>1, <1>4, <1>6, <2>3, <3>2, ReachableIs, ZenonT(40)
        <3>. QED  BY <3>1, <3>2
    <2>. QED  BY <1>8, <2>1, <2>2, <2>3, ReachableIs, ZenonT(40)
<1>. QED  BY <1>8 DEF Narrows

\* Get never reads back beyond the record it has not handed out.
LEMMA GetNarrows ==
    ASSUME Inv, \/ GetBegin \/ GetSleeping \/ GetWakeup \/ GetStart \/ ResetPos \/ GetRetry \/ GetNoHeader
                \/ GetHeader \/ GetPayload \/ CallbackFails \/ UpdatePos
    PROVE  Reachable' \subseteq Reachable
<1>1. PICK o \in Nat : o = rfd.off
    BY SMTT(40) DEF Inv, Typed
<1>2. nbytes \in Nat /\ rfd \in [name : Nat \cup {NoName}, off : Nat]
    BY DEF Inv, Typed
<1>3. rfd.name # NoName => rfd.name \in DOMAIN files
    BY DEF Inv, Listed
<1>4. CASE \/ GetBegin \/ GetSleeping \/ GetWakeup \/ GetStart \/ ResetPos \/ GetRetry \/ GetNoHeader \/ UpdatePos
    <2>1. /\ UNCHANGED <<data, files, dataFiles, curReadfile, rfd>>
          /\ pc["get"] \in Between \cup {"commit"} /\ \E l \in Between \cup {"rotate"} : Goto("get", l)
        BY <1>4 DEF GetBegin, GetSleeping, GetWakeup, GetStart, ResetPos, GetRetry, GetNoHeader, UpdatePos,
            SwitchNextFile, disk, mem, Between
    <2>2. pc'["get"] \in Between \cup {"rotate"}
        BY <2>1, GotoIs DEF Inv, Procs, Between, GetLabels
    <2>3. ReadOff = o /\ ReadOff' = o
        BY <1>1, <2>1, <2>2 DEF ReadOff, Between
    <2>4. o \in Int /\ o <= o
        BY SMT
    <2>. QED  BY <1>3, <2>1, <2>3, <2>4, Narrower, ZenonT(40) DEF Inv
<1>5. CASE GetHeader
    <2>1. pc["get"] = "header" /\ rfd.name # NoName /\ UNCHANGED <<data, files, dataFiles, curReadfile>>
        BY <1>5 DEF GetHeader, disk
    <2>2. PICK n \in Decode(files[rfd.name][rfd.off + 1]) :
            IF n > BufLen
            THEN rfd' = [rfd EXCEPT !.off = @ + 1 + n] /\ Goto("get", "idle")
            ELSE rfd' = [rfd EXCEPT !.off = @ + 1] /\ Goto("get", "payload")
        BY <1>5 DEF GetHeader
    <2>3. ReadOff = o
        BY <1>1, <2>1 DEF ReadOff
    <2>4. CASE n > BufLen
        <3>1. n \in Nat
            <4>1. PICK c : c = files[rfd.name]
                OBVIOUS
            <4>2. Fit(c) /\ Len(c) \in Nat /\ DOMAIN c = 1..Len(c)
                BY <2>1, <4>1, OpenFile
            <4>3. o < Len(c)
                BY <1>1, <1>5, <4>1 DEF GetHeader
            <4>4. PICK i : i = o + 1
                OBVIOUS
            <4>5. i \in DOMAIN c
                BY <4>2, <4>3, <4>4, SMTT(40)
            <4>6. c[i].kind \in {"hdr", "pay", "eof"} /\ (c[i].kind # "eof" => LenOf[c[i].rec] \in Nat)
                BY <4>2, <4>5, FitCell
            <4>7. n \in Decode(c[i])
                BY <1>1, <2>2, <4>1, <4>4
            <4>. QED  BY <4>6, <4>7, Constants DEF Decode
        <3>2. pc'["get"] = "idle"
            BY <2>2, <2>4, GotoIs DEF Inv, Procs, GetLabels
        <3>3. rfd'.name = rfd.name /\ rfd'.off = o + 1 + n
            BY <1>1, <1>2, <2>2, <2>4, SMTT(40)
        <3>4. ReadOff' = o + 1 + n
            BY <3>2, <3>3 DEF ReadOff
        <3>5. o \in Int /\ o + 1 + n \in Int /\ o <= o + 1 + n
            BY <3>1, SMT
        <3>. QED  BY <1>3, <2>1, <2>3, <3>3, <3>4, <3>5, Narrower, ZenonT(40) DEF Inv
    <2>5. CASE ~(n > BufLen)
        <3>1. pc'["get"] = "payload"
            BY <2>2, <2>5, GotoIs DEF Inv, Procs, GetLabels
        <3>2. rfd'.name = rfd.name /\ rfd'.off = o + 1
            BY <1>1, <1>2, <2>2, <2>5, SMTT(40)
        <3>3. ReadOff' = (o + 1) - 1
            <4>1. ReadOff' = rfd'.off - 1
                BY <3>1 DEF ReadOff
            <4>. QED  BY <3>2, <4>1
        <3>4. o \in Int /\ (o + 1) - 1 \in Int /\ o <= (o + 1) - 1
            BY SMT
        <3>. QED  BY <1>3, <2>1, <2>3, <3>2, <3>3, <3>4, Narrower, ZenonT(40) DEF Inv
    <2>. QED  BY <2>4, <2>5
<1>6. CASE GetPayload
    <2>1. /\ pc["get"] = "payload" /\ rfd.name # NoName /\ UNCHANGED <<data, files, dataFiles, curReadfile, nbytes>>
        BY <1>6 DEF GetPayload, disk, Inv, Listed
    <2>2. ReadOff = o - 1
        BY <1>1, <2>1 DEF ReadOff
    <2>3. PICK c : c = files[rfd.name] /\ Len(c) \in Nat
        BY <1>3, <2>1, SMTT(40) DEF Inv, Typed
    <2>4. CASE rfd.off + nbytes > Len(c)
        <3>1. rfd' = [rfd EXCEPT !.off = Len(c)] /\ Goto("get", "idle")
            BY <1>6, <2>1, <2>3, <2>4 DEF GetPayload
        <3>2. pc'["get"] = "idle" /\ rfd'.name = rfd.name /\ rfd'.off = Len(c)
            BY <1>2, <3>1, GotoIs, SMTT(40) DEF Inv, Procs, GetLabels
        <3>3. ReadOff' = Len(c)
            BY <3>2 DEF ReadOff
        <3>4. \A s : s \notin RecordsFrom(c, Len(c))
            <4>1. \A i \in DOMAIN c : ~(i > Len(c))
                BY <1>3, <2>1, <2>3, SMTT(40) DEF Inv, Typed
            <4>. QED  BY <4>1 DEF RecordsFrom
        <3>5. ASSUME NEW s, s \in Reachable' PROVE s \in Reachable
            BY <2>1, <2>3, <3>2, <3>3, <3>4, <3>5, ReachableIs
        <3>. QED  BY <3>5
    <2>5. CASE ~(rfd.off + nbytes > Len(c))
        <3>1. rfd' = [rfd EXCEPT !.off = @ + nbytes] /\ Goto("get", "callback")
            BY <1>6, <2>1, <2>3, <2>5 DEF GetPayload
        <3>2. pc'["get"] = "callback"
            BY <3>1, GotoIs DEF Inv, Procs, GetLabels
        <3>3. rfd'.name = rfd.name /\ rfd'.off = o + nbytes
            BY <1>1, <1>2, <3>1, SMTT(40)
        <3>4. ReadOff' = (o + nbytes) - 1 - nbytes
            <4>1. ReadOff' = rfd'.off - 1 - nbytes'
                BY <3>2 DEF ReadOff
            <4>. QED  BY <2>1, <3>3, <4>1
        <3>5. o - 1 \in Int /\ (o + nbytes) - 1 - nbytes \in Int /\ o - 1 <= (o + nbytes) - 1 - nbytes
            BY <1>2, SMT
        <3>. QED  BY <1>3, <2>1, <2>2, <3>3, <3>4, <3>5, Narrower, ZenonT(40) DEF Inv
    <2>. QED  BY <2>4, <2>5
<1>7. CASE CallbackFails
    <2>1. /\ pc["get"] = "callback" /\ rfd.name # NoName /\ UNCHANGED <<data, files, dataFiles, curReadfile>>
          /\ rfd' = [rfd EXCEPT !.off = @ - (1 + nbytes)] /\ Goto("get", "idle")
        BY <1>7 DEF CallbackFails, disk, Inv, Listed
    <2>2. pc'["get"] = "idle"
        BY <2>1, GotoIs DEF Inv, Procs, GetLabels
    <2>3. rfd'.name = rfd.name /\ rfd'.off = o - (1 + nbytes)
        BY <1>1, <1>2, <2>1, SMTT(40)
    <2>4. ReadOff = o - 1 - nbytes /\ ReadOff' = o - (1 + nbytes)
        BY <1>1, <2>1, <2>2, <2>3 DEF ReadOff
    <2>5. o - 1 - nbytes \in Int /\ o - (1 + nbytes) \in Int /\ o - 1 - nbytes <= o - (1 + nbytes)
        BY <1>2, SMT
    <2>. QED  BY <1>3, <2>1, <2>3, <2>4, <2>5, Narrower, ZenonT(40) DEF Inv
<1>. QED  BY <1>4, <1>5, <1>6, <1>7, ZenonT(40)

\* The file that is removed or opened was within reach before.
LEMMA SwitchNarrows ==
    ASSUME Inv, RemoveCurrentReadingFile \/ DoSwitchNextFile PROVE Reachable' \subseteq Reachable
<1>1. CASE RemoveCurrentReadingFile
    <2>1. /\ UNCHANGED data /\ rfd' = NilFd /\ dataFiles' \subseteq dataFiles
          /\ DOMAIN files' = DOMAIN files \ {curReadfile} /\ \A n \in DOMAIN files' : files'[n] = files[n]
        BY <1>1 DEF RemoveCurrentReadingFile, Restrict
    <2>2. rfd'.name = NoName
        BY <2>1, SMT DEF NilFd, Fd
    <2>3. ASSUME NEW s, s \in Reachable' PROVE s \in Reachable
        BY <2>1, <2>2, <2>3, ReachableIs
    <2>. QED  BY <2>3
<1>2. CASE DoSwitchNextFile
    <2>1. rfd.name = NoName /\ curReadfile = NoName /\ UNCHANGED <<data, files, dataFiles>>
        BY <1>2 DEF DoSwitchNextFile, Inv, Listed
    <2>2. CASE rfd' = rfd
        <3>1. ASSUME NEW s, s \in Reachable' PROVE s \in Reachable
            <4>1. \/ s \in RecordsFrom(data, 0)
                  \/ \E n \in dataFiles \cap DOMAIN files : s \in RecordsFrom(files[n], 0)
                BY <2>1, <2>2, <3>1, ReachableIs
            <4>2. \A n \in dataFiles : n # curReadfile
                BY <2>1, SMT DEF NoName, Inv, Typed
            <4>. QED  BY <4>1, <4>2, ReachableIs
        <3>. QED  BY <3>1
    <2>3. PICK f : f = Min(dataFiles)
        OBVIOUS
    <2>4. CASE rfd' = Fd(f, 0) /\ f \in DOMAIN files /\ dataFiles # {}
        <3>1. f \in dataFiles /\ f \in Nat
            BY <2>3, <2>4, LeastOf DEF Inv, Typed
        <3>2. rfd'.name = f /\ rfd'.off = 0 /\ f # NoName
            BY <2>4, <3>1, SMTT(40) DEF Fd, NoName
        <3>3. ReadOff' = 0
            <4>1. pc'["get"] = "retry"
                BY <1>2, <2>1, <3>2, GotoIs DEF DoSwitchNextFile, Inv, Procs, GetLabels
            <4>. QED  BY <3>2, <4>1 DEF ReadOff
        <3>4. ASSUME NEW s, s \in Reachable' PROVE s \in Reachable
            <4>1. \/ s \in RecordsFrom(data, 0) \/ s \in RecordsFrom(files[f], 0)
                  \/ \E n \in dataFiles \cap DOMAIN files : s \in RecordsFrom(files[n], 0)
                BY <2>1, <3>2, <3>3, <3>4, ReachableIs, ZenonT(40)
            <4>2. \A n \in dataFiles : n # curReadfile
                BY <2>1, SMT DEF NoName, Inv, Typed
            <4>. QED  BY <2>4, <3>1, <4>1, <4>2, ReachableIs, ZenonT(40)
        <3>. QED  BY <3>4
    <2>. QED  BY <1>2, <2>2, <2>3, <2>4 DEF DoSwitchNextFile
<1>. QED  BY <1>1, <1>2

\* No step but a restart makes Get reach a record again.
LEMMA NextNarrows ==
    ASSUME Inv, Inv', Ordered, Ordered', Next, ~CallbackOK, ~Restart PROVE Narrows
<1>1. CASE \E r \in Records : PutBegin(r)
    <2>1. PICK r \in Records : PutBegin(r)
        BY <1>1
    <2>2. PICK x : x = rec
        OBVIOUS
    <2>3. Grows(x) /\ Appends(x)
        BY <2>1, <2>2, PutBeginOrders
    <2>4. ReaderSame
        BY <2>1 DEF PutBegin, ReaderSame, vars, disk, mem, locals
    <2>5. SameStage
        <3>1. CASE UNCHANGED vars
            BY <3>1 DEF vars, SameStage
        <3>2. CASE ~UNCHANGED vars
            <4>1. Goto("put", IF Full(r) THEN "drop" ELSE "header")
                BY <2>1, <3>2 DEF PutBegin
            <4>. QED  BY <4>1, GotoIs DEF SameStage, Inv, Procs, PutLabels
        <3>. QED  BY <3>1, <3>2
    <2>. QED  BY <2>3, <2>4, <2>5, WriterNarrows
<1>2. CASE PutHeader \/ PutData \/ PutDataFails
    <2>1. PICK x : x = rec
        OBVIOUS
    <2>2. Grows(x) /\ Appends(x)
        BY <1>2, <2>1, PutHeaderOrders, PutDataOrders, PutDataFailsOrders
    <2>3. ReaderSame
        BY <1>2 DEF PutHeader, PutData, PutDataFails, ReaderSame, mem, locals
    <2>4. \E l \in PutLabels : Goto("put", l)
        BY <1>2 DEF PutHeader, PutData, PutDataFails, PutLabels
    <2>5. SameStage
        BY <2>4, GotoIs DEF SameStage, Inv, Procs
    <2>. QED  BY <2>2, <2>3, <2>5, WriterNarrows
<1>3. ASSUME NEW p \in Procs, RotateEOF(p) PROVE Narrows
    <2>1. PICK x : x = rec
        OBVIOUS
    <2>2. Grows(x) /\ Appends(x)
        BY <1>3, <2>1, RotateEOFOrders
    <2>3. ReaderSame /\ pc[p] = "rotate" /\ Goto(p, "rename")
        BY <1>3 DEF RotateEOF, ReaderSame, mem, locals
    <2>4. pc'[p] = "rename" /\ \A q \in Procs : q # p => pc'[q] = pc[q]
        BY <2>3, GotoIs DEF Inv, PutLabels, GetLabels
    <2>5. SameStage
        BY <2>3, <2>4 DEF SameStage, Procs, Neutral
    <2>. QED  BY <2>2, <2>3, <2>5, WriterNarrows
<1>4. ASSUME NEW p \in Procs, RotateRename(p) PROVE Narrows
    BY <1>4, RenameNarrows
<1>5. CASE SwitchNext
    BY <1>5, SwitchNarrows, GetNarrows DEF SwitchNext, Narrows
<1>6. CASE \/ GetBegin \/ GetSleeping \/ GetWakeup \/ GetStart \/ GetRetry \/ GetNoHeader
           \/ GetHeader \/ GetPayload \/ CallbackFails \/ UpdatePos
    BY <1>6, GetNarrows DEF Narrows
<1>7. ~DropBatch
    BY DEF DropBatch, Inv, Locked
<1>. QED  BY <1>1, <1>2, <1>3, <1>4, <1>5, <1>6, <1>7, ZenonT(40) DEF Next, PutNext, GetNext, Procs

\* A record is handed out again only after a restart (get.go dumps the position
\* to .pos after the callback, so a crash in between repeats the record): at
\* most once more for each, for any records, sizes and buffers and wherever the
\* process dies; the records at risk aside.
THEOREM FewTwice == ASSUME Refuses, BufferSuffices PROVE Spec => []BoundedRedelivery
<1>. DEFINE All == Inv /\ Ordered /\ HandedOut /\ Redelivered
<1>1. Init => All
    <2>1. ASSUME Init PROVE Redelivered
        <3>1. DOMAIN put = {}
            BY <2>1, SMT DEF Init
        <3>. QED  BY <3>1 DEF Redelivered, Range
    <2>. QED  BY <2>1, InitHolds, InitOrdered
<1>2. ASSUME All, Next PROVE All'
    <2>1. Inv' /\ Ordered' /\ HandedOut' /\ Grows(rec) /\ exposed \subseteq exposed'
        BY <1>2, NextKeeps, NextOrders, NextHands
    <2>2. PICK x : x = rec
        OBVIOUS
    <2>3. CASE CallbackOK
        BY <1>2, <2>1, <2>3, CallbackOKCounts
    <2>4. CASE Restart
        <3>1. UNCHANGED got /\ restarts' = restarts + 1
            BY <2>4 DEF Restart
        <3>2. restarts \in Nat
            BY <1>2, Constants, SMTT(40) DEF Inv, Typed
        <3>3. restarts' \in Nat /\ restarts' >= restarts /\ restarts' # restarts
            BY <3>1, <3>2, SMT
        <3>. QED  BY <1>2, <2>1, <2>2, <3>1, <3>3, RedeliveredKept
    <2>5. CASE ~CallbackOK /\ ~Restart
        <3>1. UNCHANGED <<got, restarts>>
            BY <1>2, <2>5, OnlyThere
        <3>2. restarts' \in Nat /\ restarts' >= restarts
            BY <1>2, <3>1, Constants, SMTT(40) DEF Inv, Typed
        <3>3. Narrows
            BY <1>2, <2>1, <2>5, NextNarrows
        <3>. QED  BY <1>2, <2>1, <2>2, <3>1, <3>2, <3>3, RedeliveredKept, ZenonT(40)
    <2>. QED  BY <2>3, <2>4, <2>5
<1>3. ASSUME All, UNCHANGED vars PROVE All'
    <2>1. Inv' /\ Ordered' /\ HandedOut'
        BY <1>3, StutterOrders, StutterKeeps
    <2>2. UNCHANGED <<put, got, exposed, restarts>> /\ Reachable' = Reachable
        BY <1>3, SMT DEF vars, disk, mem, locals, run, history, Reachable, ReadOff
    <2>3. Redelivered'
        BY <1>3, <2>2 DEF Redelivered, Times
    <2>. QED  BY <2>1, <2>3
<1>4. All => BoundedRedelivery
    <2>. SUFFICES ASSUME All, NEW r \in Range(put) \ exposed PROVE Times(r) <= 1 + restarts
        BY DEF BoundedRedelivery, Times
    <2>1. Times(r) <= restarts + (IF r \in Reachable THEN 0 ELSE 1) /\ Times(r) \in Nat
        BY TimesIs DEF Redelivered, Inv
    <2>2. restarts \in Nat
        BY Constants, SMT DEF Inv, Typed
    <2>. QED  BY <2>1, <2>2, SMT
<1>. QED  BY <1>1, <1>2, <1>3, <1>4, PTL DEF Spec

----------------------------------------------------------------------------
(* A queue, while the process stops only between two calls *)

\* The process dies in no call, it stops between two of them.
StopsBetween == ~WriteFails /\ ~CrashAnywhere

\* A rotated file is a sequence of records and an EOF.
Whole(c) == Ended(c) /\ Prefix(c, Len(c) - 1)

\* Get is at a record of its file or at the EOF, and .pos is there too.
Reading ==
    rfd.name # NoName =>
        /\ pos.seek = Base /\ Base < Len(files[rfd.name])
        /\ pc["get"] \in {"payload", "callback", "commit"} => Base + 1 < Len(files[rfd.name])

\* Without crashes and failed writes no file is torn and no record at risk.
Sound ==
    /\ ~torn /\ exposed = {}
    /\ (\E q \in Procs : pc[q] = "rename") => Ended(data)
    /\ \A n \in DOMAIN files : Whole(files[n])

\* What Get has handed out is the first of what was put, and out of its reach.
Delivered ==
    /\ Len(got) <= Len(put) /\ \A i \in DOMAIN got : got[i] = put[i]
    /\ Range(got) \cap Reachable = {}

QuietInv == Sound /\ Reading /\ Delivered

\* The queue that the cache is: what was put and not handed out.
Queue == INSTANCE FifoQueue WITH
             Items <- Records, queue <- SubSeq(put, Len(got) + 1, Len(put)), out <- got

\* The sound part of a whole file is all of it but the EOF.
LEMMA SoundPart ==
    ASSUME NEW c, Fit(c), Whole(c), NEW g, Prefix(c, g), RecordsFrom(c, g) \subseteq {}
    PROVE  g = Len(c) - 1 /\ g \in Nat /\ Len(c) \in Nat /\ DOMAIN c = 1..Len(c)
<1>1. Len(c) \in Nat /\ DOMAIN c = 1..Len(c) /\ g \in 0..Len(c)
    BY SMT DEF Fit, Prefix
<1>2. PICK e \in Nat : e = Len(c) - 1 /\ e + 1 = Len(c) /\ e + 1 \in DOMAIN c
    <2>1. Len(c) > 0
        BY DEF Whole, Ended
    <2>2. Len(c) - 1 \in Nat /\ (Len(c) - 1) + 1 = Len(c) /\ Len(c) \in 1..Len(c)
        BY <1>1, <2>1, SMT
    <2>. QED  BY <1>1, <2>2
<1>3. g \in Nat /\ Prefix(c, e) /\ c[e + 1] = EOFHint
    <2>1. g \in Nat
        BY <1>1, SMT
    <2>. QED  BY <1>2, <2>1 DEF Whole, Ended
<1>4. ~(g < e)
    <2>1. SUFFICES ASSUME g < e PROVE FALSE
        OBVIOUS
    <2>2. g + 1 \in DOMAIN c /\ Complete(c, g + 1)
        BY <1>3, <2>1, PrefixBoundary, AtBoundary
    <2>3. g + 1 > g
        BY <1>3, SMT
    <2>. QED  BY <2>2, <2>3 DEF RecordsFrom
<1>5. ~(g > e)
    <2>1. SUFFICES ASSUME g > e PROVE FALSE
        OBVIOUS
    <2>2. e + 1 \in 1..g
        BY <1>2, <1>3, <2>1, SMT
    <2>3. c[e + 1].kind = "hdr" \/ c[e + 1].kind = "pay"
        BY <2>2 DEF Prefix
    <2>. QED  BY <1>3, <2>3, EOFCell
<1>6. g = e
    BY <1>3, <1>4, <1>5, SMT
<1>. QED  BY <1>1, <1>2, <1>3, <1>6

\* The reader is in step with all of its file.
LEMMA QuietFile ==
    ASSUME Inv, Sound, NEW n \in DOMAIN files, NEW c, c = files[n]
    PROVE  /\ Fit(c) /\ Prefix(c, Len(c) - 1) /\ Len(c) - 1 \in Nat /\ Len(c) \in Nat
           /\ c[Len(c)] = EOFHint
           /\ n = rfd.name => InStep(c, Len(c) - 1)
<1>1. PICK g \in 0..Len(c) : /\ Prefix(c, g) /\ RecordsFrom(c, g) \subseteq exposed
                             /\ n = rfd.name => InStep(c, g)
    BY DEF Inv, ReadFile
<1>2. Fit(c) /\ Whole(c) /\ exposed = {}
    BY DEF Inv, ReadFile, Sound
<1>3. g = Len(c) - 1 /\ g \in Nat /\ Len(c) \in Nat
    BY <1>1, <1>2, SoundPart
<1>. QED  BY <1>1, <1>2, <1>3 DEF Whole, Ended

\* In the file c, which ends behind e records' cells, the reader stands at b: at a
\* record that it can read in full, or at the EOF.
Stands(c, b, e) ==
    /\ rfd.name \in DOMAIN files /\ c = files[rfd.name] /\ Fit(c)
    /\ b = Base /\ e + 1 = Len(c) /\ b <= e /\ c[e + 1] = EOFHint
    /\ pos.seek = b /\ Boundary(c, b) /\ Prefix(c, e)
    /\ pc["get"] \in {"payload", "callback", "commit"} => b < e /\ nbytes = LenOf[c[b + 1].rec]
    /\ b < e => /\ b + 1 \in DOMAIN c /\ c[b + 1].kind = "hdr" /\ Complete(c, b + 1)
                /\ c[b + 1].rec \in Records /\ LenOf[c[b + 1].rec] \in Nat
                /\ LenOf[c[b + 1].rec] <= BufLen /\ b + 1 + LenOf[c[b + 1].rec] <= e

\* The reader of a sound directory stands at a record or at the EOF.
LEMMA StandsAt ==
    ASSUME Inv, Sound, Reading, rfd.name # NoName
    PROVE  \E c : \E b \in Nat, e \in Nat : Stands(c, b, e)
<1>1. rfd.name \in DOMAIN files
    BY DEF Inv, Listed
<1>2. PICK c : c = files[rfd.name]
    OBVIOUS
<1>3. /\ Fit(c) /\ Prefix(c, Len(c) - 1) /\ Len(c) - 1 \in Nat /\ Len(c) \in Nat
      /\ c[Len(c)] = EOFHint /\ InStep(c, Len(c) - 1)
    BY <1>1, <1>2, QuietFile
<1>4. PICK e \in Nat : e = Len(c) - 1 /\ e + 1 = Len(c)
    <2>1. (Len(c) - 1) + 1 = Len(c)
        BY <1>3, SMT
    <2>. QED  BY <1>3, <2>1
<1>5. PICK b \in Nat : b = Base
    BY <1>3 DEF InStep
<1>6. /\ pos.seek = b /\ b < Len(c)
      /\ pc["get"] \in {"payload", "callback", "commit"} => b + 1 < Len(c)
    BY <1>2, <1>5 DEF Reading
<1>7. b <= e /\ (b + 1 < Len(c) => b < e)
    BY <1>4, <1>6, SMT
<1>8. /\ Boundary(c, b)
      /\ pc["get"] \in {"payload", "callback", "commit"} => b < e /\ nbytes = LenOf[c[b + 1].rec]
    BY <1>3, <1>4, <1>5, <1>6, <1>7 DEF InStep
<1>9. ASSUME b < e
      PROVE  /\ b + 1 \in DOMAIN c /\ c[b + 1].kind = "hdr" /\ Complete(c, b + 1)
             /\ c[b + 1].rec \in Records /\ LenOf[c[b + 1].rec] \in Nat
             /\ LenOf[c[b + 1].rec] <= BufLen /\ b + 1 + LenOf[c[b + 1].rec] <= e
    <2>1. /\ b + 1 \in DOMAIN c /\ c[b + 1].kind = "hdr" /\ Complete(c, b + 1)
          /\ LastCell(c, b + 1) <= e
        BY <1>3, <1>4, <1>8, <1>9, AtBoundary
    <2>. QED  BY <1>3, <2>1, FitCell
<1>10. Stands(c, b, e)
    BY <1>1, <1>2, <1>3, <1>4, <1>5, <1>6, <1>7, <1>8, <1>9 DEF Stands
<1>. QED  BY <1>10

\* A step that leaves the files, or lets them go, and does not rename.
LEMMA SoundStays ==
    ASSUME Sound, Fewer, UNCHANGED <<data, torn, exposed>>,
           \A q \in Procs : pc'[q] = "rename" => pc[q] = "rename"
    PROVE  Sound'
BY DEF Sound, Fewer

\* Steps of Put, and of a restart between two calls.
LEMMA PutSound ==
    ASSUME Inv, Sound, StopsBetween,
           (\E r \in Records : PutBegin(r)) \/ PutHeader \/ PutData \/ Restart
    PROVE  Sound'
<1>1. CASE \E r \in Records : PutBegin(r)
    <2>1. PICK r \in Records : PutBegin(r)
        BY <1>1
    <2>2. UNCHANGED <<data, files, torn, exposed>>
        BY <2>1 DEF PutBegin, vars, disk, history
    <2>3. pc' = pc \/ \E l \in {"header", "drop"} : Goto("put", l)
        BY <2>1 DEF PutBegin, vars
    <2>4. ASSUME NEW l \in {"header", "drop"}, Goto("put", l), NEW q \in Procs, pc'[q] = "rename"
          PROVE  pc[q] = "rename"
        <3>1. pc'["put"] = l /\ pc'["get"] = pc["get"]
            BY <2>4, GotoIs DEF Inv, Procs, PutLabels
        <3>. QED  BY <2>4, <3>1 DEF Procs
    <2>. QED  BY <2>2, <2>3, <2>4, SoundStays DEF Fewer
<1>2. CASE PutHeader \/ PutData
    <2>1. pc["put"] \in {"header", "data"} /\ UNCHANGED <<files, torn>>
        BY <1>2 DEF PutHeader, PutData, history
    <2>2. exposed' = exposed
        BY <1>2 DEF PutHeader, PutData, history, Sound
    <2>3. \E l \in PutLabels \ {"rename"} : Goto("put", l)
        BY <1>2 DEF PutHeader, PutData, PutLabels
    <2>4. \A q \in Procs : pc'[q] # "rename"
        BY <2>1, <2>3, PutAlone, GotoIs DEF Inv, Procs
    <2>. QED  BY <2>1, <2>2, <2>4 DEF Sound
<1>3. CASE Restart
    <2>1. pc = [q \in Procs |-> "idle"] /\ pc' = [q \in Procs |-> "idle"]
        BY <1>3 DEF Restart, StopsBetween
    <2>2. /\ pc["put"] = "idle" /\ pc["get"] = "idle"
          /\ \A q \in Procs : pc[q] # "rename" /\ pc'[q] # "rename"
        BY <2>1 DEF Procs
    <2>3. UNCHANGED <<data, files>> /\ (torn' <=> torn) /\ exposed' = exposed
        BY <1>3, <2>2 DEF Restart, Open
    <2>. QED  BY <2>2, <2>3 DEF Sound
<1>. QED  BY <1>1, <1>2, <1>3

\* rotate ends the write file, and then lists it.
LEMMA RotateSound ==
    ASSUME Inv, Sound, NEW p \in Procs, RotateEOF(p) \/ RotateRename(p) PROVE Sound'
<1>1. CASE RotateEOF(p)
    <2>1. data' = Append(data, EOFHint) /\ UNCHANGED <<files, torn, exposed>> /\ data \in Seq(Cells)
        BY <1>1 DEF RotateEOF, history, Inv, Typed
    <2>2. Ended(data')
        <3>1. Len(data') = Len(data) + 1 /\ data'[Len(data) + 1] = EOFHint
            BY <2>1, EOFCell, SMT
        <3>2. Len(data) + 1 > 0
            BY <2>1, SMT
        <3>. QED  BY <3>1, <3>2 DEF Ended
    <2>. QED  BY <2>1, <2>2 DEF Sound
<1>2. CASE RotateRename(p)
    <2>1. PICK f : f = NewFile
        OBVIOUS
    <2>2. /\ pc[p] = "rename" /\ torn' = FALSE /\ UNCHANGED exposed
          /\ files' = [n \in DOMAIN files \cup {f} |-> IF n = f THEN data ELSE files[n]]
          /\ Goto(p, IF p = "put" THEN "idle" ELSE "start")
        BY <1>2, <2>1 DEF RotateRename
    <2>3. pc'[p] # "rename" /\ \A q \in Procs : q # p => pc'[q] = pc[q]
        <3>1. PICK l \in {"idle", "start"} : Goto(p, l) /\ (p = "put" <=> l = "idle")
            BY <2>2
        <3>2. pc'[p] = l /\ \A q \in Procs : q # p => pc'[q] = pc[q]
            BY <3>1, GotoIs DEF Inv, PutLabels, GetLabels
        <3>. QED  BY <3>2
    <2>4. \A q \in Procs : pc'[q] # "rename"
        BY <2>2, <2>3, RotatesAlone
    <2>5. Whole(data)
        <3>1. Settled = Len(data) - 1
            BY <2>2 DEF Settled
        <3>2. Prefix(data, Settled)
            BY DEF Inv, WriteFile, Sound
        <3>. QED  BY <2>2, <3>1, <3>2 DEF Sound, Whole
    <2>6. /\ DOMAIN files' = DOMAIN files \cup {f} /\ files'[f] = data
          /\ \A n \in DOMAIN files : n # f => files'[n] = files[n]
        BY <2>2
    <2>. QED  BY <2>2, <2>4, <2>5, <2>6 DEF Sound
<1>. QED  BY <1>1, <1>2

\* Get changes no file that stays.
LEMMA GetSound ==
    ASSUME Inv, Sound,
           \/ GetBegin \/ GetSleeping \/ GetWakeup \/ GetStart \/ SwitchNext \/ GetRetry \/ GetNoHeader
           \/ GetHeader \/ GetPayload \/ CallbackOK \/ CallbackFails \/ UpdatePos
    PROVE  Sound'
<1>1. UNCHANGED <<data, torn, exposed>>
    BY DEF SwitchNext, GetBegin, GetSleeping, GetWakeup, GetStart, GetRetry, GetNoHeader, ResetPos, DoSwitchNextFile,
           RemoveCurrentReadingFile, GetHeader, GetPayload, CallbackOK, CallbackFails, UpdatePos, disk, history
<1>2. \E l \in GetLabels \ {"rename"} : Goto("get", l)
    BY DEF SwitchNext, GetBegin, GetSleeping, GetWakeup, GetStart, GetRetry, GetNoHeader, ResetPos, DoSwitchNextFile,
           RemoveCurrentReadingFile, GetHeader, GetPayload, CallbackOK, CallbackFails, UpdatePos,
           SwitchNextFile, GetLabels
<1>3. \A q \in Procs : pc'[q] = "rename" => pc[q] = "rename"
    BY <1>2, GotoIs DEF Inv, Procs
<1>4. Fewer
    <2>1. CASE RemoveCurrentReadingFile
        <3>1. files' = files \/ files' = Restrict(files, DOMAIN files \ {curReadfile})
            BY <2>1 DEF RemoveCurrentReadingFile
        <3>. QED  BY <3>1, RestrictFewer DEF Fewer
    <2>2. CASE ~RemoveCurrentReadingFile
        <3>1. files' = files
            BY <2>2 DEF SwitchNext, GetBegin, GetSleeping, GetWakeup, GetStart, GetRetry, GetNoHeader, ResetPos,
                   DoSwitchNextFile, GetHeader, GetPayload, CallbackOK, CallbackFails, UpdatePos, disk
        <3>. QED  BY <3>1 DEF Fewer
    <2>. QED  BY <2>1, <2>2
<1>. QED  BY <1>1, <1>3, <1>4, SoundStays

\* Get stays where it is in its file.
LEMMA ReadingStays ==
    ASSUME Reading, UNCHANGED <<rfd, pos>>, Base' = Base, rfd.name # NoName => files'[rfd.name] = files[rfd.name],
           pc'["get"] \in {"payload", "callback", "commit"} => pc["get"] \in {"payload", "callback", "commit"}
    PROVE  Reading'
BY DEF Reading

\* Put and rotate leave the reader alone.
LEMMA WriterReading ==
    ASSUME Inv, Reading,
           \/ (\E r \in Records : PutBegin(r)) \/ PutHeader \/ PutData
           \/ (\E p \in Procs : RotateEOF(p) \/ RotateRename(p))
    PROVE  Reading'
<1>1. UNCHANGED <<rfd, pos, nbytes>>
    BY DEF PutBegin, PutHeader, PutData, RotateEOF, RotateRename, vars, mem, locals
<1>2. pc'["get"] = pc["get"] \/ (pc["get"] \in Neutral /\ pc'["get"] \in Neutral)
    <2>1. CASE \E r \in Records : PutBegin(r)
        <3>1. pc' = pc \/ \E l \in PutLabels : Goto("put", l)
            BY <2>1 DEF PutBegin, vars, PutLabels
        <3>. QED  BY <3>1, GotoIs DEF Inv, Procs
    <2>2. CASE PutHeader \/ PutData
        <3>1. \E l \in PutLabels : Goto("put", l)
            BY <2>2 DEF PutHeader, PutData, PutLabels
        <3>. QED  BY <3>1, GotoIs DEF Inv, Procs
    <2>3. ASSUME NEW p \in Procs, RotateEOF(p) \/ RotateRename(p)
          PROVE  pc'["get"] = pc["get"] \/ (pc["get"] \in Neutral /\ pc'["get"] \in Neutral)
        <3>1. pc[p] \in {"rotate", "rename"}
            BY <2>3 DEF RotateEOF, RotateRename
        <3>2. PICK l \in {"rename", "idle", "start"} : Goto(p, l) /\ (p = "put" => l # "start")
            BY <2>3 DEF RotateEOF, RotateRename
        <3>3. pc'[p] = l /\ \A q \in Procs : q # p => pc'[q] = pc[q]
            BY <3>2, GotoIs DEF Inv, PutLabels, GetLabels
        <3>. QED  BY <3>1, <3>2, <3>3 DEF Procs, Neutral
    <2>. QED  BY <2>1, <2>2, <2>3
<1>3. Base' = Base
    <2>1. CASE pc'["get"] = pc["get"]
        BY <1>1, <2>1 DEF Base
    <2>2. CASE pc["get"] \in Neutral /\ pc'["get"] \in Neutral
        <3>1. Base = rfd.off /\ Base' = rfd'.off
            BY <2>2 DEF Neutral, Base
        <3>. QED  BY <1>1, <3>1
    <2>. QED  BY <1>2, <2>1, <2>2
<1>4. ASSUME rfd.name # NoName PROVE files'[rfd.name] = files[rfd.name]
    <2>1. rfd.name \in DOMAIN files /\ rfd.name \in dataFiles
        BY <1>4 DEF Inv, Listed
    <2>2. ASSUME NEW p \in Procs, RotateRename(p) PROVE files'[rfd.name] = files[rfd.name]
        <3>1. PICK f : f = NewFile
            OBVIOUS
        <3>2. files' = [n \in DOMAIN files \cup {f} |-> IF n = f THEN data ELSE files[n]]
            BY <2>2, <3>1 DEF RotateRename
        <3>3. PICK b \in Nat : dataFiles \cup DOMAIN files \subseteq 0..b
            BY DEF Inv, Listed
        <3>4. rfd.name < f
            BY <2>1, <3>1, <3>3, NewFileIs
        <3>5. rfd.name # f
            <4>1. \A x \in 0..b : ~(x < x)
                BY SMT
            <4>. QED  BY <2>1, <3>3, <3>4, <4>1
        <3>. QED  BY <2>1, <3>2, <3>5
    <2>3. CASE UNCHANGED files
        BY <2>3
    <2>. QED  BY <2>2, <2>3 DEF PutBegin, PutHeader, PutData, RotateEOF, vars, disk
<1>5. pc'["get"] \in {"payload", "callback", "commit"} => pc["get"] \in {"payload", "callback", "commit"}
    BY <1>2 DEF Neutral
<1>. QED  BY <1>1, <1>3, <1>4, <1>5, ReadingStays

\* Get goes on to another label, or to its next file.
LEMMA SwitchReading ==
    ASSUME Inv, Sound, Reading,
           \/ GetBegin \/ GetSleeping \/ GetWakeup \/ GetStart \/ GetRetry \/ GetNoHeader \/ SwitchNext
    PROVE  Reading'
<1>1. CASE GetBegin \/ GetSleeping \/ GetWakeup \/ GetStart \/ GetRetry \/ GetNoHeader
    <2>1. UNCHANGED <<files, rfd, pos>>
        BY <1>1 DEF GetBegin, GetSleeping, GetWakeup, GetStart, GetRetry, GetNoHeader, disk, mem
    <2>2. pc["get"] \notin {"payload", "callback", "commit"}
        BY <1>1 DEF GetBegin, GetSleeping, GetWakeup, GetStart, GetRetry, GetNoHeader
    <2>3. \E l \in GetLabels \ {"payload", "callback", "commit"} : Goto("get", l)
        BY <1>1 DEF GetBegin, GetSleeping, GetWakeup, GetStart, GetRetry, GetNoHeader, SwitchNextFile, GetLabels
    <2>4. pc'["get"] \notin {"payload", "callback", "commit"}
        BY <2>3, GotoIs DEF Inv, Procs
    <2>5. Base = rfd.off /\ Base' = rfd'.off
        BY <2>2, <2>4 DEF Base
    <2>. QED  BY <2>1, <2>4, <2>5, ReadingStays
<1>2. CASE RemoveCurrentReadingFile
    <2>1. rfd' = NilFd
        BY <1>2 DEF RemoveCurrentReadingFile
    <2>2. rfd'.name = NoName
        BY <2>1, SMT DEF NilFd, Fd
    <2>. QED  BY <2>2 DEF Reading
<1>3. CASE ResetPos
    <2>1. pc["get"] = "reset" /\ UNCHANGED rfd
        BY <1>3 DEF ResetPos
    <2>2. rfd.name = NoName
        BY <2>1 DEF Inv, Listed
    <2>. QED  BY <2>1, <2>2 DEF Reading
<1>4. CASE DoSwitchNextFile
    <2>1. pc["get"] = "switch" /\ rfd.name = NoName /\ UNCHANGED files
        BY <1>4 DEF DoSwitchNextFile, Inv, Listed
    <2>2. CASE UNCHANGED rfd
        BY <2>1, <2>2 DEF Reading
    <2>3. CASE ~UNCHANGED rfd
        <3>1. PICK f \in DOMAIN files : rfd' = Fd(f, 0) /\ pos' = Position(f, 0) /\ Goto("get", "retry")
            BY <1>4, <2>3 DEF DoSwitchNextFile
        <3>2. pc'["get"] = "retry"
            BY <3>1, GotoIs DEF Inv, Procs, GetLabels
        <3>3. rfd'.name = f /\ rfd'.off = 0 /\ pos'.seek = 0
            BY <3>1, SMT DEF Fd, Position
        <3>4. Base' = 0
            BY <3>2, <3>3 DEF Base
        <3>5. 0 < Len(files[f])
            <4>1. Len(files[f]) - 1 \in Nat /\ Len(files[f]) \in Nat
                BY QuietFile
            <4>. QED  BY <4>1, SMT
        <3>. QED  BY <2>1, <3>2, <3>3, <3>4, <3>5 DEF Reading
    <2>. QED  BY <2>2, <2>3
<1>. QED  BY <1>1, <1>2, <1>3, <1>4 DEF SwitchNext

\* Where Get is after a step, in the terms of Reading.
LEMMA ReadsAt ==
    ASSUME NEW c, NEW b, files'[rfd'.name] = c, pos'.seek = b, Base' = b, b < Len(c),
           pc'["get"] \in {"payload", "callback", "commit"} => b + 1 < Len(c)
    PROVE  Reading'
BY DEF Reading

\* Get reads a header, and finds a record that its buffer holds.
LEMMA HeaderReading == ASSUME Inv, Sound, Reading, GetHeader PROVE Reading'
<1>1. /\ pc["get"] = "header" /\ rfd.name # NoName
      /\ UNCHANGED <<files, pos>>
    BY DEF GetHeader, disk
<1>2. PICK c : \E b \in Nat, e \in Nat : Stands(c, b, e)
    BY <1>1, StandsAt
<1>3. PICK b \in Nat, e \in Nat :
            /\ c = files[rfd.name] /\ b = Base /\ e + 1 = Len(c) /\ b <= e /\ c[e + 1] = EOFHint /\ pos.seek = b
            /\ b < e => c[b + 1].kind = "hdr" /\ LenOf[c[b + 1].rec] \in Nat /\ LenOf[c[b + 1].rec] <= BufLen
    BY <1>2 DEF Stands
<1>4. rfd.off = b
    BY <1>1, <1>3 DEF Base
<1>5. PICK n \in Decode(c[b + 1]) :
         IF n > BufLen
         THEN /\ rfd' = [rfd EXCEPT !.off = @ + 1 + n]
              /\ Goto("get", "idle") /\ UNCHANGED nbytes
         ELSE /\ rfd' = [rfd EXCEPT !.off = @ + 1]
              /\ nbytes' = n /\ Goto("get", "payload")
    BY <1>3, <1>4 DEF GetHeader
<1>6. b # e
    <2>1. ASSUME b = e PROVE FALSE
        <3>1. Decode(c[b + 1]) = {}
            BY <1>3, <2>1, EOFCell DEF Decode
        <3>. QED  BY <3>1
    <2>. QED  BY <2>1
<1>7. b < e /\ b < Len(c) /\ b + 1 < Len(c) /\ b + 1 \in Nat /\ (b + 1) - 1 = b
    BY <1>3, <1>6, SMT
<1>8. n = LenOf[c[b + 1].rec]
    BY <1>3, <1>7 DEF Decode
<1>9. ~(n > BufLen)
    BY <1>3, <1>7, <1>8, Constants, SMT
<1>10. rfd' = [rfd EXCEPT !.off = @ + 1] /\ Goto("get", "payload")
    BY <1>5, <1>9
<1>11. rfd' = [rfd EXCEPT !.off = b + 1]
    BY <1>4, <1>10
<1>12. rfd'.name = rfd.name /\ rfd'.off = b + 1
    <2>1. PICK r \in [name : Nat \cup {NoName}, off : Nat] : r = rfd
        BY DEF Inv, Typed
    <2>2. rfd' = [r EXCEPT !.off = b + 1]
        BY <1>11, <2>1
    <2>. QED  BY <1>7, <2>1, <2>2, Seeks
<1>13. pc'["get"] = "payload"
    BY <1>10, GotoIs DEF Inv, Procs, GetLabels
<1>14. Base' = b
    <2>1. Base' = rfd'.off - 1
        BY <1>13 DEF Base
    <2>. QED  BY <1>7, <1>12, <2>1
<1>. QED  BY <1>1, <1>3, <1>7, <1>12, <1>14, ReadsAt

\* Get reads a payload in full.
LEMMA PayloadReading ==
    ASSUME Inv, Sound, Reading, GetPayload
    PROVE  Reading' /\ Base' = Base /\ pc'["get"] = "callback"
<1>1. pc["get"] = "payload" /\ rfd.name # NoName /\ UNCHANGED <<files, pos, nbytes>>
    BY DEF GetPayload, Inv, Listed, disk
<1>2. PICK c : \E b \in Nat, e \in Nat : Stands(c, b, e)
    BY <1>1, StandsAt
<1>3. PICK b \in Nat, e \in Nat :
            /\ c = files[rfd.name] /\ b = Base /\ e + 1 = Len(c) /\ b < e /\ pos.seek = b
            /\ nbytes \in Nat /\ b + 1 + nbytes <= e
    BY <1>1, <1>2 DEF Stands
<1>4. rfd.off = b + 1
    <2>1. b = rfd.off - 1 /\ rfd.off \in Nat
        BY <1>1, <1>3, OpenFile DEF Base
    <2>. QED  BY <2>1, SMT
<1>5. /\ ~(rfd.off + nbytes > Len(c)) /\ rfd.off + nbytes \in Nat
      /\ (rfd.off + nbytes) - 1 - nbytes = b /\ b < Len(c) /\ b + 1 < Len(c)
    BY <1>3, <1>4, SMT
<1>6. rfd' = [rfd EXCEPT !.off = @ + nbytes] /\ Goto("get", "callback")
    BY <1>1, <1>3, <1>5 DEF GetPayload
<1>7. rfd'.name = rfd.name /\ rfd'.off = rfd.off + nbytes
    <2>1. PICK r \in [name : Nat \cup {NoName}, off : Nat] : r = rfd
        BY DEF Inv, Typed
    <2>2. PICK k \in Nat : k = rfd.off + nbytes
        BY <1>5
    <2>3. rfd' = [r EXCEPT !.off = k]
        BY <1>6, <2>1, <2>2
    <2>. QED  BY <2>1, <2>2, <2>3, Seeks, ZenonT(40)
<1>8. pc'["get"] = "callback"
    BY <1>6, GotoIs DEF Inv, Procs, GetLabels
<1>9. Base' = b
    <2>1. Base' = rfd'.off - 1 - nbytes'
        BY <1>8 DEF Base
    <2>. QED  BY <1>1, <1>5, <1>7, <2>1
<1>. QED  BY <1>1, <1>3, <1>5, <1>7, <1>8, <1>9, ReadsAt

\* The callback takes the record or not, and the position moves behind it.
LEMMA CallbackReading ==
    ASSUME Inv, Sound, Reading, CallbackOK \/ CallbackFails \/ UpdatePos PROVE Reading'
<1>1. pc["get"] \in {"callback", "commit"} /\ rfd.name # NoName /\ UNCHANGED <<files, nbytes>>
    BY DEF CallbackOK, CallbackFails, UpdatePos, Inv, Listed, disk, locals
<1>2. PICK c : \E b \in Nat, e \in Nat : Stands(c, b, e)
    BY <1>1, StandsAt
<1>3. PICK b \in Nat, e \in Nat :
            /\ c = files[rfd.name] /\ b = Base /\ e + 1 = Len(c) /\ b < e /\ pos.seek = b
            /\ nbytes \in Nat /\ b + 1 + nbytes <= e
    BY <1>1, <1>2 DEF Stands
<1>4. rfd.off - 1 - nbytes = b /\ rfd.off \in Nat
    BY <1>1, <1>3, OpenFile DEF Base
<1>5. /\ rfd.off = b + 1 + nbytes /\ rfd.off - (1 + nbytes) = b /\ b < Len(c) /\ b + 1 < Len(c)
      /\ b + 1 + nbytes < Len(c)
    <2>1. PICK o \in Nat, m \in Nat : o = rfd.off /\ m = nbytes
        BY <1>3, <1>4
    <2>2. o - 1 - m = b /\ b + 1 + m <= e
        BY <1>3, <1>4, <2>1
    <2>3. o = b + 1 + m /\ o - (1 + m) = b /\ b + 1 < e + 1 /\ b < e + 1 /\ b + 1 + m < e + 1
        BY <1>3, <2>2, SMT
    <2>. QED  BY <1>3, <2>1, <2>3
<1>6. CASE CallbackOK
    <2>1. UNCHANGED <<rfd, pos>> /\ Goto("get", "commit")
        BY <1>6 DEF CallbackOK, mem
    <2>2. pc'["get"] = "commit"
        BY <2>1, GotoIs DEF Inv, Procs, GetLabels
    <2>3. Base' = rfd'.off - 1 - nbytes'
        BY <2>2 DEF Base
    <2>4. Base' = b
        BY <1>1, <1>4, <2>1, <2>3
    <2>. QED  BY <1>1, <1>3, <1>5, <2>1, <2>4, ReadsAt
<1>7. CASE CallbackFails
    <2>1. /\ UNCHANGED pos /\ Goto("get", "idle")
          /\ rfd' = [rfd EXCEPT !.off = @ - (1 + nbytes)]
        BY <1>1, <1>7 DEF CallbackFails
    <2>2. rfd'.name = rfd.name /\ rfd'.off = b
        <3>1. PICK r \in [name : Nat \cup {NoName}, off : Nat] : r = rfd
            BY DEF Inv, Typed
        <3>2. rfd' = [r EXCEPT !.off = b]
            BY <1>5, <2>1, <3>1
        <3>. QED  BY <3>1, <3>2, Seeks
    <2>3. pc'["get"] = "idle"
        BY <2>1, GotoIs DEF Inv, Procs, GetLabels
    <2>4. Base' = b
        BY <2>2, <2>3 DEF Base
    <2>. QED  BY <1>1, <1>3, <1>5, <2>1, <2>2, <2>4, ReadsAt
<1>8. CASE UpdatePos
    <2>1. /\ UNCHANGED rfd /\ Goto("get", "idle") /\ pos' = [pos EXCEPT !.seek = @ + 1 + nbytes]
        BY <1>8 DEF UpdatePos
    <2>2. pos'.seek = b + 1 + nbytes
        <3>1. PICK r \in [name : Nat \cup {NoName}, seek : Int] : r = pos
            BY DEF Inv, Typed
        <3>2. pos' = [r EXCEPT !.seek = b + 1 + nbytes]
            BY <1>3, <2>1, <3>1
        <3>3. [r EXCEPT !.seek = b + 1 + nbytes].seek = b + 1 + nbytes
            OBVIOUS
        <3>. QED  BY <3>2, <3>3
    <2>3. pc'["get"] = "idle"
        BY <2>1, GotoIs DEF Inv, Procs, GetLabels
    <2>4. Base' = b + 1 + nbytes
        BY <1>5, <2>1, <2>3 DEF Base
    <2>. QED  BY <1>1, <1>3, <1>5, <2>1, <2>2, <2>3, <2>4, ReadsAt
<1>. QED  BY <1>6, <1>7, <1>8

\* A process that stops between two calls leaves the directory as it is.
LEMMA StopsIdle ==
    ASSUME StopsBetween, Restart
    PROVE  /\ \A q \in Procs : pc[q] = "idle" /\ pc'[q] = "idle"
           /\ Open(data, posFile) /\ UNCHANGED <<data, files, put, got, exposed>> /\ torn' = (torn \/ FALSE)
<1>1. \A q \in Procs : pc[q] = "idle" /\ pc'[q] = "idle"
    <2>1. pc = [q \in Procs |-> "idle"] /\ pc' = [q \in Procs |-> "idle"]
        BY DEF Restart, StopsBetween
    <2>. QED  BY <2>1
<1>2. pc["put"] = "idle" /\ pc["get"] = "idle" /\ ~(\E q \in Procs : pc[q] = "rename")
    BY <1>1 DEF Procs
<1>3. PICK p \in {posFile}, n \in {0} :
         /\ Open(IF pc["put"] = "data" THEN data \o Payload(rec, n) ELSE data, p)
         /\ LET written == pc["put"] = "data" /\ n = LenOf[rec]
                halfway == pc["put"] = "data" /\ n < LenOf[rec]
                stale   == pc["get"] = "reset" /\ p.name \in DOMAIN files
            IN  /\ put' = IF written THEN Append(put, rec) ELSE put
                /\ torn' = (torn \/ halfway \/ \E q \in Procs : pc[q] = "rename")
                /\ exposed' = exposed
                       \cup (IF written /\ torn THEN {rec} ELSE {})
                       \cup (IF stale THEN UpTo(p.name) ELSE {})
    <2>1. /\ {posFile} \cup (IF pc["get"] = "commit" THEN {Position(NoName, 0)} ELSE {}) = {posFile}
          /\ (IF pc["put"] = "data" THEN 0..LenOf[rec] ELSE {0}) = {0}
        BY <1>2
    <2>. QED  BY <2>1 DEF Restart
<1>4. Open(data, posFile) /\ put' = put /\ torn' = (torn \/ FALSE) /\ exposed' = exposed
    BY <1>2, <1>3
<1>5. UNCHANGED <<data, files, got>>
    BY <1>4 DEF Open, Restart
<1>. QED  BY <1>1, <1>4, <1>5

\* The new process goes on where the old one was.
LEMMA RestartReading ==
    ASSUME Inv, Sound, Reading, StopsBetween, Restart PROVE Sound' /\ Reading' /\ Reachable' \subseteq Reachable
<1>1. /\ \A q \in Procs : pc[q] = "idle" /\ pc'[q] = "idle"
      /\ Open(data, posFile) /\ UNCHANGED <<data, files, put, got, exposed>> /\ torn' = (torn \/ FALSE)
    BY StopsIdle
<1>2. Sound'
    <2>1. torn = FALSE
        BY DEF Sound, Inv, Typed
    <2>2. torn' = FALSE
        BY <1>1, <2>1
    <2>3. Fewer
        BY <1>1 DEF Fewer
    <2>. QED  BY <1>1, <2>1, <2>2, <2>3, SoundStays
<1>3. pc["get"] = "idle" /\ pc'["get"] = "idle"
    BY <1>1 DEF Procs
<1>4. Base = rfd.off /\ ReadOff = rfd.off /\ Base' = rfd'.off /\ ReadOff' = rfd'.off
    BY <1>3 DEF Base, ReadOff
<1>5. PICK p : p = posFile
    OBVIOUS
<1>6. dataFiles' = DOMAIN files /\ LoadUnfinishedFile(p)
    BY <1>1, <1>5 DEF Open
<1>7. CASE p.name \in DOMAIN files /\ p.seek > 0 /\ rfd' = Fd(p.name, p.seek) /\ curReadfile' = p.name /\ pos' = p
    <2>1. rfd.name = p.name /\ curReadfile = p.name /\ pos = p /\ rfd.name # NoName
        BY <1>3, <1>5, <1>7, GoesOn
    <2>2. rfd'.name = rfd.name /\ rfd'.off = p.seek
        BY <1>7, <2>1, SMT DEF Fd
    <2>3. p.seek = Base /\ Base < Len(files[rfd.name])
        BY <2>1 DEF Reading
    <2>4. Reading'
        BY <1>1, <1>3, <1>4, <1>7, <2>2, <2>3, ReadsAt
    <2>5. ASSUME NEW s \in Reachable' PROVE s \in Reachable
        <3>1. CASE s \in RecordsFrom(data', 0)
            BY <1>1, <3>1, ReachableIs
        <3>2. CASE rfd'.name # NoName /\ s \in RecordsFrom(files'[rfd'.name], ReadOff')
            BY <1>1, <1>4, <2>1, <2>2, <2>3, <3>2, ReachableIs
        <3>3. ASSUME NEW n \in (dataFiles' \cap DOMAIN files') \ {curReadfile'}, s \in RecordsFrom(files'[n], 0)
              PROVE  s \in Reachable
            <4>1. n \in DOMAIN files /\ n # curReadfile /\ s \in RecordsFrom(files[n], 0)
                BY <1>1, <1>7, <2>1, <3>3
            <4>2. n \in dataFiles
                BY <4>1 DEF Inv, Listed, AtRisk, Sound
            <4>. QED  BY <4>1, <4>2, ReachableIs
        <3>. QED  BY <2>5, <3>1, <3>2, <3>3, ReachableIs
    <2>. QED  BY <1>2, <2>4, <2>5
<1>8. CASE (p.name \in DOMAIN files => p.seek <= 0) /\ rfd' = NilFd /\ curReadfile' = NoName
    <2>1. rfd'.name = NoName
        BY <1>8, SMT DEF NilFd, Fd
    <2>2. Reading'
        BY <2>1 DEF Reading
    <2>3. ASSUME NEW s \in Reachable' PROVE s \in Reachable
        <3>1. CASE s \in RecordsFrom(data', 0)
            BY <1>1, <3>1, ReachableIs
        <3>2. ASSUME NEW n \in (dataFiles' \cap DOMAIN files') \ {curReadfile'}, s \in RecordsFrom(files'[n], 0)
              PROVE  s \in Reachable
            <4>1. n \in DOMAIN files /\ s \in RecordsFrom(files[n], 0)
                BY <1>1, <3>2
            <4>2. n \in dataFiles
                BY <4>1 DEF Inv, Listed, AtRisk, Sound
            <4>3. CASE n # curReadfile
                BY <4>1, <4>2, <4>3, ReachableIs
            <4>4. CASE n = curReadfile
                <5>1. rfd.name # NoName /\ rfd.name = n /\ posFile = pos /\ pos.name = n
                    BY <4>1, <4>4 DEF Inv, Listed
                <5>2. Base <= 0 /\ Base \in Nat
                    <6>1. p.seek <= 0
                        BY <1>5, <1>8, <4>1, <5>1
                    <6>2. Base \in Nat /\ pos.seek = Base
                        BY <5>1, StandsAt DEF Stands
                    <6>. QED  BY <1>5, <5>1, <6>1, <6>2
                <5>3. ReadOff = 0
                    BY <1>4, <5>2, SMT
                <5>. QED  BY <4>1, <5>1, <5>3, ReachableIs
            <4>. QED  BY <4>3, <4>4
        <3>. QED  BY <2>1, <2>3, <3>1, <3>2, ReachableIs
    <2>. QED  BY <1>2, <2>2, <2>3
<1>. QED  BY <1>6, <1>7, <1>8 DEF LoadUnfinishedFile

\* A step that hands out nothing keeps what was handed out.
LEMMA DeliveredKept ==
    ASSUME Inv, Sound', Delivered, NEW x, Grows(x), UNCHANGED got, Narrows PROVE Delivered'
<1>1. /\ Len(put) \in Nat /\ DOMAIN put = 1..Len(put)
      /\ DOMAIN put \subseteq DOMAIN put' /\ \A i \in DOMAIN put : put'[i] = put[i]
    BY GrowsIs DEF Inv
<1>2. Len(got) \in Nat /\ DOMAIN got = 1..Len(got) /\ put' \in Seq(Records)
    <2>1. got \in Seq(Records \cup {NoRecord}) /\ put \in Seq(Records)
        BY DEF Inv, Typed
    <2>2. ASSUME NEW y \in Records PROVE Append(put, y) \in Seq(Records)
        BY <2>1, SMT
    <2>3. Len(got) \in Nat /\ DOMAIN got = 1..Len(got)
        BY <2>1, SMT
    <2>. QED  BY <2>1, <2>2, <2>3 DEF Grows
<1>3. DOMAIN got \subseteq DOMAIN put
    <2>1. Len(got) <= Len(put)
        BY DEF Delivered
    <2>. QED  BY <1>1, <1>2, <2>1, SMT
<1>4. Len(got') <= Len(put')
    <2>1. Len(put) <= Len(put')
        <3>1. put \in Seq(Records) /\ (put' = put \/ (x \in Records /\ put' = Append(put, x)))
            BY DEF Inv, Typed, Grows
        <3>. QED  BY <3>1, SMT
    <2>2. Len(got) <= Len(put) /\ Len(put') \in Nat
        BY <1>2, SMT DEF Delivered
    <2>. QED  BY <1>1, <1>2, <2>1, <2>2, SMT
<1>5. \A i \in DOMAIN got' : got'[i] = put'[i]
    BY <1>1, <1>3 DEF Delivered
<1>6. ASSUME NEW s \in Range(got'), s \in Reachable' PROVE FALSE
    <2>1. s \in Range(got) /\ s \in Range(put)
        BY <1>3, <1>6 DEF Range, Delivered
    <2>2. s \notin exposed'
        BY DEF Sound
    <2>. QED  BY <1>6, <2>1, <2>2 DEF Narrows, Delivered
<1>. QED  BY <1>4, <1>5, <1>6 DEF Delivered

\* Get hands out the first record that it has not handed out.
LEMMA CallbackDelivers ==
    ASSUME Inv, Ordered, HandedOut', QuietInv, CallbackOK
    PROVE  /\ Delivered' /\ Len(got) + 1 \in DOMAIN put /\ got' = Append(got, put[Len(got) + 1])
<1>1. /\ pc["get"] = "callback" /\ got' = Append(got, item) /\ UNCHANGED <<put, exposed>>
      /\ UNCHANGED <<data, files, dataFiles, curReadfile, rfd>> /\ Goto("get", "commit") /\ UNCHANGED nbytes
    BY DEF CallbackOK, disk, mem, locals
<1>2. rfd.name # NoName /\ rfd.name \in DOMAIN files
    BY <1>1 DEF Inv, Listed
<1>3. PICK c : c = files[rfd.name]
    OBVIOUS
<1>4. PICK b \in Nat : b = Base /\ b + 1 \in DOMAIN c /\ Complete(c, b + 1) /\ c[b + 1].rec \in Records /\ b < Len(c) - 1
    <2>1. PICK d : \E b \in Nat, e \in Nat : Stands(d, b, e)
        BY <1>2, StandsAt DEF QuietInv
    <2>2. PICK b \in Nat, e \in Nat :
            /\ d = files[rfd.name] /\ b = Base /\ e + 1 = Len(d) /\ b < e
            /\ b + 1 \in DOMAIN d /\ Complete(d, b + 1) /\ d[b + 1].rec \in Records
        BY <1>1, <2>1 DEF Stands
    <2>3. Len(d) - 1 = e
        BY <2>2, SMT
    <2>. QED  BY <1>3, <2>2, <2>3
<1>5. item = c[b + 1].rec
    <2>1. InStep(c, Len(c) - 1)
        BY <1>2, <1>3, QuietFile DEF QuietInv
    <2>. QED  BY <1>1, <1>4, <2>1 DEF InStep
<1>6. item \in Records /\ item # NoRecord /\ item \in Range(put)
    BY <1>1, <1>4, <1>5, Constants, Foremost
<1>7. nbytes \in Nat /\ b + 1 + nbytes = rfd.off
    <2>1. Base + 1 + nbytes = rfd.off
        BY <1>1, <1>6, Foremost
    <2>. QED  BY <1>4, <2>1 DEF Inv, Typed
<1>8. ReadOff = b /\ ReadOff' = rfd.off
    <2>1. pc'["get"] = "commit"
        BY <1>1, GotoIs DEF Inv, Procs, GetLabels
    <2>2. ReadOff = Base
        BY <1>1 DEF ReadOff, Base
    <2>3. ReadOff' = rfd'.off
        BY <2>1 DEF ReadOff
    <2>. QED  BY <1>1, <1>4, <2>2, <2>3
<1>9. item \in Reachable
    <2>1. b + 1 > b
        BY SMT
    <2>2. item \in RecordsFrom(c, b)
        BY <1>4, <1>5, <2>1 DEF RecordsFrom
    <2>. QED  BY <1>2, <1>3, <1>8, <2>2, ReachableIs
<1>10. item \notin Range(got)
    BY <1>9 DEF QuietInv, Delivered
<1>11. Reachable' \subseteq Reachable
    <2>1. b \in Int /\ rfd.off \in Int /\ b <= rfd.off
        BY <1>7, SMT
    <2>2. Typed
        BY DEF Inv
    <2>. QED  BY <1>1, <1>2, <1>8, <2>1, <2>2, Narrower
<1>12. PICK m \in Nat, k \in Nat :
          /\ m = Len(got) /\ k = Len(put) /\ DOMAIN got = 1..m /\ DOMAIN put = 1..k /\ m <= k
          /\ DOMAIN got' = 1..(m + 1) /\ got'[m + 1] = item /\ Len(got') = m + 1
          /\ \A i \in 1..m : got'[i] = got[i]
    <2>1. /\ got \in Seq(Records \cup {NoRecord}) /\ put \in Seq(Records) /\ got' = Append(got, item)
          /\ item \in Records \cup {NoRecord}
        BY <1>1 DEF Inv, Typed
    <2>2. /\ Len(got) \in Nat /\ Len(put) \in Nat /\ DOMAIN got = 1..Len(got) /\ DOMAIN put = 1..Len(put)
          /\ DOMAIN got' = 1..(Len(got) + 1) /\ got'[Len(got) + 1] = item /\ Len(got') = Len(got) + 1
          /\ \A i \in 1..Len(got) : got'[i] = got[i]
        BY <2>1, SMT
    <2>3. Len(got) <= Len(put)
        BY DEF QuietInv, Delivered
    <2>. QED  BY <2>2, <2>3
<1>13. \A i \in 1..m : got[i] = put[i]
    BY <1>12 DEF QuietInv, Delivered
<1>14. PICK j \in 1..k : put[j] = item
    BY <1>6, <1>12 DEF Range
<1>15. j \notin 1..m
    BY <1>10, <1>12, <1>13, <1>14 DEF Range
<1>16. ~(m + 1 < j)
    <2>1. SUFFICES ASSUME m + 1 < j PROVE FALSE
        OBVIOUS
    <2>2. m + 1 \in 1..k /\ m + 1 \in 1..(m + 1) /\ (m + 1) - 1 = m /\ m + 1 \notin 1..m
        BY <1>12, <1>14, <2>1, SMT
    <2>3. put'[m + 1] \notin exposed' /\ put'[j] \notin exposed'
        BY <1>1 DEF QuietInv, Sound
    <2>4. PICK l \in 1..((m + 1) - 1) : got'[l] = put'[m + 1]
        <3>1. /\ m + 1 \in DOMAIN put' /\ j \in DOMAIN put' /\ m + 1 \in DOMAIN got'
              /\ got'[m + 1] = put'[j]
            BY <1>1, <1>12, <1>14, <2>2
        <3>2. \A y \in DOMAIN got' : got'[y] = put'[j] => \E l \in 1..(y - 1) : got'[l] = put'[m + 1]
            BY <2>1, <2>3, <3>1 DEF HandedOut
        <3>. QED  BY <3>1, <3>2
    <2>5. l \in 1..m /\ l \in 1..k /\ l # m + 1
        BY <1>12, <2>2, <2>4, SMT
    <2>6. put[l] = put[m + 1]
        BY <1>1, <1>12, <1>13, <2>4, <2>5
    <2>. QED  BY <1>12, <2>2, <2>5, <2>6 DEF Ordered, PutOnce, IsInjective
<1>17. j = m + 1 /\ m + 1 <= k
    BY <1>12, <1>14, <1>15, <1>16, SMT
<1>18. Len(got') <= Len(put') /\ \A i \in DOMAIN got' : got'[i] = put'[i]
    <2>1. \A i \in 1..(m + 1) : i \in 1..m \/ i = m + 1
        BY SMT
    <2>. QED  BY <1>1, <1>12, <1>13, <1>14, <1>17, <2>1
<1>19. ASSUME NEW s \in Range(got'), s \in Reachable' PROVE FALSE
    <2>1. s = item \/ s \in Range(got)
        <3>1. \A i \in 1..(m + 1) : i \in 1..m \/ i = m + 1
            BY SMT
        <3>. QED  BY <1>12, <1>19, <3>1 DEF Range
    <2>2. s = item
        BY <1>11, <1>19, <2>1 DEF QuietInv, Delivered
    <2>3. Before(item, s)
        BY <1>1, <1>6, <1>19, <2>2, ReachableLater DEF Sorted, QuietInv, Sound
    <2>. QED  BY <2>2, <2>3, BeforeStrict DEF Inv, Ordered, PutOnce
<1>. QED  BY <1>1, <1>12, <1>14, <1>17, <1>18, <1>19 DEF Delivered

\* Every step keeps the queue in order.
LEMMA NextQuiet ==
    ASSUME Inv, Inv', Ordered, Ordered', HandedOut', Grows(rec), QuietInv, StopsBetween, Next
    PROVE  QuietInv'
<1>1. ~DropBatch /\ ~PutDataFails
    BY DEF DropBatch, PutDataFails, Inv, Locked, StopsBetween
<1>2. CASE Restart
    <2>1. Sound' /\ Reading' /\ Reachable' \subseteq Reachable
        BY <1>2, RestartReading DEF QuietInv
    <2>2. UNCHANGED <<put, got>>
        BY <1>2, StopsIdle
    <2>3. Delivered'
        BY <2>1, <2>2 DEF QuietInv, Delivered
    <2>. QED  BY <2>1, <2>3 DEF QuietInv
<1>3. CASE ~Restart
    <2>1. Sound'
        BY <1>1, <1>3, PutSound, RotateSound, GetSound DEF QuietInv, Next, PutNext, GetNext, Procs
    <2>2. Reading'
        BY <1>1, <1>3, WriterReading, SwitchReading, HeaderReading, PayloadReading, CallbackReading
           DEF QuietInv, Next, PutNext, GetNext, Procs
    <2>3. CASE CallbackOK
        BY <2>1, <2>2, <2>3, CallbackDelivers DEF QuietInv
    <2>4. CASE ~CallbackOK
        <3>1. UNCHANGED got /\ Narrows
            BY <1>3, <2>4, OnlyThere, NextNarrows
        <3>2. PICK x : x = rec
            OBVIOUS
        <3>3. Delivered'
            BY <2>1, <3>1, <3>2, DeliveredKept DEF QuietInv
        <3>. QED  BY <2>1, <2>2, <3>3 DEF QuietInv
    <2>. QED  BY <2>3, <2>4
<1>. QED  BY <1>2, <1>3

\* At first there is nothing.
LEMMA InitQuiet == ASSUME Init PROVE QuietInv
<1>1. DOMAIN files = {} /\ DOMAIN put = {} /\ DOMAIN got = {} /\ Len(put) = 0 /\ Len(got) = 0
    BY EmptyFile, SMT DEF Init
<1>2. rfd.name = NoName
    BY SMT DEF Init, NilFd, Fd
<1>3. ~torn /\ exposed = {} /\ \A q \in Procs : pc[q] = "idle"
    BY DEF Init
<1>4. 0 <= 0
    BY SMT
<1>. QED  BY <1>1, <1>2, <1>3, <1>4 DEF QuietInv, Sound, Reading, Delivered, Range

\* All that the theorems about the queue rest on.
QueueInv == Inv /\ Ordered /\ HandedOut /\ QuietInv

\* It is inductive.
LEMMA QueueHolds ==
    ASSUME Refuses, BufferSuffices, StopsBetween
    PROVE  /\ Init => QueueInv
           /\ QueueInv /\ Next => QueueInv' /\ Grows(rec)
           /\ QueueInv /\ UNCHANGED vars => QueueInv'
<1>1. Init => QueueInv
    BY InitHolds, InitOrdered, InitQuiet DEF QueueInv
<1>2. ASSUME QueueInv, Next PROVE QueueInv' /\ Grows(rec)
    <2>1. Inv'
        BY <1>2, NextKeeps DEF QueueInv
    <2>2. Ordered' /\ Grows(rec) /\ exposed \subseteq exposed'
        BY <1>2, <2>1, NextOrders DEF QueueInv
    <2>3. HandedOut'
        BY <1>2, <2>2, NextHands DEF QueueInv
    <2>4. QuietInv'
        BY <1>2, <2>1, <2>2, <2>3, NextQuiet DEF QueueInv
    <2>. QED  BY <2>1, <2>2, <2>3, <2>4 DEF QueueInv
<1>3. ASSUME QueueInv, UNCHANGED vars PROVE QueueInv'
    <2>1. Inv' /\ Ordered' /\ HandedOut'
        BY <1>3, StutterKeeps, StutterOrders DEF QueueInv
    <2>2. UNCHANGED <<data, files, rfd, pos, dataFiles, curReadfile, nbytes, pc, put, got, torn, exposed>>
        BY <1>3 DEF vars, disk, mem, locals, history
    <2>3. Base' = Base /\ Reachable' = Reachable
        BY <2>2, SMT DEF Base, Reachable, ReadOff
    <2>4. Sound' /\ Reading' /\ Delivered'
        BY <1>3, <2>2, <2>3 DEF QueueInv, QuietInv, Sound, Reading, Delivered
    <2>. QED  BY <2>1, <2>4 DEF QueueInv, QuietInv
<1>. QED  BY <1>1, <1>2, <1>3

\* No record is handed out twice while the process stops only between two
\* calls, for any records, sizes and number of restarts: what get.go has handed
\* to the callback is the first part of what put.go wrote, and Get is behind it.
THEOREM HandsOutOnce == ASSUME Refuses, BufferSuffices, StopsBetween PROVE Spec => []ConsumedOnce
<1>1. Init => QueueInv
    BY QueueHolds
<1>2. QueueInv /\ [Next]_vars => QueueInv'
    BY QueueHolds
<1>3. QueueInv => ConsumedOnce
    <2>. SUFFICES ASSUME QueueInv, NEW i \in DOMAIN got, NEW j \in DOMAIN got, got[i] = got[j] PROVE i = j
        BY DEF ConsumedOnce
    <2>1. put \in Seq(Records) /\ got \in Seq(Records \cup {NoRecord}) /\ Len(got) <= Len(put)
        BY DEF QueueInv, QuietInv, Delivered, Inv, Typed
    <2>2. i \in DOMAIN put /\ j \in DOMAIN put
        BY <2>1, SMT
    <2>3. put[i] = put[j]
        BY DEF QueueInv, QuietInv, Delivered
    <2>. QED  BY <2>2, <2>3 DEF QueueInv, Ordered, PutOnce, IsInjective
<1>. QED  BY <1>1, <1>2, <1>3, PTL DEF Spec

\* A record that Get has passed is nowhere ahead of it.
LEMMA PassedIsGone ==
    ASSUME QueueInv, NEW f \in DOMAIN files, f = rfd.name, NEW c, c = files[f],
           NEW r, r \in RecordsFrom(c, 0), r \notin RecordsFrom(c, ReadOff)
    PROVE  r \in Range(got)
<1>1. PICK i \in Starts(c) : c[i].rec = r
    BY DEF RecordsFrom, Starts
<1>2. r \in Range(put) /\ exposed = {} /\ dropped = {} /\ Typed /\ IsInjective(put)
    BY <1>1 DEF QueueInv, Ordered, PutOnce, QuietInv, Sound, HandedOut, Inv
<1>3. ~Before(r, r) /\ ~Sorted(r, r)
    BY <1>2, BeforeStrict DEF Sorted
<1>4. r \notin RecordsFrom(data, 0)
    <2>1. SUFFICES ASSUME NEW h \in Starts(data), data[h].rec = r PROVE FALSE
        BY DEF RecordsFrom, Starts
    <2>2. CASE Pending(h)
        <3>1. data[h] = Hdr(rec) /\ rec \notin Range(put)
            BY <2>2 DEF Pending, QueueInv, Inv, WriteFile, Ordered, PutOnce
        <3>2. Hdr(rec).rec = rec
            BY SMT DEF Hdr
        <3>. QED  BY <1>2, <2>1, <3>1, <3>2
    <2>3. CASE ~Pending(h)
        BY <1>1, <1>3, <2>1, <2>3 DEF QueueInv, Ordered, Written
    <2>. QED  BY <2>2, <2>3
<1>5. ASSUME NEW n \in (dataFiles \cap DOMAIN files) \ {curReadfile} PROVE r \notin RecordsFrom(files[n], 0)
    <2>1. SUFFICES ASSUME NEW h \in Starts(files[n]), files[n][h].rec = r PROVE FALSE
        BY DEF RecordsFrom, Starts
    <2>2. n # f
        <3>1. f # NoName
            BY SMT DEF QueueInv, Inv, Typed, NoName
        <3>. QED  BY <1>5, <3>1 DEF QueueInv, Inv, Listed
    <2>3. n < f \/ f < n
        BY <1>5, <2>2, SMT DEF QueueInv, Inv, Typed
    <2>4. CASE n < f
        BY <1>1, <1>3, <1>5, <2>1, <2>4, ZenonT(40) DEF QueueInv, Ordered
    <2>5. CASE f < n
        BY <1>1, <1>3, <1>5, <2>1, <2>5, ZenonT(40) DEF QueueInv, Ordered
    <2>. QED  BY <2>3, <2>4, <2>5
<1>6. r \notin Reachable
    BY <1>4, <1>5, ReachableIs
<1>. QED  BY <1>2, <1>6 DEF QueueInv, Inv, NoRecordLost

\* Between two Gets .pos names the beginning of a record, or the EOF, of the
\* file that Get reads, and all records before that place have been handed out
\* (pos.go, loadUnfinishedFile): for any records, sizes and number of restarts.
THEOREM PositionRecoverable == ASSUME Refuses, BufferSuffices, StopsBetween PROVE Spec => []RecoverablePosition
<1>1. Init => QueueInv
    BY QueueHolds
<1>2. QueueInv /\ [Next]_vars => QueueInv'
    BY QueueHolds
<1>3. QueueInv => RecoverablePosition
    <2>. SUFFICES ASSUME QueueInv, pc["get"] = "idle", posFile.name \in DOMAIN files, posFile.seek > 0,
                         NEW d, d = files[posFile.name]
                  PROVE  /\ posFile.seek < Len(d) /\ d[posFile.seek + 1].kind # "pay"
                         /\ RecordsFrom(d, 0) \ RecordsFrom(d, posFile.seek) \subseteq Range(got)
        BY DEF RecoverablePosition
    <2>1. rfd.name = posFile.name /\ pos = posFile /\ rfd.name # NoName
        <3>1. PICK p : p = posFile
            OBVIOUS
        <3>. QED  BY <3>1, GoesOn DEF QueueInv
    <2>2. PICK c : \E b \in Nat, e \in Nat : Stands(c, b, e)
        BY <2>1, StandsAt DEF QueueInv, QuietInv
    <2>3. PICK b \in Nat, e \in Nat :
            /\ c = files[rfd.name] /\ b = Base /\ e + 1 = Len(c) /\ b <= e /\ c[e + 1] = EOFHint
            /\ pos.seek = b /\ (b < e => c[b + 1].kind = "hdr")
        BY <2>2 DEF Stands
    <2>4. b < Len(c) /\ (b < e \/ b = e)
        BY <2>3, SMT
    <2>5. c[b + 1].kind # "pay"
        BY <2>3, <2>4, EOFCell
    <2>6. ReadOff = b
        BY <2>3 DEF ReadOff, Base
    <2>7. RecordsFrom(c, 0) \ RecordsFrom(c, b) \subseteq Range(got)
        BY <2>1, <2>3, <2>6, PassedIsGone
    <2>. QED  BY <2>1, <2>3, <2>4, <2>5, <2>7
<1>. QED  BY <1>1, <1>2, <1>3, PTL DEF Spec

\* Two sequences with the same elements.
LEMMA SameSeq ==
    ASSUME NEW S, NEW s \in Seq(S), NEW t \in Seq(S), Len(s) = Len(t), \A i \in 1..Len(s) : s[i] = t[i]
    PROVE  s = t
BY SMT

\* All but the first element.
LEMMA Tailed ==
    ASSUME NEW S, NEW s \in Seq(S), s # <<>>
    PROVE  /\ Tail(s) \in Seq(S) /\ Len(Tail(s)) = Len(s) - 1
           /\ \A i \in 1..Len(Tail(s)) : Tail(s)[i] = s[i + 1]
<1>1. Tail(s) \in Seq(S) /\ Len(Tail(s)) = Len(s) - 1
    BY SMT
<1>2. \A i \in 1..Len(Tail(s)) : Tail(s)[i] = s[i + 1]
    BY SMT
<1>. QED  BY <1>1, <1>2

\* What is left of a sequence when its first element is taken.
LEMMA RestTaken ==
    ASSUME NEW S, NEW s \in Seq(S), NEW m \in Nat, m + 1 <= Len(s)
    PROVE  LET q == SubSeq(s, m + 1, Len(s))
           IN  q # <<>> /\ Head(q) = s[m + 1] /\ Tail(q) = SubSeq(s, (m + 1) + 1, Len(s))
<1>1. PICK k \in Nat : k = Len(s)
    BY SMT
<1>2. PICK q : q = SubSeq(s, m + 1, k)
    OBVIOUS
<1>3. PICK t : t = SubSeq(s, (m + 1) + 1, k)
    OBVIOUS
<1>4. /\ q \in Seq(S) /\ Len(q) = k - m /\ \A i \in 1..(k - m) : q[i] = s[m + i]
    BY <1>1, <1>2, SMT
<1>5. /\ t \in Seq(S) /\ Len(t) = k - m - 1 /\ \A i \in 1..(k - m - 1) : t[i] = s[m + 1 + i]
    BY <1>1, <1>3, SMT
<1>6. q # <<>> /\ Head(q) = s[m + 1]
    BY <1>1, <1>4, SMT
<1>7. /\ Tail(q) \in Seq(S) /\ Len(Tail(q)) = k - m - 1
      /\ \A i \in 1..(k - m - 1) : Tail(q)[i] = q[i + 1]
    <2>1. /\ Tail(q) \in Seq(S) /\ Len(Tail(q)) = Len(q) - 1
          /\ \A i \in 1..Len(Tail(q)) : Tail(q)[i] = q[i + 1]
        BY <1>4, <1>6, Tailed
    <2>2. Len(Tail(q)) = k - m - 1
        BY <1>4, <2>1
    <2>. QED  BY <2>1, <2>2
<1>8. \A i \in 1..(k - m - 1) : q[i + 1] = s[m + 1 + i]
    BY <1>1, <1>4, SMT
<1>9. PICK u \in Seq(S) : u = Tail(q)
    BY <1>7
<1>10. Len(u) = Len(t) /\ \A i \in 1..Len(u) : u[i] = t[i]
    BY <1>5, <1>7, <1>8, <1>9
<1>11. u = t
    BY <1>5, <1>10, SameSeq
<1>. QED  BY <1>1, <1>2, <1>3, <1>6, <1>9, <1>11

\* What is left of a sequence that an element is appended to.
LEMMA RestGrows ==
    ASSUME NEW S, NEW s \in Seq(S), NEW m \in Nat, m <= Len(s), NEW x \in S
    PROVE  SubSeq(Append(s, x), m + 1, Len(Append(s, x))) = Append(SubSeq(s, m + 1, Len(s)), x)
<1>1. PICK k \in Nat : k = Len(s)
    BY SMT
<1>2. PICK a \in Seq(S) : a = Append(s, x)
    <2>1. Append(s, x) \in Seq(S)
        BY SMT
    <2>. QED  BY <2>1
<1>3. Len(a) = k + 1 /\ a[k + 1] = x /\ \A i \in 1..k : a[i] = s[i]
    BY <1>1, <1>2, SMT
<1>4. PICK q \in Seq(S) : q = SubSeq(s, m + 1, k) /\ Len(q) = k - m /\ \A i \in 1..(k - m) : q[i] = s[m + i]
    <2>1. LET q == SubSeq(s, m + 1, k)
          IN  q \in Seq(S) /\ Len(q) = k - m /\ \A i \in 1..(k - m) : q[i] = s[m + i]
        BY <1>1, SMT
    <2>. QED  BY <2>1
<1>5. PICK t \in Seq(S) : t = SubSeq(a, m + 1, k + 1) /\ Len(t) = (k + 1) - m /\ \A i \in 1..((k + 1) - m) : t[i] = a[m + i]
    <2>1. LET t == SubSeq(a, m + 1, k + 1)
          IN  t \in Seq(S) /\ Len(t) = (k + 1) - m /\ \A i \in 1..((k + 1) - m) : t[i] = a[m + i]
        BY <1>1, <1>3, SMT
    <2>. QED  BY <2>1
<1>6. PICK u \in Seq(S) : u = Append(q, x) /\ Len(u) = (k - m) + 1 /\ u[(k - m) + 1] = x /\ \A i \in 1..(k - m) : u[i] = q[i]
    <2>1. LET u == Append(q, x)
          IN  u \in Seq(S) /\ Len(u) = (k - m) + 1 /\ u[(k - m) + 1] = x /\ \A i \in 1..(k - m) : u[i] = q[i]
        BY <1>4, SMT
    <2>. QED  BY <2>1
<1>7. Len(t) = Len(u) /\ \A i \in 1..Len(t) : t[i] = u[i]
    <2>1. PICK d \in Nat : d = k - m /\ d + 1 = (k + 1) - m /\ m + (d + 1) = k + 1 /\ \A i \in 1..d : m + i \in 1..k
        <3>1. /\ k - m \in Nat /\ (k - m) + 1 = (k + 1) - m /\ m + ((k - m) + 1) = k + 1
              /\ \A i \in 1..(k - m) : m + i \in 1..k
            BY <1>1, SMT
        <3>. QED  BY <3>1
    <2>2. \A i \in 1..(d + 1) : i \in 1..d \/ i = d + 1
        BY SMT
    <2>3. ASSUME NEW i \in 1..(d + 1) PROVE t[i] = u[i]
        <3>1. /\ t[i] = a[m + i] /\ u[d + 1] = x /\ a[m + (d + 1)] = x
              /\ i \in 1..d => u[i] = q[i] /\ q[i] = s[m + i] /\ m + i \in 1..k
            BY <1>3, <1>4, <1>5, <1>6, <2>1
        <3>2. CASE i \in 1..d
            BY <1>3, <3>1, <3>2
        <3>3. CASE i = d + 1
            BY <3>1, <3>3
        <3>. QED  BY <2>2, <3>2, <3>3
    <2>. QED  BY <1>5, <1>6, <2>1, <2>3
<1>8. t = u
    BY <1>7, SameSeq
<1>. QED  BY <1>1, <1>2, <1>3, <1>4, <1>5, <1>6, <1>8

\* While the process stops only between two calls, a cache that refuses data
\* when it is full is a FIFO queue, for any records and sizes: put.go appends to
\* it, the callback of get.go takes its first record, and rotate, switch, remove
\* and a new Open change nothing of it.
THEOREM IsQueue == ASSUME Refuses, BufferSuffices, StopsBetween PROVE Spec => Queue!Spec
<1>1. Init => QueueInv
    BY QueueHolds
<1>2. QueueInv /\ [Next]_vars => QueueInv'
    BY QueueHolds
<1>3. Init => Queue!Init
    <2>1. ASSUME put = <<>>, got = <<>> PROVE SubSeq(put, Len(got) + 1, Len(put)) = <<>>
        BY <2>1, SMT
    <2>. QED  BY <2>1 DEF Init, Queue!Init
<1>4. QueueInv /\ [Next]_vars => [Queue!Next]_<<SubSeq(put, Len(got) + 1, Len(put)), got>>
    <2>. SUFFICES ASSUME QueueInv, [Next]_vars
                  PROVE  [Queue!Next]_<<SubSeq(put, Len(got) + 1, Len(put)), got>>
        OBVIOUS
    <2>1. put \in Seq(Records) /\ Len(got) \in Nat /\ Len(got) <= Len(put)
        <3>1. got \in Seq(Records \cup {NoRecord}) /\ put \in Seq(Records)
            BY DEF QueueInv, Inv, Typed
        <3>2. Len(got) \in Nat
            BY <3>1, SMT
        <3>. QED  BY <3>1, <3>2 DEF QueueInv, QuietInv, Delivered
    <2>2. PICK m \in Nat : m = Len(got)
        BY <2>1
    <2>3. CASE UNCHANGED <<put, got>>
        BY <2>3
    <2>4. CASE CallbackOK
        <3>1. UNCHANGED put /\ m + 1 \in DOMAIN put /\ got' = Append(got, put[m + 1])
            <4>1. HandedOut'
                BY <1>2 DEF QueueInv
            <4>. QED  BY <2>2, <2>4, <4>1, CallbackDelivers DEF QueueInv, CallbackOK
        <3>2. m + 1 <= Len(put)
            BY <2>1, <3>1, SMT
        <3>3. PICK q : q = SubSeq(put, m + 1, Len(put))
            OBVIOUS
        <3>4. q # <<>> /\ Head(q) = put[m + 1] /\ Tail(q) = SubSeq(put, (m + 1) + 1, Len(put))
            BY <2>1, <3>2, <3>3, RestTaken
        <3>5. Len(got') = m + 1
            <4>1. got \in Seq(Records \cup {NoRecord}) /\ put[m + 1] \in Records
                <5>1. put[m + 1] \in Records
                    BY <2>1, <3>1, SMT
                <5>. QED  BY <5>1 DEF QueueInv, Inv, Typed
            <4>. QED  BY <2>2, <3>1, <4>1, SMT
        <3>6. SubSeq(put', Len(got') + 1, Len(put')) = Tail(q)
            BY <3>1, <3>4, <3>5
        <3>7. Queue!Take
            BY <2>2, <3>1, <3>3, <3>4, <3>6 DEF Queue!Take
        <3>. QED  BY <3>7 DEF Queue!Next
    <2>5. CASE ~CallbackOK /\ ~UNCHANGED <<put, got>>
        <3>1. Next
            BY <2>5 DEF vars, history
        <3>2. UNCHANGED got
            BY <2>5, <3>1, OnlyThere DEF QueueInv, Restart
        <3>3. PICK x \in Records : put' = Append(put, x)
            <4>1. Grows(rec)
                BY <3>1, QueueHolds
            <4>. QED  BY <2>5, <3>2, <4>1 DEF Grows
        <3>4. SubSeq(Append(put, x), m + 1, Len(Append(put, x))) = Append(SubSeq(put, m + 1, Len(put)), x)
            BY <2>1, <2>2, RestGrows
        <3>5. Queue!Put(x)
            BY <2>2, <3>2, <3>3, <3>4 DEF Queue!Put
        <3>. QED  BY <3>5 DEF Queue!Next
    <2>. QED  BY <2>3, <2>4, <2>5
<1>. QED  BY <1>1, <1>2, <1>3, <1>4, PTL DEF Spec, Queue!Spec

\* That queue is on the disk: what was put and not handed out is just what Get
\* can still reach of it, in the files of its list and the write file.
THEOREM QueueOnDisk ==
    ASSUME Refuses, BufferSuffices, StopsBetween
    PROVE  Spec => [](Range(put) \cap Reachable = Range(put) \ Range(got))
<1>1. Init => QueueInv
    BY QueueHolds
<1>2. QueueInv /\ [Next]_vars => QueueInv'
    BY QueueHolds
<1>3. QueueInv => (Range(put) \cap Reachable = Range(put) \ Range(got))
    <2>1. ASSUME QueueInv, NEW s \in Range(put) PROVE s \in Reachable <=> s \notin Range(got)
        <3>1. dropped = {} /\ exposed = {}
            BY <2>1 DEF QueueInv, HandedOut, QuietInv, Sound
        <3>. QED  BY <2>1, <3>1 DEF QueueInv, Inv, NoRecordLost, QuietInv, Delivered
    <2>. QED  BY <2>1
<1>. QED  BY <1>1, <1>2, <1>3, PTL DEF Spec

=============================================================================

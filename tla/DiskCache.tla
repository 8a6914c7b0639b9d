----------------------------- MODULE DiskCache -----------------------------
(***************************************************************************)
(* The on-disk FIFO of cliutils/diskcache: a directory with one write file *)
(* `data`, rotated files data.0, data.1, ... that are read in order, and a *)
(* `.pos` file that remembers how far the oldest one was read.  Writers    *)
(* are serialised by wlock and readers by rlock, so one writer process and *)
(* one reader process that repeat Put and Get stand for all of them; the   *)
(* two meet at wlock (the reader rotates a sleeping write file), at rwlock *)
(* (rotate, switch, remove, drop) and where the code takes no lock.        *)
(*                                                                         *)
(* A file is a sequence of cells of dataHeaderLen bytes: a header cell,    *)
(* then LenOf[r] payload cells, and one EOF cell after a rotation.  All    *)
(* sizes are counted in cells.                                             *)
(***************************************************************************)
EXTENDS Integers, Sequences, FiniteSets, FiniteSetsExt, Functions

CONSTANTS
    Records,            \* the payloads handed to Put, each one once
    NoRecord,           \* no record: what a garbled read yields
    LenOf,              \* LenOf[r]: len(data) of record r
    BatchSize,          \* batchSize
    Capacity,           \* capacity, 0 when unlimited
    MaxDataSize,        \* maxDataSize, 0 when not set
    Options,            \* the options the cache may be opened with
    BufLen,             \* len(buf) of BufGet; Get allocates what it needs
    GarbageLens,        \* the lengths a payload cell may decode to as a header
    WriteFails,         \* may the write of a payload fail half way?
    CrashAnywhere,      \* may the process die within Put and Get?
    MaxRestarts         \* bound on process restarts

Nat1 == Nat \ {0}

ASSUME DiskCacheAssumption ==
    /\ NoRecord \notin Records
    /\ LenOf \in [Records -> Nat]
    /\ BatchSize \in Nat1 /\ Capacity \in Nat /\ MaxDataSize \in Nat
    /\ BufLen \in Nat /\ GarbageLens \subseteq Nat /\ MaxRestarts \in Nat
    /\ Options \subseteq [filoDrop : BOOLEAN, noFallbackOnError : BOOLEAN]
    /\ WriteFails \in BOOLEAN /\ CrashAnywhere \in BOOLEAN

NoName == -1        \* the empty file name
Free   == "free"    \* an unlocked mutex

VARIABLES
    \* on disk
    data,           \* contents of the write file
    files,          \* files[n]: contents of data.n
    posFile,        \* contents of .pos; name = NoName when at most 8 bytes
    \* in memory
    dataFiles,      \* numbers of the files on the (sorted) read list
    curReadfile,
    rfd,            \* open read file and its offset; name = NoName when nil
    pos,
    size,
    curBatchSize,
    \* threads
    wlock, rwlock,
    pc,             \* pc["put"] and pc["get"]; rlock is held off "idle"
    rec,            \* the record Put is writing
    nbytes, item,   \* length and record that Get has read
    restarts,
    opt,            \* the options of Open
    \* history
    tried,          \* records handed to Put and not refused
    put,            \* records completely written, in order
    got,            \* records consumed by Get, in order
    dropped,        \* records removed by dropBatch
    torn,           \* the write file has a half-written record or an early EOF
    exposed         \* records a crash or a failed write puts at risk

disk    == <<data, files, posFile>>
mem     == <<dataFiles, curReadfile, rfd, pos, size, curBatchSize>>
locks   == <<wlock, rwlock>>
locals  == <<rec, nbytes, item>>
run     == <<restarts, opt>>
history == <<tried, put, got, dropped, torn, exposed>>
vars    == <<disk, mem, locks, pc, locals, run, history>>

Procs == {"put", "get"}

----------------------------------------------------------------------------
(* Files *)

Hdr(r)  == [kind |-> "hdr", rec |-> r]
Pay(r)  == [kind |-> "pay", rec |-> r]
EOFHint == [kind |-> "eof", rec |-> NoRecord]
Cells   == [kind : {"hdr", "pay", "eof"}, rec : Records \cup {NoRecord}]

Payload(r, n) == [i \in 1..n |-> Pay(r)]

\* The record that starts at cell i is there in full.
Complete(cells, i) ==
    /\ cells[i].kind = "hdr"
    /\ LET r == cells[i].rec
       IN  /\ i + LenOf[r] <= Len(cells)
           /\ SubSeq(cells, i + 1, i + LenOf[r]) = Payload(r, LenOf[r])

\* The records of a file that start after its first `off` cells.
RecordsFrom(cells, off) ==
    {cells[i].rec : i \in {j \in DOMAIN cells : j > off /\ Complete(cells, j)}}

\* Cells of a file without its EOF cells.
DataCells(cells) == Cardinality({i \in DOMAIN cells : cells[i] # EOFHint})

Position(name, seek) == [name |-> name, seek |-> seek]
Fd(name, off)        == [name |-> name, off |-> off]
NilFd                == Fd(NoName, 0)

Goto(p, l) == pc' = [pc EXCEPT ![p] = l]

Init ==
    /\ data = <<>> /\ files = [n \in {} |-> <<>>]
    /\ posFile = Position(NoName, 0)
    /\ dataFiles = {} /\ curReadfile = NoName /\ rfd = NilFd
    /\ pos = Position(NoName, 0) /\ size = 0 /\ curBatchSize = 0
    /\ wlock = Free /\ rwlock = Free /\ pc = [p \in Procs |-> "idle"]
    /\ rec = NoRecord /\ nbytes = 0 /\ item = NoRecord /\ restarts = 0 /\ opt \in Options
    /\ tried = {} /\ put = <<>> /\ got = <<>> /\ dropped = {}
    /\ torn = FALSE /\ exposed = {}

----------------------------------------------------------------------------
(* Put *)

\* Mutant: the new record itself is left out of the capacity check.
FullBug(r) == Capacity > 0 /\ size > Capacity

\* The capacity check leaves the header of the new record out.
Full(r) == Capacity > 0 /\ size + LenOf[r] > Capacity

TooLarge(r) == MaxDataSize > 0 /\ LenOf[r] > MaxDataSize

\* Lock and check the capacity: refuse (ErrCacheFull), make room, or go on.
PutBegin(r) ==
    /\ pc["put"] = "idle" /\ wlock = Free /\ r \notin tried
    /\ IF Full(r) /\ opt.filoDrop
       THEN UNCHANGED vars
       ELSE /\ wlock' = "put" /\ rec' = r /\ tried' = tried \cup {r}
            /\ Goto("put", IF Full(r) THEN "drop" ELSE "header")
            /\ UNCHANGED <<disk, mem, rwlock, nbytes, item, run,
                           put, got, dropped, torn, exposed>>

\* dropBatch: remove the oldest file, whether or not it is being read.  It
\* takes rwlock but not rlock, and leaves curReadfile alone.
DropBatch ==
    /\ pc["put"] = "drop" /\ rwlock = Free
    /\ LET f == Min(dataFiles) IN
       IF dataFiles = {}
       THEN UNCHANGED <<files, dataFiles, rfd, size, dropped>>
       ELSE /\ rfd' = IF curReadfile = f THEN NilFd ELSE rfd
            /\ IF f \in DOMAIN files
               THEN /\ files' = Restrict(files, DOMAIN files \ {f})
                    /\ size' = size - Len(files[f])
                    /\ dataFiles' = dataFiles \ {f}
                    /\ dropped' = dropped \cup RecordsFrom(files[f], 0)
               ELSE UNCHANGED <<files, size, dataFiles, dropped>>
    /\ Goto("put", "header")
    /\ UNCHANGED <<data, posFile, curReadfile, pos, curBatchSize, locks, locals,
                   run, tried, put, got, torn, exposed>>

\* Refuse a record above maxDataSize (ErrTooLargeData), or write its header.
PutHeader ==
    /\ pc["put"] = "header"
    /\ IF TooLarge(rec)
       THEN /\ wlock' = Free /\ Goto("put", "idle") /\ UNCHANGED data
       ELSE /\ data' = Append(data, Hdr(rec)) /\ Goto("put", "data")
            /\ UNCHANGED wlock
    /\ UNCHANGED <<files, posFile, mem, rwlock, locals, run, history>>

\* Write the payload, count it, and rotate a full batch.
PutData ==
    /\ pc["put"] = "data"
    /\ data' = data \o Payload(rec, LenOf[rec])
    /\ curBatchSize' = curBatchSize + LenOf[rec] + 1
    /\ size' = size + LenOf[rec] + 1
    /\ IF curBatchSize' >= BatchSize
       THEN Goto("put", "rotate") /\ UNCHANGED wlock
       ELSE Goto("put", "idle") /\ wlock' = Free
    /\ put' = Append(put, rec)
    /\ exposed' = IF torn THEN exposed \cup {rec} ELSE exposed
    /\ UNCHANGED <<files, posFile, dataFiles, curReadfile, rfd, pos, rwlock,
                   locals, run, tried, got, dropped, torn>>

\* The payload cannot be written in full (no space left): Put returns the
\* error, leaves what was written in the file and counts none of it.
PutDataFails ==
    /\ WriteFails /\ pc["put"] = "data"
    /\ \E n \in 0..(LenOf[rec] - 1) : data' = data \o Payload(rec, n)
    /\ wlock' = Free /\ Goto("put", "idle") /\ torn' = TRUE
    /\ UNCHANGED <<files, posFile, mem, rwlock, locals, run,
                   tried, put, got, dropped, exposed>>

----------------------------------------------------------------------------
(* rotate, called by Put and by a Get that wakes a sleeping write file.     *)
(* Both hold wlock.                                                         *)

\* Take rwlock and append the EOF cell, which curBatchSize and size ignore.
RotateEOF(p) ==
    /\ pc[p] = "rotate" /\ rwlock = Free
    /\ rwlock' = p /\ data' = Append(data, EOFHint) /\ Goto(p, "rename")
    /\ UNCHANGED <<files, posFile, mem, wlock, locals, run, history>>

\* Mutant: the next number is the length of the list, not the last one plus 1.
NewFileBug == Cardinality(dataFiles)

NewFile == IF dataFiles = {} THEN 0 ELSE Max(dataFiles) + 1

\* Rename data to the next number, list it, open a new data and unlock.
RotateRename(p) ==
    /\ pc[p] = "rename"
    /\ files' = [n \in DOMAIN files \cup {NewFile} |->
                    IF n = NewFile THEN data ELSE files[n]]
    /\ dataFiles' = dataFiles \cup {NewFile}
    /\ data' = <<>> /\ curBatchSize' = 0
    /\ rwlock' = Free /\ wlock' = Free
    /\ Goto(p, IF p = "put" THEN "idle" ELSE "start")
    /\ torn' = FALSE
    /\ UNCHANGED <<posFile, curReadfile, rfd, pos, size, locals, run,
                   tried, put, got, dropped, exposed>>

----------------------------------------------------------------------------
(* Get *)

\* Take rlock.  The write file may have slept longer than wakeup; the batch
\* size is read without wlock.
GetBegin ==
    /\ pc["get"] = "idle"
    /\ Goto("get", "start")
    /\ UNCHANGED <<disk, mem, locks, locals, run, history>>

\* Mutant: only a full write file is woken.
GetSleepingBug ==
    /\ pc["get"] = "idle" /\ curBatchSize >= BatchSize
    /\ Goto("get", "wakeup")
    /\ UNCHANGED <<disk, mem, locks, locals, run, history>>

GetSleeping ==
    /\ pc["get"] = "idle" /\ curBatchSize > 0
    /\ Goto("get", "wakeup")
    /\ UNCHANGED <<disk, mem, locks, locals, run, history>>

GetWakeup ==
    /\ pc["get"] = "wakeup" /\ wlock = Free
    /\ wlock' = "get" /\ Goto("get", "rotate")
    /\ UNCHANGED <<disk, mem, rwlock, locals, run, history>>

\* Mutant: the file just read is not removed.
SwitchNextFileBug == "reset"

\* Where switchNextFile begins.
SwitchNextFile == IF curReadfile # NoName THEN "remove" ELSE "reset"

GetStart ==
    /\ pc["get"] = "start"
    /\ Goto("get", IF rfd.name = NoName THEN SwitchNextFile ELSE "retry")
    /\ UNCHANGED <<disk, mem, locks, locals, run, history>>

\* removeCurrentReadingFile: the file just read is deleted, and the first
\* file leaves the list.
RemoveCurrentReadingFile ==
    /\ pc["get"] = "remove" /\ rwlock = Free
    /\ IF curReadfile \in DOMAIN files
       THEN /\ files' = Restrict(files, DOMAIN files \ {curReadfile})
            /\ size' = IF Len(files[curReadfile]) > 1
                       THEN size - (Len(files[curReadfile]) - 1) ELSE size
       ELSE UNCHANGED <<files, size>>
    /\ rfd' = NilFd /\ curReadfile' = NoName
    /\ dataFiles' = IF dataFiles = {} THEN {} ELSE dataFiles \ {Min(dataFiles)}
    /\ Goto("get", "reset")
    /\ UNCHANGED <<data, posFile, pos, curBatchSize, locks, locals, run,
                   history>>

\* Mutant: the reset position is not dumped.
ResetPosBug ==
    /\ pc["get"] = "reset"
    /\ pos' = Position(NoName, -1)
    /\ Goto("get", "switch")
    /\ UNCHANGED <<disk, dataFiles, curReadfile, rfd, size, curBatchSize,
                   locks, locals, run, history>>

ResetPos ==
    /\ pc["get"] = "reset"
    /\ pos' = Position(NoName, -1) /\ posFile' = pos'
    /\ Goto("get", "switch")
    /\ UNCHANGED <<data, files, dataFiles, curReadfile, rfd, size, curBatchSize,
                   locks, locals, run, history>>

\* Open the first file of the list, if there is one.
DoSwitchNextFile ==
    /\ pc["get"] = "switch" /\ rwlock = Free
    /\ LET f == Min(dataFiles) IN
       \/ /\ dataFiles = {} /\ Goto("get", "retry")
          /\ UNCHANGED <<curReadfile, rfd, pos, posFile>>
       \/ /\ dataFiles # {} /\ f \in DOMAIN files
          /\ curReadfile' = f /\ rfd' = Fd(f, 0)
          /\ pos' = Position(f, 0) /\ posFile' = pos' /\ Goto("get", "retry")
       \/ /\ dataFiles # {} /\ f \notin DOMAIN files
          /\ curReadfile' = f /\ Goto("get", "idle")
          /\ UNCHANGED <<rfd, pos, posFile>>
    /\ UNCHANGED <<data, files, dataFiles, size, curBatchSize, locks, locals,
                   run, history>>

\* ErrNoData when nothing is open.
GetRetry ==
    /\ pc["get"] = "retry"
    /\ Goto("get", IF rfd.name = NoName THEN "idle" ELSE "header")
    /\ UNCHANGED <<disk, mem, locks, locals, run, history>>

\* The lengths the header cell c may decode to; none for EOFHint.
Decode(c) ==
    CASE c.kind = "hdr" -> {LenOf[c.rec]}
      [] c.kind = "pay" -> GarbageLens
      [] c.kind = "eof" -> {}

\* Mutant: retry the same file instead of switching.
GetNoHeaderBug ==
    /\ pc["get"] = "header"
    /\ \/ rfd.name = NoName
       \/ rfd.name # NoName /\ rfd.off >= Len(files[rfd.name])
       \/ /\ rfd.name # NoName /\ rfd.off < Len(files[rfd.name])
          /\ files[rfd.name][rfd.off + 1] = EOFHint
    /\ Goto("get", "retry")
    /\ UNCHANGED <<disk, mem, locks, locals, run, history>>

\* No header to read (skipBadFile; dropBatch may have closed the file since
\* the check of GetRetry), or the EOF cell: go to the next file.
GetNoHeader ==
    /\ pc["get"] = "header"
    /\ \/ rfd.name = NoName
       \/ rfd.name # NoName /\ rfd.off >= Len(files[rfd.name])
       \/ /\ rfd.name # NoName /\ rfd.off < Len(files[rfd.name])
          /\ files[rfd.name][rfd.off + 1] = EOFHint
    /\ Goto("get", SwitchNextFile)
    /\ UNCHANGED <<disk, mem, locks, locals, run, history>>

\* A header: seek over a record the buffer cannot hold (ErrTooSmallReadBuf,
\* pos is not moved), or go on to its payload.
GetHeader ==
    /\ pc["get"] = "header" /\ rfd.name # NoName
    /\ rfd.off < Len(files[rfd.name])
    /\ \E n \in Decode(files[rfd.name][rfd.off + 1]) :
         IF n > BufLen
         THEN /\ rfd' = [rfd EXCEPT !.off = @ + 1 + n]
              /\ Goto("get", "idle") /\ UNCHANGED nbytes
         ELSE /\ rfd' = [rfd EXCEPT !.off = @ + 1]
              /\ nbytes' = n /\ Goto("get", "payload")
    /\ UNCHANGED <<disk, dataFiles, curReadfile, pos, size, curBatchSize, locks,
                   rec, item, run, history>>

\* What the cells of the payload just read are: a record, or garbage.
Content(cells, off, n) ==
    LET c == cells[off]
    IN  IF c.kind = "hdr" /\ LenOf[c.rec] = n /\ Complete(cells, off)
        THEN c.rec ELSE NoRecord

\* Read the payload: a closed file or a short read is an error.
GetPayload ==
    /\ pc["get"] = "payload"
    /\ IF rfd.name = NoName
       THEN Goto("get", "idle") /\ UNCHANGED <<rfd, item>>
       ELSE LET cells == files[rfd.name] IN
            IF rfd.off + nbytes > Len(cells)
            THEN /\ rfd' = [rfd EXCEPT !.off = Len(cells)]
                 /\ Goto("get", "idle") /\ UNCHANGED item
            ELSE /\ rfd' = [rfd EXCEPT !.off = @ + nbytes]
                 /\ item' = Content(cells, rfd.off, nbytes)
                 /\ Goto("get", "callback")
    /\ UNCHANGED <<disk, dataFiles, curReadfile, pos, size, curBatchSize, locks,
                   rec, nbytes, run, history>>

\* fn takes the record; its error is ignored under noFallbackOnError.
CallbackOK ==
    /\ pc["get"] = "callback"
    /\ got' = Append(got, item) /\ Goto("get", "commit")
    /\ UNCHANGED <<disk, mem, locks, locals, run,
                   tried, put, dropped, torn, exposed>>

\* Mutant: seek back one header too far.
CallbackFailsBug ==
    /\ pc["get"] = "callback" /\ ~opt.noFallbackOnError
    /\ rfd' = [rfd EXCEPT !.off = @ - (2 + nbytes)]
    /\ Goto("get", "idle")
    /\ UNCHANGED <<disk, dataFiles, curReadfile, pos, size, curBatchSize, locks,
                   locals, run, history>>

\* fn fails: seek back, so that the next Get reads the record again.
CallbackFails ==
    /\ pc["get"] = "callback" /\ ~opt.noFallbackOnError
    /\ rfd' = IF rfd.name = NoName THEN rfd
              ELSE [rfd EXCEPT !.off = @ - (1 + nbytes)]
    /\ Goto("get", "idle")
    /\ UNCHANGED <<disk, dataFiles, curReadfile, pos, size, curBatchSize, locks,
                   locals, run, history>>

\* Mutant: the header is not counted.
UpdatePosBug1 ==
    /\ pc["get"] = "commit"
    /\ pos' = [pos EXCEPT !.seek = @ + nbytes] /\ posFile' = pos'
    /\ Goto("get", "idle")
    /\ UNCHANGED <<data, files, dataFiles, curReadfile, rfd, size, curBatchSize,
                   locks, locals, run, history>>

\* Mutant: the position is moved in memory only.
UpdatePosBug2 ==
    /\ pc["get"] = "commit"
    /\ pos' = [pos EXCEPT !.seek = @ + 1 + nbytes]
    /\ Goto("get", "idle")
    /\ UNCHANGED <<disk, dataFiles, curReadfile, rfd, size, curBatchSize,
                   locks, locals, run, history>>

\* Move pos past the record and dump it to .pos.
UpdatePos ==
    /\ pc["get"] = "commit"
    /\ pos' = [pos EXCEPT !.seek = @ + 1 + nbytes] /\ posFile' = pos'
    /\ Goto("get", "idle")
    /\ UNCHANGED <<data, files, dataFiles, curReadfile, rfd, size, curBatchSize,
                   locks, locals, run, history>>

----------------------------------------------------------------------------
(* The process stops, or is killed, and opens the directory again.          *)

\* loadUnfinishedFile: go on in the file that .pos names; reset a .pos that
\* names a file that is gone, and ignore one without an offset.
LoadUnfinishedFile(p) ==
    \/ /\ p.name \in DOMAIN files /\ p.seek > 0
       /\ rfd' = Fd(p.name, p.seek) /\ curReadfile' = p.name
       /\ pos' = p /\ posFile' = p
    \/ /\ p.name \in DOMAIN files => p.seek <= 0
       /\ rfd' = NilFd /\ curReadfile' = NoName
       /\ IF p.name = NoName \/ p.name \in DOMAIN files
          THEN pos' = Position(NoName, 0) /\ posFile' = p
          ELSE pos' = Position(NoName, -1) /\ posFile' = pos'

\* The cells of the rotated files: file and place.
Stored == UNION {{n} \X DOMAIN files[n] : n \in DOMAIN files}

\* doOpen on the directory (d, files, p) that the old process left: all bytes
\* count to size, EOF cells included.
Open(d, p) ==
    /\ data' = d /\ UNCHANGED files
    /\ curBatchSize' = Len(d)
    /\ size' = Len(d) + Cardinality(Stored)
    /\ dataFiles' = DOMAIN files
    /\ LoadUnfinishedFile(p)

\* The records of the files up to number n.
UpTo(n) == UNION {RecordsFrom(files[m], 0) : m \in {k \in DOMAIN files : k <= n}}

\* A crash inside the write of a payload leaves any part of it; one inside
\* the dump of .pos leaves the old contents or none.  The history notes what
\* is put at risk: records written behind a torn one or an early EOF, and
\* records of a file that took the name .pos still has and of those before it
\* (Get goes on in that file, and removes the first of the list for it).
Restart ==
    /\ restarts < MaxRestarts /\ restarts' = restarts + 1
    /\ CrashAnywhere \/ pc = [p \in Procs |-> "idle"]
    /\ \E p \in {posFile} \cup
                IF pc["get"] = "commit" THEN {Position(NoName, 0)} ELSE {},
          n \in IF pc["put"] = "data" THEN 0..LenOf[rec] ELSE {0} :
         /\ Open(IF pc["put"] = "data" THEN data \o Payload(rec, n) ELSE data, p)
         /\ LET written == pc["put"] = "data" /\ n = LenOf[rec]
                halfway == pc["put"] = "data" /\ n < LenOf[rec]
                stale   == pc["get"] = "reset" /\ p.name \in DOMAIN files
            IN  /\ put' = IF written THEN Append(put, rec) ELSE put
                /\ torn' = (torn \/ halfway \/ \E q \in Procs : pc[q] = "rename")
                /\ exposed' = exposed
                       \cup (IF written /\ torn THEN {rec} ELSE {})
                       \cup (IF stale THEN UpTo(p.name) ELSE {})
    /\ wlock' = Free /\ rwlock' = Free /\ pc' = [q \in Procs |-> "idle"]
    /\ rec' = NoRecord /\ nbytes' = 0 /\ item' = NoRecord
    /\ UNCHANGED <<opt, tried, got, dropped>>

----------------------------------------------------------------------------
PutNext ==
    \/ DropBatch \/ PutHeader \/ PutData \/ PutDataFails
    \/ RotateEOF("put") \/ RotateRename("put")

SwitchNext == RemoveCurrentReadingFile \/ ResetPos \/ DoSwitchNextFile

GetNext ==
    \/ GetBegin \/ GetSleeping \/ GetWakeup \/ GetStart
    \/ RotateEOF("get") \/ RotateRename("get") \/ SwitchNext
    \/ GetRetry \/ GetNoHeader \/ GetHeader \/ GetPayload
    \/ CallbackOK \/ CallbackFails \/ UpdatePos

Next == (\E r \in Records : PutBegin(r)) \/ PutNext \/ GetNext \/ Restart

Spec == Init /\ [][Next]_vars

\* A Put that has begun and a Get that has begun go on, and Get is called
\* again and again (flusher.start loops).  Time passes between Gets, so a
\* write file that nobody writes is found sleeping; fn does not fail forever.
Fairness ==
    /\ WF_vars(PutNext) /\ WF_vars(GetNext)
    /\ SF_vars(GetSleeping) /\ SF_vars(CallbackOK)

FairSpec == Spec /\ Fairness

----------------------------------------------------------------------------
(* Properties *)

PutLabels == {"idle", "drop", "header", "data", "rotate", "rename"}
GetLabels == {"idle", "wakeup", "rotate", "rename", "start", "remove", "reset",
              "switch", "retry", "header", "payload", "callback", "commit"}

\* Every variable has its type.
TypeOK ==
    /\ data \in Seq(Cells) /\ DOMAIN files \subseteq Nat
    /\ \A n \in DOMAIN files : files[n] \in Seq(Cells)
    /\ dataFiles \subseteq Nat /\ curReadfile \in Nat \cup {NoName}
    /\ rfd.name \in Nat \cup {NoName} /\ rfd.off \in Nat
    /\ pos.name \in Nat \cup {NoName} /\ pos.seek \in Int
    /\ posFile.name \in Nat \cup {NoName} /\ posFile.seek \in Int
    /\ size \in Int /\ curBatchSize \in Nat
    /\ wlock \in Procs \cup {Free} /\ rwlock \in Procs \cup {Free}
    /\ pc["put"] \in PutLabels /\ pc["get"] \in GetLabels
    /\ rec \in Records \cup {NoRecord} /\ nbytes \in Nat
    /\ item \in Records \cup {NoRecord} /\ restarts \in 0..MaxRestarts
    /\ opt \in Options
    /\ tried \subseteq Records /\ put \in Seq(Records)
    /\ got \in Seq(Records \cup {NoRecord}) /\ dropped \subseteq Records
    /\ torn \in BOOLEAN /\ exposed \subseteq Records

\* Where the record that Get has not consumed yet begins.
ReadOff ==
    CASE pc["get"] = "payload"  -> rfd.off - 1
      [] pc["get"] = "callback" -> rfd.off - 1 - nbytes
      [] OTHER                  -> rfd.off

\* The records that Get can still reach in this run of the process.
Reachable ==
    RecordsFrom(data, 0)
    \cup (IF rfd.name = NoName THEN {} ELSE RecordsFrom(files[rfd.name], ReadOff))
    \cup (UNION {RecordsFrom(files[n], 0) :
                    n \in (dataFiles \cap DOMAIN files) \ {curReadfile}})

\* A record that Put accepted (put.go) is consumed by Get, still reachable
\* for it, or was removed by dropBatch.  What a crash can take are only the
\* records in `exposed`: those written behind a half-written record or an
\* EOF that was not renamed yet, and those of the files up to one that took the
\* name .pos still had when the process died between removing a file and
\* resetting pos.
NoRecordLost ==
    Range(put) \subseteq Range(got) \cup dropped \cup exposed \cup Reachable

Index(s, r) == CHOOSE i \in DOMAIN s : s[i] = r /\ \A j \in 1..(i-1) : s[j] # r

\* Get first hands out the records in the order Put wrote them (the sorted
\* list of data files, rotate's naming and .pos together), across any number
\* of rotations and crashes.
FirstReadInOrder ==
    \A i, j \in DOMAIN put :
        /\ i < j /\ put[i] \notin exposed /\ put[j] \notin exposed
        /\ put[j] \in Range(got)
        => /\ put[i] \in Range(got)
           /\ Index(got, put[i]) < Index(got, put[j])

\* A record is handed out again only because a restart lost the last .pos:
\* at most once more for each restart.
BoundedRedelivery ==
    \A r \in Range(put) \ exposed :
        Cardinality({i \in DOMAIN got : got[i] = r}) <= 1 + restarts

\* No record is consumed twice when the process never dies inside Get.  This
\* is about a cache that refuses data when full: dropBatch removes the file
\* that .pos names, the next write file may take its name, and a restart goes
\* on in the middle of a record there.
ConsumedOnce == opt.filoDrop => \A i, j \in DOMAIN got : i # j => got[i] # got[j]

\* The cells of records on disk, but for a header whose payload is not written.
LiveCells ==
    DataCells(data) - (IF pc["put"] = "data" THEN 1 ELSE 0)
    + Cardinality({x \in Stored : files[x[1]][x[2]] # EOFHint})

\* The check in Put bounds the records on disk by the capacity and the one
\* header it does not count: size, which Put, rotate, remove and Open maintain
\* without a common lock, never falls below what is stored.  This is about a
\* cache that refuses data when full: dropBatch takes the EOF cell of the file
\* it removes off size, which rotate never added, and each drop lets the files
\* grow one cell further.
CapacityRespected == opt.filoDrop /\ Capacity > 0 => LiveCells <= Capacity + 1

\* Between two Gets, .pos names a place from which a new process can go on:
\* a record boundary of the file, with no unconsumed record before it
\* (diskcache.go, "Recoverable last-read-position on restart").  This is about
\* a cache that refuses data when full: dropBatch leaves pos of the file it
\* removes, and the next Get adds to it.
RecoverablePosition ==
    opt.filoDrop /\ pc["get"] = "idle"
    /\ posFile.name \in DOMAIN files /\ posFile.seek > 0 =>
        LET cells == files[posFile.name]
        IN  /\ posFile.seek < Len(cells)
            /\ cells[posFile.seek + 1].kind # "pay"
            /\ RecordsFrom(cells, 0) \ RecordsFrom(cells, posFile.seek)
                   \subseteq Range(got)

\* When a full cache refuses new data instead of dropping old, every record
\* written is consumed in the end, the ones in a write file that never fills
\* up included (the wakeup rotation of doGet): the records are finite, so in
\* the end all that were put have been taken.
EventuallyConsumed == <>[](opt.filoDrop => Range(put) \subseteq Range(got))

\* A Get that has begun returns, whatever Put drops or rotates meanwhile: its
\* retry loop (goto retry) does not spin.
GetReturns == []<>(pc["get"] = "idle")
=============================================================================

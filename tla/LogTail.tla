------------------------------ MODULE LogTail -------------------------------
(***************************************************************************)
(* Log tailing (packages tailer and logtail): the Tailer of one path, the  *)
(* Single that reads the file there, line by line and grouped to messages, *)
(* and the recorder that keeps the position for the next Single or the     *)
(* next Datakit.  Around them the program that writes the log, renamed and *)
(* truncated files, and restarts.                                          *)
(*                                                                         *)
(* A unit stands for some bytes of the log, numbered as they are written.  *)
(* Two units make a line and the newline is at the end of the second one.  *)
(* The path is one, so a record key (path::inode) is the inode; the texts  *)
(* are plain ones (FileMode), without decoding, colours or tags.           *)
(***************************************************************************)
EXTENDS Integers, Sequences, FiniteSets, FiniteSetsExt, Functions

CONSTANTS
    MaxUnits,           \* bound on what the writer writes
    Inodes,             \* the files there can be
    Heads,              \* the units that, first of a text, match a multiline pattern
    BufSize,            \* the reader's bufSize, in units
    MaxLine,            \* maxLineLength
    MaxMultiline,       \* maxMultilineLength
    FromBeginning,
    Threshold,          \* fileFromBeginningThresholdSize
    MaxFaults           \* bound on renames, truncations, expiries, exits and restarts

ASSUME TailAssumption ==
    /\ MaxUnits \in Nat /\ Inodes \subseteq Nat \ {0} /\ IsFiniteSet(Inodes)
    /\ Heads \subseteq 1..MaxUnits /\ FromBeginning \in BOOLEAN
    /\ {MaxLine, MaxMultiline, Threshold, MaxFaults} \subseteq Nat
    /\ BufSize \in Nat \ {0}

\* No file; also the key that openfile.FileKey makes when Stat fails.
None == 0

VARIABLES
    disk,       \* [data |-> the content of each file, path |-> the file at the path,
                \*  dead |-> was it last modified too long ago (ignoreDeadLog)?]
    writer,     \* [file |-> the file that the program has open, n |-> units written]
    single,     \* the Single: where it is and its fields
    rec,        \* [mem |-> recorder.Data, file |-> what logtail.history holds]; 0 is absent
    stop,       \* "no", "exit" (datakit.Exit) or "done" (Start has cancelled the files)
    faults,     \* how many of them there were
    fed,        \* history: the units fed, in order
    hist        \* history, see the properties

tailing == <<single, rec, fed>>
vars    == <<disk, writer, single, rec, stop, faults, fed, hist>>

Keys == Inodes \cup {None}

\* pc "off": there is no Single for the path in fileList.
Off == [pc |-> "off", file |-> None, offset |-> 0, key |-> None, did |-> FALSE,
        prev |-> <<>>, buff |-> <<>>]

NoPositions == [k \in Keys |-> 0]

Init ==
    /\ disk = [data |-> [i \in Inodes |-> <<>>], path |-> None, dead |-> FALSE]
    /\ writer = [file |-> None, n |-> 0]
    /\ single = Off /\ rec = [mem |-> NoPositions, file |-> NoPositions]
    /\ stop = "no" /\ faults = 0 /\ fed = <<>>
    /\ hist = [used |-> {}, crashed |-> FALSE, astray |-> FALSE, dropped |-> {}]

Size(i) == Len(disk.data[i])
Exists  == disk.path # None

\* openfile.FileIsActive
Active == Exists /\ ~disk.dead

----------------------------------------------------------------------------
(* The program that writes the log, and the rotation of its file *)

\* A line is written to its end before the program turns to another file.
AtLineEnd == writer.n % 2 = 0

\* The positions at which somebody would go on reading file i.
Positions(i) ==
    {rec.mem[i], rec.file[i]} \cup (IF single.file = i THEN {single.offset} ELSE {})

Write ==
    /\ writer.file # None /\ writer.n < MaxUnits
    /\ writer' = [writer EXCEPT !.n = @ + 1]
    /\ disk' = [disk EXCEPT !.data[writer.file] = Append(@, writer.n + 1),
                            !.dead = @ /\ writer.file # disk.path]
    /\ hist' = [hist EXCEPT !.astray = @ \/ Size(writer.file) + 1 \in Positions(writer.file)]
    /\ UNCHANGED <<tailing, stop, faults>>

Fault == faults < MaxFaults /\ faults' = faults + 1

\* The file is renamed or removed; the program still has it open.
Rename ==
    /\ Exists /\ disk' = [disk EXCEPT !.path = None]
    /\ Fault /\ UNCHANGED <<writer, tailing, stop, hist>>

\* A new file, created by the program or for it.
Create(i) ==
    /\ ~Exists /\ i \in Inodes \ hist.used
    /\ disk' = [disk EXCEPT !.path = i, !.dead = FALSE]
    /\ hist' = [hist EXCEPT !.used = @ \cup {i}]
    /\ UNCHANGED <<writer, tailing, stop, faults>>

\* The program opens the file at the path.
OpenLog ==
    /\ Exists /\ AtLineEnd /\ writer.file # disk.path
    /\ writer' = [writer EXCEPT !.file = disk.path]
    /\ UNCHANGED <<disk, tailing, stop, faults, hist>>

\* logrotate's copytruncate: the content goes elsewhere.
Truncate ==
    /\ Exists /\ Size(disk.path) > 0
    /\ disk' = [disk EXCEPT !.data[disk.path] = <<>>, !.dead = FALSE]
    /\ Fault /\ UNCHANGED <<writer, tailing, stop, hist>>

\* Nothing has been written for ignoreDeadLog.
Expire ==
    /\ Exists /\ ~disk.dead /\ disk' = [disk EXCEPT !.dead = TRUE]
    /\ Fault /\ UNCHANGED <<writer, tailing, stop, hist>>

----------------------------------------------------------------------------
(* What is read: ReadLineBlock, SplitLines, process and ProcessLine *)

Ends(u) == u % 2 = 0

\* The part of a block up to its last newline.
Whole(b) == SubSeq(b, 1, Max({0} \cup {k \in DOMAIN b : Ends(b[k])}))
Rest(b)  == SubSeq(b, Len(Whole(b)) + 1, Len(b))

\* Mutant: previousBlock is dropped at a newline.
SplitLineBlockBug(prev, b) ==
    [block |-> IF Whole(b) = <<>> THEN <<>> ELSE Whole(b),
     prev  |-> IF Whole(b) = <<>> THEN prev \o b ELSE Rest(b)]

\* splitLineBlock: the whole lines; the rest waits in previousBlock, unless
\* it is too long.
SplitLineBlock(prev, b) ==
    LET block == IF Whole(b) = <<>> THEN <<>> ELSE prev \o Whole(b)
        rest  == IF Whole(b) = <<>> THEN prev \o b ELSE Rest(b)
    IN  IF Len(rest) > MaxLine THEN [block |-> block \o rest, prev |-> <<>>]
                               ELSE [block |-> block, prev |-> rest]

\* Does a line of SplitLines begin at k?
LineAt(block, k) == k = 1 \/ Ends(block[k - 1])

\* ProcessLine for each line of a block, with the multiline buffer buff: what
\* lies before the last head is fed; the head and the lines after it are kept,
\* unless a line is added when the buffer is older than
\* maxMultilineLifeDuration (late) or too long.  Lines without a head are fed.
Process(buff, block, late) ==
    LET heads == {k \in DOMAIN block : LineAt(block, k) /\ block[k] \in Heads}
        h     == IF heads = {} THEN 0 ELSE Max(heads)
        ready == IF h = 0 THEN <<>> ELSE buff \o SubSeq(block, 1, h - 1)
        kept  == IF h = 0 THEN buff \o block ELSE SubSeq(block, h, Len(block))
        added == \E k \in (h + 1)..Len(block) : LineAt(block, k)
        flush == \/ h = 0 /\ buff = <<>>
                 \/ added /\ (late \/ Len(kept) > MaxMultiline)
    IN  [out  |-> IF flush THEN ready \o kept ELSE ready,
         buff |-> IF flush THEN <<>> ELSE kept]

----------------------------------------------------------------------------
(* Single *)

Outside == UNCHANGED <<disk, writer, stop, faults>>

Goto(pc) == single' = [single EXCEPT !.pc = pc]

\* Mutant: files are still looked for when Start has returned.
OpenBug ==
    /\ single.pc = "off" /\ Active
    /\ single' = [Off EXCEPT !.pc = "key", !.file = disk.path]
    /\ UNCHANGED <<rec, fed, hist>> /\ Outside

\* shouldOpenFile, and OpenFile in setup: the Tailer has found the file, by a
\* scan or an event, and has no Single for it.
Open ==
    /\ single.pc = "off" /\ stop # "done" /\ Active
    /\ single' = [Off EXCEPT !.pc = "key", !.file = disk.path]
    /\ UNCHANGED <<rec, fed, hist>> /\ Outside

\* The rest of setup and of reopen: Inode and FileKey look at the path again.
Key ==
    /\ single.pc \in {"key", "rekey"}
    /\ single' = [single EXCEPT !.pc = IF @ = "key" THEN "seek" ELSE "active",
                                !.key = disk.path]
    /\ UNCHANGED <<rec, fed, hist>> /\ Outside

\* seekOffset: at the recorded position, at the beginning or at the end.
Seek ==
    LET size     == Size(single.file)
        position == rec.mem[single.key]
        known    == 0 < position /\ position <= size
        small    == FromBeginning \/ (Exists /\ Size(disk.path) < Threshold)
    IN  /\ single.pc = "seek"
        /\ single' = [single EXCEPT !.pc = "loop",
                          !.offset = IF known THEN position ELSE IF small THEN 0 ELSE size]
        /\ hist' = [hist EXCEPT
                        !.astray = @ \/ single.key # single.file,
                        !.dropped = @ \cup IF known \/ small THEN {}
                                           ELSE Range(disk.data[single.file])]
        /\ UNCHANGED <<rec, fed>> /\ Outside

\* readOnce, when there is something to read.
ReadSome(pc) ==
    /\ single.offset < Size(single.file)
    /\ LET end == Min({single.offset + BufSize, Size(single.file)})
           new == SubSeq(disk.data[single.file], single.offset + 1, end)
       IN  \E late \in BOOLEAN, split \in {SplitLineBlock(single.prev, new)} :
           \E done \in {Process(single.buff, split.block, late)} :
                /\ fed' = fed \o done.out
                /\ single' = [single EXCEPT !.pc = pc, !.offset = end,
                                            !.prev = split.prev, !.buff = done.buff]
    /\ UNCHANGED <<rec, hist>> /\ Outside

\* readOnce at the end of the file: ErrReadEmpty.
AtEnd == single.offset >= Size(single.file)

\* flushCache, and on to pc.
FlushCache(pc) ==
    /\ fed' = fed \o single.buff /\ single' = [single EXCEPT !.pc = pc, !.buff = <<>>]
    /\ UNCHANGED <<rec, hist>> /\ Outside

\* The default of forwardMessage's select, or the end of the ticker's case.
Reading == single.pc = "read" \/ (single.pc = "loop" /\ stop # "done")
Read == Reading /\ ReadSome("loop")

\* Mutant: the last message waits for the next one.
ReadNoneBug ==
    Reading /\ AtEnd /\ Goto("loop") /\ UNCHANGED <<rec, fed, hist>> /\ Outside
ReadNone == Reading /\ AtEnd /\ FlushCache("loop")

\* ctx.Done()
Done == single.pc = "loop" /\ stop = "done" /\ FlushCache("close")

\* openfile.DidRotate; FileExists is of the same instant.
DidRotate == Exists /\ (disk.path # single.file \/ Size(disk.path) < single.offset)

Tick ==
    /\ single.pc = "loop"
    /\ single' = [single EXCEPT !.pc = IF DidRotate \/ ~Exists THEN "eof" ELSE "active",
                                !.did = DidRotate]
    /\ UNCHANGED <<rec, fed, hist>> /\ Outside

\* readToEOF, until the end or the process's exit.
ReadToEOF    == single.pc = "eof" /\ stop = "no" /\ ReadSome("eof")
ReadToEOFEnd ==
    /\ single.pc = "eof" /\ (stop # "no" \/ AtEnd)
    /\ Goto(IF single.did THEN "reopen" ELSE "active")
    /\ UNCHANGED <<rec, fed, hist>> /\ Outside

\* Mutant: the position of the old file is kept.
ReopenBug ==
    /\ single.pc = "reopen"
    /\ single' = IF Exists THEN [single EXCEPT !.pc = "rekey", !.file = disk.path]
                           ELSE [single EXCEPT !.pc = "close"]
    /\ UNCHANGED <<rec, fed, hist>> /\ Outside

\* reopen: previousBlock and the multiline buffer stay.  If there is no file
\* at the path, offset and recordKey are still those of the old one.
Reopen ==
    /\ single.pc = "reopen"
    /\ single' = IF Exists THEN [single EXCEPT !.pc = "rekey", !.file = disk.path, !.offset = 0]
                           ELSE [single EXCEPT !.pc = "close"]
    /\ UNCHANGED <<rec, fed, hist>> /\ Outside

\* FileIsActive; if not, forwardMessage returns without a flush.
IsActive ==
    /\ single.pc = "active" /\ Goto(IF Active THEN "read" ELSE "close")
    /\ UNCHANGED <<rec, fed, hist>> /\ Outside

\* Close: recordPosition up to the truncation of the recorder's file.
Close ==
    /\ single.pc = "close" /\ Goto("flush")
    /\ rec' = IF single.offset > 0
              THEN [mem |-> [rec.mem EXCEPT ![single.key] = single.offset], file |-> NoPositions]
              ELSE rec
    /\ hist' = [hist EXCEPT !.dropped = @ \cup Range(single.prev) \cup Range(single.buff),
                            !.astray = @ \/ (single.offset > 0 /\ single.key # single.file)]
    /\ UNCHANGED fed /\ Outside

\* Mutant: the position is set and not flushed.
ClosedBug ==
    /\ single.pc = "flush" /\ single' = Off
    /\ UNCHANGED <<rec, fed, hist>> /\ Outside

\* The positions are written, the file is closed and leaves fileList.
Closed ==
    /\ single.pc = "flush" /\ single' = Off
    /\ rec' = IF single.offset > 0 THEN [rec EXCEPT !.file = rec.mem] ELSE rec
    /\ UNCHANGED <<fed, hist>> /\ Outside

----------------------------------------------------------------------------
(* Tailer and process *)

\* datakit.Exit
Exit ==
    /\ stop = "no" /\ stop' = "exit" /\ Fault
    /\ UNCHANGED <<disk, writer, tailing, hist>>

\* Start returns: closeAllFiles.
CloseAllFiles ==
    /\ stop = "exit" /\ stop' = "done"
    /\ UNCHANGED <<disk, writer, tailing, faults, hist>>

\* The next process, after an exit or a crash.  newRecorder reads what is in
\* the file, and Clean forgets the keys of a path without a file.
Restart ==
    LET exited == stop = "done" /\ single.pc = "off"
    IN  /\ Fault /\ single' = Off /\ stop' = "no"
        /\ rec' = [rec EXCEPT !.mem = IF Exists THEN rec.file ELSE NoPositions]
        /\ hist' = [hist EXCEPT !.crashed = @ \/ ~exited,
                                !.dropped = @ \cup Range(single.prev) \cup Range(single.buff)]
        /\ UNCHANGED <<disk, writer, fed>>

Single ==
    \/ Open \/ Key \/ Seek \/ Read \/ ReadNone \/ Done \/ Tick \/ ReadToEOF \/ ReadToEOFEnd
    \/ Reopen \/ IsActive \/ Close \/ Closed

Environment ==
    \/ Write \/ Rename \/ (\E i \in Inodes : Create(i)) \/ OpenLog \/ Truncate \/ Expire
    \/ Exit \/ Restart

Next == Single \/ Environment \/ CloseAllFiles

Spec == Init /\ [][Next]_vars

\* The goroutines run on.  The ticker fires every three seconds and the scan
\* comes every minute; Done is strong, for select finds ctx.Done() alone
\* between two ticks.
Steps ==
    \/ Open \/ Key \/ Seek \/ ReadToEOF \/ ReadToEOFEnd \/ Reopen \/ IsActive \/ Close
    \/ Closed
Fairness ==
    /\ WF_vars(Steps) /\ WF_vars(Read \/ ReadNone) /\ WF_vars(Tick) /\ SF_vars(Done)
    /\ WF_vars(CloseAllFiles)

FairSpec == Spec /\ Fairness

----------------------------------------------------------------------------
(* Properties.  The history says where the code gives lines up:              *)
(*   dropped:  the units in previousBlock or the multiline buffer when a     *)
(*             Single ended, and the ones before a position at the end;      *)
(*   crashed:  a process ended without Close;                                *)
(*   astray:   a position was used that is none of this content's.  Either  *)
(*             the path named another file when FileKey looked than when     *)
(*             OpenFile did, and a position was recorded or sought under the *)
(*             other file's key; or a truncated file grew again to a         *)
(*             position from before, which neither DidRotate nor seekOffset  *)
(*             can tell from a good one.                                     *)

\* Every variable has its type.
TypeOK ==
    /\ disk.data \in [Inodes -> Seq(1..MaxUnits)] /\ disk.path \in Keys
    /\ disk.dead \in BOOLEAN /\ writer.file \in Keys /\ writer.n \in 0..MaxUnits
    /\ single.pc \in {"off", "key", "seek", "loop", "read", "eof", "reopen", "rekey", "active",
                      "close", "flush"}
    /\ {single.file, single.key} \subseteq Keys /\ single.offset \in 0..MaxUnits
    /\ single.did \in BOOLEAN
    /\ {single.prev, single.buff, fed} \subseteq Seq(1..MaxUnits)
    /\ Len(single.prev) <= MaxLine
    /\ {rec.mem, rec.file} \subseteq [Keys -> 0..MaxUnits]
    /\ stop \in {"no", "exit", "done"}

\* What is fed comes in the order in which it was written and nothing is fed
\* twice: not when the file is rotated or truncated, not when its Single has
\* ended and another one goes on at the recorded position, in this process or
\* in the next one.
FedInOrder ==
    ~hist.crashed /\ ~hist.astray =>
        \A j, k \in DOMAIN fed : j < k => fed[j] < fed[k]

Known == Range(fed) \cup Range(single.prev) \cup Range(single.buff) \cup hist.dropped

\* No position is ahead of what has been fed: what lies before the Single's
\* offset, or before a position in the recorder or its file, was fed, is held
\* by the Single, or was dropped, even after a crash between any two steps.
NothingSkipped ==
    ~hist.astray =>
        \A i \in Inodes : \A p \in Positions(i) :
            p <= Size(i) => \A k \in 1..p : disk.data[i][k] \in Known

\* In the end every whole line of an active file at the path has been fed or
\* dropped, whatever rotations and restarts came before.
LinesFed ==
    <>[](Active /\ stop = "no" /\ ~hist.astray
            => Range(Whole(disk.data[disk.path])) \subseteq Range(fed) \cup hist.dropped)

\* The Tailer that is told to exit comes to an end, with no Single left.
TailerStops == <>[](stop = "no" \/ (stop = "done" /\ single.pc = "off"))
=============================================================================

---------------------------- MODULE MCDiskCache ----------------------------
(* Instances of DiskCache for TLC, and the queue it implements.             *)
EXTENDS DiskCache, SequencesExt

\* Records are numbers; record r has MCLenOf[r] cells of payload.
MCLenOf == [r \in Records |-> IF r = 4 THEN 3 ELSE IF r = 2 THEN 2 ELSE 1]

\* How dataway opens its queues, and the defaults of the package with data
\* consumed whatever the callback returns.
Refusing == [filoDrop |-> TRUE, noFallbackOnError |-> FALSE]
Dropping == [filoDrop |-> FALSE, noFallbackOnError |-> TRUE]
MCBoth     == {Refusing, Dropping}
MCRefusing == {Refusing}
MCDropping == {Dropping}

RecordSeq(cells, off) ==
    LET starts == SetToSortSeq({j \in DOMAIN cells : j > off /\ Complete(cells, j)}, <)
    IN  [i \in DOMAIN starts |-> cells[starts[i]].rec]

\* The unconsumed records: the rest of the file being read, the other files
\* of the read list in order, and the write file.
Unread ==
    LET current == IF rfd.name = NoName THEN <<>>
                   ELSE RecordSeq(files[rfd.name], ReadOff)
        others  == SetToSortSeq(dataFiles \ {rfd.name}, <)
    IN  current
        \o FlattenSeq([i \in DOMAIN others |-> RecordSeq(files[others[i]], 0)])
        \o RecordSeq(data, 0)

\* Nothing is claimed of a cache that drops: to the queue it does nothing.
Abstract == INSTANCE FifoQueue WITH Items <- Records,
                queue <- IF opt.filoDrop THEN Unread ELSE <<>>,
                out   <- IF opt.filoDrop THEN got ELSE <<>>

\* While the process is only stopped between calls, the directory of a cache
\* that refuses data when it is full is a FIFO queue: each step of Put, Get,
\* rotate, switch and Open is a Put, a Take or nothing at all on it.
ImplementsFifoQueue == Abstract!Spec
=============================================================================

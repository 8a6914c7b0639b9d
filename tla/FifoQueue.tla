----------------------------- MODULE FifoQueue -----------------------------
(***************************************************************************)
(* What a disk queue promises while no crash interrupts it: every record   *)
(* that was put is taken exactly once, in the order of the puts.           *)
(***************************************************************************)
EXTENDS Sequences

CONSTANT Items

VARIABLES
    queue,  \* records put and not taken
    out     \* records taken, in order

Init == queue = <<>> /\ out = <<>>

Put(r) == queue' = Append(queue, r) /\ UNCHANGED out

Take ==
    /\ queue # <<>>
    /\ queue' = Tail(queue)
    /\ out' = Append(out, Head(queue))

Next == (\E r \in Items : Put(r)) \/ Take

Spec == Init /\ [][Next]_<<queue, out>>
=============================================================================

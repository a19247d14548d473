------------------------------- MODULE FIFOLock -------------------------------
(****************************************************************************)
(* What a queue lock promises: threads are inside one at a time, and get in *)
(* in the order they asked.                                                 *)
(****************************************************************************)
EXTENDS Sequences

CONSTANT Threads

VARIABLES queue,    \* those who asked and have not left, in order
          inside    \* those who got in and have not left

fifoVars == <<queue, inside>>

FIFOInit == queue = <<>> /\ inside = {}

Ask(t) == queue' = Append(queue, t) /\ UNCHANGED inside

GetIn(t) ==
    /\ inside = {}
    /\ queue # <<>>
    /\ t = Head(queue)
    /\ inside' = {t}
    /\ UNCHANGED queue

Leave(t) ==
    /\ inside = {t}
    /\ inside' = {}
    /\ queue' = Tail(queue)

FIFONext == \E t \in Threads : Ask(t) \/ GetIn(t) \/ Leave(t)

FIFOSpec == FIFOInit /\ [][FIFONext]_fifoVars
=============================================================================

-------------------------------- MODULE FIFOQueue --------------------------------
(****************************************************************************)
(* What a queue promises: keys are taken in the order they were put in,     *)
(* each once, by whoever asks first.  Both orders are kept whole; the queue *)
(* is what has been put and not yet taken.                                  *)
(****************************************************************************)
EXTENDS Naturals, Sequences

CONSTANT Keys

VARIABLES put, taken

vars == <<put, taken>>

Init == put = <<>> /\ taken = <<>>

Put(k) ==
    /\ \A n \in 1 .. Len(put) : put[n] # k
    /\ put' = Append(put, k)
    /\ UNCHANGED taken

Take ==
    /\ Len(taken) < Len(put)
    /\ taken' = Append(taken, put[Len(taken) + 1])
    /\ UNCHANGED put

Next == (\E k \in Keys : Put(k)) \/ Take

Spec == Init /\ [][Next]_vars
=============================================================================

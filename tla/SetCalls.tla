-------------------------------- MODULE SetCalls --------------------------------
(****************************************************************************)
(* The calls of list_add, list_remove and list_contains, as their callers   *)
(* see them.  A pending call remembers whether its key has been in the set  *)
(* and has been out of it since the call began (seen), and whether the call *)
(* itself has changed that (changed).  Of a call that has returned only the *)
(* answer is left.                                                          *)
(****************************************************************************)

Ops == {"add", "remove", "contains"}

Returned(answer) ==
    [op |-> "none", key |-> 0, seen |-> {}, changed |-> FALSE, answer |-> answer]

Began(op, k, in) ==
    [op |-> op, key |-> k, seen |-> {in}, changed |-> FALSE, answer |-> FALSE]

\* The calls after thread t has put k into the set or taken it out (in).
Noticed(call, t, k, in) ==
    [u \in DOMAIN call |->
        IF call[u].op \in Ops /\ call[u].key = k
        THEN [call[u] EXCEPT !.seen = @ \union {in}, !.changed = @ \/ u = t]
        ELSE call[u]]

\* What a call may answer.  An add, or a remove, that changed the set says so;
\* every other answer was the truth at some moment of the call.  The remove of
\* the lock-free list goes on after it has removed its key (repeats) until it
\* finds the key gone, and always says no.
MayAnswer(c, answer, repeats) ==
    CASE c.op = "contains" -> answer \in c.seen
      [] c.op = "add" -> answer = c.changed /\ (answer \/ TRUE \in c.seen)
      [] c.op = "remove" ->
            IF repeats THEN answer = FALSE /\ FALSE \in c.seen
            ELSE answer = c.changed /\ (answer \/ FALSE \in c.seen)
=============================================================================

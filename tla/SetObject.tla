-------------------------------- MODULE SetObject --------------------------------
(****************************************************************************)
(* What lab11's lists promise: a set of keys.  A call changes the set at    *)
(* one instant between its beginning and its end, and answers what was true *)
(* at one such instant.                                                     *)
(****************************************************************************)
EXTENDS SetCalls

CONSTANTS Threads, Keys,
          Repeats       \* a remove goes on after it has removed its key

VARIABLES members, call

Init ==
    /\ members = {}
    /\ call = [t \in Threads |-> Returned(FALSE)]

Begin(t) ==
    /\ call[t].op = "none"
    /\ \E op \in Ops, k \in Keys :
         call' = [call EXCEPT ![t] = Began(op, k, k \in members)]
    /\ UNCHANGED members

Change(t) ==
    LET k == call[t].key IN
    /\ \/ call[t].op = "add" /\ k \notin members /\ members' = members \union {k}
       \/ call[t].op = "remove" /\ k \in members /\ members' = members \ {k}
    /\ call[t].changed => Repeats /\ call[t].op = "remove"
    /\ call' = Noticed(call, t, k, k \notin members)

End(t) ==
    /\ call[t].op \in Ops
    /\ \E answer \in BOOLEAN :
         /\ MayAnswer(call[t], answer, Repeats)
         /\ call' = [call EXCEPT ![t] = Returned(answer)]
    /\ UNCHANGED members

Next == \E t \in Threads : Begin(t) \/ Change(t) \/ End(t)

Spec == Init /\ [][Next]_<<members, call>>
=============================================================================

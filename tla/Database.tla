------------------------------ MODULE Database ------------------------------
(****************************************************************************)
(* The records of project2 and the arithmetic on their values.  A value is  *)
(* an int64_t; HalfRange is 2^63 in the build, and arithmetic wraps.        *)
(****************************************************************************)
EXTENDS Integers

CONSTANTS DefaultValue, HalfRange

ASSUME HalfRangeAssumption == HalfRange \in Nat \ {0}

RecordValue == -HalfRange .. HalfRange - 1

ASSUME DefaultValueAssumption == DefaultValue \in RecordValue

\* Fault: arithmetic that does not wrap.
WrapForgotten(v) == v

\* The value the machine stores for the integer v.
Wrap(v) == ((v + HalfRange) % (2 * HalfRange)) - HalfRange

NewDatabase(indices) == [r \in indices |-> DefaultValue]

\* What a transaction stores in its second and third record, from the values
\* it read.
NewJ(vi, vj) == Wrap(vj + vi + 1)
NewK(vi, vk) == Wrap(vk - vi)
=============================================================================

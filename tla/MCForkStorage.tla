--------------------------- MODULE MCForkStorage ---------------------------
(* Two keys: neither a prefix of the other, or k1 a prefix of k2. *)
EXTENDS ForkStorage

CONSTANTS k1, k2, v1, v2

PrefixFree == [k \in Keys |-> {k}]
Nested == [k \in Keys |-> IF k = k1 THEN {k1, k2} ELSE {k}]

=============================================================================

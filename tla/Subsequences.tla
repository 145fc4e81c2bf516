---------------------------- MODULE Subsequences ----------------------------
(***************************************************************************)
(* The elements of a sequence that are in a set, in their order: what      *)
(* Array.prototype.filter and the for ... push loops of the code compute.  *)
(* SelectSeq of the standard modules is the same function, defined by a    *)
(* recursion the proof system knows nothing about; this definition is      *)
(* direct, so SubsequencesProofs can say what it returns.                  *)
(***************************************************************************)
EXTENDS Naturals, Sequences, FiniteSets

KeepFirst(s, S) ==                           \* mutation: find, not filter
    LET kept == {i \in DOMAIN s : s[i] \in S}
    IN  IF kept = {} THEN <<>> ELSE <<s[CHOOSE i \in kept : \A j \in kept : i <= j]>>

Keep(s, S) ==
    LET kept    == {i \in DOMAIN s : s[i] \in S}
        rank(i) == Cardinality({j \in kept : j <= i})
    IN  [k \in 1..Cardinality(kept) |-> s[CHOOSE i \in kept : rank(i) = k]]

=============================================================================

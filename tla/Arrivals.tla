------------------------------ MODULE Arrivals ------------------------------
(***************************************************************************)
(* What arrives of the chains that travel in Exchange: the proofs of a     *)
(* delegation, theirs, and so on, as Delegation.iterate finds them.        *)
(***************************************************************************)
EXTENDS Exchange

RECURSIVE Iterate(_)

\* The proofs, and theirs, that can be had.
Iterate(v) ==
    FlattenSeq([i \in DOMAIN Proofs(v) |->
        LET proof == Proofs(v)[i]
        IN  IF proof.linked THEN <<>> ELSE Append(Iterate(proof), proof.root)])

Chain(v) == ToSet(Iterate(v)) \cup {v.root}

-----------------------------------------------------------------------------
(* Properties.                                                             *)

\* The chain of a delegation survives every way it travels: in an archive, as a
\* DAG, and in a message, each invocation of which is in its place.  Links may
\* have become delegations, when another proof brought their block along.  What is
\* held changes no more when a message was sent.
ChainArrives ==
    /\ Preparing => \A i \in DOMAIN held :
          /\ Chain(held[i]) \subseteq Chain(Extract(Archive(held[i]))[2])
          /\ Chain(held[i]) \subseteq Chain(ImportDAG(Export(held[i])))
    /\ Received =>
          LET found == Invocations(message[2])
          IN  /\ IsOk(found) /\ Roots(found[2]) = Roots(Views)
              /\ \A k \in DOMAIN batch : Chain(Views[k]) \subseteq Chain(found[2][k])

=============================================================================

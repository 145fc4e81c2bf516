---------------------------- MODULE Completeness ----------------------------
(***************************************************************************)
(* What "finds a valid path by exploring every possible option" means: a   *)
(* declarative definition of when a claim can be granted, with no order,   *)
(* no stack and no early return, to compare the search of Validator with.  *)
(* The definition is recursive, so this module is for TLC only.            *)
(***************************************************************************)
EXTENDS MCValidator

RECURSIVE Justified(_, _), Claimable(_, _), Provable(_, _, _)

CapsOf(d) == ToSet(ucan[d].caps)

\* What claim would match among the delegations ds.
Claims(desc, ds) ==
    {[src |-> d, value |-> ParseCapability(desc, cap)] :
        <<d, cap>> \in {x \in UNION {{d} \X CapsOf(d) : d \in ds} :
                           Justified(x[1], ds) /\ Parses(desc, x[2])}}

Claimable(desc, ds) == \E m \in Claims(desc, ds) : Provable(desc, m.src, m.value)

\* d may be relied on in the company of ds: inside its window, not revoked, and
\* either signed or attested.  Keys are an alternative to an attestation only
\* as long as no attestation of d is put forward at all.
Justified(d, ds) ==
    LET u      == ucan[d]
        beside == {a \in ds \ {d} : IsAttestation(a)}
    IN  /\ u.nbf <= now /\ now < u.exp
        /\ d \notin revoked
        /\ \/ SelfVerifying(u) /\ u.iss \notin Unparsable /\ u.key = u.iss
           \/ ~SelfVerifying(u) /\ Claimable(Attestation(d), beside)
           \/ /\ ~SelfVerifying(u)
              /\ Claims(Attestation(d), beside) = {}
              /\ \E keys \in KeyAnswers : Reached(u, keys)

\* The claim `value` of d leads back to the owner of its resource.
Provable(desc, d, value) ==
    \/ CanIssue(value, ucan[d].iss)
    \/ LET aligned == {p \in ToSet(ucan[d].prf) : ucan[p].aud = ucan[d].iss}
       IN  \E p \in aligned :
             /\ Justified(p, aligned)
             /\ \E cap \in CapsOf(p) :
                  /\ Selects(desc, value, cap)
                  /\ Provable(desc, p, ResolveCapability(desc, value, cap))

\* Every callback obliges: the proofs can be had and the keys are known.
Obliging ==
    /\ ~ResolveDIDKeyFails
    /\ \A d \in Delegations : ~ProofUnavailable(d)

\* Access is granted exactly when there is a valid path: whatever the order in
\* which proofs arrive and are tried, no dead end, failed session or capability
\* that does not match hides a path from the search, and none is made up.
ExploresEveryOption ==
    verdict.status \in {"ok", "denied"} =>
        (verdict.status = "ok" <=> Claimable(Invoked, ToSet(Presented)))

\* The comment of access knows two outcomes, an Authorization that shows a valid
\* path or Unauthorized when there is none: a call never ends in a third way
\* while a valid path is there to be found.
NoProofEndsTheSearch ==
    verdict.status = "thrown" => ~Claimable(Invoked, ToSet(Presented))

\* A call ends in that way for a cause only: a delegation it came across, in its
\* window, that has an issuer nobody can parse, or that needs a session while a
\* local proof says nothing, or is signed by none of the keys that are resolved
\* before one that cannot be parsed.  Self-signed chains do not suffer from the
\* local proofs, and a key that verifies is not lost to those behind it.
CannotVerify(d) ==
    LET u == ucan[d]
    IN  /\ u.nbf <= now /\ now < u.exp
        /\ \/ u.iss \in Unparsable
           \/ /\ u.iss \notin KeyDIDs \cup {Authority}
              /\ \/ \E p \in Local : ucan[p].caps = <<>>
                 \/ \E keys \in KeyAnswers :
                       ~Reached(u, keys) /\ \E i \in DOMAIN keys : keys[i] \in Unparsable

Reachable ==
    LET near[n \in 0..Cardinality(Delegations)] ==
            IF n = 0 THEN ToSet(Presented)
            ELSE near[n - 1] \cup UNION {ToSet(ucan[d].prf) : d \in near[n - 1]}
    IN  near[Cardinality(Delegations)]

ThrowsForCause == verdict.status = "thrown" => \E d \in Reachable : CannotVerify(d)

=============================================================================

------------------------------ MODULE Backing -------------------------------
(***************************************************************************)
(* Chains the search must not miss, however much else it is given: chains  *)
(* whose delegations all travel with the one they prove, stay in their     *)
(* windows while the call lasts, and are signed by their issuers or        *)
(* attested, beside them, by chains that are.                              *)
(*                                                                         *)
(* The code promises to explore every option; what would break it is a     *)
(* proof dropped or an early return because of something else in the same  *)
(* call: a broken sibling, a session that fails, a match that leads        *)
(* nowhere, a link that is not found.                                      *)
(***************************************************************************)
EXTENDS ValidatorInvariant

-----------------------------------------------------------------------------
(* Evidence: pairs of a delegation and the delegations it is sure to be    *)
(* validated beside.  An attestation counts only among those.              *)

\* The k-th delegation of the chain c is validated beside these, when the
\* first is presented among W: the others come with the one they prove.
Company(u, W, c, k) ==
    IF k = 1 THEN W
    ELSE LET proven == u[c[k - 1].src]
         IN  {p \in ToSet(proven.prf) \cap proven.embedded : u[p].aud = proven.iss}

\* c is a chain for desc, presented among W, and E has evidence for each of
\* its delegations.
Supported(u, E, desc, W, c) ==
    /\ c \in Seq(Match)
    /\ IsChain(u, desc, c)
    /\ c[1].src \in W
    /\ \A k \in 2..Len(c) : c[k].src \in u[c[k - 1].src].embedded
    /\ \A k \in DOMAIN c : <<c[k].src, Company(u, W, c, k)>> \in E

\* In its window at every moment of the call so far.
Lasting(d) == \A t \in 0..now : ucan[d].nbf <= t /\ t < ucan[d].exp

SignedByIssuer(u) ==
    /\ SelfVerifying(u)
    /\ u.iss \notin Unparsable
    /\ u.key = u.iss

BySignature ==
    {x \in Delegations \X SUBSET Delegations : Lasting(x[1]) /\ SignedByIssuer(ucan[x[1]])}

-----------------------------------------------------------------------------
(* The paths there are, for a bounded search of them.                      *)

Heads(desc, ds) ==
    UNION {{[src |-> d, value |-> ParseCapability(desc, cap)] :
               cap \in {x \in ToSet(ucan[d].caps) : Parses(desc, x)}} : d \in ds}

LinksAfter(desc, m) ==
    UNION {{[src |-> d, value |-> ResolveCapability(desc, m.value, cap)] :
               cap \in {x \in ToSet(ucan[d].caps) : Selects(desc, m.value, x)}} :
           d \in ToSet(ucan[m.src].prf)}

\* No delegation can be a proof of itself, so these are all.
PathsAmong(desc, ds) ==
    LET paths[n \in 1..Cardinality(Delegations)] ==
            IF n = 1 THEN {<<m>> : m \in Heads(desc, ds)}
            ELSE paths[n - 1] \cup
                 UNION {{Append(p, m) : m \in LinksAfter(desc, Last(p))} : p \in paths[n - 1]}
    IN  paths[Cardinality(Delegations)]

-----------------------------------------------------------------------------
\* Attested, among those beside it, by a chain of signed delegations.  (With a
\* local proof without capabilities there are no sessions, the call throws.)
ByAttestation ==
    {x \in Delegations \X SUBSET Delegations :
        LET beside == x[2] \cap AttestationsFor(x[1])
        IN  /\ Lasting(x[1])
            /\ ~SelfVerifying(ucan[x[1]])
            /\ \A p \in Local : ucan[p].caps # <<>>
            /\ \E c \in PathsAmong(Attestation(x[1]), beside) :
                  Supported(ucan, BySignature, Attestation(x[1]), beside, c)}

\* While nothing is revoked, access is denied only when no chain of signed and
\* attested delegations was presented: whatever else is in the proofs, in
\* whatever order the links arrive, and whichever callbacks fail meanwhile, no
\* broken proof, failed session or dead end takes such a chain from the search.
BackedChainsAreFound ==
    verdict.status = "denied" /\ revoked = {} =>
        \A c \in PathsAmong(Invoked, ToSet(Presented)) :
            ~Supported(ucan, BySignature \cup ByAttestation, Invoked, ToSet(Presented), c)

=============================================================================

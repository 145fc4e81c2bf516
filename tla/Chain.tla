------------------------------- MODULE Chain --------------------------------
(***************************************************************************)
(* UCANs and chains of them: the vocabulary the validator and what it      *)
(* promises are both written in.                                           *)
(***************************************************************************)
EXTENDS Capability

CONSTANTS
    Delegations,     \* CIDs of the UCANs there are
    KeyDIDs,         \* DIDs of the did:key method
    OtherDIDs,       \* every other DID
    MaxTime          \* the clock stops here

DID  == KeyDIDs \cup OtherDIDs
Time == 0..MaxTime
Never == MaxTime + 1       \* an expiration that is not reached

\* A UCAN.  prf are its proofs in order, embedded the ones that travel with
\* it: the others are links.  key is the key that signed it (NoKey for the
\* signature of an absentee).
NoKey == <<>>
UCAN == [iss : DID, aud : DID, caps : Seq(Cap), prf : Seq(Delegations),
         embedded : SUBSET Delegations, nbf : 0..Never, exp : 0..Never,
         key : DID \cup {NoKey}]

\* One link: a capability of the delegation src, and what the parser made of it.
Match == [src : Delegations, value : Cap]

Verdict == [status : {"pending", "ok", "denied", "thrown"}, chain : Seq(Match)]

ASSUME ChainAssumption ==
    /\ DID \subseteq Resource
    /\ MaxTime \in Nat

\* isSelfIssued, the default canIssue: the issuer owns the resource.
CanIssue(value, issuer) == value.with = issuer

-----------------------------------------------------------------------------
(* `chain` is a delegation chain for `desc` among the delegations `ucan`:  *)
(* its head is claimed by a delegation, every link is a proof of the one   *)
(* before it that delegates to its issuer and from which its claim         *)
(* derives, and the last is issued by the owner of the resource.           *)

ClaimedBy(ucan, desc, m) ==
    \E cap \in ToSet(ucan[m.src].caps) :
        Parses(desc, cap) /\ m.value = ParseCapability(desc, cap)

GrantedBy(ucan, desc, claimed, m) ==
    \E cap \in ToSet(ucan[m.src].caps) :
        /\ Selects(desc, claimed, cap)
        /\ m.value = ResolveCapability(desc, claimed, cap)

Proves(ucan, desc, m, n) ==
    /\ n.src \in ToSet(ucan[m.src].prf)
    /\ ucan[n.src].aud = ucan[m.src].iss
    /\ GrantedBy(ucan, desc, m.value, n)

\* A chain that may go on.
IsPath(ucan, desc, path) ==
    /\ path # <<>>
    /\ ClaimedBy(ucan, desc, path[1])
    /\ \A i \in 1..(Len(path) - 1) : Proves(ucan, desc, path[i], path[i + 1])

IsChain(ucan, desc, chain) ==
    /\ IsPath(ucan, desc, chain)
    /\ CanIssue(Last(chain).value, ucan[Last(chain).src].iss)

=============================================================================

---------------------------- MODULE Attenuation -----------------------------
(***************************************************************************)
(* How a claim travels up a chain of delegations.  The validator never     *)
(* compares an invocation with the root delegation: it parses the claim    *)
(* (Capability.match), then again and again resolves a delegated pattern   *)
(* in the light of the value before it and goes on with the result         *)
(* (Match.select).  This module is that loop alone, for any owner: whether *)
(* the issuer of a delegation owns the resource is canIssue's business.    *)
(***************************************************************************)
EXTENDS Capability

CONSTANTS Caps,      \* capabilities a delegation may hold
          Desc,      \* the capability parser of the service
          MaxDepth   \* longest chain considered

ASSUME AttenuationAssumption ==
    /\ Caps \subseteq Cap
    /\ IsDescriptor(Desc)
    /\ MaxDepth \in Nat
    /\ \A c \in Caps : PlainResource(c.with)

VARIABLES granted,   \* history: the capabilities of the chain, as delegated
          values     \* what the validator made of each of them

vars == <<granted, values>>

\* The claim at the head of the chain.
Init ==
    \E cap \in Caps :
        /\ Parses(Desc, cap)
        /\ granted = <<cap>>
        /\ values = <<ParseCapability(Desc, cap)>>

\* One more link: a capability that is selected for the value before it.
ForgetClaims(cap) ==                         \* mutation: earlier links are lost
    /\ Len(values) < MaxDepth
    /\ Selects(Desc, Last(values), cap)
    /\ granted' = Append(granted, cap)
    /\ values' = <<ResolveCapability(Desc, Last(values), cap)>>

Delegate(cap) ==
    /\ Len(values) < MaxDepth
    /\ Selects(Desc, Last(values), cap)
    /\ granted' = Append(granted, cap)
    /\ values' = Append(values, ResolveCapability(Desc, Last(values), cap))

Next == \E cap \in Caps : Delegate(cap)

Spec == Init /\ [][Next]_vars

-----------------------------------------------------------------------------
\* Types; and the values are one for each capability delegated.
TypeOK ==
    /\ granted \in Seq(Caps)
    /\ values \in Seq(Cap)
    /\ values # <<>>
    /\ Len(granted) = Len(values)

\* However long the chain, every capability in it covers the claim at its head:
\* nothing is gained by delegating, although only neighbours are compared and
\* each is compared with a rewritten form of the one before.
ChainCoversClaim == \A i \in DOMAIN granted : Covers(Desc, granted[i], values[1])

\* The rewritten capabilities only ever widen: an earlier one derives from
\* every later one, so the order in which links are compared does not matter.
EarlierDerivesFromLater ==
    \A i, j \in DOMAIN values : i <= j => DefaultDerives(values[i], values[j])

=============================================================================

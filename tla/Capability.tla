----------------------------- MODULE Capability -----------------------------
(***************************************************************************)
(* The capability algebra of @ucanto/validator (capability.js): how the    *)
(* ability, the resource and the caveats of a delegated capability are     *)
(* resolved against a claimed one, and when a claim derives from what was  *)
(* delegated.  Pure operators, shared by every module that matches         *)
(* capabilities.                                                           *)
(*                                                                         *)
(* Data.  An ability or a resource is the sequence of the tokens a pattern *)
(* can cut it at, "/" among them: 'store/*' is <<"store", "/", "*">>, with *)
(* 'storefront/add' beside it, <<"store", "front", "/", "add">>, and       *)
(* 'ucan:*' is <<"ucan:", "*">>.                                           *)
(* A caveat value is a record whose equality is JavaScript's !=: a scalar  *)
(* carries no place, a link carries the delegation whose block it was      *)
(* decoded from, because two decoded links are two objects.                *)
(***************************************************************************)
EXTENDS Naturals, Sequences, SequencesExt

CONSTANTS Token,    \* what abilities and resources are made of
          Field,    \* names of caveats (keys of nb)
          Value     \* what a caveat may hold

Ability  == Seq(Token) \ {<<>>}
Resource == Seq(Token) \ {<<>>}
Caveats  == UNION {[F -> Value] : F \in SUBSET Field}

\* A capability as it stands in a UCAN, or as a validator parsed it.
Cap == [can : Ability, with : Resource, nb : Caveats]

\* What capability({can, with, nb}) is given: the ability, the resources its
\* reader accepts, and for each caveat it knows the readable values and
\* whether the caveat may be missing.
IsDescriptor(desc) ==
    /\ desc.can \in Ability
    /\ desc.with \subseteq Resource
    /\ DOMAIN desc.nb \subseteq Field
    /\ \A f \in DOMAIN desc.nb : /\ desc.nb[f].accepts \subseteq Value
                                 /\ desc.nb[f].optional \in BOOLEAN

AnyAbility  == <<"*">>
AnyResource == <<"ucan:", "*">>

-----------------------------------------------------------------------------
(* Reading: the schemas a descriptor is made of.                           *)

\* Schema.struct(...).read: every known caveat is readable, or is missing and
\* optional.  Keys the struct does not know are not looked at.
Readable(schema, nb) ==
    \A f \in DOMAIN schema :
        IF f \in DOMAIN nb THEN nb[f] \in schema[f].accepts
                           ELSE schema[f].optional

ReadNbAsIs(schema, nb) == nb                  \* mutation: unknown keys are kept

\* ... and they are not copied to the output either.
ReadNb(schema, nb) == [f \in DOMAIN schema \cap DOMAIN nb |-> nb[f]]

-----------------------------------------------------------------------------
(* Matching a pattern against what is claimed.                             *)

\* pattern.endsWith('/*')
IsNamespace(pattern) ==
    Len(pattern) > 1 /\ Last(pattern) = "*" /\ pattern[Len(pattern) - 1] = "/"

PrefixAbility(pattern, can) ==               \* mutation: the slash is cut off, too
    \/ pattern \in {can, AnyAbility}
    \/ IsNamespace(pattern) /\ IsPrefix(Front(Front(pattern)), can)

\* TRUE iff the delegated ability `pattern` resolves to the claimed `can`.
ResolveAbility(pattern, can) ==
    \/ pattern \in {can, AnyAbility}
    \/ IsNamespace(pattern) /\ IsPrefix(Front(pattern), can)

\* 'ucan:*' stands for whatever resource is claimed; any other resource is kept.
ResolveResource(source, uri) == IF source = AnyResource THEN uri ELSE source

\* {...claimed, ...delegated}: what was delegated wins, the rest is inherited.
KeepClaimed(claimed, delegated) ==           \* mutation: {...delegated, ...claimed}
    [f \in DOMAIN claimed \cup DOMAIN delegated |->
        IF f \in DOMAIN claimed THEN claimed[f] ELSE delegated[f]]

KeepDelegated(claimed, delegated) == delegated   \* mutation: nothing is inherited

InheritNb(claimed, delegated) ==
    [f \in DOMAIN claimed \cup DOMAIN delegated |->
        IF f \in DOMAIN delegated THEN delegated[f] ELSE claimed[f]]

-----------------------------------------------------------------------------
(* parseCapability: the claim at the head of a chain must name the ability *)
(* itself; patterns are not understood there.                              *)

Parses(desc, cap) ==
    /\ cap.can = desc.can
    /\ cap.with \in desc.with
    /\ Readable(desc.nb, cap.nb)

ParseCapability(desc, cap) ==
    [can |-> desc.can, with |-> cap.with, nb |-> ReadNb(desc.nb, cap.nb)]

-----------------------------------------------------------------------------
(* resolveCapability: a delegated capability is a pattern, read in the     *)
(* light of what is claimed of it.                                         *)

Resolves(desc, claimed, cap) ==
    /\ ResolveAbility(cap.can, claimed.can)
    /\ ResolveResource(cap.with, claimed.with) \in desc.with
    /\ Readable(desc.nb, InheritNb(claimed.nb, cap.nb))

ResolveCapability(desc, claimed, cap) ==
    [can  |-> claimed.can,
     with |-> ResolveResource(cap.with, claimed.with),
     nb   |-> ReadNb(desc.nb, InheritNb(claimed.nb, cap.nb))]

-----------------------------------------------------------------------------
(* defaultDerives: a trailing '*' makes the delegated resource a prefix,   *)
(* and every caveat of the delegation must be in the claim, unchanged.     *)

ContainsResource(delegated, claimed) ==
    IF Last(delegated) = "*" THEN IsPrefix(Front(delegated), claimed)
                             ELSE delegated = claimed

ContainsNb(delegated, claimed) ==
    \A f \in DOMAIN delegated :
        f \in DOMAIN claimed /\ claimed[f] = delegated[f]

DerivesResource(claimed, delegated) ==       \* mutation: caveats not compared
    ContainsResource(delegated.with, claimed.with)

DefaultDerives(claimed, delegated) ==
    /\ ContainsResource(delegated.with, claimed.with)
    /\ ContainsNb(delegated.nb, claimed.nb)

\* Match.select keeps a source when it resolves and the claim derives from it.
OnlyResolves(desc, claimed, cap) == Resolves(desc, claimed, cap) \* mutation

Selects(desc, claimed, cap) ==
    /\ Resolves(desc, claimed, cap)
    /\ DefaultDerives(claimed, ResolveCapability(desc, claimed, cap))

-----------------------------------------------------------------------------
(* What a delegated capability allows, said without the matching above:    *)
(* its ability and resource are among the patterns that stand for those of *)
(* the value, and the two agree on every caveat the parser knows.          *)

\* Whatever begins like s up to its n-th element.
Under(s, n) == Append(SubSeq(s, 1, n), "*")

\* An ability is named by itself, by '*', and by each namespace it is in.
AbilityPatterns(can) ==
    {can, AnyAbility} \cup
    {Under(can, n) : n \in {m \in DOMAIN can : can[m] = "/"}}

\* A resource by itself, by 'ucan:*', and by each of its prefixes.
ResourcePatterns(uri) ==
    {uri, AnyResource} \cup {Under(uri, n) : n \in 0..Len(uri)}

Covers(desc, cap, value) ==
    /\ cap.can \in AbilityPatterns(value.can)
    /\ cap.with \in ResourcePatterns(value.with)
    /\ \A f \in DOMAIN cap.nb \cap DOMAIN desc.nb :
          f \in DOMAIN value.nb /\ value.nb[f] = cap.nb[f]

\* A resource has a "*" in the last place or nowhere.  With an inner "*"
\* containment is not transitive: 'a**' contains the pattern 'a*' and that
\* contains 'ab', which 'a**' does not.
PlainResource(r) == \A i \in 1..(Len(r) - 1) : r[i] # "*"

=============================================================================

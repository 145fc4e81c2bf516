---------------------------- MODULE SelectorPaths ----------------------------
(***************************************************************************)
(* Chains of delegations found with composed parsers.  Proofs are issued   *)
(* one after another, each citing those before it; a capability is invoked *)
(* with the last of them, and claim and authorize follow any of the        *)
(* matches the parser, and then each match, selects.  The order in which   *)
(* the search tries them is the business of Validator; here it may take    *)
(* any, so what holds of a path holds of the one it returns.               *)
(***************************************************************************)
EXTENDS Selectors

CONSTANTS Parsers,       \* what the service may be given
          Descriptors,   \* the capabilities there are
          Resources,     \* what they are created and delegated with
          AnyNb,         \* what nb they are created and delegated with
          Written,       \* capabilities written by hand, with patterns
          Roles          \* who may issue the k-th delegation, and to whom

VARIABLES dels, parser, path, selection

vars == <<dels, parser, path, selection>>

NoParser == <<"none">>
Nothing  == [matches |-> <<>>, unknown |-> {}, errors |-> <<>>]

Init == dels = <<>> /\ parser = NoParser /\ path = <<>> /\ selection = Nothing

-----------------------------------------------------------------------------
(* Issuing.                                                                *)

Issue(caps) ==
    \E iss \in Roles[Len(dels) + 1].iss, aud \in Roles[Len(dels) + 1].aud :
        dels' = Append(dels, [iss |-> iss, aud |-> aud, caps |-> caps])

\* Capability.delegate.
Delegate ==
    /\ Len(dels) + 1 < Len(Roles)
    /\ \E desc \in Descriptors, with \in Resources, nb \in AnyNb :
          /\ CanDelegate(desc, with, nb)
          /\ Issue(<<[can |-> desc.can, with |-> with, nb |-> ReadNb(desc.nb, nb)]>>)
    /\ UNCHANGED <<parser, path, selection>>

\* delegate of @ucanto/core reads nothing.
DelegateWritten ==
    /\ Len(dels) + 1 < Len(Roles)
    /\ \E caps \in Written : Issue(caps)
    /\ UNCHANGED <<parser, path, selection>>

\* The capabilities of the delegation k, as sources.
SourcesIn(ds, k) ==
    [i \in DOMAIN ds[k].caps |-> [cap |-> ds[k].caps[i], src |-> k, iss |-> ds[k].iss]]

\* Capability.invoke, and access with the parser of the service.
Invoke ==
    /\ Len(dels) + 1 = Len(Roles)
    /\ \E desc \in Descriptors, with \in Resources, nb \in AnyNb :
          /\ CanCreate(desc, with, nb)
          /\ Issue(<<Create(desc, with, nb)>>)
    /\ \E p \in Parsers :
          parser' = p /\ selection' = Select(p, SourcesIn(dels', Len(dels')))
    /\ UNCHANGED path

\* ... of several capabilities, which must not be made with invoke.
InvokeWritten ==
    /\ Len(dels) + 1 = Len(Roles)
    /\ \E caps \in Written : Issue(caps)
    /\ \E p \in Parsers :
          parser' = p /\ selection' = Select(p, SourcesIn(dels', Len(dels')))
    /\ UNCHANGED path

-----------------------------------------------------------------------------
(* Searching.                                                              *)

\* resolveMatch: the proofs of every delegation the match was found in, once
\* for each time it occurs, that are addressed to the issuer.
ProofsOf(m) ==
    LET Aligned(s) == SelectSeq([j \in 1..(s.src - 1) |-> j], LAMBDA j : dels[j].aud = s.iss)
    IN  FlattenSeq([i \in DOMAIN Sources(m) |->
            FlattenSeq([j \in DOMAIN Aligned(Sources(m)[i]) |->
                            SourcesIn(dels, Aligned(Sources(m)[i])[j])])])

\* claim and authorize: what is left of the match is proved, or nothing is.
Explore ==
    /\ \E i \in DOMAIN selection.matches :
          LET m    == selection.matches[i]
              rest == Prune(m)
          IN  /\ path' = Append(path, m)
              /\ selection' = IF rest = NoMatch THEN Nothing ELSE Select(rest, ProofsOf(rest))
    /\ UNCHANGED <<dels, parser>>

-----------------------------------------------------------------------------
(* delegation.js tells an agent what it may claim (allows), without the    *)
(* parsers of any service.                                                 *)

MatchAbilityWithin(provided, claimed) ==     \* mutation: '*' is but a name
    IF \/ IsNamespace(claimed) /\ IsPrefix(Front(claimed), provided)
       \/ provided = claimed
    THEN <<provided>> ELSE <<>>

\* The more specific of the two, if either includes the other.
MatchAbility(provided, claimed) ==
    LET Includes(pattern, can) ==
            \/ pattern \in {AnyAbility, can}
            \/ IsNamespace(pattern) /\ IsPrefix(Front(pattern), can)
    IN  IF provided # AnyAbility /\ Includes(claimed, provided) THEN <<provided>>
        ELSE IF Includes(provided, claimed) THEN <<claimed>>
        ELSE <<>>

RECURSIVE IterateCapabilities(_)

\* `ucan:*` is what the issuer owns and all its proofs delegate; the proofs of
\* a delegation are those before it.
IterateCapabilities(k) ==
    LET Redelegated(own) ==
            {c \in UNION {IterateCapabilities(j) : j \in 1..(k - 1)} : MatchAbility(c.can, own.can) # <<>>}
        Expand(own) ==
            IF own.with # AnyResource THEN {own}
            ELSE {[own EXCEPT !.with = dels[k].iss]}
                 \cup {[can  |-> MatchAbility(c.can, own.can)[1],
                        with |-> c.with,
                        nb   |-> InheritNb(c.nb, own.nb)] : c \in Redelegated(own)}
    IN  UNION {Expand(own) : own \in ToSet(dels[k].caps)}

Next == Delegate \/ DelegateWritten \/ Invoke \/ InvokeWritten \/ Explore

Spec == Init /\ [][Next]_vars

-----------------------------------------------------------------------------
(* When a match follows from another, said without selecting.              *)

RECURSIVE Owned(_), Follows(_, _)

\* Every capability the match stands for is issued by the owner of its resource.
Owned(m) == CASE m[1] = "match"   -> SelfIssued(m)
              [] m[1] = "derived" -> Owned(m[2])
              [] m[1] = "group"   -> \A i \in DOMAIN m[2] : Owned(m[2][i])

\* n proves what is claimed in m: a capability that covers it, one it may be
\* derived from, and of a group one for each member that is not owned.
Follows(m, n) ==
    CASE m[1] = "match" ->
            /\ n[1] = "match"
            /\ n[2].cap.can \in AbilityPatterns(m[3].can)
            /\ IF m[4][3] = "default" THEN Covers(m[4][2], n[2].cap, m[3])
                                      ELSE Derives(m[4][3], m[3], n[3])
      [] m[1] = "derived" ->
            \/ n[1] = "derived" /\ Follows(m[2], n[2])
            \/ Derives(m[4], ValueOf(m), ValueOf(n))
      [] m[1] = "group" ->
            LET Unowned(x) == ~Owned(x)
                claims == SelectSeq(m[2], Unowned)
            IN  /\ n[1] = "group"
                /\ Len(n[2]) = Len(claims)
                /\ \A i \in DOMAIN claims : Follows(claims[i], n[2][i])

Selector == IF path = <<>> THEN parser ELSE Prune(Last(path))
Offered  == IF path = <<>> THEN SourcesIn(dels, Len(dels)) ELSE ProofsOf(Prune(Last(path)))

Selecting == parser # NoParser /\ Selector # NoMatch
Proven    == path # <<>> /\ Selector = NoMatch

-----------------------------------------------------------------------------
(* Properties.                                                             *)

\* The path that authorizes leads from the claim to the owners, whatever the
\* parser is composed of: each match follows from the next, a custom rule
\* included, and nothing that its issuer does not own is left without a proof.
ProvenToTheOwners ==
    Proven => /\ \A i \in 1..(Len(path) - 1) : Follows(path[i], path[i + 1])
              /\ Owned(Last(path))

\* A group is tried with every choice of one match for each member, so that a
\* combination that is valid further on is not passed over.
EveryCombination ==
    Selecting /\ Selector[1] \in {"and", "group"} =>
        LET found == [i \in DOMAIN Selector[2] |-> ToSet(Select(Selector[2][i], Offered).matches)]
        IN  ToSet(selection.matches) =
                {AndMatch(t) : t \in {t \in [DOMAIN found -> UNION Range(found)] :
                                         \A i \in DOMAIN found : t[i] \in found[i]}}

\* What is reported as a capability nobody asked for is used by no match and is
\* the cause of no error; without groups everything else is one of these.
AccountedFor ==
    Selecting =>
        LET matched == UNION {ToSet(Sources(m)) : m \in ToSet(selection.matches)}
            faulty  == {e[2] : e \in ToSet(selection.errors)}
        IN  /\ selection.unknown \cap (matched \cup faulty) = {}
            /\ Selector[1] \in {"capability", "or", "match"} =>
                  ToSet(Offered) = selection.unknown \cup matched \cup faulty

\* An agent that asks what a delegation allows misses nothing a service would
\* authorize it to do: along a proven path every delegation allows a capability
\* that covers what is made of it, with the patterns of all of them resolved.
\* (Custom rules and derivations are known to the service only.)
AllowsOverlooksNothing ==
    Proven /\ (\A i \in DOMAIN path : path[i][1] = "match" /\ path[i][4][3] = "default") =>
        \A i \in DOMAIN path :
            \E cap \in IterateCapabilities(path[i][2].src) : Covers(path[i][4][2], cap, path[i][3])

\* A caveat the parser does not declare restricts nothing: what is found is the
\* same capability as without it.
Known(source) ==
    [source EXCEPT !.cap.nb = [f \in DOMAIN @ \cap UNION {DOMAIN d.nb : d \in Descriptors} |-> @[f]]]

UnknownCaveatsAreIgnored ==
    Selecting =>
        LET without == Select(Selector, [i \in DOMAIN Offered |-> Known(Offered[i])])
        IN  [i \in DOMAIN without.matches |-> ValueOf(without.matches[i])]
              = [i \in DOMAIN selection.matches |-> ValueOf(selection.matches[i])]

\* What is delegated covers what is invoked: a proof whose ability, resource and
\* given caveats agree with the claim is selected, also when it leaves out
\* caveats the claim must have.
DelegatedCovers ==
    Selecting /\ Selector[1] = "match" /\ Selector[4][3] = "default" =>
        \A i \in DOMAIN Offered :
            Covers(Selector[4][2], Offered[i].cap, Selector[3])
                => \E m \in ToSet(selection.matches) : Sources(m) = <<Offered[i]>>

=============================================================================

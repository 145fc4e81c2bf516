------------------------------ MODULE Selectors ------------------------------
(***************************************************************************)
(* The capability parsers of @ucanto/validator that are made of others:    *)
(* or, and, derive, and custom rules of derivation.  A parser matches a    *)
(* source, a capability in a delegation; the match it gives is again a     *)
(* selector, which finds among the capabilities of the proofs those the    *)
(* claim derives from, and can be pruned of what its issuer owns.          *)
(*                                                                         *)
(* Parsers and matches are trees of tuples whose first element says what   *)
(* they are.  A source is known by its place, as an object by identity.    *)
(***************************************************************************)
EXTENDS Capability, Naturals

CONSTANT Derives(_, _, _)    \* Derives(rule, claimed, delegated), the custom rules

\* A source is [cap, src, iss]: cap stands in the delegation src, iss issued it.

Unit(desc, rule)        == <<"capability", desc, rule>>
Or(left, right)         == <<"or", left, right>>
And(selectors)          == <<"and", selectors>>
Derive(from, to, rule)  == <<"derive", from, to, rule>>

Match(source, value, parser)  == <<"match", source, value, parser>>
DerivedMatch(selected, from, rule) == <<"derived", selected, from, rule>>
AndMatch(matches)             == <<"group", matches>>

NoMatch == <<"null">>

-----------------------------------------------------------------------------
(* What every match has.                                                   *)

RECURSIVE Sources(_), ValueOf(_), Prune(_)

Sources(m) ==
    CASE m[1] = "match"   -> <<m[2]>>
      [] m[1] = "derived" -> Sources(m[2])
      [] m[1] = "group"   -> FlattenSeq([i \in DOMAIN m[2] |-> Sources(m[2][i])])

ValueOf(m) ==
    CASE m[1] = "match"   -> m[3]
      [] m[1] = "derived" -> ValueOf(m[2])
      [] m[1] = "group"   -> [i \in DOMAIN m[2] |-> ValueOf(m[2][i])]

SelfIssued(m) == m[3].with = m[2].iss

PruneGroupAny(matches) ==         \* mutation: one owned member settles the group
    IF \E i \in DOMAIN matches : Prune(matches[i]) = NoMatch THEN NoMatch ELSE AndMatch(matches)

\* What is left to prove of a match; nothing of one whose issuer is the owner.
PruneGroup(matches) ==
    LET Remains(m) == m # NoMatch
        pruned == SelectSeq([i \in DOMAIN matches |-> Prune(matches[i])], Remains)
    IN  IF pruned = <<>> THEN NoMatch ELSE AndMatch(pruned)

PruneDerived(m) ==
    LET selected == Prune(m[2])
    IN  IF selected = NoMatch THEN NoMatch ELSE DerivedMatch(selected, m[3], m[4])

Prune(m) ==
    CASE m[1] = "match"   -> IF SelfIssued(m) THEN NoMatch ELSE m
      [] m[1] = "derived" -> PruneDerived(m)
      [] m[1] = "group"   -> PruneGroup(m[2])

-----------------------------------------------------------------------------
(* Parsers.  The result of a match names the source when it is an error.   *)

Unknown(source)   == <<"UnknownCapability", source>>
Malformed(source) == <<"MalformedCapability", source>>
Escalated(source) == <<"EscalatedCapability", source>>
Found(m)          == <<"ok", m>>

RECURSIVE MatchOf(_, _)

MatchCapability(p, source) ==
    IF source.cap.can # p[2].can THEN Unknown(source)
    ELSE IF Parses(p[2], source.cap) THEN Found(Match(source, ParseCapability(p[2], source.cap), p))
    ELSE Malformed(source)

\* The left parser has precedence; of two errors the malformed one on the right.
MatchOr(left, right, source) ==
    LET first  == MatchOf(left, source)
        second == MatchOf(right, source)
    IN  IF first[1] # "ok" /\ (second[1] = "ok" \/ second = Malformed(source)) THEN second ELSE first

\* The first member that does not match decides.
MatchAnd(selectors, source) ==
    LET results == [i \in DOMAIN selectors |-> MatchOf(selectors[i], source)]
        Fails(r) == r[1] # "ok"
        failed  == SelectSeq(results, Fails)
    IN  IF failed # <<>> THEN Head(failed)
        ELSE Found(AndMatch([i \in DOMAIN results |-> results[i][2]]))

MatchDerive(from, to, rule, source) ==
    LET r == MatchOf(to, source)
    IN  IF r[1] = "ok" THEN Found(DerivedMatch(r[2], from, rule)) ELSE r

MatchOf(p, source) ==
    CASE p[1] = "capability" -> MatchCapability(p, source)
      [] p[1] = "or"         -> MatchOr(p[2], p[3], source)
      [] p[1] = "and"        -> MatchAnd(p[2], source)
      [] p[1] = "derive"     -> MatchDerive(p[2], p[3], p[4], source)

-----------------------------------------------------------------------------
(* Selections: the matches and the errors in order, the unknown sources.   *)

RECURSIVE Select(_, _)

Tagged(results, tag) ==
    LET Has(r) == r[1] = tag
        found  == SelectSeq(results, Has)
    IN  [i \in DOMAIN found |-> found[i][2]]

Sorted(results) ==
    LET IsError(r) == r[1] \in {"MalformedCapability", "EscalatedCapability"}
    IN  [matches |-> Tagged(results, "ok"),
         unknown |-> ToSet(Tagged(results, "UnknownCapability")),
         errors  |-> SelectSeq(results, IsError)]

SelectParsed(p, sources) == Sorted([i \in DOMAIN sources |-> MatchOf(p, sources[i])])

\* Match.select: a source is a pattern, resolved in the light of the claim.
SelectResolved(m, sources) ==
    LET desc == m[4][2]
        Result(s) ==
            LET value == ResolveCapability(desc, m[3], s.cap)
            IN  IF ~ResolveAbility(s.cap.can, m[3].can) THEN Unknown(s)
                ELSE IF ~Resolves(desc, m[3], s.cap) THEN Malformed(s)
                ELSE IF ~Derives(m[4][3], m[3], value) THEN Escalated(s)
                ELSE Found(Match(s, value, m[4]))
    IN  Sorted([i \in DOMAIN sources |-> Result(sources[i])])

\* DerivedMatch.select: the capability itself, or one it may be derived from.
SelectDerived(m, sources) ==
    LET direct  == Select(m[2], sources)
        derived == Select(m[3], sources)
        Allowed(n)   == Derives(m[4], ValueOf(m), ValueOf(n))
        Forbidden(n) == ~Allowed(n)
        escalating   == SelectSeq(derived.matches, Forbidden)
    IN  [matches |-> [i \in DOMAIN direct.matches |-> DerivedMatch(direct.matches[i], m[3], m[4])]
                        \o SelectSeq(derived.matches, Allowed),
         unknown |-> direct.unknown \cap derived.unknown,
         errors  |-> [i \in DOMAIN escalating |-> Escalated(Sources(escalating[i])[1])]
                        \o direct.errors \o derived.errors]

\* combine: every way to take one of each, the first varying fastest.
CombinePairs(dataset) ==                     \* mutation: the k-th of each together
    LET n == Min({Len(dataset[i]) : i \in DOMAIN dataset})
    IN  [k \in 1..n |-> [i \in DOMAIN dataset |-> dataset[i][k]]]

Combine(dataset) ==
    LET Extend(tuples, values) ==
            FlattenSeq([j \in DOMAIN values |->
                           [i \in DOMAIN tuples |-> Append(tuples[i], values[j])]])
    IN  FoldLeft(Extend, <<<<>>>>, dataset)

SelectGroupUnion(selectors, sources) ==  \* mutation: unknown to one is unknown
    LET selected == [i \in DOMAIN selectors |-> Select(selectors[i], sources)]
        groups   == Combine([i \in DOMAIN selectors |-> selected[i].matches])
    IN  [matches |-> [i \in DOMAIN groups |-> AndMatch(groups[i])],
         unknown |-> UNION {selected[i].unknown : i \in DOMAIN selected},
         errors  |-> FlattenSeq([i \in DOMAIN selected |-> selected[i].errors])]

\* selectGroup, of a parser or of a match.
SelectGroup(selectors, sources) ==
    LET selected == [i \in DOMAIN selectors |-> Select(selectors[i], sources)]
        groups   == Combine([i \in DOMAIN selectors |-> selected[i].matches])
    IN  [matches |-> [i \in DOMAIN groups |-> AndMatch(groups[i])],
         unknown |-> {u \in ToSet(sources) : \A i \in DOMAIN selected : u \in selected[i].unknown},
         errors  |-> FlattenSeq([i \in DOMAIN selected |-> selected[i].errors])]

Select(s, sources) ==
    CASE s[1] \in {"capability", "or", "derive"} -> SelectParsed(s, sources)
      [] s[1] = "match"              -> SelectResolved(s, sources)
      [] s[1] = "derived"            -> SelectDerived(s, sources)
      [] s[1] \in {"and", "group"}   -> SelectGroup(s[2], sources)

-----------------------------------------------------------------------------
(* Making capabilities.                                                    *)

\* partial(): a caveat may be missing, and is held to its reader otherwise.
PartialNb(schema) == [f \in DOMAIN schema |-> [schema[f] EXCEPT !.optional = TRUE]]

\* Capability.create, for invocations: throws unless the readers accept.
CanCreate(desc, with, nb) == with \in desc.with /\ Readable(desc.nb, nb)
Create(desc, with, nb)    == [can |-> desc.can, with |-> with, nb |-> ReadNb(desc.nb, nb)]

\* Capability.delegate.
CanDelegate(desc, with, nb) == with \in desc.with /\ Readable(PartialNb(desc.nb), nb)

=============================================================================

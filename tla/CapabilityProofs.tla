-------------------------- MODULE CapabilityProofs --------------------------
(***************************************************************************)
(* Facts about the capability algebra, for every capability parser:        *)
(* containment and derivation are reflexive, and transitive on the         *)
(* resources people delegate; what is parsed and resolved has its type.    *)
(***************************************************************************)
EXTENDS Capability, Integers, TLAPS

-----------------------------------------------------------------------------
(* Patterns and prefixes.                                                  *)

\* A prefix, element by element.
LEMMA PrefixElements ==
    ASSUME NEW A, NEW s \in Seq(A), NEW t \in Seq(A)
    PROVE  IsPrefix(s, t) <=> /\ Len(s) <= Len(t)
                              /\ \A i \in 1..Len(s) : s[i] = t[i]
<1>1. ASSUME IsPrefix(s, t)
      PROVE  Len(s) <= Len(t) /\ \A i \in 1..Len(s) : s[i] = t[i]
  BY <1>1 DEF IsPrefix
<1>2. ASSUME Len(s) <= Len(t), \A i \in 1..Len(s) : s[i] = t[i]
      PROVE  IsPrefix(s, t)
  BY <1>2 DEF IsPrefix
<1> QED BY <1>1, <1>2

\* What Front and Last are, element by element.
LEMMA FrontAndLast ==
    ASSUME NEW A, NEW s \in Seq(A), s # <<>>
    PROVE  /\ Front(s) \in Seq(A)
           /\ Len(s) \in Nat /\ Len(s) > 0
           /\ Len(Front(s)) = Len(s) - 1
           /\ \A i \in 1..(Len(s) - 1) : Front(s)[i] = s[i]
           /\ Last(s) = s[Len(s)]
<1>1. Len(s) \in Nat /\ Len(s) > 0
  OBVIOUS
<1> DEFINE n == Len(s) - 1
<1>2. Front(s) \in Seq(A) /\ Len(Front(s)) = n
  <2>1. n \in Nat /\ n <= Len(s)
    BY <1>1
  <2>2. \A i \in 1..n : s[i] \in A
    BY <1>1
  <2>3. Front(s) = SubSeq(s, 1, n)
    BY DEF Front
  <2> HIDE DEF n
  <2>4. SubSeq(s, 1, n) = [i \in 1..n |-> s[i]]
    BY <2>1
  <2> QED BY <2>1, <2>2, <2>3, <2>4
<1>3. \A i \in 1..(Len(s) - 1) : Front(s)[i] = s[i]
  BY <1>1 DEF Front
<1> QED BY <1>1, <1>2, <1>3 DEF Last

\* The first n elements of t and then a "*", element by element.
LEMMA PatternElements ==
    ASSUME NEW A, "*" \in A, NEW t \in Seq(A), NEW n \in 0..Len(t)
    PROVE  Under(t, n) = [i \in 1..(n + 1) |-> IF i = n + 1 THEN "*" ELSE t[i]]
<1>1. n \in Nat /\ n <= Len(t) /\ Len(t) \in Nat
  OBVIOUS
<1>2. SubSeq(t, 1, n) = [i \in 1..n |-> t[i]]
  BY <1>1
<1> DEFINE s == [i \in 1..n |-> t[i]]
<1>3. s \in Seq(A) /\ Len(s) = n /\ \A i \in 1..n : s[i] = t[i]
  BY <1>1
<1> HIDE DEF s
<1>4. Append(s, "*") = [i \in 1..(n + 1) |-> IF i = n + 1 THEN "*" ELSE s[i]]
  <2>1. /\ Append(s, "*") \in Seq(A) /\ Len(Append(s, "*")) = n + 1
        /\ \A i \in 1..n : Append(s, "*")[i] = s[i]
        /\ Append(s, "*")[n + 1] = "*"
    BY <1>1, <1>3
  <2> DEFINE q == Append(s, "*")
  <2> HIDE DEF q
  <2>2. q \in Seq(A) /\ Len(q) = n + 1
    BY <2>1 DEF q
  <2>3. \A i \in 1..(n + 1) : q[i] = IF i = n + 1 THEN "*" ELSE s[i]
    BY <1>1, <2>1 DEF q
  <2>4. q = [i \in 1..(n + 1) |-> IF i = n + 1 THEN "*" ELSE s[i]]
    BY <2>2, <2>3
  <2> QED BY <2>4 DEF q
<1>5. [i \in 1..(n + 1) |-> IF i = n + 1 THEN "*" ELSE s[i]]
        = [i \in 1..(n + 1) |-> IF i = n + 1 THEN "*" ELSE t[i]]
  <2>1. \A i \in 1..(n + 1) : i # n + 1 => i \in 1..n
    BY <1>1
  <2> QED BY <1>3, <2>1
<1> QED BY <1>2, <1>4, <1>5 DEF s, Under

\* A pattern with a "*" at its end is a prefix of t and that "*".
LEMMA PatternsOf ==
    ASSUME NEW A, "*" \in A, NEW p \in Seq(A), p # <<>>, NEW t \in Seq(A)
    PROVE  /\ Last(p) = "*" /\ IsPrefix(Front(p), t)
                 => Len(p) - 1 \in 0..Len(t) /\ p = Under(t, Len(p) - 1)
           /\ \A n \in 0..Len(t) :
                 p = Under(t, n)
                     => /\ Len(p) = n + 1 /\ Last(p) = "*" /\ IsPrefix(Front(p), t)
                        /\ \A i \in 1..n : p[i] = t[i]
<1>1. /\ Front(p) \in Seq(A) /\ Len(p) \in Nat /\ Len(p) > 0 /\ Len(t) \in Nat
      /\ Len(Front(p)) = Len(p) - 1
      /\ \A i \in 1..(Len(p) - 1) : Front(p)[i] = p[i]
      /\ Last(p) = p[Len(p)]
  BY FrontAndLast
<1>2. IsPrefix(Front(p), t) <=> /\ Len(p) - 1 <= Len(t)
                                /\ \A i \in 1..(Len(p) - 1) : p[i] = t[i]
  BY <1>1, PrefixElements
<1>3. ASSUME Last(p) = "*", IsPrefix(Front(p), t)
      PROVE  Len(p) - 1 \in 0..Len(t) /\ p = Under(t, Len(p) - 1)
  <2> DEFINE n == Len(p) - 1
  <2>1. n \in 0..Len(t) /\ n + 1 = Len(p)
    BY <1>1, <1>2, <1>3
  <2>2. Under(t, n) = [i \in 1..(n + 1) |-> IF i = n + 1 THEN "*" ELSE t[i]]
    BY <2>1, PatternElements
  <2>3. p = [i \in 1..(n + 1) |-> p[i]]
    BY <1>1, <2>1
  <2>4. \A i \in 1..(n + 1) : p[i] = IF i = n + 1 THEN "*" ELSE t[i]
    <3>1. \A i \in 1..(n + 1) : i # n + 1 => i \in 1..(Len(p) - 1)
      BY <1>1, <2>1
    <3> QED BY <1>1, <1>2, <1>3, <2>1, <3>1
  <2>5. p = [i \in 1..(n + 1) |-> IF i = n + 1 THEN "*" ELSE t[i]]
    <3> HIDE DEF n
    <3> QED BY <2>3, <2>4
  <2> QED BY <2>1, <2>2, <2>5
<1>4. ASSUME NEW n \in 0..Len(t), p = Under(t, n)
      PROVE  /\ Len(p) = n + 1 /\ Last(p) = "*" /\ IsPrefix(Front(p), t)
             /\ \A i \in 1..n : p[i] = t[i]
  <2>1. p = [i \in 1..(n + 1) |-> IF i = n + 1 THEN "*" ELSE t[i]]
    BY <1>4, PatternElements
  <2>2. n \in Nat /\ n <= Len(t)
    BY <1>1
  <2>3. Len(p) = n + 1 /\ p[n + 1] = "*" /\ \A i \in 1..n : p[i] = t[i]
    BY <2>1, <2>2
  <2> QED BY <1>1, <1>2, <2>2, <2>3
<1> QED BY <1>3, <1>4

\* resolveAbility accepts exactly the patterns that stand for the ability.
LEMMA AbilityPatternsExact ==
    ASSUME NEW can \in Ability, NEW pattern \in Ability
    PROVE  pattern \in AbilityPatterns(can) <=> ResolveAbility(pattern, can)
<1> DEFINE A == Token \cup {"*"}
<1>1. can \in Seq(A) /\ pattern \in Seq(A) /\ pattern # <<>> /\ "*" \in A
  BY DEF Ability
<1> HIDE DEF A
<1>2. /\ Len(pattern) \in Nat /\ Len(can) \in Nat /\ DOMAIN can = 1..Len(can)
      /\ Len(Front(pattern)) = Len(pattern) - 1 /\ Front(pattern) \in Seq(A)
  BY <1>1, FrontAndLast
<1>3. ASSUME IsNamespace(pattern), IsPrefix(Front(pattern), can)
      PROVE  pattern \in AbilityPatterns(can)
  <2> DEFINE n == Len(pattern) - 1
  <2>1. n \in 0..Len(can) /\ pattern = Under(can, n)
    BY <1>1, <1>3, PatternsOf DEF IsNamespace
  <2>2. n \in 1..Len(can) /\ can[n] = "/"
    <3>1. n \in Nat /\ n > 0 /\ pattern[n] = "/"
      BY <1>2, <1>3 DEF IsNamespace
    <3>2. \A i \in 1..n : pattern[i] = can[i]
      BY <1>1, <2>1, PatternsOf
    <3>3. n \in 1..n /\ n \in 1..Len(can)
      BY <1>2, <2>1, <3>1
    <3> QED BY <3>1, <3>2, <3>3
  <2> HIDE DEF n
  <2> QED BY <1>2, <2>1, <2>2 DEF AbilityPatterns
<1>4. ASSUME NEW n \in DOMAIN can, can[n] = "/", pattern = Under(can, n)
      PROVE  IsNamespace(pattern) /\ IsPrefix(Front(pattern), can)
  <2>1. n \in 0..Len(can) /\ n \in Nat /\ n > 0 /\ n \in 1..n
    BY <1>2
  <2>2. /\ Len(pattern) = n + 1 /\ Last(pattern) = "*" /\ IsPrefix(Front(pattern), can)
        /\ \A i \in 1..n : pattern[i] = can[i]
    BY <1>1, <1>4, <2>1, PatternsOf
  <2>3. Len(pattern) - 1 = n /\ Len(pattern) > 1 /\ pattern[n] = "/"
    BY <1>4, <2>1, <2>2
  <2> QED BY <2>2, <2>3 DEF IsNamespace
<1> QED BY <1>3, <1>4 DEF AbilityPatterns, ResolveAbility

\* A resource is contained by itself, patterns included.
LEMMA ContainsItself ==
    ASSUME NEW r \in Resource
    PROVE  ContainsResource(r, r)
<1>1. r \in Seq(Token) /\ r # <<>>
  BY DEF Resource
<1>2. IsPrefix(Front(r), r)
  <2>1. /\ Front(r) \in Seq(Token)
        /\ Len(Front(r)) = Len(r) - 1 /\ Len(r) \in Nat
        /\ \A i \in 1..(Len(r) - 1) : Front(r)[i] = r[i]
    BY <1>1, FrontAndLast
  <2>2. Len(Front(r)) <= Len(r) /\ \A i \in 1..Len(Front(r)) : Front(r)[i] = r[i]
    BY <2>1
  <2> QED BY <1>1, <2>1, <2>2, PrefixElements
<1> QED BY <1>2 DEF ContainsResource

\* 'ucan:*' and what contains a resource are the patterns that stand for it.
LEMMA ResourcePatternsExact ==
    ASSUME NEW uri \in Resource, NEW r \in Resource
    PROVE  r \in ResourcePatterns(uri) <=> r = AnyResource \/ ContainsResource(r, uri)
<1> DEFINE A == Token \cup {"*"}
<1>1. uri \in Seq(A) /\ r \in Seq(A) /\ r # <<>> /\ "*" \in A
  BY DEF Resource
<1> HIDE DEF A
<1>2. ASSUME ContainsResource(r, uri)
      PROVE  r \in ResourcePatterns(uri)
  <2>1. CASE Last(r) = "*"
    <3>1. Len(r) - 1 \in 0..Len(uri) /\ r = Under(uri, Len(r) - 1)
      BY <1>1, <1>2, <2>1, PatternsOf DEF ContainsResource
    <3> QED BY <3>1 DEF ResourcePatterns
  <2>2. CASE Last(r) # "*"
    BY <1>2, <2>2 DEF ContainsResource, ResourcePatterns
  <2> QED BY <2>1, <2>2
<1>3. ASSUME NEW n \in 0..Len(uri), r = Under(uri, n)
      PROVE  ContainsResource(r, uri)
  BY <1>1, <1>3, PatternsOf DEF ContainsResource
<1>4. r = uri => ContainsResource(r, uri)
  BY ContainsItself
<1> QED BY <1>2, <1>3, <1>4 DEF ResourcePatterns

\* Covering, in the words of the matching.
LEMMA CoversMeans ==
    ASSUME NEW desc, NEW cap \in Cap, NEW value \in Cap
    PROVE  Covers(desc, cap, value) <=>
              /\ ResolveAbility(cap.can, value.can)
              /\ cap.with = AnyResource \/ ContainsResource(cap.with, value.with)
              /\ \A f \in DOMAIN cap.nb \cap DOMAIN desc.nb :
                    f \in DOMAIN value.nb /\ value.nb[f] = cap.nb[f]
<1>1. cap.can \in Ability /\ value.can \in Ability /\ cap.with \in Resource /\ value.with \in Resource
  BY DEF Cap
<1>2. cap.can \in AbilityPatterns(value.can) <=> ResolveAbility(cap.can, value.can)
  BY <1>1, AbilityPatternsExact
<1>3. cap.with \in ResourcePatterns(value.with)
         <=> cap.with = AnyResource \/ ContainsResource(cap.with, value.with)
  BY <1>1, ResourcePatternsExact
<1> QED BY <1>2, <1>3 DEF Covers

\* Containment is transitive when the widest pattern has no inner "*".
LEMMA ContainmentTransitive ==
    ASSUME NEW wide \in Resource, NEW mid \in Resource, NEW narrow \in Resource,
           PlainResource(wide),
           ContainsResource(wide, mid), ContainsResource(mid, narrow)
    PROVE  ContainsResource(wide, narrow)
<1>1. CASE Last(wide) # "*"
  BY <1>1 DEF ContainsResource
<1>2. CASE Last(mid) # "*"
  BY <1>2 DEF ContainsResource
<1>3. CASE Last(wide) = "*" /\ Last(mid) = "*"
  <2>1. /\ wide \in Seq(Token) /\ wide # <<>>
        /\ mid \in Seq(Token) /\ mid # <<>>
        /\ narrow \in Seq(Token)
    BY DEF Resource
  <2>2. IsPrefix(Front(wide), mid) /\ IsPrefix(Front(mid), narrow)
    BY <1>3 DEF ContainsResource
  <2>3. /\ Front(wide) \in Seq(Token)
        /\ Len(Front(wide)) = Len(wide) - 1 /\ Len(wide) \in Nat /\ Len(wide) > 0
        /\ \A i \in 1..(Len(wide) - 1) : Front(wide)[i] = wide[i]
    BY <2>1, FrontAndLast
  <2>4. /\ Front(mid) \in Seq(Token)
        /\ Len(Front(mid)) = Len(mid) - 1 /\ Len(mid) \in Nat /\ Len(mid) > 0
        /\ \A i \in 1..(Len(mid) - 1) : Front(mid)[i] = mid[i]
        /\ mid[Len(mid)] = "*"
    BY <1>3, <2>1, FrontAndLast
  <2>5. /\ Len(wide) - 1 <= Len(mid)
        /\ \A i \in 1..(Len(wide) - 1) : wide[i] = mid[i]
    BY <2>1, <2>2, <2>3, PrefixElements
  <2>6. /\ Len(narrow) \in Nat
        /\ Len(mid) - 1 <= Len(narrow)
        /\ \A i \in 1..(Len(mid) - 1) : mid[i] = narrow[i]
    BY <2>1, <2>2, <2>4, PrefixElements
  <2>7. Len(wide) - 1 # Len(mid)
    <3>1. SUFFICES ASSUME Len(wide) - 1 = Len(mid) PROVE FALSE
      OBVIOUS
    <3>2. Len(mid) \in 1..(Len(wide) - 1)
      BY <2>3, <2>4, <3>1
    <3> QED BY <2>4, <2>5, <3>2 DEF PlainResource
  <2>8. /\ Len(Front(wide)) <= Len(narrow)
        /\ \A i \in 1..Len(Front(wide)) : Front(wide)[i] = narrow[i]
    <3>1. Len(wide) - 1 <= Len(mid) - 1
      BY <2>3, <2>4, <2>5, <2>7
    <3> QED BY <2>3, <2>4, <2>5, <2>6, <3>1
  <2>9. IsPrefix(Front(wide), narrow)
    BY <2>1, <2>3, <2>8, PrefixElements
  <2> QED BY <1>3, <2>9 DEF ContainsResource
<1> QED BY <1>1, <1>2, <1>3

\* ... and so is derivation.
LEMMA DerivationTransitive ==
    ASSUME NEW wide \in Cap, NEW mid \in Cap, NEW narrow \in Cap,
           PlainResource(wide.with),
           DefaultDerives(mid, wide), DefaultDerives(narrow, mid)
    PROVE  DefaultDerives(narrow, wide)
<1>1. ContainsResource(wide.with, narrow.with)
  BY ContainmentTransitive DEF DefaultDerives, Cap
<1>2. ContainsNb(wide.nb, narrow.nb)
  BY DEF DefaultDerives, ContainsNb
<1> QED BY <1>1, <1>2 DEF DefaultDerives

\* Everything derives from itself.
LEMMA DerivesFromItself ==
    ASSUME NEW value \in Cap
    PROVE  DefaultDerives(value, value)
  BY ContainsItself DEF DefaultDerives, ContainsNb, Cap

-----------------------------------------------------------------------------
(* Resolving.                                                              *)

\* Reading caveats gives caveats.
LEMMA ReadNbType ==
    ASSUME NEW schema, NEW nb \in Caveats
    PROVE  ReadNb(schema, nb) \in Caveats
<1>1. PICK F \in SUBSET Field : nb \in [F -> Value]
  BY DEF Caveats
<1> DEFINE G == DOMAIN schema \cap F
<1>2. ReadNb(schema, nb) \in [G -> Value]
  BY <1>1 DEF ReadNb
<1>3. G \in SUBSET Field
  OBVIOUS
<1> HIDE DEF G
<1> QED BY <1>2, <1>3 DEF Caveats

\* What parsing and resolving make of a capability is a capability.
LEMMA ParseType ==
    ASSUME NEW desc, IsDescriptor(desc), NEW cap \in Cap, Parses(desc, cap)
    PROVE  ParseCapability(desc, cap) \in Cap
<1>1. ReadNb(desc.nb, cap.nb) \in Caveats
  BY ReadNbType DEF Cap
<1> QED BY <1>1 DEF ParseCapability, Cap, IsDescriptor

\* ... by resolveCapability: caveats inherited from the claim included.
LEMMA ResolveType ==
    ASSUME NEW desc, NEW claimed \in Cap, NEW cap \in Cap
    PROVE  ResolveCapability(desc, claimed, cap) \in Cap
<1>1. InheritNb(claimed.nb, cap.nb) \in Caveats
  <2>1. claimed.nb \in Caveats /\ cap.nb \in Caveats
    BY DEF Cap
  <2>2. PICK F \in SUBSET Field, G \in SUBSET Field :
            claimed.nb \in [F -> Value] /\ cap.nb \in [G -> Value]
    BY <2>1 DEF Caveats
  <2>3. InheritNb(claimed.nb, cap.nb) \in [F \cup G -> Value]
    BY <2>2 DEF InheritNb
  <2> QED BY <2>3 DEF Caveats
<1>2. ReadNb(desc.nb, InheritNb(claimed.nb, cap.nb)) \in Caveats
  BY <1>1, ReadNbType
<1>3. ResolveResource(cap.with, claimed.with) \in {cap.with, claimed.with}
  BY DEF ResolveResource
<1> QED BY <1>2, <1>3 DEF ResolveCapability, Cap

\* A capability that is selected for `claimed` covers whatever derives from
\* `claimed`, however far down the chain.
LEMMA SelectedCovers ==
    ASSUME NEW desc,
           NEW claimed \in Cap, NEW cap \in Cap, NEW value \in Cap,
           Selects(desc, claimed, cap),
           value.can = claimed.can,
           DefaultDerives(value, ResolveCapability(desc, claimed, cap))
    PROVE  Covers(desc, cap, value)
<1> DEFINE resolved == ResolveCapability(desc, claimed, cap)
<1>1. ResolveAbility(cap.can, value.can)
  BY DEF Selects, Resolves
<1>2. cap.with = AnyResource \/ ContainsResource(cap.with, value.with)
  <2>1. ContainsResource(resolved.with, value.with)
    BY DEF DefaultDerives
  <2>2. cap.with # AnyResource => resolved.with = cap.with
    BY DEF ResolveCapability, ResolveResource
  <2> QED BY <2>1, <2>2
<1>3. ASSUME NEW f \in DOMAIN cap.nb \cap DOMAIN desc.nb
      PROVE  f \in DOMAIN value.nb /\ value.nb[f] = cap.nb[f]
  <2>1. f \in DOMAIN resolved.nb /\ resolved.nb[f] = cap.nb[f]
    BY DEF ResolveCapability, ReadNb, InheritNb
  <2>2. ContainsNb(resolved.nb, value.nb)
    BY DEF DefaultDerives
  <2> QED BY <2>1, <2>2 DEF ContainsNb
<1> QED BY <1>1, <1>2, <1>3, CoversMeans

-----------------------------------------------------------------------------
(* What is selected, exactly.                                              *)

\* A value that a parser with this descriptor made.
ValueOfDescriptor(desc, value) ==
    /\ value.with \in desc.with
    /\ Readable(desc.nb, value.nb)

\* Reading what was read changes nothing about whether it is readable.
LEMMA ReadIsReadable ==
    ASSUME NEW schema, NEW nb, Readable(schema, nb)
    PROVE  Readable(schema, ReadNb(schema, nb))
BY DEF Readable, ReadNb

\* Parsing a claim and resolving a delegation against a value give values of
\* the descriptor, so that the theorem below holds all along a chain.
LEMMA ValuesOfDescriptor ==
    ASSUME NEW desc, NEW claimed, NEW cap
    PROVE  /\ Parses(desc, cap) => ValueOfDescriptor(desc, ParseCapability(desc, cap))
           /\ Resolves(desc, claimed, cap)
                 => ValueOfDescriptor(desc, ResolveCapability(desc, claimed, cap))
<1>1. ASSUME Parses(desc, cap)
      PROVE  ValueOfDescriptor(desc, ParseCapability(desc, cap))
  BY <1>1, ReadIsReadable DEF Parses, ParseCapability, ValueOfDescriptor
<1>2. ASSUME Resolves(desc, claimed, cap)
      PROVE  ValueOfDescriptor(desc, ResolveCapability(desc, claimed, cap))
  <2> DEFINE nb == InheritNb(claimed.nb, cap.nb)
             r  == ResolveCapability(desc, claimed, cap)
  <2>1. Readable(desc.nb, nb) /\ ResolveResource(cap.with, claimed.with) \in desc.with
    BY <1>2 DEF Resolves
  <2>2. r.with = ResolveResource(cap.with, claimed.with) /\ r.nb = ReadNb(desc.nb, nb)
    BY DEF ResolveCapability
  <2> HIDE DEF nb, r
  <2>3. Readable(desc.nb, r.nb)
    BY <2>1, <2>2, ReadIsReadable
  <2>4. ValueOfDescriptor(desc, r)
    BY <2>1, <2>2, <2>3 DEF ValueOfDescriptor
  <2> QED BY <2>4 DEF r
<1> QED BY <1>1, <1>2

\* Match.select (capability.js: resolveCapability, then derives) keeps exactly
\* the delegated capabilities that cover the value it proves, among those whose
\* resource the parser reads: nothing too wide is kept, nothing is overlooked.
THEOREM SelectsWhatCovers ==
    ASSUME NEW desc, NEW value \in Cap, NEW cap \in Cap,
           ValueOfDescriptor(desc, value),
           cap.with = AnyResource \/ cap.with \in desc.with
    PROVE  Selects(desc, value, cap) <=> Covers(desc, cap, value)
<1> DEFINE nb       == InheritNb(value.nb, cap.nb)
           resolved == ResolveCapability(desc, value, cap)
<1>1. ASSUME Selects(desc, value, cap)
      PROVE  Covers(desc, cap, value)
  BY <1>1, SelectedCovers DEF Selects
<1>2. ASSUME Covers(desc, cap, value)
      PROVE  Selects(desc, value, cap)
  <2>1. /\ ResolveAbility(cap.can, value.can)
        /\ cap.with = AnyResource \/ ContainsResource(cap.with, value.with)
        /\ \A f \in DOMAIN cap.nb \cap DOMAIN desc.nb :
              f \in DOMAIN value.nb /\ value.nb[f] = cap.nb[f]
    BY <1>2, CoversMeans
  <2>2. value.with \in Resource
    BY DEF Cap
  <2>3. /\ ResolveResource(cap.with, value.with) \in desc.with
        /\ ContainsResource(ResolveResource(cap.with, value.with), value.with)
    BY <2>1, <2>2, ContainsItself DEF ResolveResource, ValueOfDescriptor
  <2>4. Readable(desc.nb, nb)
    <3> SUFFICES ASSUME NEW f \in DOMAIN desc.nb
                 PROVE  IF f \in DOMAIN nb THEN nb[f] \in desc.nb[f].accepts
                                           ELSE desc.nb[f].optional
      BY DEF Readable
    <3>1. IF f \in DOMAIN value.nb THEN value.nb[f] \in desc.nb[f].accepts
                                   ELSE desc.nb[f].optional
      BY DEF ValueOfDescriptor, Readable
    <3>2. CASE f \in DOMAIN cap.nb
      BY <2>1, <3>1, <3>2 DEF InheritNb
    <3>3. CASE f \notin DOMAIN cap.nb
      BY <3>1, <3>3 DEF InheritNb
    <3> QED BY <3>2, <3>3
  <2>5. Resolves(desc, value, cap)
    BY <2>1, <2>3, <2>4 DEF Resolves
  <2>6. /\ resolved.with = ResolveResource(cap.with, value.with)
        /\ resolved.nb = ReadNb(desc.nb, nb)
    BY DEF ResolveCapability
  <2>7. ASSUME NEW f \in DOMAIN resolved.nb
        PROVE  f \in DOMAIN value.nb /\ value.nb[f] = resolved.nb[f]
    <3>1. f \in DOMAIN desc.nb /\ f \in DOMAIN nb /\ resolved.nb[f] = nb[f]
      BY <2>6, <2>7 DEF ReadNb
    <3>2. CASE f \in DOMAIN cap.nb
      BY <2>1, <3>1, <3>2 DEF InheritNb
    <3>3. CASE f \notin DOMAIN cap.nb
      BY <3>1, <3>3 DEF InheritNb
    <3> QED BY <3>2, <3>3
  <2>8. DefaultDerives(value, resolved)
    BY <2>3, <2>6, <2>7 DEF DefaultDerives, ContainsNb
  <2> QED BY <2>5, <2>8 DEF Selects
<1> QED BY <1>1, <1>2

\* Caveats that agree on the declared fields are readable, and read, alike.
LEMMA SameKnown ==
    ASSUME NEW schema, NEW a, NEW b,
           \A f \in DOMAIN schema : /\ f \in DOMAIN a <=> f \in DOMAIN b
                                    /\ f \in DOMAIN a => a[f] = b[f]
    PROVE  /\ Readable(schema, a) <=> Readable(schema, b)
           /\ ReadNb(schema, a) = ReadNb(schema, b)
<1>1. Readable(schema, a) <=> Readable(schema, b)
  BY DEF Readable
<1>2. DOMAIN schema \cap DOMAIN a = DOMAIN schema \cap DOMAIN b
  OBVIOUS
<1>3. ReadNb(schema, a) = ReadNb(schema, b)
  BY <1>2 DEF ReadNb
<1> QED BY <1>1, <1>3

\* A caveat the parser does not declare (schema.js: Struct.readWith copies the
\* fields of its shape only) neither keeps a capability from being parsed or
\* selected nor shows in what is made of it.
THEOREM UnknownCaveatsDropped ==
    ASSUME NEW desc, NEW claimed \in Cap, NEW cap \in Cap,
           NEW known, known = [cap EXCEPT !.nb = ReadNb(desc.nb, cap.nb)]
    PROVE  /\ Parses(desc, cap) <=> Parses(desc, known)
           /\ ParseCapability(desc, cap) = ParseCapability(desc, known)
           /\ Selects(desc, claimed, cap) <=> Selects(desc, claimed, known)
           /\ ResolveCapability(desc, claimed, cap) = ResolveCapability(desc, claimed, known)
<1> DEFINE schema == desc.nb
           a      == cap.nb
           b      == ReadNb(schema, a)
           ia     == InheritNb(claimed.nb, a)
           ib     == InheritNb(claimed.nb, b)
<1>1. known.can = cap.can /\ known.with = cap.with /\ known.nb = b
  BY DEF Cap
<1>2. \A f \in DOMAIN schema : /\ f \in DOMAIN a <=> f \in DOMAIN b
                               /\ f \in DOMAIN a => a[f] = b[f]
  BY DEF ReadNb
<1>3. \A f \in DOMAIN schema : /\ f \in DOMAIN ia <=> f \in DOMAIN ib
                               /\ f \in DOMAIN ia => ia[f] = ib[f]
  BY <1>2 DEF InheritNb
<1> HIDE DEF b, ia, ib
<1>4. (Readable(schema, a) <=> Readable(schema, b)) /\ ReadNb(schema, a) = ReadNb(schema, b)
  BY <1>2, SameKnown
<1>5. (Readable(schema, ia) <=> Readable(schema, ib)) /\ ReadNb(schema, ia) = ReadNb(schema, ib)
  BY <1>3, SameKnown
<1>6. /\ Parses(desc, cap) <=> Parses(desc, known)
      /\ ParseCapability(desc, cap) = ParseCapability(desc, known)
  BY <1>1, <1>4 DEF Parses, ParseCapability
<1>7. ResolveCapability(desc, claimed, cap) = ResolveCapability(desc, claimed, known)
  BY <1>1, <1>5 DEF ResolveCapability, ia, ib
<1>8. Resolves(desc, claimed, cap) <=> Resolves(desc, claimed, known)
  BY <1>1, <1>5 DEF Resolves, ia, ib
<1> QED BY <1>6, <1>7, <1>8 DEF Selects

=============================================================================

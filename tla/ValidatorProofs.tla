-------------------------- MODULE ValidatorProofs ---------------------------
(***************************************************************************)
(* The search grants only chains: proofs for every set of delegations,     *)
(* whatever they say, every answer of the callbacks and any clock.         *)
(***************************************************************************)
EXTENDS ValidatorInvariant, CapabilityProofs, SubsequencesProofs

-----------------------------------------------------------------------------
(* Sequences.                                                              *)

\* The elements of a sequence made longer or shorter.
LEMMA ElementsOfSequences ==
    ASSUME NEW A, NEW s \in Seq(A), NEW t \in Seq(A)
    PROVE  /\ ToSet(s) \subseteq A
           /\ ToSet(s \o t) \subseteq ToSet(s) \cup ToSet(t)
           /\ \A x \in A : ToSet(Append(s, x)) \subseteq ToSet(s) \cup {x}
           /\ s # <<>> => /\ ToSet(Tail(s)) \subseteq ToSet(s)
                          /\ Tail(s) \in Seq(A)
                          /\ Head(s) \in ToSet(s)
<1>1. ToSet(s) \subseteq A
  BY DEF ToSet
<1>2. ToSet(s \o t) \subseteq ToSet(s) \cup ToSet(t)
  <2> SUFFICES ASSUME NEW i \in DOMAIN (s \o t)
               PROVE  (s \o t)[i] \in ToSet(s) \cup ToSet(t)
    BY DEF ToSet
  <2>1. CASE i <= Len(s)
    <3>1. i \in DOMAIN s /\ (s \o t)[i] = s[i]
      BY <2>1
    <3> QED BY <3>1 DEF ToSet
  <2>2. CASE i > Len(s)
    <3>1. i - Len(s) \in DOMAIN t /\ (s \o t)[i] = t[i - Len(s)]
      BY <2>2
    <3> QED BY <3>1 DEF ToSet
  <2> QED BY <2>1, <2>2
<1>3. \A x \in A : ToSet(Append(s, x)) \subseteq ToSet(s) \cup {x}
  BY DEF ToSet
<1>4. ASSUME s # <<>>
      PROVE  ToSet(Tail(s)) \subseteq ToSet(s) /\ Tail(s) \in Seq(A) /\ Head(s) \in ToSet(s)
  BY <1>4 DEF ToSet
<1> QED BY <1>1, <1>2, <1>3, <1>4

\* Cutting the stack at k and putting f there.
LEMMA CutAt ==
    ASSUME NEW A, NEW s \in Seq(A), NEW k \in 1..Len(s), NEW f \in A
    PROVE  LET t == [SubSeq(s, 1, k) EXCEPT ![k] = f]
           IN  /\ t \in Seq(A) /\ Len(t) = k /\ t[k] = f
               /\ \A j \in 1..(k - 1) : t[j] = s[j]
<1> DEFINE u == SubSeq(s, 1, k)
<1>1. u \in Seq(A) /\ Len(u) = k /\ \A j \in 1..k : u[j] = s[j]
  OBVIOUS
<1> HIDE DEF u
<1>2. [u EXCEPT ![k] = f] \in Seq(A)
  BY <1>1
<1>3. Len([u EXCEPT ![k] = f]) = k
  BY <1>1
<1>4. [u EXCEPT ![k] = f][k] = f /\ \A j \in 1..(k - 1) : [u EXCEPT ![k] = f][j] = s[j]
  BY <1>1
<1> QED BY <1>2, <1>3, <1>4 DEF u

-----------------------------------------------------------------------------
(* Chains.                                                                 *)

\* A claim starts a path.
LEMMA PathStarts ==
    ASSUME NEW u, NEW desc, NEW m \in Match, ClaimedBy(u, desc, m)
    PROVE  IsPath(u, desc, Append(<<>>, m))
<1>1. Append(<<>>, m) = <<m>>
  OBVIOUS
<1> QED BY <1>1 DEF IsPath

\* A proof of its last link continues it.
LEMMA PathContinues ==
    ASSUME NEW u, NEW desc, NEW path \in Seq(Match), NEW m \in Match,
           IsPath(u, desc, path), Proves(u, desc, Last(path), m)
    PROVE  IsPath(u, desc, Append(path, m))
<1> DEFINE n == Len(path)
           longer == Append(path, m)
<1>1. n \in Nat /\ n > 0 /\ Last(path) = path[n]
  BY DEF IsPath, Last
<1>2. /\ Len(longer) = n + 1 /\ longer # <<>> /\ longer[n + 1] = m
      /\ \A i \in 1..n : longer[i] = path[i]
  BY <1>1
<1>3. ClaimedBy(u, desc, longer[1])
  BY <1>1, <1>2 DEF IsPath
<1> HIDE DEF longer
<1>4. ASSUME NEW i \in 1..n
      PROVE  Proves(u, desc, longer[i], longer[i + 1])
  <2>1. CASE i = n
    BY <1>1, <1>2, <2>1
  <2>2. CASE i < n
    <3>1. i \in 1..(n - 1) /\ i + 1 \in 1..n
      BY <1>1, <2>2
    <3>2. Proves(u, desc, path[i], path[i + 1])
      BY <3>1 DEF IsPath
    <3> QED BY <1>2, <3>1, <3>2
  <2> QED BY <1>1, <2>1, <2>2
<1>5. 1..(Len(longer) - 1) = 1..n
  BY <1>1, <1>2
<1> QED BY <1>2, <1>3, <1>4, <1>5 DEF IsPath, longer

-----------------------------------------------------------------------------
(* Selecting.                                                              *)

\* What selecting from capabilities found valid may return.
LEMMA ClaimsSelected ==
    ASSUME NEW u, NEW desc, IsDescriptor(desc), NEW sources \in Seq(Source),
           \A s \in ToSet(sources) : s.cap \in ToSet(u[s.src].caps)
    PROVE  /\ SelectClaim(desc, sources) \in Seq(Match)
           /\ \A m \in ToSet(SelectClaim(desc, sources)) :
                 /\ ClaimedBy(u, desc, m)
                 /\ \E s \in ToSet(sources) : m.src = s.src
<1> DEFINE fit == {s \in ToSet(sources) : Parses(desc, s.cap)}
           kept == Keep(sources, fit)
           matchOf(s) == [src |-> s.src, value |-> ParseCapability(desc, s.cap)]
           selected == [i \in DOMAIN kept |-> matchOf(kept[i])]
<1>1. kept \in Seq(Source) /\ \A i \in DOMAIN kept : kept[i] \in fit
  <2> HIDE DEF fit
  <2> QED BY KeepElements
<1>2. \A s \in fit : /\ matchOf(s) \in Match
                     /\ ClaimedBy(u, desc, matchOf(s))
                     /\ s \in ToSet(sources)
  <2> TAKE s \in fit
  <2>1. s \in ToSet(sources) /\ Parses(desc, s.cap)
    OBVIOUS
  <2>2. s \in Source
    BY <2>1 DEF ToSet
  <2>3. ParseCapability(desc, s.cap) \in Cap
    BY <2>1, <2>2, ParseType DEF Source
  <2> QED BY <2>1, <2>2, <2>3 DEF Source, Match, ClaimedBy
<1>3. SelectClaim(desc, sources) = selected
  BY DEF SelectClaim
<1> HIDE DEF fit, kept
<1>4. selected \in Seq(Match)
  BY <1>1, <1>2
<1>5. ASSUME NEW m \in ToSet(selected)
      PROVE  ClaimedBy(u, desc, m) /\ \E s \in ToSet(sources) : m.src = s.src
  <2>1. PICK i \in DOMAIN kept : m = matchOf(kept[i])
    BY DEF ToSet
  <2> QED BY <1>1, <1>2, <2>1
<1> QED BY <1>3, <1>4, <1>5

\* ... and what match.select may return: the matches it grants, each from a source.
LEMMA ProofsSelected ==
    ASSUME NEW u, NEW desc, IsDescriptor(desc), NEW claimed \in Cap,
           NEW sources \in Seq(Source),
           \A s \in ToSet(sources) : s.cap \in ToSet(u[s.src].caps)
    PROVE  /\ SelectProof(desc, claimed, sources) \in Seq(Match)
           /\ \A m \in ToSet(SelectProof(desc, claimed, sources)) :
                 /\ GrantedBy(u, desc, claimed, m)
                 /\ \E s \in ToSet(sources) : m.src = s.src
<1> DEFINE fit == {s \in ToSet(sources) : Selects(desc, claimed, s.cap)}
           kept == Keep(sources, fit)
           matchOf(s) == [src |-> s.src, value |-> ResolveCapability(desc, claimed, s.cap)]
           selected == [i \in DOMAIN kept |-> matchOf(kept[i])]
<1>1. kept \in Seq(Source) /\ \A i \in DOMAIN kept : kept[i] \in fit
  <2> HIDE DEF fit
  <2> QED BY KeepElements
<1>2. \A s \in fit : /\ matchOf(s) \in Match
                     /\ GrantedBy(u, desc, claimed, matchOf(s))
                     /\ s \in ToSet(sources)
  <2> TAKE s \in fit
  <2>1. s \in ToSet(sources) /\ Selects(desc, claimed, s.cap)
    OBVIOUS
  <2>2. s \in Source
    BY <2>1 DEF ToSet
  <2>3. ResolveCapability(desc, claimed, s.cap) \in Cap
    BY <2>2, ResolveType DEF Source
  <2> QED BY <2>1, <2>2, <2>3 DEF Source, Match, GrantedBy
<1>3. SelectProof(desc, claimed, sources) = selected
  BY DEF SelectProof
<1> HIDE DEF fit, kept
<1>4. selected \in Seq(Match)
  BY <1>1, <1>2
<1>5. ASSUME NEW m \in ToSet(selected)
      PROVE  GrantedBy(u, desc, claimed, m) /\ \E s \in ToSet(sources) : m.src = s.src
  <2>1. PICK i \in DOMAIN kept : m = matchOf(kept[i])
    BY DEF ToSet
  <2> QED BY <1>1, <1>2, <2>1
<1> QED BY <1>3, <1>4, <1>5

-----------------------------------------------------------------------------
(* Frames.                                                                 *)

\* What a frame looks for is a capability parser.
LEMMA WantedDescriptor ==
    ASSUME TypeOK, NEW about \in Seq(Delegations)
    PROVE  IsDescriptor(Wanted(about))
<1>1. CASE about = <<>>
  BY <1>1, InvokedAssumption DEF Wanted
<1>2. CASE about # <<>>
  <2>1. about[1] \in Delegations
    BY <1>2
  <2>2. Attestors \subseteq Resource
    BY PrincipalAssumption, LocalAssumption, ChainAssumption
       DEF Attestors, TypeOK, UCAN, DID
  <2>3. \A d, h \in Delegations : LinkTo(d, h) \in Value
    BY AttestationAssumption
  <2>4. IsDescriptor(Attestation(about[1]))
    BY <2>1, <2>2, <2>3, AttestationAssumption DEF IsDescriptor, Attestation, LinksTo
  <2> QED BY <1>2, <2>4 DEF Wanted
<1> QED BY <1>1, <1>2

\* The types of what a frame holds.
LEMMA FrameFields ==
    ASSUME NEW f \in Frame
    PROVE  /\ f.kind \in {"claim", "authorize"} /\ f.phase \in Phases
           /\ f.about \in Seq(Delegations) /\ f.links \in SUBSET Delegations
           /\ f.batch \in Seq(Delegations) /\ f.next \in Nat \ {0}
           /\ f.path \in Seq(Match) /\ f.chain \in Seq(Match)
           /\ f.todo \in Seq(Match) /\ f.sources \in Seq(Source)
           /\ Len(f.path) \in Nat
           /\ f.path # <<>> => Len(f.path) > 0
           /\ f.todo # <<>> => Head(f.todo) \in Match
<1>1. /\ f.kind \in {"claim", "authorize"} /\ f.phase \in Phases
      /\ f.about \in Seq(Delegations) /\ f.links \in SUBSET Delegations
      /\ f.batch \in Seq(Delegations) /\ f.next \in Nat \ {0}
      /\ f.path \in Seq(Match) /\ f.chain \in Seq(Match)
      /\ f.todo \in Seq(Match) /\ f.sources \in Seq(Source)
  BY DEF Frame
<1> DEFINE path == f.path
           todo == f.todo
<1> HIDE DEF path, todo
<1>2. path \in Seq(Match) /\ todo \in Seq(Match)
  BY <1>1 DEF path, todo
<1>3. Len(path) \in Nat /\ (path # <<>> => Len(path) > 0)
  BY <1>2
<1>4. todo # <<>> => Head(todo) \in Match
  BY <1>2
<1> QED BY <1>1, <1>3, <1>4 DEF path, todo

\* A new call.
LEMMA CallFrame ==
    ASSUME NEW kind \in {"claim", "authorize"}, NEW about \in Seq(Delegations),
           NEW path \in Seq(Match), NEW batch \in Seq(Delegations),
           NEW links \in SUBSET Delegations
    PROVE  LET f == Call(kind, about, path, batch, links)
           IN  /\ f \in Frame
               /\ f.kind = kind /\ f.about = about /\ f.path = path
               /\ f.phase = "resolve" /\ f.batch = batch /\ f.links = links
               /\ f.sources = <<>> /\ f.todo = <<>>
  BY DEF Call, Frame, Phases

\* The delegation under validation is done with.
LEMMA RejectFrame ==
    ASSUME NEW f \in Frame, FrameOK(f), f.phase \in {"validate", "keys"}
    PROVE  /\ Reject(f) \in Frame /\ FrameOK(Reject(f))
           /\ Reject(f).kind = f.kind /\ Reject(f).about = f.about
           /\ Reject(f).path = f.path /\ Offered(Reject(f)) = Offered(f)
           /\ Reject(f).phase = "validate"
           /\ Reject(f).links = f.links /\ Reject(f).batch = f.batch
           /\ Reject(f).sources = f.sources /\ Reject(f).todo = f.todo
           /\ Reject(f).chain = f.chain
<1> DEFINE g == Reject(f)
<1>1. /\ g \in Frame
      /\ g.kind = f.kind /\ g.about = f.about /\ g.path = f.path
      /\ g.phase = "validate" /\ g.links = f.links /\ g.batch = f.batch
      /\ g.sources = f.sources /\ g.todo = f.todo /\ g.chain = f.chain
  <2> DEFINE n == f.next + 1
  <2>1. n \in Nat \ {0} /\ "validate" \in Phases
    BY DEF Frame, Phases
  <2>2. g = [f EXCEPT !.phase = "validate", !.next = n]
    BY DEF Reject
  <2> HIDE DEF n, g
  <2> QED BY <2>1, <2>2 DEF Frame
<1> HIDE DEF g
<1>2. Offered(g) = Offered(f)
  BY <1>1 DEF Offered
<1>3. FrameOK(g)
  BY <1>1, <1>2 DEF FrameOK
<1> QED BY <1>1, <1>2, <1>3 DEF g

\* ... and its capabilities count.
LEMMA AcceptFrame ==
    ASSUME TypeOK, NEW f \in Frame, FrameOK(f), f.phase \in {"validate", "keys"},
           f.next <= Len(f.batch)
    PROVE  /\ Accept(f) \in Frame /\ FrameOK(Accept(f))
           /\ Accept(f).kind = f.kind /\ Accept(f).about = f.about
           /\ Accept(f).path = f.path /\ Offered(Accept(f)) = Offered(f)
<1> DEFINE g == Accept(f)
           d == f.batch[f.next]
           more == SourcesOf(d)
<1>1. d \in Delegations /\ d \in ToSet(f.batch)
  BY DEF Frame, ToSet
<1>2. /\ more \in Seq(Source)
      /\ \A s \in ToSet(more) : s.src = d /\ s.cap \in ToSet(ucan[d].caps)
  <2>1. ucan[d].caps \in Seq(Cap)
    BY <1>1 DEF TypeOK, UCAN
  <2> HIDE DEF d
  <2>2. more = [i \in DOMAIN ucan[d].caps |-> [src |-> d, cap |-> ucan[d].caps[i]]]
    BY DEF SourcesOf
  <2>3. \A i \in DOMAIN ucan[d].caps :
            /\ ucan[d].caps[i] \in Cap
            /\ [src |-> d, cap |-> ucan[d].caps[i]] \in Source
    BY <1>1, <2>1 DEF Source
  <2> HIDE DEF more
  <2>4. more \in Seq(Source)
    BY <2>1, <2>2, <2>3
  <2>5. DOMAIN more = DOMAIN ucan[d].caps
    BY <2>2
  <2>6. \A i \in DOMAIN more : more[i].src = d /\ more[i].cap = ucan[d].caps[i]
    BY <2>2, <2>5
  <2> QED BY <2>4, <2>5, <2>6 DEF ToSet
<1> HIDE DEF d, more
<1>3. f.sources \o more \in Seq(Source)
  BY <1>2 DEF Frame
<1>4. /\ g \in Frame
      /\ g.kind = f.kind /\ g.about = f.about /\ g.path = f.path
      /\ g.phase = "validate" /\ g.links = f.links /\ g.batch = f.batch
      /\ g.sources = f.sources \o more /\ g.todo = f.todo /\ g.chain = f.chain
  <2> DEFINE r == Reject(f)
  <2>1. /\ r \in Frame /\ r.phase = "validate"
        /\ r.kind = f.kind /\ r.about = f.about /\ r.path = f.path
        /\ r.links = f.links /\ r.batch = f.batch
        /\ r.sources = f.sources /\ r.todo = f.todo /\ r.chain = f.chain
    BY RejectFrame
  <2>2. g = [r EXCEPT !.sources = f.sources \o more]
    BY <2>1 DEF Accept, d, more
  <2> HIDE DEF r, g
  <2> QED BY <1>3, <2>1, <2>2 DEF Frame
<1> HIDE DEF g
<1>5. Offered(g) = Offered(f)
  BY <1>4 DEF Offered
<1>6. \A s \in ToSet(g.sources) : s.src \in ToSet(g.batch) /\ s.cap \in ToSet(ucan[s.src].caps)
  <2>1. f.sources \in Seq(Source)
    BY DEF Frame
  <2>2. ToSet(g.sources) \subseteq ToSet(f.sources) \cup ToSet(more)
    BY <1>2, <1>4, <2>1, ElementsOfSequences
  <2> QED BY <1>1, <1>2, <1>4, <2>2 DEF FrameOK
<1>7. FrameOK(g)
  BY <1>4, <1>5, <1>6 DEF FrameOK
<1> QED BY <1>4, <1>5, <1>7 DEF g

-----------------------------------------------------------------------------
(* The stack.                                                              *)

\* Returning to the frame at the top of t, which may have changed.
LEMMA StackCut ==
    ASSUME NEW s \in Seq(Frame), StackOK(s), NEW t \in Seq(Frame),
           Len(t) \in 1..Len(s), \A j \in 1..(Len(t) - 1) : t[j] = s[j],
           FrameOK(t[Len(t)]),
           t[Len(t)].kind = s[Len(t)].kind, t[Len(t)].about = s[Len(t)].about,
           t[Len(t)].path = s[Len(t)].path,
           Offered(t[Len(t)]) \subseteq Offered(s[Len(t)])
    PROVE  StackOK(t)
<1> DEFINE k == Len(t)
<1>1. k \in Nat /\ k \in 1..Len(s) /\ Len(s) \in Nat
  OBVIOUS
<1>2. \A i \in 1..k : /\ t[i] \in Frame /\ s[i] \in Frame
                      /\ t[i].kind = s[i].kind /\ t[i].about = s[i].about
                      /\ t[i].path = s[i].path /\ Offered(t[i]) \subseteq Offered(s[i])
                      /\ FrameOK(t[i])
  <2> TAKE i \in 1..k
  <2>1. CASE i = k
    BY <2>1
  <2>2. CASE i \in 1..(k - 1)
    BY <2>2 DEF StackOK
  <2> QED BY <1>1, <2>1, <2>2
<1>3. \A i \in 1..k : WorksFor(t, i)
  <2> TAKE i \in 1..k
  <2> DEFINE c == i - Len(s[i].path)
  <2>1. /\ c \in 1..i /\ s[c].kind = "claim" /\ s[c].about = s[i].about
        /\ s[i].path # <<>> => /\ s[c].phase = "search" /\ s[c].todo # <<>>
                               /\ s[i].path[1] = Head(s[c].todo)
    BY <1>1 DEF StackOK, WorksFor
  <2>2. Len(s[i].path) \in Nat
    BY <1>2, FrameFields
  <2>3. s[i].path # <<>> => c \in 1..(k - 1)
    <3> SUFFICES ASSUME s[i].path # <<>> PROVE c \in 1..(k - 1)
      OBVIOUS
    <3>1. Len(s[i].path) > 0
      BY <1>2, FrameFields
    <3> QED BY <1>1, <2>1, <2>2, <3>1
  <2>4. c \in 1..k
    BY <1>1, <2>1
  <2> HIDE DEF c, k
  <2>5. /\ t[c].kind = "claim" /\ t[c].about = t[i].about
    BY <1>2, <2>1, <2>4
  <2>6. t[i].path # <<>> => /\ t[c].phase = "search" /\ t[c].todo # <<>>
                           /\ t[i].path[1] = Head(t[c].todo)
    BY <1>2, <2>1, <2>3 DEF k
  <2>7. c = i - Len(t[i].path)
    BY <1>2 DEF c
  <2> QED BY <2>1, <2>5, <2>6, <2>7 DEF WorksFor
<1>4. \A i \in 1..(k - 1) : MayCall(t[i], t[i + 1])
  <2> TAKE i \in 1..(k - 1)
  <2>1. MayCall(s[i], s[i + 1])
    BY <1>1 DEF StackOK
  <2>2. t[i] = s[i] /\ i + 1 \in 1..k
    OBVIOUS
  <2> HIDE DEF k
  <2> QED BY <1>2, <2>1, <2>2 DEF MayCall
<1>5. t[1].kind = "claim" /\ t[1].about = <<>> /\ Offered(t[1]) \subseteq ToSet(Presented)
  <2>1. s # <<>> /\ 1 \in 1..k
    BY <1>1
  <2> QED BY <1>2, <2>1 DEF StackOK
<1> QED BY <1>2, <1>3, <1>4, <1>5 DEF StackOK

\* Calling.
LEMMA StackPush ==
    ASSUME NEW s \in Seq(Frame), StackOK(s), s # <<>>,
           NEW g \in Frame, FrameOK(g), MayCall(s[Len(s)], g)
    PROVE  StackOK(Append(s, g))
<1> DEFINE n == Len(s)
           t == Append(s, g)
           f == s[n]
<1>1. n \in Nat /\ n > 0 /\ n \in 1..n /\ f \in Frame
  OBVIOUS
<1>2. /\ Len(t) = n + 1 /\ t[n + 1] = g /\ t # <<>>
      /\ \A i \in 1..n : t[i] = s[i]
  OBVIOUS
<1>3. \A i \in 1..n : WorksFor(s, i) /\ FrameOK(s[i])
  BY DEF StackOK
<1>4. \A i \in 1..(n - 1) : MayCall(s[i], s[i + 1])
  BY DEF StackOK
<1>5. s[1].kind = "claim" /\ s[1].about = <<>> /\ Offered(s[1]) \subseteq ToSet(Presented)
  BY DEF StackOK
<1>6. MayCall(f, g)
  OBVIOUS
<1> HIDE DEF t, f, n
<1>7. \A i \in 1..(n + 1) : FrameOK(t[i])
  BY <1>1, <1>2, <1>3
<1>8. \A i \in 1..n : WorksFor(t, i)
  <2> TAKE i \in 1..n
  <2>1. WorksFor(s, i)
    BY <1>3
  <2>2. i - Len(s[i].path) \in 1..n
    BY <1>1, <2>1 DEF WorksFor
  <2> QED BY <1>2, <2>1, <2>2 DEF WorksFor
<1>9. WorksFor(t, n + 1)
  <2>1. CASE g.kind = "claim"
    <3>1. g.path = <<>>
      BY <2>1 DEF FrameOK
    <3>2. (n + 1) - Len(g.path) = n + 1 /\ n + 1 \in 1..(n + 1)
      BY <1>1, <3>1
    <3> QED BY <1>2, <2>1, <3>1, <3>2 DEF WorksFor
  <2>2. CASE g.kind # "claim"
    <3>1. /\ f.phase = "search" /\ f.todo # <<>>
          /\ g.about = f.about /\ g.path = Append(f.path, Head(f.todo))
      BY <1>6, <2>2 DEF MayCall
    <3> DEFINE c == n - Len(f.path)
    <3>2. /\ c \in 1..n /\ s[c].kind = "claim" /\ s[c].about = f.about
          /\ f.path # <<>> => /\ s[c].phase = "search" /\ s[c].todo # <<>>
                              /\ f.path[1] = Head(s[c].todo)
      <4>1. WorksFor(s, n) /\ s[n] = f
        BY <1>1, <1>3 DEF f
      <4> QED BY <4>1 DEF WorksFor
    <3>3. f.path \in Seq(Match) /\ Len(f.path) \in Nat /\ Head(f.todo) \in Match
      BY <1>1, <3>1, FrameFields
    <3>4. g.path # <<>> /\ Len(g.path) = Len(f.path) + 1
      BY <3>1, <3>3
    <3>5. (n + 1) - Len(g.path) = c /\ c \in 1..(n + 1)
      BY <1>1, <3>2, <3>3, <3>4
    <3>6. s[c].phase = "search" /\ s[c].todo # <<>> /\ g.path[1] = Head(s[c].todo)
      <4>1. CASE f.path = <<>>
        <5>1. c = n /\ s[c] = f
          BY <1>1, <4>1 DEF f
        <5>2. g.path = <<Head(f.todo)>>
          BY <3>1, <3>3, <4>1
        <5> QED BY <3>1, <5>1, <5>2
      <4>2. CASE f.path # <<>>
        <5>1. g.path[1] = f.path[1]
          BY <3>1, <3>3, <4>2
        <5> QED BY <3>2, <4>2, <5>1
      <4> QED BY <4>1, <4>2
    <3> HIDE DEF c
    <3>7. t[c] = s[c]
      BY <1>2, <3>2
    <3>8. t[n + 1] = g
      BY <1>2
    <3> QED BY <3>1, <3>2, <3>5, <3>6, <3>7, <3>8 DEF WorksFor
  <2> QED BY <2>1, <2>2
<1>10. \A i \in 1..(n + 1) : WorksFor(t, i)
  BY <1>1, <1>8, <1>9
<1>11. \A i \in 1..n : MayCall(t[i], t[i + 1])
  <2> TAKE i \in 1..n
  <2>1. CASE i = n
    BY <1>1, <1>2, <1>6, <2>1 DEF f
  <2>2. CASE i \in 1..(n - 1)
    BY <1>1, <1>2, <1>4, <2>2
  <2> QED BY <1>1, <2>1, <2>2
<1>12. t[1] = s[1]
  BY <1>1, <1>2
<1>13. 1..(Len(t) - 1) = 1..n /\ 1..Len(t) = 1..(n + 1)
  BY <1>1, <1>2
<1> QED BY <1>2, <1>5, <1>7, <1>10, <1>11, <1>12, <1>13 DEF StackOK, t

-----------------------------------------------------------------------------
(* Steps, by what they do to the stack.                                    *)

\* The delegations do not change, so what is said of them carries over.
LEMMA CoherentAfter ==
    ASSUME UNCHANGED ucan, StackOK(stack')
    PROVE  Coherent'
<1>1. Attestors' = Attestors
  BY DEF Attestors
<1>2. ASSUME NEW i \in 1..Len(stack')
      PROVE  FrameOK(stack[i])'
  <2>1. FrameOK(stack'[i])
    BY DEF StackOK
  <2> QED BY <1>1, <2>1 DEF FrameOK, Wanted, Attestation, LinksTo
<1> QED BY <1>2 DEF Coherent, StackOK

\* What the invariant says of the call on top of the stack.
LEMMA TopFrame ==
    ASSUME IInv, stack # <<>>
    PROVE  /\ stack \in Seq(Frame) /\ StackOK(stack) /\ Pending
           /\ Depth \in Nat /\ Depth > 0 /\ Depth = Len(stack)
           /\ Top = stack[Depth] /\ Top \in Frame /\ FrameOK(Top)
           /\ WorksFor(stack, Depth)
<1>1. stack \in Seq(Frame) /\ StackOK(stack) /\ Pending
  BY DEF IInv, TypeOK, Coherent
<1>2. Depth \in Nat /\ Depth > 0 /\ Depth = Len(stack) /\ Top = stack[Depth]
  BY <1>1 DEF Depth, Top
<1>3. Top \in Frame /\ FrameOK(Top) /\ WorksFor(stack, Depth)
  BY <1>1, <1>2 DEF StackOK
<1> QED BY <1>1, <1>2, <1>3

\* Frames are removed from above the k-th, which becomes f.
LEMMA CutStep ==
    ASSUME IInv, stack # <<>>, NEW k \in 1..Depth, NEW f \in Frame, FrameOK(f),
           f.kind = stack[k].kind, f.about = stack[k].about, f.path = stack[k].path,
           Offered(f) \subseteq Offered(stack[k]),
           stack' = [SubSeq(stack, 1, k) EXCEPT ![k] = f],
           UNCHANGED <<env, ucan, verdict>>, facts' \subseteq Fact
    PROVE  IInv'
<1>1. /\ stack \in Seq(Frame) /\ StackOK(stack) /\ Pending
      /\ Depth = Len(stack) /\ Depth \in Nat
  BY TopFrame
<1>2. /\ stack' \in Seq(Frame) /\ Len(stack') = k /\ stack'[k] = f
      /\ \A j \in 1..(k - 1) : stack'[j] = stack[j]
  BY <1>1, CutAt
<1>3. StackOK(stack')
  BY <1>1, <1>2, StackCut
<1>4. Coherent'
  BY <1>3, CoherentAfter
<1>5. stack' # <<>> /\ Pending'
  BY <1>1, <1>2 DEF Pending
<1>6. TypeOK'
  BY <1>2, <1>5 DEF IInv, TypeOK, env
<1>7. GrantsOnlyChains'
  BY <1>5 DEF GrantsOnlyChains, Pending
<1> QED BY <1>4, <1>6, <1>7 DEF IInv

\* The top frame goes on as f, with no more proofs than it had.
LEMMA UpdateStep ==
    ASSUME IInv, stack # <<>>, NEW f \in Frame, FrameOK(f),
           f.kind = Top.kind, f.about = Top.about, f.path = Top.path,
           Offered(f) \subseteq Offered(Top),
           Update(f),
           UNCHANGED <<env, ucan, verdict>>, facts' \subseteq Fact
    PROVE  IInv'
<1>1. /\ stack \in Seq(Frame) /\ Depth = Len(stack) /\ Depth \in Nat /\ Depth > 0
      /\ Top = stack[Depth]
  BY TopFrame
<1>2. SubSeq(stack, 1, Depth) = stack
  BY <1>1
<1>3. stack' = [stack EXCEPT ![Depth] = f] /\ Depth \in 1..Depth
  BY <1>1 DEF Update
<1> QED BY <1>1, <1>2, <1>3, CutStep

\* The top frame returns to the one below.
LEMMA ReturnStep ==
    ASSUME IInv, stack # <<>>, Depth > 1, NEW f \in Frame, FrameOK(f),
           f.kind = stack[Depth - 1].kind, f.about = stack[Depth - 1].about,
           f.path = stack[Depth - 1].path,
           Offered(f) \subseteq Offered(stack[Depth - 1]),
           Return(f),
           UNCHANGED <<env, ucan, verdict>>, facts' \subseteq Fact
    PROVE  IInv'
<1>1. Depth - 1 \in 1..Depth
  BY TopFrame
<1> QED BY <1>1, CutStep DEF Return

\* The top frame calls.
LEMMA PushStep ==
    ASSUME IInv, stack # <<>>, NEW g \in Frame, FrameOK(g), MayCall(Top, g),
           stack' = Append(stack, g),
           UNCHANGED <<env, ucan, verdict, facts>>
    PROVE  IInv'
<1>1. /\ stack \in Seq(Frame) /\ StackOK(stack) /\ Pending
      /\ Depth = Len(stack) /\ Top = stack[Depth]
  BY TopFrame
<1>2. StackOK(stack')
  BY <1>1, StackPush
<1>3. stack' \in Seq(Frame) /\ stack' # <<>> /\ Pending'
  BY <1>1 DEF Pending
<1>4. Coherent'
  BY <1>2, CoherentAfter
<1>5. TypeOK'
  BY <1>3 DEF IInv, TypeOK, env
<1>6. GrantsOnlyChains'
  BY <1>3 DEF GrantsOnlyChains, Pending
<1> QED BY <1>4, <1>5, <1>6 DEF IInv

\* The outermost call returns or throws.
LEMMA FinishStep ==
    ASSUME IInv, NEW status \in {"ok", "denied", "thrown"}, NEW chain \in Seq(Match),
           Finish(status, chain),
           status = "ok" => /\ IsChain(ucan, Invoked, chain)
                            /\ chain[1].src \in ToSet(Presented),
           UNCHANGED <<env, ucan, facts>>
    PROVE  IInv'
<1>1. stack' = <<>> /\ verdict' = [status |-> status, chain |-> chain]
  BY DEF Finish
<1>2. TypeOK'
  BY <1>1 DEF IInv, TypeOK, env, Verdict, Pending
<1>3. StackOK(stack')
  BY <1>1 DEF StackOK
<1>4. Coherent'
  BY <1>3, CoherentAfter
<1>5. GrantsOnlyChains'
  BY <1>1 DEF GrantsOnlyChains
<1> QED BY <1>2, <1>4, <1>5 DEF IInv

\* The world moves, the call does not.
LEMMA WorldStep ==
    ASSUME IInv, UNCHANGED <<ucan, stack, verdict, facts>>,
           now' \in Time, revoked' \subseteq Delegations
    PROVE  IInv'
<1>1. TypeOK'
  BY DEF IInv, TypeOK, Pending
<1>2. StackOK(stack')
  BY DEF IInv, Coherent
<1>3. Coherent'
  BY <1>2, CoherentAfter
<1>4. GrantsOnlyChains'
  BY DEF IInv, GrantsOnlyChains
<1> QED BY <1>1, <1>3, <1>4 DEF IInv

-----------------------------------------------------------------------------
(* The invariant is inductive.                                             *)

\* The call access makes has the invariant.
LEMMA InitIInv == Init => IInv
<1> SUFFICES ASSUME Init PROVE IInv
  OBVIOUS
<1> DEFINE f == Call("claim", <<>>, <<>>, Presented, {})
<1>1. Presented \in Seq(Delegations) /\ <<>> \in Seq(Delegations) /\ <<>> \in Seq(Match)
  BY PresentedAssumption
<1>2. /\ f \in Frame
      /\ f.kind = "claim" /\ f.about = <<>> /\ f.path = <<>>
      /\ f.phase = "resolve" /\ f.batch = Presented /\ f.links = {}
      /\ f.sources = <<>> /\ f.todo = <<>>
  <2>1. "claim" \in {"claim", "authorize"} /\ {} \in SUBSET Delegations
    OBVIOUS
  <2> QED BY <1>1, <2>1 DEF Call, Frame, Phases
<1>3. stack = <<f>>
  BY DEF Init
<1> HIDE DEF f
<1>4. stack \in Seq(Frame) /\ Len(stack) = 1 /\ stack[1] = f /\ stack # <<>>
  BY <1>2, <1>3
<1>5. FrameOK(f)
  BY <1>2 DEF FrameOK, ToSet
<1>6. WorksFor(stack, 1)
  BY <1>2, <1>4 DEF WorksFor
<1>7. Offered(f) \subseteq ToSet(Presented)
  BY <1>2 DEF Offered
<1>8. Coherent
  BY <1>2, <1>4, <1>5, <1>6, <1>7 DEF Coherent, StackOK
<1>9. TypeOK
  BY <1>4, WorldsAssumption, BoundsAssumption, ChainAssumption
     DEF Init, TypeOK, Verdict, Time, Pending
<1>10. GrantsOnlyChains
  BY DEF Init, GrantsOnlyChains
<1> QED BY <1>8, <1>9, <1>10 DEF IInv

\* A resolved link was one of the proofs the frame may use.
LEMMA ProofResolvedIInv ==
    ASSUME IInv, NEW d \in Delegations, ProofResolved(d)
    PROVE  IInv'
<1> DEFINE f == [Top EXCEPT !.links = @ \ {d}, !.batch = Append(@, d)]
<1>1. /\ stack # <<>> /\ Top \in Frame /\ FrameOK(Top) /\ Top.phase = "resolve"
      /\ d \in Top.links
  BY TopFrame DEF ProofResolved, Running
<1>2. Top.links \ {d} \in SUBSET Delegations /\ Append(Top.batch, d) \in Seq(Delegations)
  <2>1. Top.links \in SUBSET Delegations /\ Top.batch \in Seq(Delegations)
    BY <1>1, FrameFields
  <2> QED BY <2>1
<1>3. /\ f \in Frame
      /\ f.kind = Top.kind /\ f.about = Top.about /\ f.path = Top.path
      /\ f.phase = Top.phase /\ f.sources = Top.sources /\ f.todo = Top.todo
      /\ f.links = Top.links \ {d} /\ f.batch = Append(Top.batch, d)
  BY <1>1, <1>2 DEF Frame
<1> HIDE DEF f
<1>4. Offered(f) \subseteq Offered(Top)
  <2>1. Top.batch \in Seq(Delegations)
    BY <1>1, FrameFields
  <2>2. ToSet(f.batch) \subseteq ToSet(Top.batch) \cup {d}
    BY <1>3, <2>1, ElementsOfSequences
  <2> QED BY <1>1, <1>3, <2>2 DEF Offered
<1>5. FrameOK(f)
  BY <1>1, <1>3, <1>4 DEF FrameOK, ToSet
<1>6. Update(f) /\ UNCHANGED <<env, ucan, verdict, facts>>
  BY DEF ProofResolved, f
<1>7. facts' \subseteq Fact
  BY <1>6 DEF IInv, TypeOK
<1> QED BY <1>1, <1>3, <1>4, <1>5, <1>6, <1>7, UpdateStep

\* A link that cannot be resolved takes nothing from what holds.
LEMMA ProofUnavailableIInv ==
    ASSUME IInv, NEW d \in Delegations, ProofUnavailable(d)
    PROVE  IInv'
<1> DEFINE f == [Top EXCEPT !.links = @ \ {d}]
<1>1. /\ stack # <<>> /\ Top \in Frame /\ FrameOK(Top) /\ Top.phase = "resolve"
  BY TopFrame DEF ProofUnavailable, Running
<1>2. Top.links \ {d} \in SUBSET Delegations
  BY <1>1, FrameFields
<1>3. /\ f \in Frame
      /\ f.kind = Top.kind /\ f.about = Top.about /\ f.path = Top.path
      /\ f.phase = Top.phase /\ f.sources = Top.sources /\ f.todo = Top.todo
      /\ f.links = Top.links \ {d} /\ f.batch = Top.batch
  BY <1>1, <1>2 DEF Frame
<1> HIDE DEF f
<1>4. Offered(f) \subseteq Offered(Top)
  BY <1>3 DEF Offered
<1>5. FrameOK(f)
  BY <1>1, <1>3, <1>4 DEF FrameOK, ToSet
<1>6. Update(f) /\ UNCHANGED <<env, ucan, verdict, facts>>
  BY DEF ProofUnavailable, f
<1>7. facts' \subseteq Fact
  BY <1>6 DEF IInv, TypeOK
<1> QED BY <1>1, <1>3, <1>4, <1>5, <1>6, <1>7, UpdateStep

\* resolveSources: what is left delegates to the issuer of what it proves.
LEMMA AlignIInv ==
    ASSUME IInv, Align
    PROVE  IInv'
<1> DEFINE kept == Aligned(Top)
           f == [Top EXCEPT !.batch = kept, !.phase = "validate"]
<1>1. /\ stack # <<>> /\ Top \in Frame /\ FrameOK(Top) /\ Top.phase = "resolve"
      /\ Top.links = {}
  BY TopFrame DEF Align, Running
<1>2. /\ kept \in Seq(Delegations) /\ ToSet(kept) \subseteq ToSet(Top.batch)
      /\ Top.kind = "authorize" =>
            \A d \in ToSet(kept) : ucan[d].aud = ucan[Last(Top.path).src].iss
  <2>1. Top.batch \in Seq(Delegations)
    BY <1>1, FrameFields
  <2>2. CASE Top.kind = "claim"
    BY <2>1, <2>2 DEF Aligned
  <2>3. CASE Top.kind # "claim"
    <3> DEFINE S == {d \in Delegations : ucan[d].aud = ucan[Last(Top.path).src].iss}
    <3>1. kept = Keep(Top.batch, S)
      BY <2>3 DEF Aligned
    <3> HIDE DEF S, kept
    <3>2. /\ kept \in Seq(Delegations)
          /\ \A i \in DOMAIN kept : kept[i] \in ToSet(Top.batch) \cap S
      BY <2>1, <3>1, KeepElements
    <3> QED BY <3>2 DEF S, ToSet
  <2> QED BY <2>2, <2>3
<1> HIDE DEF kept
<1>3. /\ f \in Frame
      /\ f.kind = Top.kind /\ f.about = Top.about /\ f.path = Top.path
      /\ f.phase = "validate" /\ f.sources = Top.sources /\ f.todo = Top.todo
      /\ f.links = Top.links /\ f.batch = kept
  <2>1. "validate" \in Phases
    BY DEF Phases
  <2> QED BY <1>1, <1>2, <2>1 DEF Frame
<1> HIDE DEF f
<1>4. Offered(f) \subseteq Offered(Top)
  BY <1>2, <1>3 DEF Offered
<1>5. FrameOK(f)
  BY <1>1, <1>2, <1>3, <1>4 DEF FrameOK, ToSet
<1>6. Update(f) /\ UNCHANGED <<env, ucan, verdict, facts>>
  BY DEF Align, f, kept
<1>7. facts' \subseteq Fact
  BY <1>6 DEF IInv, TypeOK
<1> QED BY <1>1, <1>3, <1>4, <1>5, <1>6, <1>7, UpdateStep

\* One more delegation was verified.
LEMMA WitnessType ==
    ASSUME TypeOK, NEW f \in Frame, f.next <= Len(f.batch), NEW session \in Seq(Match),
           Witness(f, session)
    PROVE  facts' \subseteq Fact
<1>1. f.batch[f.next] \in Delegations
  BY DEF Frame
<1> QED BY <1>1 DEF Witness, Fact, TypeOK

\* A delegation is dropped, or it counts.
LEMMA RejectIInv ==
    ASSUME IInv, stack # <<>>, Top.phase \in {"validate", "keys"},
           Update(Reject(Top)), UNCHANGED <<env, ucan, verdict, facts>>
    PROVE  IInv'
<1>1. Top \in Frame /\ FrameOK(Top)
  BY TopFrame
<1>2. facts' \subseteq Fact
  BY DEF IInv, TypeOK
<1> QED BY <1>1, <1>2, RejectFrame, UpdateStep

\* A delegation that passes adds its own capabilities to the sources.
LEMMA AcceptIInv ==
    ASSUME IInv, stack # <<>>, Top.phase \in {"validate", "keys"},
           Top.next <= Len(Top.batch),
           Update(Accept(Top)), Witness(Top, <<>>), UNCHANGED <<env, ucan, verdict>>
    PROVE  IInv'
<1>1. Top \in Frame /\ FrameOK(Top) /\ TypeOK
  BY TopFrame DEF IInv
<1>2. facts' \subseteq Fact
  <2>1. <<>> \in Seq(Match)
    OBVIOUS
  <2> QED BY <1>1, <2>1, WitnessType
<1> QED BY <1>1, <1>2, AcceptFrame, UpdateStep

\* The time window and the signature.
LEMMA ValidateIInv ==
    ASSUME IInv, OutsideWindow \/ CheckSignature
    PROVE  IInv'
<1>1. stack # <<>> /\ Top.phase = "validate" /\ Top.next <= Len(Top.batch)
  BY DEF OutsideWindow, CheckSignature, Validating, Running
<1>2. CASE Update(Reject(Top)) /\ UNCHANGED <<env, ucan, verdict, facts>>
  BY <1>1, <1>2, RejectIInv
<1>3. CASE Update(Accept(Top)) /\ Witness(Top, <<>>) /\ UNCHANGED <<env, ucan, verdict>>
  BY <1>1, <1>3, AcceptIInv
<1> QED BY <1>2, <1>3 DEF OutsideWindow, CheckSignature

\* The keys of resolveDIDKey: the delegation passes or is dropped.
LEMMA KeysIInv ==
    ASSUME IInv, (\E keys \in KeyAnswers : ResolveDIDKey(keys)) \/ ResolveDIDKeyFails
    PROVE  IInv'
<1>1. stack # <<>> /\ Top.phase = "keys" /\ Top.next <= Len(Top.batch)
  <2>1. stack # <<>> /\ Top.phase = "keys"
    BY DEF ResolveDIDKey, ResolveDIDKeyFails, Running
  <2> QED BY <2>1, TopFrame DEF FrameOK
<1>2. CASE Update(Reject(Top)) /\ UNCHANGED <<env, ucan, verdict, facts>>
  BY <1>1, <1>2, RejectIInv
<1>3. CASE Update(Accept(Top)) /\ Witness(Top, <<>>) /\ UNCHANGED <<env, ucan, verdict>>
  BY <1>1, <1>3, AcceptIInv
<1> QED BY <1>2, <1>3 DEF ResolveDIDKey, ResolveDIDKeyFails

\* verifySession calls claim with attestations beside its subject.
LEMMA OpenSessionIInv ==
    ASSUME IInv, OpenSession
    PROVE  IInv'
<1> DEFINE beside == AttestationsFor(Current)
           batch == Keep(Top.batch, beside)
           g == Call("claim", <<Current>>, <<>>, batch, {})
<1>1. /\ stack # <<>> /\ Top \in Frame
      /\ Top.phase = "validate" /\ Top.next <= Len(Top.batch)
  BY TopFrame DEF OpenSession, Validating, Running
<1>2. Current \in Delegations /\ Top.batch \in Seq(Delegations)
  BY <1>1 DEF Current, Frame
<1>3. batch \in Seq(Delegations) /\ ToSet(batch) \subseteq ToSet(Top.batch) \ {Current}
  <2> HIDE DEF beside
  <2>1. /\ batch \in Seq(Delegations)
        /\ \A i \in DOMAIN batch : batch[i] \in ToSet(Top.batch) \cap beside
    BY <1>2, KeepElements
  <2> QED BY <2>1 DEF ToSet, beside, AttestationsFor
<1> HIDE DEF batch
<1>4. /\ g \in Frame
      /\ g.kind = "claim" /\ g.about = <<Current>> /\ g.path = <<>>
      /\ g.phase = "resolve" /\ g.batch = batch /\ g.links = {}
      /\ g.sources = <<>> /\ g.todo = <<>>
  <2>1. /\ "claim" \in {"claim", "authorize"} /\ {} \in SUBSET Delegations
        /\ <<Current>> \in Seq(Delegations) /\ <<>> \in Seq(Match)
    BY <1>2
  <2> QED BY <1>3, <2>1 DEF Call, Frame, Phases
<1>5. stack' = Append(stack, g) /\ UNCHANGED <<env, ucan, verdict, facts>>
  BY DEF OpenSession, batch, beside
<1> HIDE DEF g
<1>6. FrameOK(g)
  BY <1>4 DEF FrameOK, ToSet
<1>7. MayCall(Top, g)
  <2>1. Offered(g) \subseteq ToSet(Top.batch) \ {Current}
    BY <1>3, <1>4 DEF Offered
  <2> QED BY <1>1, <1>4, <2>1 DEF MayCall, Current
<1> QED BY <1>1, <1>4, <1>5, <1>6, <1>7, PushStep

\* Every match selected continues the path that led to the frame.
LEMMA SelectIInv ==
    ASSUME IInv, Select
    PROVE  IInv'
<1> DEFINE desc == Wanted(Top.about)
           f == [Top EXCEPT !.todo = Selection, !.phase = "search"]
<1>1. stack # <<>> /\ Top \in Frame /\ FrameOK(Top) /\ Top.phase = "validate" /\ TypeOK
  BY TopFrame DEF Select, Running, IInv
<1>2. /\ Top.sources \in Seq(Source) /\ Top.path \in Seq(Match)
      /\ Top.about \in Seq(Delegations) /\ Top.kind \in {"claim", "authorize"}
  BY <1>1, FrameFields
<1>3. IsDescriptor(desc)
  BY <1>1, <1>2, WantedDescriptor
<1>4. \A s \in ToSet(Top.sources) : /\ s.src \in ToSet(Top.batch)
                                    /\ s.cap \in ToSet(ucan[s.src].caps)
  BY <1>1 DEF FrameOK
<1> HIDE DEF desc
<1>5. /\ Selection \in Seq(Match)
      /\ \A m \in ToSet(Selection) : /\ m.src \in ToSet(Top.batch)
                                     /\ IsPath(ucan, desc, Append(Top.path, m))
  <2>1. CASE Top.kind = "claim"
    <3>1. Selection = SelectClaim(desc, Top.sources)
      BY <2>1 DEF Selection, desc
    <3>2. /\ Selection \in Seq(Match)
          /\ \A m \in ToSet(Selection) : /\ ClaimedBy(ucan, desc, m)
                                         /\ \E s \in ToSet(Top.sources) : m.src = s.src
      BY <1>2, <1>3, <1>4, <3>1, ClaimsSelected
    <3>3. Top.path = <<>>
      BY <1>1, <2>1 DEF FrameOK
    <3>4. \A m \in ToSet(Selection) : m \in Match
      BY <3>2, ElementsOfSequences
    <3> QED BY <1>4, <3>2, <3>3, <3>4, PathStarts
  <2>2. CASE Top.kind = "authorize"
    <3> DEFINE last == Last(Top.path)
    <3>1. Selection = SelectProof(desc, last.value, Top.sources)
      BY <2>2 DEF Selection, desc
    <3>2. IsPath(ucan, desc, Top.path)
      BY <1>1, <2>2 DEF FrameOK, desc
    <3>3. last \in Match
      BY <1>2, <3>2 DEF IsPath, Last
    <3>4. last.value \in Cap
      BY <3>3 DEF Match
    <3> DEFINE claimed == last.value
               sources == Top.sources
    <3>10. /\ claimed \in Cap /\ sources \in Seq(Source)
           /\ Selection = SelectProof(desc, claimed, sources)
           /\ \A s \in ToSet(sources) : s.cap \in ToSet(ucan[s.src].caps)
      BY <1>2, <1>4, <3>1, <3>4
    <3> HIDE DEF claimed, last, sources
    <3>5. /\ Selection \in Seq(Match)
          /\ \A m \in ToSet(Selection) : /\ GrantedBy(ucan, desc, claimed, m)
                                         /\ \E s \in ToSet(sources) : m.src = s.src
      BY <1>3, <3>10, ProofsSelected
    <3>6. \A d \in ToSet(Top.batch) : /\ d \in ToSet(ucan[last.src].prf)
                                      /\ ucan[d].aud = ucan[last.src].iss
      BY <1>1, <2>2 DEF FrameOK, Offered, last
    <3>7. \A m \in ToSet(Selection) : m \in Match /\ m.src \in ToSet(Top.batch)
      BY <1>4, <3>5, ElementsOfSequences DEF sources
    <3>8. \A m \in ToSet(Selection) : Proves(ucan, desc, last, m)
      BY <3>5, <3>6, <3>7 DEF Proves, claimed
    <3> QED BY <1>2, <3>2, <3>5, <3>7, <3>8, PathContinues DEF last
  <2> QED BY <1>2, <2>1, <2>2
<1>6. /\ f \in Frame
      /\ f.kind = Top.kind /\ f.about = Top.about /\ f.path = Top.path
      /\ f.phase = "search" /\ f.sources = Top.sources /\ f.todo = Selection
      /\ f.links = Top.links /\ f.batch = Top.batch
  <2>1. "search" \in Phases
    BY DEF Phases
  <2> QED BY <1>1, <1>5, <2>1 DEF Frame
<1> HIDE DEF f
<1>7. Offered(f) = Offered(Top)
  BY <1>6 DEF Offered
<1>8. FrameOK(f)
  BY <1>1, <1>5, <1>6, <1>7 DEF FrameOK, desc
<1>9. Update(f) /\ UNCHANGED <<env, ucan, verdict, facts>>
  BY DEF Select, f
<1>10. facts' \subseteq Fact
  BY <1>1, <1>9 DEF TypeOK
<1> QED BY <1>1, <1>6, <1>7, <1>8, <1>9, <1>10, UpdateStep

\* authorize is called for the match explored, with the proofs of its delegation.
LEMMA ExploreProofsIInv ==
    ASSUME IInv, ExploreProofs
    PROVE  IInv'
<1> DEFINE m == Explored(Depth)
           u == ucan[m.src]
           path == Append(Top.path, m)
           batch == Keep(u.prf, u.embedded)
           links == ToSet(u.prf) \ u.embedded
           g == Call("authorize", Top.about, path, batch, links)
<1>1. /\ stack # <<>> /\ Top \in Frame /\ FrameOK(Top) /\ Top.phase = "search"
      /\ Top.todo # <<>> /\ TypeOK /\ m = Head(Top.todo)
  BY TopFrame DEF ExploreProofs, Searching, Running, IInv, Explored, Top
<1>2. /\ Top.path \in Seq(Match) /\ Top.todo \in Seq(Match)
      /\ Top.about \in Seq(Delegations)
  BY <1>1, FrameFields
<1>3. m \in Match /\ m \in ToSet(Top.todo)
  BY <1>1, <1>2, ElementsOfSequences
<1> HIDE DEF m
<1>4. u.prf \in Seq(Delegations)
  BY <1>1, <1>3 DEF TypeOK, UCAN, Match
<1>5. /\ batch \in Seq(Delegations) /\ ToSet(batch) \subseteq ToSet(u.prf)
      /\ links \in SUBSET Delegations /\ links \subseteq ToSet(u.prf)
  <2> HIDE DEF u
  <2>1. /\ batch \in Seq(Delegations)
        /\ \A i \in DOMAIN batch : batch[i] \in ToSet(u.prf) \cap u.embedded
    BY <1>4, KeepElements
  <2>2. ToSet(u.prf) \subseteq Delegations
    BY <1>4 DEF ToSet
  <2> QED BY <2>1, <2>2 DEF ToSet
<1>6. /\ IsPath(ucan, Wanted(Top.about), path)
      /\ path \in Seq(Match) /\ Last(path) = m
  <2>1. IsPath(ucan, Wanted(Top.about), path)
    BY <1>1, <1>3 DEF FrameOK
  <2> QED BY <1>2, <1>3, <2>1 DEF Last
<1> HIDE DEF path, batch, links, u
<1>7. /\ g \in Frame
      /\ g.kind = "authorize" /\ g.about = Top.about /\ g.path = path
      /\ g.phase = "resolve" /\ g.batch = batch /\ g.links = links
      /\ g.sources = <<>> /\ g.todo = <<>>
  BY <1>2, <1>5, <1>6 DEF Call, Frame, Phases
<1>8. stack' = Append(stack, g) /\ UNCHANGED <<env, ucan, verdict, facts>>
  BY DEF ExploreProofs, g, m, u, path, batch, links
<1> HIDE DEF g
<1>9. FrameOK(g)
  <2>1. Offered(g) \subseteq ToSet(ucan[Last(path).src].prf)
    BY <1>5, <1>6, <1>7 DEF Offered, u
  <2> QED BY <1>6, <1>7, <2>1 DEF FrameOK, ToSet
<1>10. MayCall(Top, g)
  BY <1>1, <1>7 DEF MayCall, path
<1> QED BY <1>1, <1>7, <1>8, <1>9, <1>10, PushStep

\* The claim frame the search works for gets a path with its root: a chain.
LEMMA FindRootIInv ==
    ASSUME IInv, FindRoot
    PROVE  IInv'
<1> DEFINE c == Depth - Len(Top.path)
           m == Explored(Depth)
           chain == Append(Top.path, m)
           f == [stack[c] EXCEPT !.phase = "approve", !.chain = chain]
<1>1. /\ stack # <<>> /\ Top \in Frame /\ FrameOK(Top) /\ Top.phase = "search"
      /\ Top.todo # <<>> /\ m = Head(Top.todo) /\ TypeOK
      /\ stack \in Seq(Frame) /\ StackOK(stack) /\ WorksFor(stack, Depth)
      /\ Depth = Len(stack) /\ Depth \in Nat /\ Top = stack[Depth]
  BY TopFrame DEF FindRoot, Searching, Running, IInv, Explored, Top
<1>2. /\ Top.path \in Seq(Match) /\ Top.todo \in Seq(Match) /\ Len(Top.path) \in Nat
  BY <1>1, FrameFields
<1>3. m \in Match /\ m \in ToSet(Top.todo)
  BY <1>1, <1>2, ElementsOfSequences
<1>4. /\ c \in 1..Depth /\ stack[c].kind = "claim" /\ stack[c].about = Top.about
      /\ Top.path # <<>> => /\ stack[c].todo # <<>>
                            /\ Top.path[1] = Head(stack[c].todo)
  BY <1>1 DEF WorksFor
<1>5. stack[c] \in Frame /\ FrameOK(stack[c])
  BY <1>1, <1>4 DEF StackOK
<1>6. chain \in Seq(Match) /\ Last(chain) = m /\ IsChain(ucan, Wanted(Top.about), chain)
  <2>1. chain \in Seq(Match) /\ Last(chain) = m
    BY <1>2, <1>3 DEF Last
  <2>2. IsPath(ucan, Wanted(Top.about), chain)
    BY <1>1, <1>3 DEF FrameOK
  <2>3. CanIssue(m.value, ucan[m.src].iss)
    BY DEF FindRoot, ExploredIsRoot
  <2> QED BY <2>1, <2>2, <2>3 DEF IsChain
<1>7. stack[c].todo # <<>> /\ chain[1].src \in ToSet(stack[c].batch)
  <2>1. CASE Top.path = <<>>
    <3>1. c = Depth /\ stack[c] = Top
      BY <1>1, <1>2, <2>1
    <3>2. chain[1] = m
      BY <1>2, <1>3, <2>1
    <3>3. m.src \in ToSet(Top.batch)
      BY <1>1, <1>3 DEF FrameOK
    <3> QED BY <1>1, <3>1, <3>2, <3>3
  <2>2. CASE Top.path # <<>>
    <3>1. chain[1] = Head(stack[c].todo)
      BY <1>2, <1>3, <1>4, <2>2
    <3>2. stack[c].todo # <<>> /\ stack[c].todo \in Seq(Match)
      BY <1>4, <1>5, <2>2, FrameFields
    <3>3. Head(stack[c].todo) \in ToSet(stack[c].todo)
      BY <3>2, ElementsOfSequences
    <3> QED BY <1>5, <3>1, <3>2, <3>3 DEF FrameOK
  <2> QED BY <2>1, <2>2
<1>8. stack' = [SubSeq(stack, 1, c) EXCEPT ![c] = f] /\ UNCHANGED <<env, ucan, verdict, facts>>
  <2>1. SubSeq(stack, 1, c)[c] = stack[c]
    BY <1>1, <1>4
  <2>2. UNCHANGED <<env, ucan, verdict, facts>>
    BY DEF FindRoot
  <2>3. stack' = [SubSeq(stack, 1, c) EXCEPT
                     ![c] = [SubSeq(stack, 1, c)[c] EXCEPT !.phase = "approve", !.chain = chain]]
    BY DEF FindRoot
  <2> QED BY <2>1, <2>2, <2>3
<1> HIDE DEF c, chain, m
<1>9. /\ f \in Frame
      /\ f.kind = "claim" /\ f.about = Top.about /\ f.path = stack[c].path
      /\ f.phase = "approve" /\ f.sources = stack[c].sources /\ f.todo = stack[c].todo
      /\ f.links = stack[c].links /\ f.batch = stack[c].batch /\ f.chain = chain
  <2>1. "approve" \in Phases
    BY DEF Phases
  <2> QED BY <1>4, <1>5, <1>6, <2>1 DEF Frame
<1> HIDE DEF f
<1>10. Offered(f) = Offered(stack[c])
  BY <1>9 DEF Offered
<1>11. FrameOK(f)
  BY <1>4, <1>5, <1>6, <1>7, <1>9 DEF FrameOK
<1>12. facts' \subseteq Fact
  BY <1>1, <1>8 DEF TypeOK
<1> QED BY <1>1, <1>4, <1>8, <1>9, <1>10, <1>11, <1>12, CutStep

\* A call that was made by another has a caller that waits for it.
LEMMA CallerWaits ==
    ASSUME IInv, stack # <<>>, Depth > 1
    PROVE  /\ stack[Depth - 1] \in Frame /\ FrameOK(stack[Depth - 1])
           /\ MayCall(stack[Depth - 1], Top)
<1>1. /\ stack \in Seq(Frame) /\ StackOK(stack) /\ Depth = Len(stack) /\ Depth \in Nat
      /\ Top = stack[Depth]
  BY TopFrame
<1>2. Depth - 1 \in 1..(Len(stack) - 1) /\ Depth - 1 \in 1..Len(stack)
  BY <1>1
<1>3. (Depth - 1) + 1 = Depth
  BY <1>1
<1>4. stack[Depth - 1] \in Frame /\ FrameOK(stack[Depth - 1])
  BY <1>1, <1>2 DEF StackOK
<1>5. MayCall(stack[Depth - 1], stack[(Depth - 1) + 1])
  BY <1>1, <1>2 DEF StackOK
<1> QED BY <1>1, <1>3, <1>4, <1>5

\* The first match of a frame is explored and the next is to be.
LEMMA NextMatch ==
    ASSUME NEW f \in Frame, FrameOK(f), f.todo # <<>>,
           NEW g, g \in Frame, g.kind = f.kind, g.about = f.about, g.path = f.path,
           g.phase = "search", g.sources = f.sources, g.todo = Tail(f.todo),
           g.links = f.links, g.batch = f.batch, f.phase # "resolve"
    PROVE  FrameOK(g) /\ Offered(g) = Offered(f)
<1>1. ToSet(g.todo) \subseteq ToSet(f.todo)
  BY FrameFields, ElementsOfSequences
<1>2. Offered(g) = Offered(f)
  BY DEF Offered
<1>3. FrameOK(g)
  BY <1>1, <1>2 DEF FrameOK
<1> QED BY <1>2, <1>3

\* authorize returns an error and its caller goes on with the next match.
LEMMA AuthorizeFailsIInv ==
    ASSUME IInv, AuthorizeFails
    PROVE  IInv'
<1> DEFINE caller == stack[Depth - 1]
           f == MatchFailed(caller)
<1>1. stack # <<>> /\ Top.kind = "authorize"
  BY DEF AuthorizeFails, Running
<1>2. Depth > 1
  <2>1. /\ Depth \in Nat /\ Depth > 0 /\ Top = stack[Depth]
    BY <1>1, TopFrame
  <2>2. stack[1].kind = "claim"
    BY <1>1, TopFrame DEF StackOK
  <2> QED BY <1>1, <2>1, <2>2
<1>3. caller \in Frame /\ FrameOK(caller) /\ caller.phase = "search" /\ caller.todo # <<>>
  <2>1. caller \in Frame /\ FrameOK(caller) /\ MayCall(caller, Top)
    BY <1>1, <1>2, CallerWaits
  <2> QED BY <1>1, <2>1 DEF MayCall
<1>4. Tail(caller.todo) \in Seq(Match)
  BY <1>3, FrameFields, ElementsOfSequences
<1>5. Return(f) /\ UNCHANGED <<env, ucan, verdict, facts>>
  BY DEF AuthorizeFails
<1> HIDE DEF caller
<1>6. /\ f \in Frame
      /\ f.kind = caller.kind /\ f.about = caller.about /\ f.path = caller.path
      /\ f.phase = "search" /\ f.sources = caller.sources /\ f.todo = Tail(caller.todo)
      /\ f.links = caller.links /\ f.batch = caller.batch
  BY <1>3, <1>4 DEF MatchFailed, Frame
<1> HIDE DEF f
<1>7. FrameOK(f) /\ Offered(f) = Offered(caller)
  BY <1>3, <1>6, NextMatch
<1>8. facts' \subseteq Fact
  BY <1>5 DEF IInv, TypeOK
<1> QED BY <1>1, <1>2, <1>5, <1>6, <1>7, <1>8, ReturnStep DEF caller

\* verifySession returns an error: an escalation, or the keys are next.
LEMMA SessionFailsIInv ==
    ASSUME IInv, SessionFails
    PROVE  IInv'
<1> DEFINE caller == stack[Depth - 1]
           g == [caller EXCEPT !.phase = "keys"]
<1>1. stack # <<>> /\ Top.kind = "claim" /\ Depth > 1
  BY DEF SessionFails, Running
<1>2. /\ caller \in Frame /\ FrameOK(caller) /\ caller.phase = "validate"
      /\ caller.next <= Len(caller.batch)
  <2>1. caller \in Frame /\ FrameOK(caller) /\ MayCall(caller, Top)
    BY <1>1, CallerWaits
  <2> QED BY <1>1, <2>1 DEF MayCall
<1>3. /\ Return(Reject(caller)) \/ Return(g)
      /\ UNCHANGED <<env, ucan, verdict, facts>>
  BY DEF SessionFails
<1>4. facts' \subseteq Fact
  BY <1>3 DEF IInv, TypeOK
<1> HIDE DEF caller
<1>5. CASE Return(Reject(caller))
  <2>1. /\ Reject(caller) \in Frame /\ FrameOK(Reject(caller))
        /\ Reject(caller).kind = caller.kind /\ Reject(caller).about = caller.about
        /\ Reject(caller).path = caller.path /\ Offered(Reject(caller)) = Offered(caller)
    BY <1>2, RejectFrame
  <2> QED BY <1>1, <1>3, <1>4, <1>5, <2>1, ReturnStep DEF caller
<1>6. CASE Return(g)
  <2>1. /\ g \in Frame
        /\ g.kind = caller.kind /\ g.about = caller.about /\ g.path = caller.path
        /\ g.phase = "keys" /\ g.sources = caller.sources /\ g.todo = caller.todo
        /\ g.links = caller.links /\ g.batch = caller.batch /\ g.next = caller.next
    BY <1>2 DEF Frame, Phases
  <2> HIDE DEF g
  <2>2. Offered(g) = Offered(caller)
    BY <2>1 DEF Offered
  <2>3. FrameOK(g)
    BY <1>2, <2>1, <2>2 DEF FrameOK
  <2> QED BY <1>1, <1>3, <1>4, <1>6, <2>1, <2>2, <2>3, ReturnStep DEF caller
<1> QED BY <1>3, <1>5, <1>6

\* The verdict is the chain the host approved, which is a chain.
LEMMA ApproveAccessIInv ==
    ASSUME IInv, ApproveAccess
    PROVE  IInv'
<1>1. /\ stack # <<>> /\ Top.kind = "claim" /\ Top.phase = "approve" /\ Depth = 1
      /\ Top \in Frame /\ FrameOK(Top) /\ StackOK(stack) /\ Top = stack[1]
  BY TopFrame DEF ApproveAccess, Running
<1>2. /\ IsChain(ucan, Invoked, Top.chain)
      /\ Top.chain[1].src \in ToSet(Presented)
  BY <1>1 DEF FrameOK, StackOK, Wanted, Offered
<1>3. Top.chain \in Seq(Match)
  BY <1>1, FrameFields
<1> QED BY <1>2, <1>3, FinishStep DEF ApproveAccess

\* An approved session lets its subject pass in the frame below.
LEMMA ApproveSessionIInv ==
    ASSUME IInv, ApproveSession
    PROVE  IInv'
<1> DEFINE caller == stack[Depth - 1]
<1>1. /\ stack # <<>> /\ Top.kind = "claim" /\ Depth > 1 /\ Top \in Frame /\ TypeOK
  BY TopFrame DEF ApproveSession, Running, IInv
<1>2. /\ caller \in Frame /\ FrameOK(caller) /\ caller.phase = "validate"
      /\ caller.next <= Len(caller.batch)
  <2>1. caller \in Frame /\ FrameOK(caller) /\ MayCall(caller, Top)
    BY <1>1, CallerWaits
  <2> QED BY <1>1, <2>1 DEF MayCall
<1>3. /\ Return(Accept(caller)) /\ Witness(caller, Top.chain)
      /\ UNCHANGED <<env, ucan, verdict>>
  BY DEF ApproveSession
<1>4. Top.chain \in Seq(Match)
  BY <1>1, FrameFields
<1> HIDE DEF caller
<1>5. facts' \subseteq Fact
  BY <1>1, <1>2, <1>3, <1>4, WitnessType
<1>6. /\ Accept(caller) \in Frame /\ FrameOK(Accept(caller))
      /\ Accept(caller).kind = caller.kind /\ Accept(caller).about = caller.about
      /\ Accept(caller).path = caller.path /\ Offered(Accept(caller)) = Offered(caller)
  BY <1>1, <1>2, AcceptFrame
<1> QED BY <1>1, <1>3, <1>5, <1>6, ReturnStep DEF caller

\* The host objects: the claim goes on with its next match.
LEMMA DisapproveIInv ==
    ASSUME IInv, Disapprove
    PROVE  IInv'
<1> DEFINE f == [Top EXCEPT !.phase = "search", !.todo = Tail(@), !.chain = <<>>]
<1>1. /\ stack # <<>> /\ Top.phase = "approve" /\ Top \in Frame /\ FrameOK(Top)
      /\ Top.todo # <<>> /\ TypeOK
  BY TopFrame DEF Disapprove, Running, IInv, FrameOK
<1>2. Tail(Top.todo) \in Seq(Match) /\ <<>> \in Seq(Match)
  BY <1>1, FrameFields, ElementsOfSequences
<1>3. /\ f \in Frame
      /\ f.kind = Top.kind /\ f.about = Top.about /\ f.path = Top.path
      /\ f.phase = "search" /\ f.sources = Top.sources /\ f.todo = Tail(Top.todo)
      /\ f.links = Top.links /\ f.batch = Top.batch
  <2>1. "search" \in Phases
    BY DEF Phases
  <2> QED BY <1>1, <1>2, <2>1 DEF Frame
<1>4. Update(f) /\ UNCHANGED <<env, ucan, verdict, facts>>
  BY DEF Disapprove
<1> HIDE DEF f
<1>5. FrameOK(f) /\ Offered(f) = Offered(Top)
  BY <1>1, <1>3, NextMatch
<1>6. facts' \subseteq Fact
  BY <1>1, <1>4 DEF TypeOK
<1> QED BY <1>1, <1>3, <1>4, <1>5, <1>6, UpdateStep

\* The call ends without a grant.
LEMMA RefuseIInv ==
    ASSUME IInv,
           \/ ParseThrows \/ Deny \/ CallbackThrows
           \/ \E keys \in KeyAnswers : ResolvedKeyThrows(keys)
    PROVE  IInv'
<1>1. PICK status \in {"denied", "thrown"} :
          Finish(status, <<>>) /\ UNCHANGED <<env, ucan, facts>>
  BY DEF ParseThrows, Deny, CallbackThrows, ResolvedKeyThrows
<1>2. <<>> \in Seq(Match)
  OBVIOUS
<1> QED BY <1>1, <1>2, FinishStep

\* Every step of the call keeps the invariant.
LEMMA StepIInv == IInv /\ Step => IInv'
<1> SUFFICES ASSUME IInv, Step PROVE IInv'
  OBVIOUS
<1>1. CASE \E d \in Delegations : ProofResolved(d)
  BY <1>1, ProofResolvedIInv
<1>2. CASE \E d \in Delegations : ProofUnavailable(d)
  BY <1>2, ProofUnavailableIInv
<1>3. CASE Align
  BY <1>3, AlignIInv
<1>4. CASE OutsideWindow \/ CheckSignature
  BY <1>4, ValidateIInv
<1>5. CASE OpenSession
  BY <1>5, OpenSessionIInv
<1>6. CASE (\E keys \in KeyAnswers : ResolveDIDKey(keys)) \/ ResolveDIDKeyFails
  BY <1>6, KeysIInv
<1>7. CASE Select
  BY <1>7, SelectIInv
<1>8. CASE FindRoot
  BY <1>8, FindRootIInv
<1>9. CASE ExploreProofs
  BY <1>9, ExploreProofsIInv
<1>10. CASE AuthorizeFails
  BY <1>10, AuthorizeFailsIInv
<1>11. CASE SessionFails
  BY <1>11, SessionFailsIInv
<1>12. CASE ApproveAccess
  BY <1>12, ApproveAccessIInv
<1>13. CASE ApproveSession
  BY <1>13, ApproveSessionIInv
<1>14. CASE Disapprove
  BY <1>14, DisapproveIInv
<1>15. CASE \/ ParseThrows \/ Deny \/ CallbackThrows
           \/ \E keys \in KeyAnswers : ResolvedKeyThrows(keys)
  BY <1>15, RefuseIInv
<1> QED BY <1>1, <1>2, <1>3, <1>4, <1>5, <1>6, <1>7, <1>8, <1>9, <1>10, <1>11, <1>12,
           <1>13, <1>14, <1>15 DEF Step

\* ... and so do the clock, a revocation and the stuttering of a call that returned.
LEMMA NextIInv == IInv /\ [Next]_vars => IInv'
<1> SUFFICES ASSUME IInv, [Next]_vars PROVE IInv'
  OBVIOUS
<1>1. CASE Step
  BY <1>1, StepIInv
<1>2. CASE Tick
  <2>1. now' \in Time /\ revoked' \subseteq Delegations
    BY <1>2, ChainAssumption DEF Tick, IInv, TypeOK, Time
  <2> QED BY <1>2, <2>1, WorldStep DEF Tick
<1>3. CASE \E d \in Delegations : Revoke(d)
  <2>1. now' \in Time /\ revoked' \subseteq Delegations
    BY <1>3 DEF Revoke, IInv, TypeOK
  <2> QED BY <1>3, <2>1, WorldStep DEF Revoke
<1>4. CASE UNCHANGED vars
  <2>1. now' \in Time /\ revoked' \subseteq Delegations
    BY <1>4 DEF vars, env, IInv, TypeOK
  <2> QED BY <1>4, <2>1, WorldStep DEF vars
<1> QED BY <1>1, <1>2, <1>3, <1>4 DEF Next, Returned

\* The invariant of the search holds throughout.
LEMMA Inductive == Spec => []IInv
  BY InitIInv, NextIInv, PTL DEF Spec

-----------------------------------------------------------------------------
(* What follows.                                                           *)

\* The state of a call has its type.
THEOREM TypeCorrect == Spec => []TypeOK
<1>1. IInv => TypeOK
  BY DEF IInv
<1> QED BY <1>1, Inductive, PTL

\* The calls in progress fit together, at any depth.
THEOREM StackCoherent == Spec => []Coherent
<1>1. IInv => Coherent
  BY DEF IInv
<1> QED BY <1>1, Inductive, PTL

\* Access is granted only for a chain of delegations from the owner.
THEOREM ChainsOnly == Spec => []GrantsOnlyChains
<1>1. IInv => GrantsOnlyChains
  BY DEF IInv
<1> QED BY <1>1, Inductive, PTL

\* The search goes down the graph of proofs, or to fewer attestations.
THEOREM Descends == Spec => []SearchDescends
<1>1. IInv => SearchDescends
  <2> SUFFICES ASSUME IInv, NEW i \in 1..(Depth - 1)
               PROVE  IF stack[i + 1].kind = "claim"
                      THEN /\ stack[i].phase = "validate"
                           /\ Beside(i + 1) \subseteq Beside(i) \ {Subject(i)}
                      ELSE /\ stack[i].phase = "search"
                           /\ Explored(i).src \in Beside(i)
                           /\ Beside(i + 1) \cup stack[i + 1].links
                                  \subseteq ToSet(ucan[Explored(i).src].prf)
    BY DEF SearchDescends
  <2> DEFINE f == stack[i]
             g == stack[i + 1]
  <2>1. stack \in Seq(Frame) /\ Depth = Len(stack) /\ Depth \in Nat
    BY DEF IInv, TypeOK, Depth
  <2>2. i \in 1..Len(stack) /\ i + 1 \in 1..Len(stack) /\ i \in 1..(Len(stack) - 1)
    BY <2>1
  <2>3. /\ f \in Frame /\ g \in Frame /\ FrameOK(f) /\ FrameOK(g) /\ MayCall(f, g)
    BY <2>1, <2>2 DEF IInv, Coherent, StackOK
  <2>4. CASE g.kind = "claim"
    BY <2>3, <2>4 DEF MayCall, Offered, Beside, Subject
  <2>5. CASE g.kind # "claim"
    <3>1. /\ g.kind = "authorize" /\ f.phase = "search" /\ f.todo # <<>>
          /\ g.path = Append(f.path, Head(f.todo))
      BY <2>3, <2>5 DEF MayCall
    <3>2. /\ f.path \in Seq(Match) /\ f.todo \in Seq(Match) /\ Head(f.todo) \in Match
      BY <2>3, <3>1, FrameFields
    <3>3. Last(g.path) = Head(f.todo)
      <4> DEFINE path == f.path
                 m == Head(f.todo)
      <4>1. path \in Seq(Match) /\ m \in Match /\ g.path = Append(path, m)
        BY <3>1, <3>2
      <4> HIDE DEF path, m
      <4>2. Last(g.path) = m
        BY <4>1 DEF Last
      <4> QED BY <4>2 DEF m
    <3>4. Head(f.todo) \in ToSet(f.todo)
      BY <3>1, <3>2, ElementsOfSequences
    <3>5. Head(f.todo).src \in ToSet(f.batch)
      BY <2>3, <3>4 DEF FrameOK
    <3>6. Offered(g) \subseteq ToSet(ucan[Head(f.todo).src].prf)
      BY <2>3, <3>1, <3>3 DEF FrameOK
    <3> QED BY <2>5, <3>1, <3>5, <3>6 DEF Explored, Beside, Offered
  <2> QED BY <2>4, <2>5
<1> QED BY <1>1, Inductive, PTL

\* What is revoked is relied on nowhere from then on.
THEOREM RevokedIsOut == Spec => RevokedStaysOut
<1> DEFINE StaysOut == \A d \in revoked : d \in Relied' => d \in Relied
<1>1. ASSUME UNCHANGED <<verdict, facts>>
      PROVE  StaysOut
  BY <1>1 DEF Relied
<1>2. ASSUME NEW f, Witness(f, <<>>), UNCHANGED verdict
      PROVE  StaysOut
  BY <1>2 DEF Relied, Witness
<1>3. ASSUME NEW f, Witness(f, Top.chain), Approves(Top.chain), UNCHANGED verdict
      PROVE  StaysOut
  BY <1>3 DEF Relied, Witness, Approves
<1>4. ASSUME NEW status, Finish(status, <<>>), UNCHANGED facts
      PROVE  StaysOut
  BY <1>4 DEF Relied, Finish
<1>5. ASSUME Finish("ok", Top.chain), Approves(Top.chain), UNCHANGED facts
      PROVE  StaysOut
  BY <1>5 DEF Relied, Finish, Approves
<1>6. [Next]_vars => StaysOut
  <2> SUFFICES ASSUME [Next]_vars PROVE StaysOut
    OBVIOUS
  <2>1. CASE UNCHANGED <<verdict, facts>>
    BY <1>1, <2>1
  <2>2. CASE CheckSignature \/ \E keys \in KeyAnswers : ResolveDIDKey(keys)
    <3>1. UNCHANGED verdict /\ (UNCHANGED facts \/ Witness(Top, <<>>))
      BY <2>2 DEF CheckSignature, ResolveDIDKey
    <3> QED BY <1>1, <1>2, <3>1
  <2>3. CASE ApproveSession
    BY <1>3, <2>3 DEF ApproveSession
  <2>4. CASE ApproveAccess
    BY <1>5, <2>4 DEF ApproveAccess
  <2>5. CASE \/ ParseThrows \/ Deny \/ CallbackThrows
             \/ \E keys \in KeyAnswers : ResolvedKeyThrows(keys)
    BY <1>4, <2>5 DEF ParseThrows, Deny, CallbackThrows, ResolvedKeyThrows
  <2> QED BY <2>1, <2>2, <2>3, <2>4, <2>5
          DEF Next, Step, Tick, Revoke, Returned, vars, ProofResolved, ProofUnavailable,
              Align, OutsideWindow, OpenSession, ResolveDIDKeyFails, Select, FindRoot,
              ExploreProofs, AuthorizeFails, SessionFails, Disapprove
<1>7. RevokedStaysOut <=> [][StaysOut]_vars
  BY DEF RevokedStaysOut
<1> HIDE DEF StaysOut
<1> QED BY <1>6, <1>7, PTL DEF Spec

-----------------------------------------------------------------------------
(* Attenuation along a chain, when no resource has an inner "*".           *)

PlainWorlds ==
    \A w \in Worlds : \A d \in Delegations :
        \A cap \in ToSet(w[d].caps) : PlainResource(cap.with)

\* By induction along the path: each value is plain, has the ability of the
\* claim, and the claim derives from it.
LEMMA PathCovers ==
    ASSUME NEW u \in [Delegations -> UCAN], NEW desc, IsDescriptor(desc),
           \A d \in Delegations : \A cap \in ToSet(u[d].caps) : PlainResource(cap.with),
           NEW path \in Seq(Match), IsPath(u, desc, path)
    PROVE  \A i \in DOMAIN path :
               \E cap \in ToSet(u[path[i].src].caps) : Covers(desc, cap, path[1].value)
<1> DEFINE n == Len(path)
           claim == path[1].value
           P(i) == /\ DefaultDerives(claim, path[i].value)
                   /\ path[i].value.can = claim.can
                   /\ PlainResource(path[i].value.with)
                   /\ \E cap \in ToSet(u[path[i].src].caps) : Covers(desc, cap, claim)
<1>1. n \in Nat /\ n > 0 /\ DOMAIN path = 1..n /\ \A i \in 1..n : path[i] \in Match
  BY DEF IsPath
<1>2. claim \in Cap
  BY <1>1 DEF Match
<1>3. \A i \in 1..n : \A cap \in ToSet(u[path[i].src].caps) :
          cap \in Cap /\ PlainResource(cap.with)
  <2> TAKE i \in 1..n
  <2>1. path[i].src \in Delegations
    BY <1>1 DEF Match
  <2>2. u[path[i].src].caps \in Seq(Cap)
    BY <2>1 DEF UCAN
  <2> QED BY <2>1, <2>2, ElementsOfSequences
<1>4. P(1)
  <2>1. PICK cap \in ToSet(u[path[1].src].caps) :
            Parses(desc, cap) /\ claim = ParseCapability(desc, cap)
    BY DEF IsPath, ClaimedBy
  <2>2. cap \in Cap /\ PlainResource(cap.with)
    BY <1>1, <1>3
  <2>3. PlainResource(claim.with)
    BY <2>1, <2>2 DEF ParseCapability
  <2> HIDE DEF claim
  <2>4. DefaultDerives(claim, claim)
    BY <1>2, DerivesFromItself
  <2>5. Covers(desc, cap, claim)
    <3>1. ContainsResource(cap.with, claim.with)
      BY <2>1, <2>2, ContainsItself DEF ParseCapability, Cap
    <3>2. ResolveAbility(cap.can, claim.can)
      BY <2>1 DEF ParseCapability, Parses, ResolveAbility
    <3>3. \A f \in DOMAIN cap.nb \cap DOMAIN desc.nb :
              f \in DOMAIN claim.nb /\ claim.nb[f] = cap.nb[f]
      BY <2>1 DEF ParseCapability, ReadNb
    <3> QED BY <1>2, <2>2, <3>1, <3>2, <3>3, CoversMeans
  <2> QED BY <2>3, <2>4, <2>5 DEF claim
<1>5. ASSUME NEW i \in 1..(n - 1), P(i)
      PROVE  P(i + 1)
  <2> DEFINE value == path[i].value
             resolved == path[i + 1].value
  <2>1. i \in 1..n /\ i + 1 \in 1..n
    BY <1>1
  <2>2. value \in Cap /\ resolved \in Cap
    BY <1>1, <2>1 DEF Match
  <2>3. PICK cap \in ToSet(u[path[i + 1].src].caps) :
            Selects(desc, value, cap) /\ resolved = ResolveCapability(desc, value, cap)
    BY <1>1 DEF IsPath, Proves, GrantedBy
  <2>4. cap \in Cap /\ PlainResource(cap.with)
    BY <1>3, <2>1
  <2>5. PlainResource(value.with) /\ value.can = claim.can /\ DefaultDerives(claim, value)
    BY <1>5
  <2> HIDE DEF value, resolved, claim
  <2>6. resolved.can = claim.can /\ PlainResource(resolved.with)
    BY <2>3, <2>4, <2>5 DEF ResolveCapability, ResolveResource
  <2>7. DefaultDerives(value, resolved)
    BY <2>3 DEF Selects
  <2>8. DefaultDerives(claim, resolved)
    BY <1>2, <2>2, <2>5, <2>6, <2>7, DerivationTransitive
  <2>9. Covers(desc, cap, claim)
    BY <1>2, <2>2, <2>3, <2>4, <2>5, <2>8, SelectedCovers
  <2> QED BY <2>6, <2>8, <2>9 DEF value, resolved
<1> HIDE DEF P
<1>6. \A i \in 1..n : P(i)
  <2> DEFINE T == {i \in 1..n : ~P(i)}
  <2>1. SUFFICES ASSUME T # {} PROVE FALSE
    OBVIOUS
  <2>2. T \subseteq Nat
    OBVIOUS
  <2>3. PICK m \in T : \A x \in T : m <= x
    <3> HIDE DEF T
    <3> QED BY <2>1, <2>2, LeastElement
  <2>4. m \in 1..n /\ ~P(m)
    OBVIOUS
  <2>5. m # 1
    BY <1>4, <2>4
  <2>6. m - 1 \in 1..(n - 1) /\ m - 1 \in 1..n /\ (m - 1) + 1 = m
    BY <1>1, <2>4, <2>5
  <2>7. m - 1 \notin T
    BY <2>3, <2>6
  <2>8. P(m - 1)
    BY <2>6, <2>7
  <2>9. P((m - 1) + 1)
    BY <1>5, <2>6, <2>8
  <2> QED BY <2>4, <2>6, <2>9
<1> QED BY <1>1, <1>6 DEF P

\* Every delegation of a granted chain covers the invocation itself.
THEOREM NothingEscalates == PlainWorlds => (Spec => []NoEscalation)
<1> SUFFICES ASSUME PlainWorlds PROVE Spec => []NoEscalation
  OBVIOUS
<1> DEFINE J == IInv /\ ucan \in Worlds
<1>1. Init => J
  BY InitIInv DEF Init
<1>2. J /\ [Next]_vars => J'
  <2>1. [Next]_vars => UNCHANGED ucan
    BY DEF Next, Step, Tick, Revoke, Returned, vars, ProofResolved, ProofUnavailable,
           Align, OutsideWindow, CheckSignature, ParseThrows, OpenSession, ResolveDIDKey,
           ResolvedKeyThrows, ResolveDIDKeyFails, Select, FindRoot, ExploreProofs,
           AuthorizeFails, SessionFails, Deny, ApproveAccess, ApproveSession, Disapprove,
           CallbackThrows
  <2> QED BY <2>1, NextIInv
<1>3. J => NoEscalation
  <2> SUFFICES ASSUME J, verdict.status = "ok", NEW i \in DOMAIN verdict.chain
               PROVE  \E j \in DOMAIN ucan[verdict.chain[i].src].caps :
                         Covers(Invoked, ucan[verdict.chain[i].src].caps[j],
                                verdict.chain[1].value)
    BY DEF NoEscalation
  <2>1. verdict.chain \in Seq(Match) /\ IsPath(ucan, Invoked, verdict.chain)
    BY DEF IInv, TypeOK, Verdict, GrantsOnlyChains, IsChain
  <2>2. ucan \in [Delegations -> UCAN]
    BY DEF IInv, TypeOK
  <2>3. \A d \in Delegations : \A cap \in ToSet(ucan[d].caps) : PlainResource(cap.with)
    BY DEF PlainWorlds
  <2>4. PICK cap \in ToSet(ucan[verdict.chain[i].src].caps) :
            Covers(Invoked, cap, verdict.chain[1].value)
    BY <2>1, <2>2, <2>3, InvokedAssumption, PathCovers
  <2> QED BY <2>4 DEF ToSet
<1> HIDE DEF J
<1> QED BY <1>1, <1>2, <1>3, PTL DEF Spec

=============================================================================

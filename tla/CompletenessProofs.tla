------------------------- MODULE CompletenessProofs -------------------------
(***************************************************************************)
(* The search misses nothing it could rely on: a chain for which there is  *)
(* evidence, presented to access, is never answered with Unauthorized      *)
(* while nothing is revoked.  For every set of delegations, whatever else  *)
(* they say, every answer of the callbacks and any clock.                  *)
(***************************************************************************)
EXTENDS VerificationProofs, Backing

-----------------------------------------------------------------------------
(* The invariant.                                                          *)

\* Evidence is good when each of its delegations is in its window throughout
\* and either signed by its issuer, or attested, among those it is validated
\* beside, by a chain for which the same evidence speaks.
GoodEvidence(E) ==
    \A d, W : <<d, W>> \in E =>
        /\ Lasting(d)
        /\ \/ SignedByIssuer(ucan[d])
           \/ /\ ~SelfVerifying(ucan[d])
              /\ \E c : Supported(ucan, E, Attestation(d), W \cap AttestationsFor(d), c)

\* The chain c starts with the path.
Continues(c, path) ==
    /\ Len(path) <= Len(c)
    /\ \A i \in DOMAIN path : c[i] = path[i]

\* d is still to be validated, or all its capabilities count already.
Awaited(f, from, d) ==
    \/ \E i \in from..Len(f.batch) : f.batch[i] = d
    \/ \A cap \in ToSet(ucan[d].caps) : [src |-> d, cap |-> cap] \in ToSet(f.sources)

\* What a frame has left to do still leads to the next link of c.  In the
\* phase "keys" the delegation under validation is already given up.
Promising(f, W, c) ==
    LET l == Len(f.path) + 1
    IN  /\ l \in DOMAIN c
        /\ f.phase \in {"resolve", "validate", "keys"} =>
              Company(ucan, W, c, l) \subseteq ToSet(f.batch)
        /\ f.phase = "validate" => Awaited(f, f.next, c[l].src)
        /\ f.phase = "keys" => Awaited(f, f.next + 1, c[l].src)
        /\ f.phase = "search" => c[l] \in ToSet(f.todo)

\* No supported chain that goes through what the frame explores is lost: a
\* claim may find those presented among its own proofs, an authorize frame
\* those that start with its path.
Hopeful(E, f) ==
    /\ f.phase = "resolve" => f.next = 1
    /\ \A W, c :
          (/\ f.kind = "claim" => W \subseteq ToSet(f.batch)
           /\ Supported(ucan, E, Wanted(f.about), W, c)
           /\ Continues(c, f.path))
          => Promising(f, W, c)

HopefulStack(E, s) == \A i \in 1..Len(s) : Hopeful(E, s[i])

\* A verdict that denies access denies it to no supported chain.
Refuted(E) ==
    verdict.status = "denied" =>
        \A c : ~Supported(ucan, E, Invoked, ToSet(Presented), c)

NothingMissed ==
    revoked = {} => \A E : GoodEvidence(E) => HopefulStack(E, stack) /\ Refuted(E)

\* Everything presented is in the first claim, and a session is given all the
\* attestations there are beside its subject.
GivenAll(s) ==
    /\ s # <<>> => ToSet(Presented) \subseteq ToSet(s[1].batch)
    /\ \A i \in 1..(Len(s) - 1) :
          s[i + 1].kind = "claim" =>
              ToSet(s[i].batch) \cap AttestationsFor(s[i].batch[s[i].next])
                  \subseteq ToSet(s[i + 1].batch)

\* The invariant of the search that finds what there is.
CInv == VInv /\ GivenAll(stack) /\ NothingMissed

-----------------------------------------------------------------------------
(* Supported chains.                                                       *)

\* What a supported chain is made of.
LEMMA SupportedParts ==
    ASSUME NEW u, NEW E, NEW desc, NEW W, NEW c, Supported(u, E, desc, W, c)
    PROVE  /\ c \in Seq(Match) /\ Len(c) \in Nat /\ Len(c) > 0 /\ DOMAIN c = 1..Len(c)
           /\ ClaimedBy(u, desc, c[1]) /\ c[1].src \in W
           /\ \A k \in 1..Len(c) : c[k] \in Match /\ c[k].src \in Delegations
           /\ \A k \in 1..Len(c) : <<c[k].src, Company(u, W, c, k)>> \in E
           /\ \A k \in 1..Len(c) : k > 1 => Proves(u, desc, c[k - 1], c[k])
           /\ \A k \in 1..Len(c) : c[k].src \in Company(u, W, c, k)
           /\ CanIssue(c[Len(c)].value, u[c[Len(c)].src].iss)
<1>1. /\ c \in Seq(Match) /\ Len(c) \in Nat /\ c # <<>> /\ DOMAIN c = 1..Len(c)
      /\ IsPath(u, desc, c)
  <2>1. c \in Seq(Match) /\ IsPath(u, desc, c)
    BY DEF Supported, IsChain
  <2>2. c # <<>>
    BY <2>1 DEF IsPath
  <2>3. Len(c) \in Nat /\ DOMAIN c = 1..Len(c)
    BY <2>1
  <2> QED BY <2>1, <2>2, <2>3
<1>2. Len(c) > 0
  BY <1>1
<1>3. ClaimedBy(u, desc, c[1]) /\ c[1].src \in W
  BY <1>1 DEF IsPath, Supported
<1>4. \A k \in 1..Len(c) : c[k] \in Match /\ c[k].src \in Delegations
  <2>1. \A k \in 1..Len(c) : c[k] \in Match
    BY <1>1
  <2>2. \A m \in Match : m.src \in Delegations
    BY DEF Match
  <2> QED BY <2>1, <2>2
<1>5. \A k \in 1..Len(c) : <<c[k].src, Company(u, W, c, k)>> \in E
  BY <1>1 DEF Supported
<1>6. ASSUME NEW k \in 1..Len(c), k > 1
      PROVE  Proves(u, desc, c[k - 1], c[k])
  <2>1. k - 1 \in 1..(Len(c) - 1) /\ (k - 1) + 1 = k
    BY <1>1, <1>6
  <2>2. Proves(u, desc, c[k - 1], c[(k - 1) + 1])
    BY <1>1, <2>1 DEF IsPath
  <2> QED BY <2>1, <2>2
<1>7. ASSUME NEW k \in 1..Len(c)
      PROVE  c[k].src \in Company(u, W, c, k)
  <2>1. CASE k = 1
    BY <1>3, <2>1 DEF Company
  <2>2. CASE k # 1
    <3>1. k \in 2..Len(c) /\ k > 1
      BY <1>1, <2>2
    <3>2. c[k].src \in u[c[k - 1].src].embedded
      BY <3>1 DEF Supported
    <3>3. c[k].src \in ToSet(u[c[k - 1].src].prf) /\ u[c[k].src].aud = u[c[k - 1].src].iss
      BY <1>6, <3>1 DEF Proves
    <3> QED BY <2>2, <3>2, <3>3 DEF Company
  <2> QED BY <2>1, <2>2
<1>8. CanIssue(c[Len(c)].value, u[c[Len(c)].src].iss)
  BY <1>1 DEF Supported, IsChain, Last
<1> QED BY <1>1, <1>2, <1>3, <1>4, <1>5, <1>6, <1>7, <1>8

\* The company of a link that is not the first is what its place in the chain
\* says, whatever the chain was presented among.
LEMMA CompanyOfProof ==
    ASSUME NEW u, NEW W, NEW c, NEW k \in Nat, k > 1
    PROVE  Company(u, W, c, k) =
              {p \in ToSet(u[c[k - 1].src].prf) \cap u[c[k - 1].src].embedded :
                  u[p].aud = u[c[k - 1].src].iss}
BY DEF Company

-----------------------------------------------------------------------------
(* Frames.                                                                 *)

\* Being done with a delegation moves to the next one.
LEMMA RejectNext ==
    ASSUME NEW f \in Frame
    PROVE  /\ Reject(f).next = f.next + 1 /\ Reject(f).phase = "validate"
           /\ Reject(f).kind = f.kind /\ Reject(f).about = f.about /\ Reject(f).path = f.path
           /\ Reject(f).batch = f.batch /\ Reject(f).sources = f.sources
BY DEF Reject, Frame

\* ... and one that passed leaves all its capabilities.
LEMMA AcceptNext ==
    ASSUME TypeOK, NEW f \in Frame, f.next <= Len(f.batch)
    PROVE  /\ Accept(f).next = f.next + 1 /\ Accept(f).phase = "validate"
           /\ Accept(f).kind = f.kind /\ Accept(f).about = f.about /\ Accept(f).path = f.path
           /\ Accept(f).batch = f.batch
           /\ ToSet(f.sources) \subseteq ToSet(Accept(f).sources)
           /\ \A cap \in ToSet(ucan[f.batch[f.next]].caps) :
                 [src |-> f.batch[f.next], cap |-> cap] \in ToSet(Accept(f).sources)
<1> DEFINE d == f.batch[f.next]
           caps == ucan[d].caps
           more == SourcesOf(d)
<1>1. f.sources \in Seq(Source) /\ d \in Delegations
  BY FrameFields
<1>2. caps \in Seq(Cap)
  BY <1>1 DEF TypeOK, UCAN
<1> HIDE DEF d
<1>3. more = [i \in DOMAIN caps |-> [src |-> d, cap |-> caps[i]]]
  BY DEF SourcesOf
<1> HIDE DEF caps, more
<1>4. more \in Seq(Source)
  <2>1. \A i \in DOMAIN caps : [src |-> d, cap |-> caps[i]] \in Source
    BY <1>1, <1>2 DEF Source
  <2> QED BY <1>2, <1>3, <2>1
<1>5. /\ Accept(f).next = f.next + 1 /\ Accept(f).phase = "validate"
      /\ Accept(f).kind = f.kind /\ Accept(f).about = f.about /\ Accept(f).path = f.path
      /\ Accept(f).batch = f.batch /\ Accept(f).sources = f.sources \o more
  BY DEF Accept, Reject, Frame, d, more
<1>6. ToSet(f.sources) \subseteq ToSet(f.sources \o more)
  <2> SUFFICES ASSUME NEW i \in DOMAIN f.sources
               PROVE  f.sources[i] \in ToSet(f.sources \o more)
    BY DEF ToSet
  <2>1. i \in DOMAIN (f.sources \o more) /\ (f.sources \o more)[i] = f.sources[i]
    BY <1>1, <1>4
  <2> QED BY <2>1 DEF ToSet
<1>7. \A cap \in ToSet(caps) : [src |-> d, cap |-> cap] \in ToSet(f.sources \o more)
  <2> TAKE cap \in ToSet(caps)
  <2>1. PICK i \in DOMAIN caps : cap = caps[i]
    BY DEF ToSet
  <2>2. i \in DOMAIN more /\ more[i] = [src |-> d, cap |-> cap] /\ i \in 1..Len(more)
    BY <1>2, <1>3, <1>4, <2>1
  <2>3. Len(f.sources) + i \in DOMAIN (f.sources \o more)
        /\ (f.sources \o more)[Len(f.sources) + i] = more[i]
    BY <1>1, <1>4, <2>2
  <2> QED BY <2>2, <2>3 DEF ToSet
<1> QED BY <1>5, <1>6, <1>7 DEF d, caps

\* What a frame that is hopeful says of one chain.
LEMMA HopefulFor ==
    ASSUME NEW E, NEW f \in Frame, Hopeful(E, f), NEW W, NEW c,
           f.kind = "claim" => W \subseteq ToSet(f.batch),
           Supported(ucan, E, Wanted(f.about), W, c), Continues(c, f.path)
    PROVE  Promising(f, W, c)
BY DEF Hopeful

\* A delegation without evidence may be given up.
LEMMA HopefulRejecting ==
    ASSUME NEW E, NEW f \in Frame, Hopeful(E, f), f.phase = "validate",
           \A W : W \subseteq ToSet(f.batch) => <<f.batch[f.next], W>> \notin E
    PROVE  Hopeful(E, Reject(f)) /\ Hopeful(E, [f EXCEPT !.phase = "keys"])
<1> DEFINE g == [f EXCEPT !.phase = "keys"]
           r == Reject(f)
<1>1. /\ r.next = f.next + 1 /\ r.phase = "validate"
      /\ r.kind = f.kind /\ r.about = f.about /\ r.path = f.path
      /\ r.batch = f.batch /\ r.sources = f.sources
  BY RejectNext
<1>2. /\ g.next = f.next /\ g.phase = "keys"
      /\ g.kind = f.kind /\ g.about = f.about /\ g.path = f.path
      /\ g.batch = f.batch /\ g.sources = f.sources
  BY DEF Frame
<1>3. f.next \in Nat /\ Len(f.path) \in Nat /\ Len(f.batch) \in Nat
  BY FrameFields
<1> HIDE DEF g, r
<1>4. ASSUME NEW W, NEW c, f.kind = "claim" => W \subseteq ToSet(f.batch),
             Supported(ucan, E, Wanted(f.about), W, c), Continues(c, f.path)
      PROVE  LET l == Len(f.path) + 1
             IN  /\ l \in DOMAIN c
                 /\ Company(ucan, W, c, l) \subseteq ToSet(f.batch)
                 /\ Awaited(f, f.next + 1, c[l].src)
  <2> DEFINE l == Len(f.path) + 1
  <2>1. /\ l \in DOMAIN c
        /\ Company(ucan, W, c, l) \subseteq ToSet(f.batch)
        /\ Awaited(f, f.next, c[l].src)
    BY <1>4, HopefulFor DEF Promising
  <2>2. <<c[l].src, Company(ucan, W, c, l)>> \in E
    BY <1>4, <2>1, SupportedParts
  <2>3. c[l].src # f.batch[f.next]
    BY <2>1, <2>2
  <2>4. ASSUME NEW i \in f.next..Len(f.batch), f.batch[i] = c[l].src
        PROVE  i \in (f.next + 1)..Len(f.batch)
    <3>1. i # f.next
      BY <2>3, <2>4
    <3> QED BY <1>3, <3>1
  <2>5. Awaited(f, f.next + 1, c[l].src)
    BY <2>1, <2>4 DEF Awaited
  <2> QED BY <2>1, <2>5
<1>5. Hopeful(E, r)
  <2> SUFFICES ASSUME NEW W, NEW c, r.kind = "claim" => W \subseteq ToSet(r.batch),
                      Supported(ucan, E, Wanted(r.about), W, c), Continues(c, r.path)
               PROVE  Promising(r, W, c)
    BY <1>1 DEF Hopeful
  <2> QED BY <1>1, <1>4 DEF Promising, Awaited
<1>6. Hopeful(E, g)
  <2> SUFFICES ASSUME NEW W, NEW c, g.kind = "claim" => W \subseteq ToSet(g.batch),
                      Supported(ucan, E, Wanted(g.about), W, c), Continues(c, g.path)
               PROVE  Promising(g, W, c)
    BY <1>2 DEF Hopeful
  <2> QED BY <1>2, <1>4 DEF Promising, Awaited
<1> QED BY <1>5, <1>6 DEF g, r

\* One that waits for its keys is given up already.
LEMMA HopefulAfterKeys ==
    ASSUME NEW E, NEW f \in Frame, Hopeful(E, f), f.phase = "keys"
    PROVE  Hopeful(E, Reject(f))
<1> DEFINE r == Reject(f)
<1>1. /\ r.next = f.next + 1 /\ r.phase = "validate"
      /\ r.kind = f.kind /\ r.about = f.about /\ r.path = f.path
      /\ r.batch = f.batch /\ r.sources = f.sources
  BY RejectNext
<1> HIDE DEF r
<1>2. ASSUME NEW W, NEW c, r.kind = "claim" => W \subseteq ToSet(r.batch),
             Supported(ucan, E, Wanted(r.about), W, c), Continues(c, r.path)
      PROVE  Promising(r, W, c)
  <2>1. Promising(f, W, c)
    BY <1>1, <1>2, HopefulFor
  <2> QED BY <1>1, <2>1 DEF Promising, Awaited
<1> QED BY <1>1, <1>2 DEF Hopeful, r

\* A delegation that passed is awaited no longer: its capabilities count.
LEMMA HopefulAccepting ==
    ASSUME TypeOK, NEW E, NEW f \in Frame, Hopeful(E, f), f.phase \in {"validate", "keys"},
           f.next <= Len(f.batch)
    PROVE  Hopeful(E, Accept(f))
<1> DEFINE a == Accept(f)
           d == f.batch[f.next]
<1>1. /\ a.next = f.next + 1 /\ a.phase = "validate"
      /\ a.kind = f.kind /\ a.about = f.about /\ a.path = f.path /\ a.batch = f.batch
      /\ ToSet(f.sources) \subseteq ToSet(a.sources)
      /\ \A cap \in ToSet(ucan[d].caps) : [src |-> d, cap |-> cap] \in ToSet(a.sources)
  BY AcceptNext
<1>2. f.next \in Nat /\ Len(f.path) \in Nat /\ Len(f.batch) \in Nat
  BY FrameFields
<1> HIDE DEF a
<1>3. ASSUME NEW e, Awaited(f, f.next, e) \/ Awaited(f, f.next + 1, e)
      PROVE  Awaited(a, a.next, e)
  <2>1. CASE e = d
    BY <1>1, <2>1 DEF Awaited
  <2>2. CASE \E i \in f.next..Len(f.batch) : f.batch[i] = e /\ e # d
    <3>1. PICK i \in f.next..Len(f.batch) : f.batch[i] = e /\ e # d
      BY <2>2
    <3>2. i \in (f.next + 1)..Len(f.batch)
      BY <1>2, <3>1
    <3> QED BY <1>1, <3>1, <3>2 DEF Awaited
  <2>3. CASE \A cap \in ToSet(ucan[e].caps) : [src |-> e, cap |-> cap] \in ToSet(f.sources)
    BY <1>1, <2>3 DEF Awaited
  <2>4. (f.next + 1)..Len(f.batch) \subseteq f.next..Len(f.batch)
    BY <1>2
  <2> QED BY <1>3, <2>1, <2>2, <2>3, <2>4 DEF Awaited
<1>4. ASSUME NEW W, NEW c, a.kind = "claim" => W \subseteq ToSet(a.batch),
             Supported(ucan, E, Wanted(a.about), W, c), Continues(c, a.path)
      PROVE  Promising(a, W, c)
  <2>1. Promising(f, W, c)
    BY <1>1, <1>4, HopefulFor
  <2> QED BY <1>1, <1>3, <2>1 DEF Promising
<1> QED BY <1>1, <1>4 DEF Hopeful, a

\* A link resolved or not, nothing is taken from the proofs of a frame.
LEMMA HopefulResolving ==
    ASSUME NEW E, NEW f \in Frame, Hopeful(E, f), f.phase = "resolve", FrameOK(f),
           NEW g, g.phase = "resolve", g.next = f.next, g.kind = f.kind,
           g.about = f.about, g.path = f.path, ToSet(f.batch) \subseteq ToSet(g.batch)
    PROVE  Hopeful(E, g)
<1>1. ASSUME NEW W, NEW c, g.kind = "claim" => W \subseteq ToSet(g.batch),
             Supported(ucan, E, Wanted(g.about), W, c), Continues(c, g.path)
      PROVE  Promising(g, W, c)
  <2>1. CASE g.kind = "claim"
    <3>1. g.path = <<>> /\ Len(g.path) = 0
      BY <2>1 DEF FrameOK
    <3>2. 1 \in DOMAIN c
      BY <1>1, SupportedParts
    <3>3. Company(ucan, W, c, 1) \subseteq ToSet(g.batch)
      BY <1>1, <2>1 DEF Company
    <3> QED BY <3>1, <3>2, <3>3 DEF Promising
  <2>2. CASE g.kind # "claim"
    <3>1. Promising(f, W, c)
      BY <1>1, <2>2, HopefulFor
    <3> QED BY <3>1 DEF Promising
  <2> QED BY <2>1, <2>2
<1>2. g.next = 1
  BY DEF Hopeful
<1> QED BY <1>1, <1>2 DEF Hopeful

\* resolveSources keeps every proof that delegates to the issuer of what the
\* frame proves, so it keeps the company of the next link.
LEMMA HopefulAligned ==
    ASSUME NEW E, NEW f \in Frame, Hopeful(E, f), f.phase = "resolve", FrameOK(f),
           NEW g, g.phase = "validate", g.next = f.next, g.kind = f.kind,
           g.about = f.about, g.path = f.path, g.batch = Aligned(f)
    PROVE  Hopeful(E, g)
<1>1. f.batch \in Seq(Delegations) /\ f.path \in Seq(Match) /\ Len(f.path) \in Nat
  BY FrameFields
<1>2. g.next = 1
  BY DEF Hopeful
<1>3. ASSUME NEW W, NEW c, g.kind = "claim" => W \subseteq ToSet(g.batch),
             Supported(ucan, E, Wanted(g.about), W, c), Continues(c, g.path)
      PROVE  Promising(g, W, c)
  <2> DEFINE l == Len(g.path) + 1
  <2>1. ASSUME g.kind = "claim"
        PROVE  l \in DOMAIN c /\ Company(ucan, W, c, l) \subseteq ToSet(g.batch)
    <3>1. g.batch = f.batch
      BY <2>1 DEF Aligned
    <3>2. Promising(f, W, c)
      BY <1>3, <2>1, <3>1, HopefulFor
    <3>3. l \in DOMAIN c /\ Company(ucan, W, c, l) \subseteq ToSet(g.batch)
      BY <3>1, <3>2 DEF Promising
    <3> QED BY <3>3
  <2>2. ASSUME g.kind # "claim"
        PROVE  l \in DOMAIN c /\ Company(ucan, W, c, l) \subseteq ToSet(g.batch)
    <3> DEFINE S == {d \in Delegations : ucan[d].aud = ucan[Last(f.path).src].iss}
    <3>1. g.batch = Keep(f.batch, S)
      BY <2>2 DEF Aligned
    <3>2. ToSet(g.batch) = ToSet(f.batch) \cap S
      <4> HIDE DEF S
      <4> QED BY <1>1, <3>1, KeepMissesNothing
    <3>3. f.path # <<>> /\ Last(f.path) = f.path[Len(f.path)] /\ Len(f.path) > 0
      <4>1. f.kind = "authorize"
        BY <2>2, FrameFields
      <4>2. f.path # <<>>
        BY <4>1 DEF FrameOK, IsPath
      <4> QED BY <1>1, <4>2 DEF Last
    <3>4. c[l - 1] = Last(f.path)
      <4>1. Len(f.path) \in DOMAIN f.path /\ l - 1 = Len(f.path)
        BY <1>1, <3>3
      <4> QED BY <1>3, <3>3, <4>1 DEF Continues
    <3>5. Promising(f, W, c)
      BY <1>3, <2>2, HopefulFor
    <3>6. l \in DOMAIN c /\ Company(ucan, W, c, l) \subseteq ToSet(f.batch)
      BY <3>5 DEF Promising
    <3>7. ToSet(f.batch) \subseteq Delegations
      BY <1>1 DEF ToSet
    <3>8. Company(ucan, W, c, l) \subseteq S
      <4>1. l \in Nat /\ l > 1
        BY <1>1, <3>3
      <4>2. \A p \in Company(ucan, W, c, l) : ucan[p].aud = ucan[c[l - 1].src].iss
        <5> HIDE DEF l
        <5> QED BY <4>1, CompanyOfProof
      <4> HIDE DEF l
      <4> QED BY <3>4, <3>6, <3>7, <4>2
    <3>9. Company(ucan, W, c, l) \subseteq ToSet(g.batch)
      <4> HIDE DEF l, S
      <4> QED BY <3>2, <3>6, <3>8
    <3> QED BY <3>6, <3>9
  <2>3. l \in DOMAIN c /\ Company(ucan, W, c, l) \subseteq ToSet(g.batch)
    BY <2>1, <2>2
  <2>4. Awaited(g, 1, c[l].src)
    <3>1. c[l].src \in ToSet(g.batch)
      <4> HIDE DEF l
      <4> QED BY <1>3, <2>3, SupportedParts
    <3>2. g.batch \in Seq(Delegations)
      <4>1. f.kind = "claim" => g.batch = f.batch
        BY DEF Aligned
      <4>2. f.kind # "claim" => g.batch \in Seq(Delegations)
        <5> DEFINE S == {d \in Delegations : ucan[d].aud = ucan[Last(f.path).src].iss}
        <5>1. f.kind # "claim" => g.batch = Keep(f.batch, S)
          BY DEF Aligned
        <5> HIDE DEF S
        <5> QED BY <1>1, <5>1, KeepElements
      <4> QED BY <1>1, <4>1, <4>2
    <3> QED BY <3>1, <3>2 DEF Awaited, ToSet
  <2> QED BY <1>2, <2>3, <2>4 DEF Promising
<1> QED BY <1>2, <1>3 DEF Hopeful

-----------------------------------------------------------------------------
(* Selecting.                                                              *)

\* capability.select finds every claim of a delegation whose capabilities count.
LEMMA ClaimsFound ==
    ASSUME NEW u, NEW desc, NEW sources \in Seq(Source), NEW m \in Match,
           ClaimedBy(u, desc, m),
           \A cap \in ToSet(u[m.src].caps) : [src |-> m.src, cap |-> cap] \in ToSet(sources)
    PROVE  m \in ToSet(SelectClaim(desc, sources))
<1> DEFINE fit == {s \in ToSet(sources) : Parses(desc, s.cap)}
           kept == Keep(sources, fit)
           matchOf(s) == [src |-> s.src, value |-> ParseCapability(desc, s.cap)]
           selected == [i \in DOMAIN kept |-> matchOf(kept[i])]
<1>1. SelectClaim(desc, sources) = selected
  BY DEF SelectClaim
<1>2. PICK cap \in ToSet(u[m.src].caps) :
        Parses(desc, cap) /\ m.value = ParseCapability(desc, cap)
  BY DEF ClaimedBy
<1> DEFINE s == [src |-> m.src, cap |-> cap]
<1>3. s \in ToSet(sources) /\ s.src = m.src /\ s.cap = cap
  OBVIOUS
<1>4. s \in fit /\ matchOf(s) = m
  <2>1. m = [src |-> m.src, value |-> m.value]
    BY DEF Match
  <2> HIDE DEF s
  <2> QED BY <1>2, <1>3, <2>1
<1> HIDE DEF fit, s, matchOf
<1>5. ToSet(kept) = ToSet(sources) \cap fit
  BY KeepMissesNothing
<1>6. PICK i \in DOMAIN kept : kept[i] = s
  <2>1. s \in ToSet(kept)
    BY <1>3, <1>4, <1>5
  <2> QED BY <2>1 DEF ToSet
<1> HIDE DEF kept
<1>7. i \in DOMAIN selected /\ selected[i] = m
  BY <1>4, <1>6
<1> QED BY <1>1, <1>7 DEF ToSet

\* ... and match.select every match that proves the one explored.
LEMMA ProofsFound ==
    ASSUME NEW u, NEW desc, NEW claimed, NEW sources \in Seq(Source), NEW m \in Match,
           GrantedBy(u, desc, claimed, m),
           \A cap \in ToSet(u[m.src].caps) : [src |-> m.src, cap |-> cap] \in ToSet(sources)
    PROVE  m \in ToSet(SelectProof(desc, claimed, sources))
<1> DEFINE fit == {s \in ToSet(sources) : Selects(desc, claimed, s.cap)}
           kept == Keep(sources, fit)
           matchOf(s) == [src |-> s.src, value |-> ResolveCapability(desc, claimed, s.cap)]
           selected == [i \in DOMAIN kept |-> matchOf(kept[i])]
<1>1. SelectProof(desc, claimed, sources) = selected
  BY DEF SelectProof
<1>2. PICK cap \in ToSet(u[m.src].caps) :
        Selects(desc, claimed, cap) /\ m.value = ResolveCapability(desc, claimed, cap)
  BY DEF GrantedBy
<1> DEFINE s == [src |-> m.src, cap |-> cap]
<1>3. s \in ToSet(sources) /\ s.src = m.src /\ s.cap = cap
  OBVIOUS
<1>4. s \in fit /\ matchOf(s) = m
  <2>1. m = [src |-> m.src, value |-> m.value]
    BY DEF Match
  <2> HIDE DEF s
  <2> QED BY <1>2, <1>3, <2>1
<1> HIDE DEF fit, s, matchOf
<1>5. ToSet(kept) = ToSet(sources) \cap fit
  BY KeepMissesNothing
<1>6. PICK i \in DOMAIN kept : kept[i] = s
  <2>1. s \in ToSet(kept)
    BY <1>3, <1>4, <1>5
  <2> QED BY <2>1 DEF ToSet
<1> HIDE DEF kept
<1>7. i \in DOMAIN selected /\ selected[i] = m
  BY <1>4, <1>6
<1> QED BY <1>1, <1>7 DEF ToSet

\* When all is validated, the next link of a supported chain is selected.
LEMMA HopefulSelecting ==
    ASSUME NEW E, NEW f \in Frame, Hopeful(E, f), f.phase = "validate", FrameOK(f),
           f.next > Len(f.batch),
           NEW g, g.phase = "search", g.kind = f.kind, g.about = f.about, g.path = f.path,
           g.batch = f.batch,
           g.todo = IF f.kind = "claim" THEN SelectClaim(Wanted(f.about), f.sources)
                    ELSE SelectProof(Wanted(f.about), Last(f.path).value, f.sources)
    PROVE  Hopeful(E, g)
<1>1. /\ f.sources \in Seq(Source) /\ f.path \in Seq(Match)
      /\ Len(f.path) \in Nat /\ Len(f.batch) \in Nat /\ f.next \in Nat
  BY FrameFields
<1> DEFINE desc == Wanted(f.about)
           l == Len(f.path) + 1
<1>2. ASSUME NEW W, NEW c, g.kind = "claim" => W \subseteq ToSet(g.batch),
             Supported(ucan, E, Wanted(g.about), W, c), Continues(c, g.path)
      PROVE  l \in DOMAIN c /\ c[l] \in ToSet(g.todo)
  <2> DEFINE m == c[l]
  <2>1. Promising(f, W, c)
    BY <1>2, HopefulFor
  <2>2. l \in DOMAIN c /\ Awaited(f, f.next, m.src)
    BY <2>1 DEF Promising
  <2>3. \A cap \in ToSet(ucan[m.src].caps) : [src |-> m.src, cap |-> cap] \in ToSet(f.sources)
    <3>1. ~ \E i \in f.next..Len(f.batch) : f.batch[i] = m.src
      BY <1>1
    <3> HIDE DEF m
    <3> QED BY <2>2, <3>1 DEF Awaited
  <2>4. /\ m \in Match /\ ClaimedBy(ucan, desc, c[1])
        /\ l > 1 => Proves(ucan, desc, c[l - 1], m)
    <3> HIDE DEF l, desc
    <3>1. Supported(ucan, E, desc, W, c)
      BY <1>2 DEF desc
    <3> QED BY <2>2, <3>1, SupportedParts
  <2>5. CASE f.kind = "claim"
    <3>1. f.path = <<>> /\ l = 1
      BY <2>5 DEF FrameOK
    <3>2. ClaimedBy(ucan, desc, m)
      BY <2>4, <3>1
    <3>3. g.todo = SelectClaim(desc, f.sources)
      BY <2>5
    <3> HIDE DEF m, desc
    <3>4. m \in ToSet(g.todo)
      BY <1>1, <2>3, <2>4, <3>2, <3>3, ClaimsFound
    <3> QED BY <2>2, <3>4 DEF m
  <2>6. CASE f.kind # "claim"
    <3>1. f.path # <<>> /\ Last(f.path) = f.path[Len(f.path)] /\ Len(f.path) > 0
      <4>1. f.kind = "authorize"
        BY <2>6, FrameFields
      <4>2. f.path # <<>>
        BY <4>1 DEF FrameOK, IsPath
      <4> QED BY <1>1, <4>2 DEF Last
    <3>2. c[l - 1] = Last(f.path) /\ l > 1
      <4>1. Len(f.path) \in DOMAIN f.path /\ l - 1 = Len(f.path) /\ l > 1
        BY <1>1, <3>1
      <4> QED BY <1>2, <3>1, <4>1 DEF Continues
    <3>3. GrantedBy(ucan, desc, Last(f.path).value, m)
      BY <2>4, <3>2 DEF Proves
    <3>4. g.todo = SelectProof(desc, Last(f.path).value, f.sources)
      BY <2>6
    <3> HIDE DEF m, desc
    <3>5. m \in ToSet(g.todo)
      BY <1>1, <2>3, <2>4, <3>3, <3>4, ProofsFound
    <3> QED BY <2>2, <3>5 DEF m
  <2> QED BY <2>5, <2>6
<1>3. \A W, c : (/\ g.kind = "claim" => W \subseteq ToSet(g.batch)
                 /\ Supported(ucan, E, Wanted(g.about), W, c)
                 /\ Continues(c, g.path)) => Promising(g, W, c)
  BY <1>2 DEF Promising
<1> QED BY <1>3 DEF Hopeful

-----------------------------------------------------------------------------
(* Calling and returning.                                                  *)

\* A new session has everything before it.
LEMMA HopefulClaim ==
    ASSUME NEW E, NEW g, g.kind = "claim", g.phase \in {"resolve", "approve"}, g.path = <<>>,
           g.phase = "resolve" => g.next = 1
    PROVE  Hopeful(E, g)
<1>1. ASSUME NEW W, NEW c, W \subseteq ToSet(g.batch), Supported(ucan, E, Wanted(g.about), W, c)
      PROVE  Promising(g, W, c)
  <2>1. Len(g.path) + 1 = 1 /\ 1 \in DOMAIN c
    BY <1>1, SupportedParts
  <2>2. Company(ucan, W, c, 1) \subseteq ToSet(g.batch)
    BY <1>1 DEF Company
  <2> QED BY <2>1, <2>2 DEF Promising
<1> QED BY <1>1 DEF Hopeful

\* A longer path.
LEMMA ContinuesFurther ==
    ASSUME NEW c \in Seq(Match), NEW path \in Seq(Match), NEW m \in Match
    PROVE  Continues(c, Append(path, m)) <=>
              /\ Continues(c, path)
              /\ Len(path) + 1 \in DOMAIN c
              /\ c[Len(path) + 1] = m
<1> DEFINE longer == Append(path, m)
           n == Len(path)
<1>1. /\ n \in Nat /\ Len(c) \in Nat /\ DOMAIN c = 1..Len(c) /\ DOMAIN path = 1..n
      /\ Len(longer) = n + 1 /\ DOMAIN longer = 1..(n + 1) /\ longer[n + 1] = m
      /\ \A i \in 1..n : longer[i] = path[i]
  OBVIOUS
<1> HIDE DEF longer, n
<1>2. 1..(n + 1) = 1..n \cup {n + 1} /\ (n + 1 \in 1..Len(c) <=> n + 1 <= Len(c))
  BY <1>1
<1>3. Continues(c, longer) <=> Continues(c, path) /\ n + 1 <= Len(c) /\ c[n + 1] = m
  <2>1. n + 1 <= Len(c) => n <= Len(c)
    BY <1>1
  <2>2. (\A i \in 1..(n + 1) : c[i] = longer[i]) <=> (\A i \in 1..n : c[i] = path[i]) /\ c[n + 1] = m
    BY <1>1, <1>2
  <2>3. Len(path) = n
    BY DEF n
  <2> QED BY <1>1, <2>1, <2>2, <2>3 DEF Continues
<1> QED BY <1>1, <1>2, <1>3 DEF longer, n

\* An authorize call has all that travels with the delegation whose match it
\* proves; and a chain that continues beyond a match that is not a root does so
\* with one of those.
LEMMA HopefulCall ==
    ASSUME TypeOK, NEW E, NEW path \in Seq(Match), NEW m \in Match,
           ~CanIssue(m.value, ucan[m.src].iss),
           NEW g, g.kind = "authorize", g.phase = "resolve", g.next = 1,
           g.path = Append(path, m),
           g.batch = Keep(ucan[m.src].prf, ucan[m.src].embedded)
    PROVE  Hopeful(E, g)
<1> DEFINE l == Len(path) + 2
<1>1. Len(path) \in Nat /\ l \in Nat /\ l > 1 /\ Len(g.path) + 1 = l /\ l - 1 = Len(path) + 1
  OBVIOUS
<1>2. ASSUME NEW W, NEW c, Supported(ucan, E, Wanted(g.about), W, c), Continues(c, g.path)
      PROVE  l \in DOMAIN c /\ Company(ucan, W, c, l) \subseteq ToSet(g.batch)
  <2>1. c \in Seq(Match) /\ Len(c) \in Nat /\ DOMAIN c = 1..Len(c)
    BY <1>2, SupportedParts
  <2>2. l - 1 \in DOMAIN c /\ c[l - 1] = m
    BY <1>1, <1>2, <2>1, ContinuesFurther
  <2>3. l - 1 # Len(c)
    <3>1. CanIssue(c[Len(c)].value, ucan[c[Len(c)].src].iss)
      BY <1>2, SupportedParts
    <3> HIDE DEF l
    <3> QED BY <2>2, <3>1
  <2>4. l \in DOMAIN c
    <3>1. l \in Nat /\ l - 1 \in 1..Len(c) /\ l - 1 # Len(c)
      BY <1>1, <2>1, <2>2, <2>3
    <3> HIDE DEF l
    <3>2. l \in 1..Len(c)
      BY <2>1, <3>1
    <3> QED BY <2>1, <3>2
  <2>5. ucan[m.src].prf \in Seq(Delegations)
    BY DEF TypeOK, UCAN, Match
  <2>6. ToSet(g.batch) = ToSet(ucan[m.src].prf) \cap ucan[m.src].embedded
    BY <2>5, KeepMissesNothing
  <2> HIDE DEF l
  <2>7. Company(ucan, W, c, l) \subseteq ToSet(ucan[c[l - 1].src].prf) \cap ucan[c[l - 1].src].embedded
    BY <1>1, CompanyOfProof
  <2> QED BY <2>2, <2>4, <2>6, <2>7
<1>3. ASSUME NEW W, NEW c, Supported(ucan, E, Wanted(g.about), W, c), Continues(c, g.path)
      PROVE  Promising(g, W, c)
  <2> HIDE DEF l
  <2> QED BY <1>1, <1>2, <1>3 DEF Promising
<1> QED BY <1>3 DEF Hopeful

\* A match that could not be proved was not the next link of a supported chain.
LEMMA HopefulRetrying ==
    ASSUME NEW E, NEW f \in Frame, Hopeful(E, f), f.phase = "search", f.todo # <<>>,
           NEW g, Hopeful(E, g), g.kind = "authorize", g.phase = "search", g.todo = <<>>,
           g.about = f.about, g.path = Append(f.path, Head(f.todo))
    PROVE  Hopeful(E, MatchFailed(f))
<1> DEFINE r == MatchFailed(f)
           l == Len(f.path) + 1
<1>1. /\ r.phase = "search" /\ r.kind = f.kind /\ r.about = f.about /\ r.path = f.path
      /\ r.batch = f.batch /\ r.todo = Tail(f.todo)
  BY DEF MatchFailed, Frame
<1>2. f.path \in Seq(Match) /\ f.todo \in Seq(Match) /\ Head(f.todo) \in Match /\ Len(f.path) \in Nat
  BY FrameFields
<1> HIDE DEF r
<1>3. ASSUME NEW W, NEW c, r.kind = "claim" => W \subseteq ToSet(r.batch),
             Supported(ucan, E, Wanted(r.about), W, c), Continues(c, r.path)
      PROVE  Promising(r, W, c)
  <2>1. Promising(f, W, c)
    BY <1>1, <1>3, HopefulFor
  <2>2. l \in DOMAIN c /\ c[l] \in ToSet(f.todo)
    BY <2>1 DEF Promising
  <2>3. c[l] # Head(f.todo)
    <3> SUFFICES ASSUME c[l] = Head(f.todo) PROVE FALSE
      OBVIOUS
    <3>1. c \in Seq(Match)
      BY <1>3, SupportedParts
    <3>2. Continues(c, g.path)
      BY <1>1, <1>2, <1>3, <2>2, <3>1, ContinuesFurther
    <3>3. Promising(g, W, c)
      BY <1>1, <1>3, <3>2 DEF Hopeful
    <3>4. ToSet(g.todo) = {}
      BY DEF ToSet
    <3> QED BY <3>3, <3>4 DEF Promising
  <2>4. ToSet(f.todo) \subseteq {Head(f.todo)} \cup ToSet(Tail(f.todo))
    <3> DEFINE s == f.todo
    <3> SUFFICES ASSUME NEW i \in DOMAIN s
                 PROVE  s[i] \in {Head(s)} \cup ToSet(Tail(s))
      BY DEF ToSet
    <3>1. s \in Seq(Match) /\ s # <<>>
      BY <1>2
    <3> HIDE DEF s
    <3>2. CASE i = 1
      BY <3>1, <3>2
    <3>3. CASE i # 1
      <4>1. i - 1 \in DOMAIN Tail(s) /\ Tail(s)[i - 1] = s[i]
        BY <3>1, <3>3
      <4> QED BY <4>1 DEF ToSet
    <3> QED BY <3>2, <3>3
  <2> QED BY <1>1, <2>2, <2>3, <2>4 DEF Promising
<1> QED BY <1>1, <1>3 DEF Hopeful, r

\* A claim with no match left was given no supported chain.
LEMMA NothingToFind ==
    ASSUME NEW E, NEW f, Hopeful(E, f), f.kind = "claim", f.phase = "search", f.todo = <<>>,
           f.path = <<>>, NEW W, W \subseteq ToSet(f.batch)
    PROVE  \A c : ~Supported(ucan, E, Wanted(f.about), W, c)
<1> SUFFICES ASSUME NEW c, Supported(ucan, E, Wanted(f.about), W, c) PROVE FALSE
  OBVIOUS
<1>1. Continues(c, f.path)
  <2>1. Len(f.path) = 0 /\ DOMAIN f.path = {} /\ Len(c) \in Nat
    BY SupportedParts
  <2> QED BY <2>1 DEF Continues
<1>2. Promising(f, W, c)
  BY <1>1 DEF Hopeful
<1>3. ToSet(f.todo) = {}
  BY DEF ToSet
<1> QED BY <1>2, <1>3 DEF Promising

-----------------------------------------------------------------------------
(* Steps, by what they do to the stack.                                    *)

\* A step takes no supported chain from the frames.
KeepsHope ==
    \A E : GoodEvidence(E) /\ HopefulStack(E, stack) => HopefulStack(E, stack')

\* Frames are removed from above the k-th, which becomes f.
LEMMA CutKeeps ==
    ASSUME VInv, GivenAll(stack), stack # <<>>, NEW k \in 1..Depth, NEW f,
           f.kind = stack[k].kind,
           f.kind = "claim" => ToSet(stack[k].batch) \subseteq ToSet(f.batch),
           stack' = [SubSeq(stack, 1, k) EXCEPT ![k] = f]
    PROVE  /\ GivenAll(stack')
           /\ (\A E : GoodEvidence(E) /\ HopefulStack(E, stack) => Hopeful(E, f)) => KeepsHope
<1>1. /\ stack \in Seq(Frame) /\ StackOK(stack) /\ Depth = Len(stack) /\ Depth \in Nat
      /\ Depth > 0
  BY TopFrame DEF VInv
<1>2. /\ Len(stack') = k /\ stack'[k] = f
      /\ \A j \in 1..(k - 1) : stack'[j] = stack[j]
  <2> DEFINE A == Frame \cup {f}
  <2>1. stack \in Seq(A) /\ f \in A /\ k \in 1..Len(stack)
    BY <1>1
  <2> HIDE DEF A
  <2> QED BY <2>1, CutAt
<1>3. stack[1].kind = "claim"
  BY <1>1 DEF StackOK
<1>4. ToSet(Presented) \subseteq ToSet(stack'[1].batch)
  <2>1. ToSet(Presented) \subseteq ToSet(stack[1].batch)
    BY DEF GivenAll
  <2>2. CASE k = 1
    BY <1>2, <1>3, <2>1, <2>2
  <2>3. CASE k # 1
    <3>1. 1 \in 1..(k - 1)
      BY <1>1, <2>3
    <3> QED BY <1>2, <2>1, <3>1
  <2> QED BY <2>2, <2>3
<1>5. ASSUME NEW i \in 1..(k - 1), stack'[i + 1].kind = "claim"
      PROVE  ToSet(stack'[i].batch) \cap AttestationsFor(stack'[i].batch[stack'[i].next])
                \subseteq ToSet(stack'[i + 1].batch)
  <2>1. i \in 1..(Len(stack) - 1) /\ stack'[i] = stack[i]
    BY <1>1, <1>2
  <2>2. /\ stack[i + 1].kind = stack'[i + 1].kind
        /\ ToSet(stack[i + 1].batch) \subseteq ToSet(stack'[i + 1].batch)
    <3>1. CASE i + 1 = k
      BY <1>2, <1>5, <3>1
    <3>2. CASE i + 1 # k
      <4>1. i + 1 \in 1..(k - 1)
        BY <3>2
      <4> QED BY <1>2, <4>1
    <3> QED BY <3>1, <3>2
  <2>3. ToSet(stack[i].batch) \cap AttestationsFor(stack[i].batch[stack[i].next])
           \subseteq ToSet(stack[i + 1].batch)
    BY <1>5, <2>1, <2>2 DEF GivenAll
  <2> QED BY <2>1, <2>2, <2>3
<1>6. GivenAll(stack')
  BY <1>2, <1>4, <1>5 DEF GivenAll
<1>7. ASSUME \A E : GoodEvidence(E) /\ HopefulStack(E, stack) => Hopeful(E, f),
             NEW E, GoodEvidence(E), HopefulStack(E, stack)
      PROVE  HopefulStack(E, stack')
  <2> SUFFICES ASSUME NEW i \in 1..Len(stack') PROVE Hopeful(E, stack'[i])
    BY DEF HopefulStack
  <2>1. CASE i = k
    BY <1>2, <1>7, <2>1
  <2>2. CASE i # k
    <3>1. i \in 1..(k - 1) /\ i \in 1..Len(stack)
      BY <1>1, <1>2, <2>2
    <3> QED BY <1>2, <1>7, <3>1 DEF HopefulStack
  <2> QED BY <2>1, <2>2
<1> QED BY <1>6, <1>7 DEF KeepsHope

\* The top frame goes on as f.
LEMMA UpdateKeeps ==
    ASSUME VInv, GivenAll(stack), stack # <<>>, NEW f, f.kind = Top.kind,
           f.kind = "claim" => ToSet(Top.batch) \subseteq ToSet(f.batch),
           Update(f)
    PROVE  /\ GivenAll(stack')
           /\ (\A E : GoodEvidence(E) /\ Hopeful(E, Top) => Hopeful(E, f)) => KeepsHope
<1>1. /\ stack \in Seq(Frame) /\ Depth = Len(stack) /\ Depth \in Nat /\ Depth > 0
      /\ Top = stack[Depth]
  BY TopFrame DEF VInv
<1>2. SubSeq(stack, 1, Depth) = stack
  BY <1>1
<1>3. stack' = [stack EXCEPT ![Depth] = f] /\ Depth \in 1..Depth
  BY <1>1 DEF Update
<1>4. \A E : HopefulStack(E, stack) => Hopeful(E, Top)
  BY <1>1 DEF HopefulStack
<1>5. /\ GivenAll(stack')
      /\ (\A E : GoodEvidence(E) /\ HopefulStack(E, stack) => Hopeful(E, f)) => KeepsHope
  BY <1>1, <1>2, <1>3, CutKeeps
<1> QED BY <1>4, <1>5

\* The top frame calls.
LEMMA PushKeeps ==
    ASSUME VInv, GivenAll(stack), stack # <<>>, NEW g, stack' = Append(stack, g),
           g.kind = "claim" =>
              ToSet(Top.batch) \cap AttestationsFor(Current) \subseteq ToSet(g.batch)
    PROVE  /\ GivenAll(stack')
           /\ (\A E : GoodEvidence(E) => Hopeful(E, g)) => KeepsHope
<1> DEFINE n == Len(stack)
<1>1. stack \in Seq(Frame) /\ Depth = n /\ n \in Nat /\ n > 0 /\ Top = stack[n]
  BY TopFrame DEF VInv
<1>2. /\ Len(stack') = n + 1 /\ stack'[n + 1] = g
      /\ \A i \in 1..n : stack'[i] = stack[i]
  BY <1>1
<1> HIDE DEF n
<1>3. ToSet(Presented) \subseteq ToSet(stack'[1].batch)
  <2>1. 1 \in 1..n
    BY <1>1
  <2> QED BY <1>2, <2>1 DEF GivenAll
<1>4. ASSUME NEW i \in 1..n, stack'[i + 1].kind = "claim"
      PROVE  ToSet(stack'[i].batch) \cap AttestationsFor(stack'[i].batch[stack'[i].next])
                \subseteq ToSet(stack'[i + 1].batch)
  <2>1. CASE i = n
    <3>1. ToSet(stack[n].batch) \cap AttestationsFor(stack[n].batch[stack[n].next]) \subseteq ToSet(g.batch)
      BY <1>1, <1>2, <1>4, <2>1 DEF Current
    <3> QED BY <1>1, <1>2, <2>1, <3>1
  <2>2. CASE i # n
    <3>1. i \in 1..(n - 1) /\ i + 1 \in 1..n
      BY <1>1, <2>2
    <3> QED BY <1>2, <1>4, <3>1 DEF GivenAll, n
  <2> QED BY <2>1, <2>2
<1>5. 1..(Len(stack') - 1) = 1..n
  BY <1>1, <1>2
<1>6. GivenAll(stack')
  BY <1>3, <1>4, <1>5 DEF GivenAll
<1>7. ASSUME NEW E, Hopeful(E, g), HopefulStack(E, stack)
      PROVE  HopefulStack(E, stack')
  <2> SUFFICES ASSUME NEW i \in 1..Len(stack') PROVE Hopeful(E, stack'[i])
    BY DEF HopefulStack
  <2>1. CASE i = n + 1
    BY <1>2, <1>7, <2>1
  <2>2. CASE i # n + 1
    <3>1. i \in 1..n
      BY <1>1, <1>2, <2>2
    <3> QED BY <1>2, <1>7, <3>1 DEF HopefulStack, n
  <2> QED BY <2>1, <2>2
<1> QED BY <1>6, <1>7 DEF KeepsHope

-----------------------------------------------------------------------------
(* Step by step.                                                           *)

\* A link is resolved, or it is not: no proof that came along is lost.
LEMMA ResolveHope ==
    ASSUME VInv, GivenAll(stack), NEW d \in Delegations, ProofResolved(d) \/ ProofUnavailable(d)
    PROVE  GivenAll(stack') /\ KeepsHope
<1>1. stack # <<>> /\ Top.phase = "resolve" /\ Top \in Frame /\ FrameOK(Top)
  BY TopFrame DEF ProofResolved, ProofUnavailable, Running, VInv
<1>2. ASSUME NEW f, f.phase = "resolve", f.next = Top.next, f.kind = Top.kind,
             f.about = Top.about, f.path = Top.path, ToSet(Top.batch) \subseteq ToSet(f.batch),
             Update(f)
      PROVE  GivenAll(stack') /\ KeepsHope
  <2>1. \A E : Hopeful(E, Top) => Hopeful(E, f)
    BY <1>1, <1>2, HopefulResolving
  <2> QED BY <1>1, <1>2, <2>1, UpdateKeeps
<1>3. CASE ProofResolved(d)
  <2> DEFINE f == [Top EXCEPT !.links = @ \ {d}, !.batch = Append(@, d)]
  <2>1. /\ f.phase = "resolve" /\ f.next = Top.next /\ f.kind = Top.kind
        /\ f.about = Top.about /\ f.path = Top.path /\ f.batch = Append(Top.batch, d)
    BY <1>1 DEF Frame
  <2>2. ToSet(Top.batch) \subseteq ToSet(Append(Top.batch, d))
    <3> DEFINE s == Top.batch
    <3>1. s \in Seq(Delegations)
      BY <1>1, FrameFields
    <3> HIDE DEF s
    <3>2. ToSet(s) \subseteq ToSet(Append(s, d))
      BY <3>1 DEF ToSet
    <3> QED BY <3>2 DEF s
  <2>3. Update(f)
    BY <1>3 DEF ProofResolved
  <2> HIDE DEF f
  <2> QED BY <1>2, <2>1, <2>2, <2>3
<1>4. CASE ProofUnavailable(d)
  <2> DEFINE f == [Top EXCEPT !.links = @ \ {d}]
  <2>1. /\ f.phase = "resolve" /\ f.next = Top.next /\ f.kind = Top.kind
        /\ f.about = Top.about /\ f.path = Top.path /\ f.batch = Top.batch
    BY <1>1 DEF Frame
  <2>2. Update(f)
    BY <1>4 DEF ProofUnavailable
  <2> HIDE DEF f
  <2> QED BY <1>2, <2>1, <2>2
<1> QED BY <1>3, <1>4

\* Aligning drops no proof that delegates to the issuer of what it proves.
LEMMA AlignHope ==
    ASSUME VInv, GivenAll(stack), Align
    PROVE  GivenAll(stack') /\ KeepsHope
<1> DEFINE kept == Aligned(Top)
           f == [Top EXCEPT !.batch = kept, !.phase = "validate"]
<1>1. stack # <<>> /\ Top.phase = "resolve" /\ Top \in Frame /\ FrameOK(Top)
  BY TopFrame DEF Align, Running, VInv
<1> HIDE DEF kept
<1>2. /\ f.phase = "validate" /\ f.next = Top.next /\ f.kind = Top.kind
      /\ f.about = Top.about /\ f.path = Top.path /\ f.batch = kept
  BY <1>1 DEF Frame
<1>3. Update(f)
  BY DEF Align, kept
<1>4. f.kind = "claim" => ToSet(Top.batch) \subseteq ToSet(f.batch)
  BY <1>2 DEF Aligned, kept
<1> HIDE DEF f
<1>5. \A E : Hopeful(E, Top) => Hopeful(E, f)
  BY <1>1, <1>2, HopefulAligned DEF kept
<1> QED BY <1>1, <1>2, <1>3, <1>4, <1>5, UpdateKeeps

\* The delegation under validation is given up: there was no evidence for it.
LEMMA RejectHope ==
    ASSUME VInv, GivenAll(stack), stack # <<>>, Update(Reject(Top)),
           \/ Top.phase = "keys"
           \/ /\ Top.phase = "validate"
              /\ \A E, W : GoodEvidence(E) => <<Current, W>> \notin E
    PROVE  GivenAll(stack') /\ KeepsHope
<1> DEFINE f == Reject(Top)
<1>1. Top \in Frame
  BY TopFrame DEF VInv
<1>2. f.kind = Top.kind /\ f.batch = Top.batch
  BY <1>1, RejectNext
<1>3. \A E : GoodEvidence(E) /\ Hopeful(E, Top) => Hopeful(E, f)
  BY <1>1, HopefulRejecting, HopefulAfterKeys DEF Current
<1>4. Update(f)
  OBVIOUS
<1> HIDE DEF f
<1> QED BY <1>2, <1>3, <1>4, UpdateKeeps

\* It passes.
LEMMA AcceptHope ==
    ASSUME VInv, GivenAll(stack), stack # <<>>, Update(Accept(Top)),
           Top.phase \in {"validate", "keys"}, Top.next <= Len(Top.batch)
    PROVE  GivenAll(stack') /\ KeepsHope
<1> DEFINE f == Accept(Top)
<1>1. Top \in Frame /\ TypeOK
  BY TopFrame DEF VInv, IInv
<1>2. f.kind = Top.kind /\ f.batch = Top.batch
  BY <1>1, AcceptNext
<1>3. \A E : Hopeful(E, Top) => Hopeful(E, f)
  BY <1>1, HopefulAccepting
<1>4. Update(f)
  OBVIOUS
<1> HIDE DEF f
<1> QED BY <1>2, <1>3, <1>4, UpdateKeeps

\* What is outside its window has no evidence, nor has what is not signed by
\* its issuer when the signature decides.
LEMMA ValidateHope ==
    ASSUME VInv, GivenAll(stack), OutsideWindow \/ CheckSignature
    PROVE  GivenAll(stack') /\ KeepsHope
<1>1. stack # <<>> /\ Top.phase = "validate" /\ Top.next <= Len(Top.batch)
  BY DEF OutsideWindow, CheckSignature, Validating, Running
<1>2. CASE OutsideWindow
  <2>1. now \in 0..now
    BY History DEF VInv
  <2>2. ~InWindow(ucan[Current]) /\ Update(Reject(Top))
    BY <1>2 DEF OutsideWindow
  <2>3. ~Lasting(Current)
    <3>1. ASSUME Lasting(Current)
          PROVE  ucan[Current].nbf <= now /\ now < ucan[Current].exp
      BY <2>1, <3>1 DEF Lasting
    <3>2. ucan[Current].nbf \in Nat /\ ucan[Current].exp \in Nat /\ now \in Nat
      <4>1. Current \in Delegations
        BY <1>1, TopFrame, FrameFields DEF Current, VInv
      <4>2. ucan[Current] \in UCAN
        BY <4>1 DEF VInv, IInv, TypeOK
      <4> QED BY <2>1, <4>2, ChainAssumption DEF UCAN, Never
    <3> QED BY <2>2, <3>1, <3>2 DEF InWindow, IsExpired, IsTooEarly
  <2>4. \A E, W : GoodEvidence(E) => <<Current, W>> \notin E
    BY <2>3 DEF GoodEvidence
  <2> QED BY <1>1, <2>2, <2>4, RejectHope
<1>3. CASE CheckSignature
  <2> DEFINE u == ucan[Current]
  <2>1. CASE Update(Accept(Top))
    BY <1>1, <2>1, AcceptHope
  <2>2. CASE Update(Reject(Top)) /\ u.key # (IF u.iss \in KeyDIDs THEN u.iss ELSE Authority)
    <3>1. SelfVerifying(u)
      BY <1>3 DEF CheckSignature
    <3>2. ~SignedByIssuer(u)
      BY <2>2, <3>1 DEF SignedByIssuer, SelfVerifying
    <3> HIDE DEF u
    <3>3. \A E, W : GoodEvidence(E) => <<Current, W>> \notin E
      BY <3>1, <3>2 DEF GoodEvidence, u
    <3> QED BY <1>1, <2>2, <3>3, RejectHope
  <2> QED BY <1>3, <2>1, <2>2 DEF CheckSignature, VerifySignature
<1> QED BY <1>2, <1>3

\* The keys of resolveDIDKey decide about what was given up already.
LEMMA KeysHope ==
    ASSUME VInv, GivenAll(stack),
           (\E keys \in KeyAnswers : ResolveDIDKey(keys)) \/ ResolveDIDKeyFails
    PROVE  GivenAll(stack') /\ KeepsHope
<1>1. stack # <<>> /\ Top.phase = "keys"
  BY DEF ResolveDIDKey, ResolveDIDKeyFails, Running
<1>2. Top.next <= Len(Top.batch)
  BY <1>1, TopFrame DEF FrameOK, VInv
<1>3. CASE Update(Reject(Top))
  BY <1>1, <1>3, RejectHope
<1>4. CASE Update(Accept(Top))
  BY <1>1, <1>2, <1>4, AcceptHope
<1> QED BY <1>3, <1>4 DEF ResolveDIDKey, ResolveDIDKeyFails

\* verifySession is given every attestation beside its subject.
LEMMA OpenSessionHope ==
    ASSUME VInv, GivenAll(stack), OpenSession
    PROVE  GivenAll(stack') /\ KeepsHope
<1> DEFINE beside == AttestationsFor(Current)
           batch == Keep(Top.batch, beside)
           g == Call("claim", <<Current>>, <<>>, batch, {})
<1>1. stack # <<>> /\ Top \in Frame
  BY TopFrame DEF OpenSession, Validating, Running, VInv
<1>2. Top.batch \in Seq(Delegations)
  BY <1>1, FrameFields
<1>3. ToSet(batch) = ToSet(Top.batch) \cap beside
  <2> HIDE DEF beside
  <2> QED BY <1>2, KeepMissesNothing
<1> HIDE DEF batch
<1>4. g.kind = "claim" /\ g.path = <<>> /\ g.phase = "resolve" /\ g.batch = batch /\ g.next = 1
  BY DEF Call
<1>5. stack' = Append(stack, g)
  BY DEF OpenSession, batch
<1> HIDE DEF g
<1>6. \A E : Hopeful(E, g)
  BY <1>4, HopefulClaim
<1> QED BY <1>1, <1>3, <1>4, <1>5, <1>6, PushKeeps

\* The next link is among what is selected.
LEMMA SelectHope ==
    ASSUME VInv, GivenAll(stack), Select
    PROVE  GivenAll(stack') /\ KeepsHope
<1> DEFINE todo == Selection
           f == [Top EXCEPT !.todo = todo, !.phase = "search"]
<1>1. /\ stack # <<>> /\ Top.phase = "validate" /\ Top \in Frame /\ FrameOK(Top)
      /\ Top.next > Len(Top.batch)
  BY TopFrame DEF Select, Running, VInv
<1> HIDE DEF todo
<1>2. /\ f.phase = "search" /\ f.kind = Top.kind /\ f.about = Top.about
      /\ f.path = Top.path /\ f.batch = Top.batch /\ f.todo = todo
  BY <1>1 DEF Frame
<1>3. Update(f)
  BY DEF Select, todo
<1> HIDE DEF f
<1>4. todo = IF Top.kind = "claim" THEN SelectClaim(Wanted(Top.about), Top.sources)
             ELSE SelectProof(Wanted(Top.about), Last(Top.path).value, Top.sources)
  BY DEF todo, Selection
<1>5. \A E : Hopeful(E, Top) => Hopeful(E, f)
  BY <1>1, <1>2, <1>4, HopefulSelecting
<1> QED BY <1>1, <1>2, <1>3, <1>5, UpdateKeeps

\* A root was found: the claim it belongs to has all it had.
LEMMA FindRootHope ==
    ASSUME VInv, GivenAll(stack), FindRoot
    PROVE  GivenAll(stack') /\ KeepsHope
<1> DEFINE c == Depth - Len(Top.path)
           chain == Append(Top.path, Explored(Depth))
           f == [stack[c] EXCEPT !.phase = "approve", !.chain = chain]
<1>1. /\ stack # <<>> /\ stack \in Seq(Frame) /\ StackOK(stack) /\ Depth = Len(stack)
      /\ c \in 1..Depth /\ stack[c].kind = "claim"
  BY TopFrame DEF FindRoot, Searching, Running, VInv, WorksFor
<1>2. stack' = [SubSeq(stack, 1, c) EXCEPT ![c] = f]
  <2>1. SubSeq(stack, 1, c)[c] = stack[c]
    BY <1>1
  <2>2. stack' = [SubSeq(stack, 1, c) EXCEPT
                     ![c] = [SubSeq(stack, 1, c)[c] EXCEPT !.phase = "approve", !.chain = chain]]
    BY DEF FindRoot
  <2> QED BY <2>1, <2>2
<1> HIDE DEF c, chain
<1>3. stack[c] \in Frame /\ FrameOK(stack[c])
  BY <1>1 DEF StackOK
<1>4. /\ f.kind = "claim" /\ f.phase = "approve" /\ f.path = <<>>
      /\ f.batch = stack[c].batch
  BY <1>1, <1>3 DEF Frame, FrameOK
<1> HIDE DEF f
<1>5. \A E : Hopeful(E, f)
  BY <1>4, HopefulClaim
<1> QED BY <1>1, <1>2, <1>4, <1>5, CutKeeps

\* authorize has all the proofs that travel with what it proves.
LEMMA ExploreProofsHope ==
    ASSUME VInv, GivenAll(stack), ExploreProofs
    PROVE  GivenAll(stack') /\ KeepsHope
<1> DEFINE m == Explored(Depth)
           u == ucan[m.src]
           batch == Keep(u.prf, u.embedded)
           links == ToSet(u.prf) \ u.embedded
           g == Call("authorize", Top.about, Append(Top.path, m), batch, links)
<1>1. /\ stack # <<>> /\ Top \in Frame /\ Top.todo # <<>> /\ TypeOK
      /\ m = Head(Top.todo)
  BY TopFrame DEF ExploreProofs, Searching, Running, IInv, Explored, Top, VInv
<1>2. Top.path \in Seq(Match) /\ m \in Match
  BY <1>1, FrameFields
<1>3. ~CanIssue(m.value, ucan[m.src].iss) /\ stack' = Append(stack, g)
  BY DEF ExploreProofs, ExploredIsRoot
<1> HIDE DEF m, links, batch
<1>4. /\ g.kind = "authorize" /\ g.phase = "resolve" /\ g.next = 1
      /\ g.path = Append(Top.path, m) /\ g.batch = Keep(ucan[m.src].prf, ucan[m.src].embedded)
  BY DEF Call, batch
<1> HIDE DEF g
<1>5. \A E : Hopeful(E, g)
  BY <1>1, <1>2, <1>3, <1>4, HopefulCall
<1> QED BY <1>1, <1>3, <1>4, <1>5, PushKeeps

\* The match that could not be proved is the only one its caller loses.
LEMMA AuthorizeFailsHope ==
    ASSUME VInv, GivenAll(stack), AuthorizeFails
    PROVE  GivenAll(stack') /\ KeepsHope
<1> DEFINE caller == stack[Depth - 1]
           f == MatchFailed(caller)
<1>1. /\ stack # <<>> /\ Top.kind = "authorize" /\ Top.phase = "search" /\ Top.todo = <<>>
  BY DEF AuthorizeFails, Running
<1>2. /\ stack \in Seq(Frame) /\ Depth = Len(stack) /\ Depth \in Nat /\ Depth > 0
      /\ Top = stack[Depth] /\ stack[1].kind = "claim"
  BY <1>1, TopFrame DEF StackOK, VInv
<1>3. Depth > 1
  BY <1>1, <1>2
<1>4. /\ caller \in Frame /\ caller.phase = "search" /\ caller.todo # <<>>
      /\ Top.about = caller.about /\ Top.path = Append(caller.path, Head(caller.todo))
  <2>1. caller \in Frame /\ MayCall(caller, Top)
    BY <1>1, <1>3, CallerWaits DEF VInv
  <2> QED BY <1>1, <2>1 DEF MayCall
<1>5. Depth - 1 \in 1..Depth
  BY <1>2, <1>3
<1>6. stack' = [SubSeq(stack, 1, Depth - 1) EXCEPT ![Depth - 1] = f]
  BY DEF AuthorizeFails, Return
<1>7. \A E : HopefulStack(E, stack) => Hopeful(E, caller) /\ Hopeful(E, Top)
  <2>1. Depth - 1 \in 1..Len(stack) /\ Depth \in 1..Len(stack)
    BY <1>2, <1>3
  <2> QED BY <1>2, <2>1 DEF HopefulStack
<1> HIDE DEF caller
<1>8. \A E : HopefulStack(E, stack) => Hopeful(E, f)
  BY <1>1, <1>4, <1>7, HopefulRetrying
<1>9. f.kind = caller.kind /\ f.batch = caller.batch
  BY <1>4 DEF MatchFailed, Frame
<1> HIDE DEF f
<1> QED BY <1>1, <1>5, <1>6, <1>8, <1>9, CutKeeps DEF caller

\* A session that found nothing: there was no evidence for its subject.
LEMMA SubjectRefuted ==
    ASSUME VInv, GivenAll(stack), SessionFails, NEW E, GoodEvidence(E), HopefulStack(E, stack),
           NEW W, W \subseteq ToSet(stack[Depth - 1].batch)
    PROVE  <<stack[Depth - 1].batch[stack[Depth - 1].next], W>> \notin E
<1> DEFINE caller == stack[Depth - 1]
           d == caller.batch[caller.next]
<1>1. /\ stack # <<>> /\ Top.kind = "claim" /\ Depth > 1 /\ Top.phase = "search"
      /\ Top.todo = <<>>
  BY DEF SessionFails, Running
<1>2. /\ stack \in Seq(Frame) /\ Depth = Len(stack) /\ Depth \in Nat
      /\ Top = stack[Depth] /\ FrameOK(Top) /\ MayCall(caller, Top)
      /\ Sure(facts, now, Top)
  BY <1>1, TopFrame, CallerWaits, TopSure DEF VInv
<1>3. Top.about = <<d>> /\ Top.about # <<>> /\ Top.about[1] = d
  BY <1>1, <1>2 DEF MayCall
<1>4. ~SelfVerifying(ucan[d])
  BY <1>2, <1>3 DEF Sure, NeedsSession
<1>5. ToSet(caller.batch) \cap AttestationsFor(d) \subseteq ToSet(Top.batch)
  <2>1. Depth - 1 \in 1..(Len(stack) - 1) /\ (Depth - 1) + 1 = Depth
    BY <1>1, <1>2
  <2> QED BY <1>1, <1>2, <2>1 DEF GivenAll
<1> HIDE DEF caller, d
<1>6. Wanted(Top.about) = Attestation(d)
  BY <1>3 DEF Wanted
<1>7. Hopeful(E, Top)
  <2>1. Depth \in 1..Len(stack)
    BY <1>1, <1>2
  <2> QED BY <1>2, <2>1 DEF HopefulStack
<1>8. Top.path = <<>>
  BY <1>1, <1>2 DEF FrameOK
<1>9. ASSUME <<d, W>> \in E
      PROVE  FALSE
  <2>1. PICK c : Supported(ucan, E, Attestation(d), W \cap AttestationsFor(d), c)
    BY <1>4, <1>9 DEF GoodEvidence, SignedByIssuer
  <2>2. W \cap AttestationsFor(d) \subseteq ToSet(Top.batch)
    BY <1>5 DEF caller
  <2> QED BY <1>1, <1>6, <1>7, <1>8, <2>1, <2>2, NothingToFind
<1> QED BY <1>9 DEF caller, d

\* ... so giving the subject up, at once or after its keys were tried, loses
\* nothing.
LEMMA SessionFailsHope ==
    ASSUME VInv, GivenAll(stack), SessionFails
    PROVE  GivenAll(stack') /\ KeepsHope
<1> DEFINE caller == stack[Depth - 1]
           g == [caller EXCEPT !.phase = "keys"]
           r == Reject(caller)
<1>1. stack # <<>> /\ Top.kind = "claim" /\ Depth > 1
  BY DEF SessionFails, Running
<1>2. /\ caller \in Frame /\ MayCall(caller, Top) /\ Depth - 1 \in 1..Depth /\ Depth = Len(stack)
  BY <1>1, CallerWaits, TopSure, TopFrame DEF VInv
<1>3. caller.phase = "validate"
  BY <1>1, <1>2 DEF MayCall
<1>4. \E f \in {g, r} : stack' = [SubSeq(stack, 1, Depth - 1) EXCEPT ![Depth - 1] = f]
  BY DEF SessionFails, Return
<1>5. \A E, W : GoodEvidence(E) /\ HopefulStack(E, stack) /\ W \subseteq ToSet(caller.batch)
                  => <<caller.batch[caller.next], W>> \notin E
  BY SubjectRefuted
<1>6. \A E : HopefulStack(E, stack) => Hopeful(E, caller)
  BY <1>2 DEF HopefulStack
<1> HIDE DEF caller
<1>7. \A E : GoodEvidence(E) /\ HopefulStack(E, stack) => Hopeful(E, g) /\ Hopeful(E, r)
  BY <1>2, <1>3, <1>5, <1>6, HopefulRejecting
<1>8. /\ g.kind = caller.kind /\ g.batch = caller.batch
      /\ r.kind = caller.kind /\ r.batch = caller.batch
  BY <1>2, RejectNext DEF Frame
<1> HIDE DEF g, r
<1> QED BY <1>1, <1>2, <1>4, <1>7, <1>8, CutKeeps DEF caller

\* A session that is approved lets its subject count.
LEMMA ApproveSessionHope ==
    ASSUME VInv, GivenAll(stack), ApproveSession
    PROVE  GivenAll(stack') /\ KeepsHope
<1> DEFINE caller == stack[Depth - 1]
           f == Accept(caller)
<1>1. stack # <<>> /\ Top.kind = "claim" /\ Depth > 1
  BY DEF ApproveSession, Running
<1>2. /\ caller \in Frame /\ MayCall(caller, Top) /\ Depth - 1 \in 1..Depth /\ Depth = Len(stack)
      /\ TypeOK
  BY <1>1, CallerWaits, TopSure, TopFrame DEF VInv, IInv
<1>3. caller.phase = "validate" /\ caller.next <= Len(caller.batch)
  BY <1>1, <1>2 DEF MayCall
<1>4. stack' = [SubSeq(stack, 1, Depth - 1) EXCEPT ![Depth - 1] = f]
  BY DEF ApproveSession, Return
<1>5. \A E : HopefulStack(E, stack) => Hopeful(E, caller)
  BY <1>2 DEF HopefulStack
<1> HIDE DEF caller
<1>6. \A E : HopefulStack(E, stack) => Hopeful(E, f)
  BY <1>2, <1>3, <1>5, HopefulAccepting
<1>7. f.kind = caller.kind /\ f.batch = caller.batch
  BY <1>2, <1>3, AcceptNext
<1> HIDE DEF f
<1> QED BY <1>1, <1>2, <1>4, <1>6, <1>7, CutKeeps DEF caller

\* The host objects to nothing that is not revoked; what it objects to is lost,
\* with the claim's own proofs still there.
LEMMA DisapproveHope ==
    ASSUME VInv, GivenAll(stack), Disapprove
    PROVE  GivenAll(stack') /\ revoked # {}
<1> DEFINE f == [Top EXCEPT !.phase = "search", !.todo = Tail(@), !.chain = <<>>]
<1>1. stack # <<>> /\ Top \in Frame /\ ~Approves(Top.chain)
  BY TopFrame DEF Disapprove, Running, VInv
<1>2. f.kind = Top.kind /\ f.batch = Top.batch
  BY <1>1 DEF Frame
<1>3. Update(f)
  BY DEF Disapprove
<1> HIDE DEF f
<1> QED BY <1>1, <1>2, <1>3, UpdateKeeps DEF Approves

-----------------------------------------------------------------------------
(* The invariant is inductive.                                             *)

\* The end of the call leaves no frame.
LEMMA FinishHope ==
    ASSUME NEW status, NEW chain, Finish(status, chain)
    PROVE  GivenAll(stack') /\ KeepsHope
<1>1. stack' = <<>> /\ Len(<<>>) = 0
  BY DEF Finish
<1> QED BY <1>1 DEF GivenAll, KeepsHope, HopefulStack

\* No step loses a supported chain while nothing is revoked.
LEMMA StepHope ==
    ASSUME VInv, GivenAll(stack), Step
    PROVE  GivenAll(stack') /\ (revoked = {} => KeepsHope)
<1>1. CASE \/ ParseThrows \/ Deny \/ CallbackThrows \/ ApproveAccess
           \/ \E keys \in KeyAnswers : ResolvedKeyThrows(keys)
  BY <1>1, FinishHope DEF ParseThrows, Deny, CallbackThrows, ApproveAccess, ResolvedKeyThrows
<1> QED BY <1>1, ResolveHope, AlignHope, ValidateHope, KeysHope, OpenSessionHope, SelectHope,
           FindRootHope, ExploreProofsHope, AuthorizeFailsHope, SessionFailsHope,
           ApproveSessionHope, DisapproveHope DEF Step

\* What a step of the call leaves alone.
LEMMA StepLeaves ==
    ASSUME Step
    PROVE  /\ stack # <<>> /\ UNCHANGED <<ucan, now, revoked>>
           /\ Deny \/ verdict' = verdict \/ verdict'.status \in {"ok", "thrown"}
<1>1. CASE \/ \E d \in Delegations : ProofResolved(d) \/ ProofUnavailable(d)
           \/ Align \/ OutsideWindow \/ CheckSignature \/ OpenSession
  BY <1>1 DEF ProofResolved, ProofUnavailable, Align, OutsideWindow, CheckSignature,
              OpenSession, Validating, Running, env
<1>2. CASE ResolveDIDKeyFails \/ \E keys \in KeyAnswers : ResolveDIDKey(keys)
  BY <1>2 DEF ResolveDIDKey, ResolveDIDKeyFails, Running, env
<1>3. CASE Select \/ FindRoot \/ ExploreProofs \/ AuthorizeFails \/ SessionFails
  BY <1>3 DEF Select, FindRoot, ExploreProofs, AuthorizeFails, SessionFails, Searching,
              Running, env
<1>4. CASE ApproveSession \/ Disapprove
  BY <1>4 DEF ApproveSession, Disapprove, Running, env
<1>5. CASE ParseThrows \/ CallbackThrows \/ \E keys \in KeyAnswers : ResolvedKeyThrows(keys)
  BY <1>5 DEF ParseThrows, CallbackThrows, ResolvedKeyThrows, Validating, Running, Finish, env
<1>6. CASE ApproveAccess \/ Deny
  BY <1>6 DEF ApproveAccess, Deny, Running, Finish, env
<1> QED BY <1>1, <1>2, <1>3, <1>4, <1>5, <1>6 DEF Step

\* Access is denied when the first claim has found nothing.
LEMMA DenyHope ==
    ASSUME VInv, GivenAll(stack), Step, verdict'.status = "denied",
           NEW E, GoodEvidence(E), HopefulStack(E, stack), NEW c
    PROVE  ~Supported(ucan, E, Invoked, ToSet(Presented), c)
<1>1. CASE Deny
  <2>1. /\ stack # <<>> /\ Top.kind = "claim" /\ Depth = 1 /\ Top.phase = "search"
        /\ Top.todo = <<>>
    BY <1>1 DEF Deny, Running
  <2>2. /\ Len(stack) = 1 /\ Top = stack[1] /\ FrameOK(Top) /\ Top.about = <<>>
    BY <2>1, TopFrame DEF VInv, StackOK
  <2>3. Hopeful(E, Top)
    BY <2>2 DEF HopefulStack
  <2>4. ToSet(Presented) \subseteq ToSet(Top.batch)
    BY <2>1, <2>2 DEF GivenAll
  <2>5. Top.path = <<>> /\ Wanted(Top.about) = Invoked
    BY <2>1, <2>2 DEF FrameOK, Wanted
  <2> QED BY <2>1, <2>3, <2>4, <2>5, NothingToFind
<1>2. CASE ~Deny
  <2>1. verdict' = verdict \/ verdict'.status \in {"ok", "thrown"}
    BY <1>2, StepLeaves
  <2>2. verdict.status = "pending"
    BY StepLeaves, TopFrame DEF VInv, Pending
  <2> QED BY <2>1, <2>2
<1> QED BY <1>1, <1>2

\* The delegations do not change, so what is said of them carries over.
LEMMA HopeAfter ==
    ASSUME UNCHANGED ucan, NEW E, HopefulStack(E, stack')
    PROVE  HopefulStack(E, stack)'
<1>1. Attestors' = Attestors
  BY DEF Attestors
<1>2. \A about : Wanted(about)' = Wanted(about)
  BY <1>1 DEF Wanted, Attestation, LinksTo
<1>3. ASSUME NEW i \in 1..Len(stack')
      PROVE  Hopeful(E, stack[i])'
  <2>1. Hopeful(E, stack'[i])
    BY DEF HopefulStack
  <2>2. ASSUME NEW W, NEW c,
               stack'[i].kind = "claim" => W \subseteq ToSet(stack'[i].batch),
               Supported(ucan, E, Wanted(stack'[i].about), W, c), Continues(c, stack'[i].path)
        PROVE  Promising(stack[i], W, c)'
    <3>1. Promising(stack'[i], W, c)
      BY <2>1, <2>2 DEF Hopeful
    <3> QED BY <3>1 DEF Promising, Awaited
  <2> QED BY <1>2, <2>1, <2>2 DEF Hopeful
<1> QED BY <1>3 DEF HopefulStack

LEMMA GivenAfter ==
    ASSUME UNCHANGED ucan, GivenAll(stack')
    PROVE  GivenAll(stack)'
BY DEF GivenAll, AttestationsFor, IsAttestation

\* Evidence is good for a moment only if it was before: the windows it speaks
\* of span the call so far.
LEMMA EvidenceBefore ==
    ASSUME UNCHANGED ucan, now \in Nat, now' \in Nat, now <= now', NEW E, GoodEvidence(E)'
    PROVE  GoodEvidence(E)
<1>1. Attestors' = Attestors
  BY DEF Attestors
<1>2. \A d : Attestation(d)' = Attestation(d) /\ AttestationsFor(d)' = AttestationsFor(d)
  BY <1>1 DEF Attestation, LinksTo, AttestationsFor, IsAttestation
<1>3. 0..now \subseteq 0..now'
  OBVIOUS
<1>4. \A d : Lasting(d)' => Lasting(d)
  BY <1>3 DEF Lasting
<1> QED BY <1>2, <1>4 DEF GoodEvidence, SignedByIssuer, SelfVerifying

\* Everything is still to be searched when the call starts.
LEMMA InitCInv == Init => CInv
<1> SUFFICES ASSUME Init PROVE CInv
  OBVIOUS
<1> DEFINE g == Call("claim", <<>>, <<>>, Presented, {})
<1>1. VInv
  BY InitVInv
<1>2. /\ g.kind = "claim" /\ g.path = <<>> /\ g.phase = "resolve" /\ g.next = 1
      /\ g.batch = Presented
  BY DEF Call
<1>3. stack = <<g>>
  BY DEF Init
<1> HIDE DEF g
<1>4. Len(stack) = 1 /\ stack[1] = g
  BY <1>3
<1>5. GivenAll(stack)
  BY <1>2, <1>4 DEF GivenAll
<1>6. \A E : HopefulStack(E, stack)
  <2>1. \A E : Hopeful(E, g)
    BY <1>2, HopefulClaim
  <2> QED BY <1>4, <2>1 DEF HopefulStack
<1>7. \A E : Refuted(E)
  BY DEF Init, Refuted
<1> QED BY <1>1, <1>5, <1>6, <1>7 DEF CInv, NothingMissed

\* No step loses a supported chain.
LEMMA NextCInv == CInv /\ [Next]_vars => CInv'
<1> SUFFICES ASSUME CInv, [Next]_vars PROVE CInv'
  OBVIOUS
<1>1. VInv'
  BY NextVInv DEF CInv
<1>2. /\ UNCHANGED ucan /\ revoked \subseteq revoked'
      /\ now \in Nat /\ now' \in Nat /\ now <= now'
  <2>1. now \in Nat
    BY History DEF CInv, VInv
  <2>2. CASE Step
    BY <2>1, <2>2, StepLeaves
  <2>3. CASE ~Step
    BY <2>1, <2>3 DEF Next, Tick, Revoke, Returned, vars, env
  <2> QED BY <2>2, <2>3
<1>3. /\ GivenAll(stack')
      /\ revoked = {} => KeepsHope
      /\ \A E : revoked = {} /\ GoodEvidence(E) => Refuted(E)'
  <2>1. CASE Step
    <3>1. GivenAll(stack') /\ (revoked = {} => KeepsHope)
      BY <2>1, StepHope DEF CInv
    <3>2. ASSUME NEW E, revoked = {}, GoodEvidence(E) PROVE Refuted(E)'
      <4>1. HopefulStack(E, stack)
        BY <3>2 DEF CInv, NothingMissed
      <4>2. verdict'.status = "denied" =>
              \A c : ~Supported(ucan, E, Invoked, ToSet(Presented), c)
        BY <2>1, <3>2, <4>1, DenyHope DEF CInv
      <4> QED BY <1>2, <4>2 DEF Refuted
    <3> QED BY <3>1, <3>2
  <2>2. CASE ~Step
    <3>1. UNCHANGED <<ucan, stack, verdict>>
      BY <2>2 DEF Next, Tick, Revoke, Returned, vars, env
    <3>2. ASSUME NEW E, revoked = {}, GoodEvidence(E) PROVE Refuted(E)'
      BY <3>1, <3>2 DEF CInv, NothingMissed, Refuted
    <3> QED BY <3>1, <3>2 DEF CInv, KeepsHope
  <2> QED BY <2>1, <2>2
<1>4. GivenAll(stack)'
  BY <1>2, <1>3, GivenAfter
<1>5. NothingMissed'
  <2> SUFFICES ASSUME revoked' = {}, NEW E, GoodEvidence(E)'
               PROVE  HopefulStack(E, stack)' /\ Refuted(E)'
    BY DEF NothingMissed
  <2>1. revoked = {} /\ GoodEvidence(E)
    BY <1>2, EvidenceBefore
  <2>2. HopefulStack(E, stack)
    BY <2>1 DEF CInv, NothingMissed
  <2>3. HopefulStack(E, stack')
    BY <1>3, <2>1, <2>2 DEF KeepsHope
  <2> QED BY <1>2, <1>3, <2>1, <2>3, HopeAfter
<1> QED BY <1>1, <1>4, <1>5 DEF CInv

\* The invariant of the search that finds what there is holds throughout.
LEMMA SearchComplete == Spec => []CInv
  BY InitCInv, NextCInv, PTL DEF Spec

-----------------------------------------------------------------------------
(* What it promises.                                                       *)

\* Whatever good evidence there is, access with a chain it supports is never
\* denied while nothing is revoked (lib.js: claim and authorize explore every
\* option before they answer).  Evidence may rest on attestations that rest on
\* attestations, however deep.
THEOREM EvidenceIsFound ==
    Spec => [](revoked = {} => \A E : GoodEvidence(E) => Refuted(E))
<1>1. CInv => (revoked = {} => \A E : GoodEvidence(E) => Refuted(E))
  BY DEF CInv, NothingMissed
<1> QED BY <1>1, SearchComplete, PTL

\* What the signatures say, and what attestations signed so say, is good evidence.
LEMMA BackingIsGood == GoodEvidence(BySignature \cup ByAttestation)
<1> DEFINE E == BySignature \cup ByAttestation
<1> SUFFICES ASSUME NEW d, NEW W, <<d, W>> \in E
             PROVE  /\ Lasting(d)
                    /\ \/ SignedByIssuer(ucan[d])
                       \/ /\ ~SelfVerifying(ucan[d])
                          /\ \E c : Supported(ucan, E, Attestation(d), W \cap AttestationsFor(d), c)
  BY DEF GoodEvidence
<1> DEFINE x == <<d, W>>
<1>1. x[1] = d /\ x[2] = W
  OBVIOUS
<1>2. CASE x \in BySignature
  BY <1>1, <1>2 DEF BySignature
<1>3. CASE x \in ByAttestation
  <2>1. /\ Lasting(d) /\ ~SelfVerifying(ucan[d])
        /\ \E c \in PathsAmong(Attestation(d), W \cap AttestationsFor(d)) :
              Supported(ucan, BySignature, Attestation(d), W \cap AttestationsFor(d), c)
    BY <1>1, <1>3 DEF ByAttestation
  <2>2. PICK c : Supported(ucan, BySignature, Attestation(d), W \cap AttestationsFor(d), c)
    BY <2>1
  <2>3. Supported(ucan, E, Attestation(d), W \cap AttestationsFor(d), c)
    BY <2>2 DEF Supported
  <2> HIDE DEF E
  <2> QED BY <2>1, <2>3
<1> QED BY <1>2, <1>3

\* No broken proof, failed session or dead end takes a chain of signed and
\* attested delegations from the search.
THEOREM BackedFound == Spec => []BackedChainsAreFound
<1>1. CInv => BackedChainsAreFound
  <2>1. CInv /\ revoked = {} => Refuted(BySignature \cup ByAttestation)
    BY BackingIsGood DEF CInv, NothingMissed
  <2> QED BY <2>1 DEF BackedChainsAreFound, Refuted
<1> QED BY <1>1, SearchComplete, PTL

=============================================================================

------------------------- MODULE VerificationProofs -------------------------
(***************************************************************************)
(* Nothing counts that was not verified, and access keeps its promise: the *)
(* Validator implements Access, for every set of delegations, whatever     *)
(* they say, every answer of the callbacks, every clock and revocation.    *)
(***************************************************************************)
EXTENDS ValidatorProofs

\* Verified, of a history F and a moment t.
VerifiedBy(F, t, d) == \E f \in F : f.ucan = d /\ f.at <= t /\ WasValid(d, f.at)

\* d needs a session, and was in its window when that was found out.
NeedsSession(t, d) ==
    /\ ~SelfVerifying(ucan[d])
    /\ \A p \in Local : ucan[p].caps # <<>>
    /\ WasValid(d, t)

\* A frame relies on delegations that passed validate only: those whose
\* capabilities it took, those it selected, those of the path that led to it
\* and those of the chain to be approved.  It validates, or works for, a
\* delegation that no signature of its own issuer settles.
Sure(F, t, f) ==
    /\ \A s \in ToSet(f.sources) : VerifiedBy(F, t, s.src)
    /\ \A m \in ToSet(f.todo) \cup ToSet(f.path) \cup ToSet(f.chain) : VerifiedBy(F, t, m.src)
    /\ f.about # <<>> => NeedsSession(t, f.about[1])
    /\ f.phase = "keys" => NeedsSession(t, f.batch[f.next])

SureStack(F, t, s) == \A i \in 1..Len(s) : Sure(F, t, s[i])

AllSure == SureStack(facts, now, stack)

\* The invariant of the search and of the history it leaves.
VInv == IInv /\ AllSure

-----------------------------------------------------------------------------
(* The history only grows and the clock only advances.                     *)

\* What was verified stays so.
LEMMA SureGrows ==
    ASSUME NEW F, NEW G, F \subseteq G, NEW t \in Nat, NEW u \in Nat, t <= u, NEW f,
           \A x \in F : x.at \in Nat,
           Sure(F, t, f)
    PROVE  Sure(G, u, f)
<1>1. \A d : VerifiedBy(F, t, d) => VerifiedBy(G, u, d)
  BY DEF VerifiedBy
<1>2. \A d : NeedsSession(t, d) => NeedsSession(u, d)
  <2>1. 0..t \subseteq 0..u
    OBVIOUS
  <2> QED BY <2>1 DEF NeedsSession, WasValid
<1> QED BY <1>1, <1>2 DEF Sure

\* A frame that relies on no more than another one relies on nothing else.
LEMMA SureLike ==
    ASSUME NEW F, NEW t, NEW f, NEW g, Sure(F, t, f),
           ToSet(g.sources) \subseteq ToSet(f.sources),
           ToSet(g.todo) \subseteq ToSet(f.todo),
           ToSet(g.chain) \subseteq ToSet(f.chain),
           g.path = f.path, g.about = f.about, g.phase # "keys"
    PROVE  Sure(F, t, g)
BY DEF Sure

\* The types of what a step reads of the clock and the history.
LEMMA History ==
    ASSUME IInv
    PROVE  /\ now \in Nat /\ now \in Time
           /\ \A f \in facts : f.at \in Nat /\ f.at \in Time /\ f.ucan \in Delegations
                               /\ f.session \in Seq(Match)
           /\ ucan \in [Delegations -> UCAN]
           /\ \A d \in Delegations : ucan[d].nbf \in Nat /\ ucan[d].exp \in Nat
BY ChainAssumption DEF IInv, TypeOK, Time, Never, Fact, UCAN

\* A delegation that validate finds in its window has been in it by now.
LEMMA WindowPassed ==
    ASSUME IInv, NEW d \in Delegations, InWindow(ucan[d])
    PROVE  WasValid(d, now)
<1>1. now \in 0..now /\ ucan[d].nbf <= now /\ now < ucan[d].exp
  BY History DEF InWindow, IsExpired, IsTooEarly
<1> QED BY <1>1 DEF WasValid

\* The delegations do not change, so what is said of them carries over.
LEMMA SureAfter ==
    ASSUME UNCHANGED ucan, SureStack(facts', now', stack')
    PROVE  AllSure'
<1>1. \A u : SelfVerifying(u)' = SelfVerifying(u)
  BY DEF SelfVerifying
<1>2. \A d, t : WasValid(d, t)' = WasValid(d, t)
  BY DEF WasValid
<1>3. \A i \in 1..Len(stack') : Sure(facts', now', stack'[i])
  BY DEF SureStack
<1>4. ASSUME NEW i \in 1..Len(stack')
      PROVE  Sure(facts, now, stack[i])'
  BY <1>1, <1>2, <1>3 DEF Sure, VerifiedBy, NeedsSession, WasValid, SelfVerifying
<1> QED BY <1>4 DEF AllSure, SureStack

\* Frames are removed from above the k-th, which becomes f.
LEMMA SureCut ==
    ASSUME VInv, stack # <<>>, NEW k \in 1..Depth, NEW f,
           Sure(facts', now, f), facts \subseteq facts',
           stack' = [SubSeq(stack, 1, k) EXCEPT ![k] = f],
           UNCHANGED <<now, ucan>>
    PROVE  AllSure'
<1>1. stack \in Seq(Frame) /\ Depth = Len(stack) /\ Depth \in Nat
  BY TopFrame DEF VInv
<1>2. /\ Len(stack') = k /\ stack'[k] = f
      /\ \A j \in 1..(k - 1) : stack'[j] = stack[j]
  <2> DEFINE A == Frame \cup {f}
  <2>1. stack \in Seq(A) /\ f \in A /\ k \in 1..Len(stack)
    BY <1>1
  <2> HIDE DEF A
  <2> QED BY <2>1, CutAt
<1>3. ASSUME NEW i \in 1..k PROVE Sure(facts', now, stack'[i])
  <2>1. CASE i = k
    BY <1>2, <2>1
  <2>2. CASE i # k
    <3>1. i \in 1..Len(stack) /\ i \in 1..(k - 1)
      BY <1>1, <2>2
    <3>2. Sure(facts, now, stack[i])
      BY <3>1 DEF VInv, AllSure, SureStack
    <3>3. now \in Nat /\ \A x \in facts : x.at \in Nat
      BY History DEF VInv
    <3> QED BY <1>2, <3>1, <3>2, <3>3, SureGrows
  <2> QED BY <2>1, <2>2
<1>4. SureStack(facts', now', stack')
  BY <1>2, <1>3 DEF SureStack
<1> QED BY <1>4, SureAfter

\* The top frame goes on as f.
LEMMA SureUpdate ==
    ASSUME VInv, stack # <<>>, NEW f,
           Sure(facts', now, f), facts \subseteq facts', Update(f),
           UNCHANGED <<now, ucan>>
    PROVE  AllSure'
<1>1. stack \in Seq(Frame) /\ Depth = Len(stack) /\ Depth \in Nat /\ Depth > 0
  BY TopFrame DEF VInv
<1>2. SubSeq(stack, 1, Depth) = stack
  BY <1>1
<1>3. stack' = [stack EXCEPT ![Depth] = f] /\ Depth \in 1..Depth
  BY <1>1 DEF Update
<1> QED BY <1>2, <1>3, SureCut

\* The top frame calls.
LEMMA SurePush ==
    ASSUME VInv, stack # <<>>, NEW g, Sure(facts, now, g),
           stack' = Append(stack, g), UNCHANGED <<now, ucan, facts>>
    PROVE  AllSure'
<1>1. stack \in Seq(Frame)
  BY TopFrame DEF VInv
<1>2. /\ Len(stack') = Len(stack) + 1 /\ stack'[Len(stack) + 1] = g /\ Len(stack) \in Nat
      /\ \A i \in 1..Len(stack) : stack'[i] = stack[i]
  BY <1>1
<1>3. ASSUME NEW i \in 1..Len(stack') PROVE Sure(facts, now, stack'[i])
  <2>1. CASE i = Len(stack) + 1
    BY <1>2, <2>1
  <2>2. CASE i # Len(stack) + 1
    <3>1. i \in 1..Len(stack)
      BY <1>2, <2>2
    <3> QED BY <1>2, <3>1 DEF VInv, AllSure, SureStack
  <2> QED BY <2>1, <2>2
<1>4. SureStack(facts', now', stack')
  BY <1>3 DEF SureStack
<1> QED BY <1>4, SureAfter

\* What the frames on top of the stack rely on.
LEMMA TopSure ==
    ASSUME VInv, stack # <<>>
    PROVE  /\ \A k \in 1..Depth : Sure(facts, now, stack[k])
           /\ Sure(facts, now, Top)
           /\ Depth > 1 => Depth - 1 \in 1..Depth /\ Sure(facts, now, stack[Depth - 1])
<1>1. Depth = Len(stack) /\ Depth \in Nat /\ Depth > 0 /\ Top = stack[Depth]
  BY TopFrame DEF VInv
<1>2. \A k \in 1..Depth : Sure(facts, now, stack[k])
  BY <1>1 DEF VInv, AllSure, SureStack
<1> QED BY <1>1, <1>2

\* The sequences of a frame do not grow when it is done with a delegation, a
\* match or a link.
LEMMA SureStep ==
    ASSUME VInv, stack # <<>>, NEW k \in 1..Depth, NEW f,
           ToSet(f.sources) \subseteq ToSet(stack[k].sources),
           ToSet(f.todo) \subseteq ToSet(stack[k].todo),
           ToSet(f.chain) \subseteq ToSet(stack[k].chain),
           f.path = stack[k].path, f.about = stack[k].about, f.phase # "keys",
           stack' = [SubSeq(stack, 1, k) EXCEPT ![k] = f],
           UNCHANGED <<now, ucan, facts>>
    PROVE  AllSure'
<1>1. Sure(facts, now, stack[k])
  BY TopSure
<1>2. Sure(facts, now, f)
  BY <1>1, SureLike
<1> QED BY <1>2, SureCut

\* A delegation just verified.
LEMMA Witnessed ==
    ASSUME IInv, NEW f \in Frame, f.next <= Len(f.batch), NEW session, Witness(f, session),
           WasValid(f.batch[f.next], now)
    PROVE  /\ VerifiedBy(facts', now, f.batch[f.next])
           /\ facts \subseteq facts'
<1> DEFINE fact == [ucan |-> f.batch[f.next], at |-> now, session |-> session]
<1>1. fact.ucan = f.batch[f.next] /\ fact.at = now
  OBVIOUS
<1>2. facts' = facts \cup {fact}
  BY DEF Witness
<1>3. now \in Nat
  BY History
<1> HIDE DEF fact
<1> QED BY <1>1, <1>2, <1>3 DEF VerifiedBy

\* A delegation passes: its capabilities are those of one that was verified.
LEMMA SureAccept ==
    ASSUME VInv, NEW f \in Frame, FrameOK(f), f.phase \in {"validate", "keys"},
           f.next <= Len(f.batch), Sure(facts, now, f),
           NEW session, Witness(f, session), WasValid(f.batch[f.next], now)
    PROVE  Sure(facts', now, Accept(f)) /\ facts \subseteq facts'
<1> DEFINE d == f.batch[f.next]
<1>1. VerifiedBy(facts', now, d) /\ facts \subseteq facts'
  BY Witnessed DEF VInv
<1>2. Sure(facts', now, f)
  BY <1>1, History, SureGrows DEF VInv
<1>3. f.sources \in Seq(Source) /\ d \in Delegations
  BY FrameFields
<1>4. SourcesOf(d) \in Seq(Source) /\ \A s \in ToSet(SourcesOf(d)) : s.src = d
  <2>1. ucan[d].caps \in Seq(Cap)
    BY <1>3 DEF VInv, IInv, TypeOK, UCAN
  <2>2. SourcesOf(d) \in Seq(Source)
    <3> DEFINE caps == ucan[d].caps
    <3>1. caps \in Seq(Cap) /\ SourcesOf(d) = [i \in DOMAIN caps |-> [src |-> d, cap |-> caps[i]]]
      BY <2>1 DEF SourcesOf
    <3> HIDE DEF caps
    <3>2. \A i \in DOMAIN caps : [src |-> d, cap |-> caps[i]] \in Source
      BY <1>3, <3>1 DEF Source
    <3> QED BY <3>1, <3>2
  <2>3. \A i \in DOMAIN SourcesOf(d) : SourcesOf(d)[i].src = d
    BY DEF SourcesOf
  <2> QED BY <2>2, <2>3 DEF ToSet
<1>5. /\ Accept(f).sources = f.sources \o SourcesOf(d)
      /\ Accept(f).todo = f.todo /\ Accept(f).path = f.path /\ Accept(f).chain = f.chain
      /\ Accept(f).about = f.about /\ Accept(f).phase = "validate"
  BY DEF Accept, Reject, Frame
<1> HIDE DEF d
<1>6. ToSet(f.sources \o SourcesOf(d)) \subseteq ToSet(f.sources) \cup ToSet(SourcesOf(d))
  BY <1>3, <1>4, ElementsOfSequences
<1>7. \A s \in ToSet(Accept(f).sources) : VerifiedBy(facts', now, s.src)
  BY <1>1, <1>2, <1>4, <1>5, <1>6 DEF Sure
<1> QED BY <1>1, <1>2, <1>5, <1>7 DEF Sure

\* The same, of the frame on top of the stack.
LEMMA SureTop ==
    ASSUME VInv, stack # <<>>, NEW f,
           ToSet(f.sources) \subseteq ToSet(Top.sources),
           ToSet(f.todo) \subseteq ToSet(Top.todo),
           ToSet(f.chain) \subseteq ToSet(Top.chain),
           f.path = Top.path, f.about = Top.about, f.phase # "keys",
           Update(f),
           UNCHANGED <<now, ucan, facts>>
    PROVE  AllSure'
<1>1. Sure(facts, now, Top)
  BY TopSure
<1>2. Sure(facts', now, f)
  BY <1>1, SureLike
<1> QED BY <1>2, SureUpdate

-----------------------------------------------------------------------------
(* Step by step.                                                           *)

\* A delegation is dropped.
LEMMA RejectSure ==
    ASSUME VInv, stack # <<>>, Update(Reject(Top)), UNCHANGED <<now, ucan, facts>>
    PROVE  AllSure'
<1> DEFINE f == Reject(Top)
<1>1. Top \in Frame
  BY TopFrame DEF VInv
<1>2. /\ f.sources = Top.sources /\ f.todo = Top.todo /\ f.chain = Top.chain
      /\ f.path = Top.path /\ f.about = Top.about /\ f.phase = "validate"
  BY <1>1 DEF Reject, Frame
<1>3. Update(f)
  OBVIOUS
<1> HIDE DEF f
<1> QED BY <1>2, <1>3, SureTop

\* A delegation that was verified joins the sources.
LEMMA AcceptSure ==
    ASSUME VInv, stack # <<>>, Top.phase \in {"validate", "keys"}, Top.next <= Len(Top.batch),
           WasValid(Current, now), Update(Accept(Top)), Witness(Top, <<>>),
           UNCHANGED <<now, ucan>>
    PROVE  AllSure'
<1>1. Top \in Frame /\ FrameOK(Top)
  BY TopFrame DEF VInv
<1>2. Sure(facts, now, Top)
  BY TopSure
<1>3. Sure(facts', now, Accept(Top)) /\ facts \subseteq facts'
  BY <1>1, <1>2, SureAccept DEF Current
<1> QED BY <1>3, SureUpdate

\* Links are resolved or not, and proofs are aligned.
LEMMA ResolveSure ==
    ASSUME VInv,
           \/ \E d \in Delegations : ProofResolved(d) \/ ProofUnavailable(d)
           \/ Align
    PROVE  AllSure'
<1>1. stack # <<>> /\ Top.phase = "resolve"
  BY DEF ProofResolved, ProofUnavailable, Align, Running
<1>2. Top \in Frame
  BY <1>1, TopFrame DEF VInv
<1>3. ASSUME NEW links, NEW batch, NEW phase \in {"resolve", "validate"},
             Update([Top EXCEPT !.links = links, !.batch = batch, !.phase = phase]),
             UNCHANGED <<now, ucan, facts>>
      PROVE  AllSure'
  <2> DEFINE f == [Top EXCEPT !.links = links, !.batch = batch, !.phase = phase]
  <2>1. /\ f.sources = Top.sources /\ f.todo = Top.todo /\ f.chain = Top.chain
        /\ f.path = Top.path /\ f.about = Top.about /\ f.phase # "keys"
    BY <1>2 DEF Frame
  <2>2. Update(f)
    BY <1>3
  <2> HIDE DEF f
  <2> QED BY <1>1, <1>3, <2>1, <2>2, SureTop
<1>4. \A links, batch : /\ [Top EXCEPT !.links = links, !.batch = batch]
                              = [Top EXCEPT !.links = links, !.batch = batch, !.phase = "resolve"]
                        /\ [Top EXCEPT !.links = links]
                              = [Top EXCEPT !.links = links, !.batch = Top.batch, !.phase = "resolve"]
                        /\ [Top EXCEPT !.batch = batch, !.phase = "validate"]
                              = [Top EXCEPT !.links = Top.links, !.batch = batch, !.phase = "validate"]
  BY <1>1, <1>2 DEF Frame
<1>5. ASSUME NEW d \in Delegations, ProofResolved(d) PROVE AllSure'
  <2>1. Update([Top EXCEPT !.links = Top.links \ {d}, !.batch = Append(Top.batch, d), !.phase = "resolve"])
    BY <1>4, <1>5 DEF ProofResolved
  <2> QED BY <1>3, <1>5, <2>1 DEF ProofResolved, env
<1>6. ASSUME NEW d \in Delegations, ProofUnavailable(d) PROVE AllSure'
  <2>1. Update([Top EXCEPT !.links = Top.links \ {d}, !.batch = Top.batch, !.phase = "resolve"])
    BY <1>4, <1>6 DEF ProofUnavailable
  <2> QED BY <1>3, <1>6, <2>1 DEF ProofUnavailable, env
<1>7. ASSUME Align PROVE AllSure'
  <2>1. Update([Top EXCEPT !.links = Top.links, !.batch = Aligned(Top), !.phase = "validate"])
    BY <1>4, <1>7 DEF Align
  <2> QED BY <1>3, <1>7, <2>1 DEF Align, env
<1> QED BY <1>5, <1>6, <1>7

\* The time window, the signature and the keys of resolveDIDKey.
LEMMA ValidateSure ==
    ASSUME VInv,
           \/ OutsideWindow \/ CheckSignature \/ ResolveDIDKeyFails
           \/ \E keys \in KeyAnswers : ResolveDIDKey(keys)
    PROVE  AllSure'
<1>1. stack # <<>> /\ UNCHANGED <<now, ucan>>
  BY DEF OutsideWindow, CheckSignature, ResolveDIDKeyFails, ResolveDIDKey, Validating, Running, env
<1>2. Top \in Frame /\ FrameOK(Top) /\ Sure(facts, now, Top)
  BY <1>1, TopFrame, TopSure DEF VInv
<1>3. CASE Update(Reject(Top)) /\ UNCHANGED facts
  BY <1>1, <1>3, RejectSure
<1>4. CASE CheckSignature /\ Update(Accept(Top)) /\ Witness(Top, <<>>)
  <2>1. /\ Top.phase = "validate" /\ Top.next <= Len(Top.batch) /\ InWindow(ucan[Current])
    BY <1>4 DEF CheckSignature, Validating, Running
  <2>2. Current \in Delegations
    BY <1>2, <2>1, FrameFields DEF Current
  <2>3. WasValid(Current, now)
    BY <2>1, <2>2, WindowPassed DEF VInv
  <2> QED BY <1>1, <1>4, <2>1, <2>3, AcceptSure
<1>5. CASE Top.phase = "keys" /\ Update(Accept(Top)) /\ Witness(Top, <<>>)
  <2>1. Top.next <= Len(Top.batch) /\ WasValid(Current, now)
    BY <1>2, <1>5 DEF FrameOK, Sure, NeedsSession, Current
  <2> QED BY <1>1, <1>5, <2>1, AcceptSure
<1> QED BY <1>3, <1>4, <1>5 DEF OutsideWindow, CheckSignature, ResolveDIDKeyFails, ResolveDIDKey, Running

\* A session works for a delegation in its window that no signature settles.
LEMMA OpenSessionSure ==
    ASSUME VInv, OpenSession
    PROVE  AllSure'
<1> DEFINE batch == Keep(Top.batch, AttestationsFor(Current))
           g == Call("claim", <<Current>>, <<>>, batch, {})
<1>1. /\ stack # <<>> /\ Top \in Frame /\ Top.next <= Len(Top.batch)
      /\ InWindow(ucan[Current]) /\ ~SelfVerifying(ucan[Current])
      /\ \A p \in Local : ucan[p].caps # <<>>
  BY TopFrame DEF OpenSession, Validating, Running, VInv
<1>2. Current \in Delegations
  BY <1>1, FrameFields DEF Current
<1>3. NeedsSession(now, Current)
  BY <1>1, <1>2, WindowPassed DEF NeedsSession, VInv
<1>4. /\ g.about = <<Current>> /\ g.sources = <<>> /\ g.todo = <<>> /\ g.path = <<>>
      /\ g.chain = <<>> /\ g.phase = "resolve"
  BY DEF Call
<1>5. stack' = Append(stack, g) /\ UNCHANGED <<now, ucan, facts>>
  BY DEF OpenSession, env
<1> HIDE DEF g
<1>6. Sure(facts, now, g)
  BY <1>3, <1>4 DEF Sure, ToSet
<1> QED BY <1>1, <1>5, <1>6, SurePush

\* What was selected comes from the sources.
LEMMA SelectSure ==
    ASSUME VInv, Select
    PROVE  AllSure'
<1> DEFINE f == [Top EXCEPT !.todo = Selection, !.phase = "search"]
           desc == Wanted(Top.about)
<1>1. stack # <<>> /\ Top \in Frame /\ FrameOK(Top) /\ TypeOK /\ Sure(facts, now, Top)
  BY TopFrame, TopSure DEF Select, Running, VInv, IInv
<1>2. /\ Top.sources \in Seq(Source) /\ Top.path \in Seq(Match)
      /\ Top.about \in Seq(Delegations) /\ Top.kind \in {"claim", "authorize"}
  BY <1>1, FrameFields
<1>3. IsDescriptor(desc)
  BY <1>1, <1>2, WantedDescriptor
<1>4. \A s \in ToSet(Top.sources) : s.cap \in ToSet(ucan[s.src].caps)
  BY <1>1 DEF FrameOK
<1>5. \A m \in ToSet(Selection) : \E s \in ToSet(Top.sources) : m.src = s.src
  <2>1. CASE Top.kind = "claim"
    <3>1. Selection = SelectClaim(desc, Top.sources)
      BY <2>1 DEF Selection
    <3> HIDE DEF desc
    <3> QED BY <1>2, <1>3, <1>4, <3>1, ClaimsSelected
  <2>2. CASE Top.kind = "authorize"
    <3> DEFINE claimed == Last(Top.path).value
               sources == Top.sources
    <3>1. Selection = SelectProof(desc, claimed, sources)
      BY <2>2 DEF Selection
    <3>2. Last(Top.path) \in Match
      BY <1>1, <1>2, <2>2 DEF FrameOK, IsPath, Last
    <3>3. claimed \in Cap /\ sources \in Seq(Source)
          /\ \A s \in ToSet(sources) : s.cap \in ToSet(ucan[s.src].caps)
      BY <1>2, <1>4, <3>2 DEF Match
    <3> HIDE DEF claimed, sources, desc
    <3>4. \A m \in ToSet(Selection) : \E s \in ToSet(sources) : m.src = s.src
      BY <1>3, <3>1, <3>3, ProofsSelected
    <3> QED BY <3>4 DEF sources
  <2> QED BY <1>2, <2>1, <2>2
<1>6. /\ f.sources = Top.sources /\ f.todo = Selection /\ f.chain = Top.chain
      /\ f.path = Top.path /\ f.about = Top.about /\ f.phase = "search"
  BY <1>1 DEF Frame
<1>7. Update(f) /\ UNCHANGED <<now, ucan, facts>>
  BY DEF Select, env
<1> HIDE DEF f
<1>8. Sure(facts', now, f)
  BY <1>1, <1>5, <1>6, <1>7 DEF Sure
<1> QED BY <1>1, <1>7, <1>8, SureUpdate

\* A path with the match explored.
LEMMA LongerPathSure ==
    ASSUME VInv, Searching
    PROVE  \A m \in ToSet(Append(Top.path, Explored(Depth))) : VerifiedBy(facts, now, m.src)
<1>1. /\ stack # <<>> /\ Top \in Frame /\ Sure(facts, now, Top) /\ Top.todo # <<>>
      /\ Explored(Depth) = Head(Top.todo)
  BY TopFrame, TopSure DEF Searching, Running, VInv, Explored, Top
<1>2. Top.path \in Seq(Match) /\ Top.todo \in Seq(Match) /\ Head(Top.todo) \in Match
  BY <1>1, FrameFields
<1>3. Head(Top.todo) \in ToSet(Top.todo)
  BY <1>1, <1>2, ElementsOfSequences
<1>4. ToSet(Append(Top.path, Head(Top.todo))) \subseteq ToSet(Top.path) \cup {Head(Top.todo)}
  BY <1>2, ElementsOfSequences
<1> QED BY <1>1, <1>3, <1>4 DEF Sure

\* The chain to approve is the path and the match explored.
LEMMA FindRootSure ==
    ASSUME VInv, FindRoot
    PROVE  AllSure'
<1> DEFINE c == Depth - Len(Top.path)
           chain == Append(Top.path, Explored(Depth))
           f == [stack[c] EXCEPT !.phase = "approve", !.chain = chain]
<1>1. /\ stack # <<>> /\ stack \in Seq(Frame) /\ Depth = Len(stack) /\ c \in 1..Depth
      /\ Searching
  BY TopFrame DEF FindRoot, Searching, Running, VInv, WorksFor
<1>2. \A m \in ToSet(chain) : VerifiedBy(facts, now, m.src)
  BY <1>1, LongerPathSure
<1>3. stack' = [SubSeq(stack, 1, c) EXCEPT ![c] = f] /\ UNCHANGED <<now, ucan, facts>>
  <2>1. SubSeq(stack, 1, c)[c] = stack[c]
    BY <1>1
  <2>2. UNCHANGED <<now, ucan, facts>>
    BY DEF FindRoot, env
  <2>3. stack' = [SubSeq(stack, 1, c) EXCEPT
                     ![c] = [SubSeq(stack, 1, c)[c] EXCEPT !.phase = "approve", !.chain = chain]]
    BY DEF FindRoot
  <2> QED BY <2>1, <2>2, <2>3
<1>4. stack[c] \in Frame /\ Sure(facts, now, stack[c])
  BY <1>1, TopSure
<1> HIDE DEF c, chain
<1>5. /\ f.sources = stack[c].sources /\ f.todo = stack[c].todo /\ f.chain = chain
      /\ f.path = stack[c].path /\ f.about = stack[c].about /\ f.phase = "approve"
  BY <1>4 DEF Frame
<1> HIDE DEF f
<1>6. Sure(facts', now, f)
  BY <1>2, <1>3, <1>4, <1>5 DEF Sure
<1> QED BY <1>1, <1>3, <1>6, SureCut

\* authorize is called with the path and the match explored.
LEMMA ExploreProofsSure ==
    ASSUME VInv, ExploreProofs
    PROVE  AllSure'
<1> DEFINE u == ucan[Explored(Depth).src]
           path == Append(Top.path, Explored(Depth))
           g == Call("authorize", Top.about, path, Keep(u.prf, u.embedded), ToSet(u.prf) \ u.embedded)
<1>1. stack # <<>> /\ Searching /\ Sure(facts, now, Top)
  BY TopSure DEF ExploreProofs, Searching, Running
<1>2. \A m \in ToSet(path) : VerifiedBy(facts, now, m.src)
  BY <1>1, LongerPathSure
<1>3. stack' = Append(stack, g) /\ UNCHANGED <<now, ucan, facts>>
  BY DEF ExploreProofs, env
<1> HIDE DEF path
<1>4. /\ g.about = Top.about /\ g.sources = <<>> /\ g.todo = <<>> /\ g.path = path
      /\ g.chain = <<>> /\ g.phase = "resolve"
  BY DEF Call
<1> HIDE DEF g
<1>5. Sure(facts, now, g)
  BY <1>1, <1>2, <1>4 DEF Sure, ToSet
<1> QED BY <1>1, <1>3, <1>5, SurePush

\* authorize returns an error.
LEMMA AuthorizeFailsSure ==
    ASSUME VInv, AuthorizeFails
    PROVE  AllSure'
<1> DEFINE caller == stack[Depth - 1]
           f == MatchFailed(caller)
<1>1. stack # <<>> /\ Top.kind = "authorize"
  BY DEF AuthorizeFails, Running
<1>2. Depth > 1
  <2>1. /\ Depth \in Nat /\ Depth > 0 /\ Top = stack[Depth]
    BY <1>1, TopFrame DEF VInv
  <2>2. stack[1].kind = "claim"
    BY <1>1, TopFrame DEF StackOK, VInv
  <2> QED BY <1>1, <2>1, <2>2
<1>3. caller \in Frame /\ caller.phase = "search" /\ caller.todo # <<>> /\ Depth - 1 \in 1..Depth
  <2>1. caller \in Frame /\ MayCall(caller, Top) /\ Depth - 1 \in 1..Depth
    BY <1>1, <1>2, CallerWaits, TopSure DEF VInv
  <2> QED BY <1>1, <2>1 DEF MayCall
<1>4. Return(f) /\ UNCHANGED <<now, ucan, facts>>
  BY DEF AuthorizeFails, env
<1> HIDE DEF caller
<1>5. /\ f.sources = caller.sources /\ f.todo = Tail(caller.todo) /\ f.chain = caller.chain
      /\ f.path = caller.path /\ f.about = caller.about /\ f.phase = "search"
  BY <1>3 DEF MatchFailed, Frame
<1>6. ToSet(Tail(caller.todo)) \subseteq ToSet(caller.todo)
  BY <1>3, FrameFields, ElementsOfSequences
<1> HIDE DEF f
<1> QED BY <1>1, <1>3, <1>4, <1>5, <1>6, SureStep DEF caller, Return

\* The keys are tried for the delegation the session was about.
LEMMA SessionFailsSure ==
    ASSUME VInv, SessionFails
    PROVE  AllSure'
<1> DEFINE caller == stack[Depth - 1]
           g == [caller EXCEPT !.phase = "keys"]
<1>1. stack # <<>> /\ Top.kind = "claim" /\ Depth > 1
  BY DEF SessionFails, Running
<1>2. /\ caller \in Frame /\ FrameOK(caller) /\ MayCall(caller, Top)
      /\ Sure(facts, now, caller) /\ Sure(facts, now, Top) /\ Depth - 1 \in 1..Depth
  BY <1>1, CallerWaits, TopSure DEF VInv
<1>3. /\ Return(Reject(caller)) \/ Return(g)
      /\ UNCHANGED <<now, ucan, facts>>
  BY DEF SessionFails, env
<1>4. NeedsSession(now, caller.batch[caller.next])
  <2>1. Top.about = <<caller.batch[caller.next]>>
    BY <1>1, <1>2 DEF MayCall
  <2> QED BY <1>2, <2>1 DEF Sure
<1> HIDE DEF caller
<1>5. CASE Return(Reject(caller))
  <2> DEFINE f == Reject(caller)
  <2>1. /\ f.sources = caller.sources /\ f.todo = caller.todo /\ f.chain = caller.chain
        /\ f.path = caller.path /\ f.about = caller.about /\ f.phase = "validate"
    BY <1>2 DEF Reject, Frame
  <2>2. Return(f)
    BY <1>5
  <2> HIDE DEF f
  <2> QED BY <1>1, <1>2, <1>3, <2>1, <2>2, SureStep DEF caller, Return
<1>6. CASE Return(g)
  <2>1. /\ g.sources = caller.sources /\ g.todo = caller.todo /\ g.chain = caller.chain
        /\ g.path = caller.path /\ g.about = caller.about
        /\ g.batch = caller.batch /\ g.next = caller.next
    BY <1>2 DEF Frame
  <2>2. stack' = [SubSeq(stack, 1, Depth - 1) EXCEPT ![Depth - 1] = g]
    BY <1>6 DEF Return
  <2> HIDE DEF g
  <2>3. Sure(facts', now, g)
    BY <1>2, <1>3, <1>4, <2>1 DEF Sure
  <2> QED BY <1>1, <1>2, <1>3, <2>2, <2>3, SureCut
<1> QED BY <1>3, <1>5, <1>6

\* A session that is approved verifies its subject.
LEMMA ApproveSessionSure ==
    ASSUME VInv, ApproveSession
    PROVE  AllSure'
<1> DEFINE caller == stack[Depth - 1]
<1>1. stack # <<>> /\ Top.kind = "claim" /\ Depth > 1
  BY DEF ApproveSession, Running
<1>2. /\ caller \in Frame /\ FrameOK(caller) /\ MayCall(caller, Top)
      /\ Sure(facts, now, caller) /\ Sure(facts, now, Top) /\ Depth - 1 \in 1..Depth
  BY <1>1, CallerWaits, TopSure DEF VInv
<1>3. /\ caller.phase = "validate" /\ caller.next <= Len(caller.batch)
      /\ Top.about = <<caller.batch[caller.next]>>
  BY <1>1, <1>2 DEF MayCall
<1>4. WasValid(caller.batch[caller.next], now)
  BY <1>2, <1>3 DEF Sure, NeedsSession
<1>5. /\ stack' = [SubSeq(stack, 1, Depth - 1) EXCEPT ![Depth - 1] = Accept(caller)]
      /\ Witness(caller, Top.chain) /\ UNCHANGED <<now, ucan>>
  BY DEF ApproveSession, Return, env
<1> HIDE DEF caller
<1>6. Sure(facts', now, Accept(caller)) /\ facts \subseteq facts'
  BY <1>2, <1>3, <1>4, <1>5, SureAccept
<1> QED BY <1>1, <1>2, <1>5, <1>6, SureCut

\* A claim whose chain is not approved goes on with its next match.
LEMMA DisapproveSure ==
    ASSUME VInv, Disapprove
    PROVE  AllSure'
<1> DEFINE f == [Top EXCEPT !.phase = "search", !.todo = Tail(@), !.chain = <<>>]
<1>1. stack # <<>> /\ Top \in Frame /\ Top.todo # <<>>
  BY TopFrame DEF Disapprove, Running, FrameOK, VInv
<1>2. ToSet(Tail(Top.todo)) \subseteq ToSet(Top.todo)
  BY <1>1, FrameFields, ElementsOfSequences
<1>3. /\ f.sources = Top.sources /\ f.todo = Tail(Top.todo) /\ f.chain = <<>>
      /\ f.path = Top.path /\ f.about = Top.about /\ f.phase = "search"
  BY <1>1 DEF Frame
<1>4. Update(f) /\ UNCHANGED <<now, ucan, facts>>
  BY DEF Disapprove, env
<1>5. ToSet(<<>>) \subseteq ToSet(Top.chain)
  BY DEF ToSet
<1> HIDE DEF f
<1> QED BY <1>1, <1>2, <1>3, <1>4, <1>5, SureTop

-----------------------------------------------------------------------------
(* The invariant is inductive.                                             *)

\* The first frame relies on nothing.
LEMMA InitVInv == Init => VInv
<1> SUFFICES ASSUME Init PROVE VInv
  OBVIOUS
<1> DEFINE g == Call("claim", <<>>, <<>>, Presented, {})
<1>1. IInv
  BY InitIInv
<1>2. /\ g.about = <<>> /\ g.sources = <<>> /\ g.todo = <<>> /\ g.path = <<>>
      /\ g.chain = <<>> /\ g.phase = "resolve"
  BY DEF Call
<1>3. stack = <<g>>
  BY DEF Init
<1> HIDE DEF g
<1>4. Sure(facts, now, g)
  BY <1>2 DEF Sure, ToSet
<1>5. AllSure
  BY <1>3, <1>4 DEF AllSure, SureStack
<1> QED BY <1>1, <1>5 DEF VInv

\* No step makes a frame rely on what was not verified.
LEMMA NextVInv == VInv /\ [Next]_vars => VInv'
<1> SUFFICES ASSUME VInv, [Next]_vars PROVE VInv'
  OBVIOUS
<1>1. IInv'
  BY NextIInv DEF VInv
<1> SUFFICES AllSure'
  BY <1>1 DEF VInv
<1>2. CASE Step
  <2>1. ASSUME stack' = <<>>, UNCHANGED ucan PROVE AllSure'
    <3>1. SureStack(facts', now', stack')
      BY <2>1 DEF SureStack
    <3> QED BY <2>1, <3>1, SureAfter
  <2>2. CASE \/ ParseThrows \/ Deny \/ CallbackThrows \/ ApproveAccess
             \/ \E keys \in KeyAnswers : ResolvedKeyThrows(keys)
    <3>1. stack' = <<>> /\ UNCHANGED ucan
      BY <2>2 DEF ParseThrows, Deny, CallbackThrows, ApproveAccess, ResolvedKeyThrows, Finish
    <3> QED BY <2>1, <3>1
  <2> QED BY <1>2, <2>2, ResolveSure, ValidateSure, OpenSessionSure, SelectSure, FindRootSure,
             ExploreProofsSure, AuthorizeFailsSure, SessionFailsSure, ApproveSessionSure,
             DisapproveSure DEF Step
<1>3. ASSUME UNCHANGED <<ucan, stack, facts>>, now' \in Nat, now <= now' PROVE AllSure'
  <2>1. now \in Nat /\ \A x \in facts : x.at \in Nat
    BY History DEF VInv
  <2>2. ASSUME NEW i \in 1..Len(stack) PROVE Sure(facts, now', stack[i])
    <3>1. Sure(facts, now, stack[i])
      BY DEF VInv, AllSure, SureStack
    <3> QED BY <1>3, <2>1, <3>1, SureGrows
  <2>3. SureStack(facts', now', stack')
    BY <1>3, <2>2 DEF SureStack
  <2> QED BY <1>3, <2>3, SureAfter
<1>4. now \in Nat
  BY History DEF VInv
<1>5. CASE Tick
  BY <1>3, <1>4, <1>5 DEF Tick
<1>6. CASE (\E d \in Delegations : Revoke(d)) \/ UNCHANGED vars
  BY <1>3, <1>4, <1>6 DEF Revoke, vars, env
<1> QED BY <1>2, <1>5, <1>6 DEF Next, Returned

\* The invariant of the search and its history holds throughout.
LEMMA HistoryInductive == Spec => []VInv
  BY InitVInv, NextVInv, PTL DEF Spec

-----------------------------------------------------------------------------
(* What an attestation says.                                               *)

\* Every value of a path is about a resource the parser reads.
LEMMA PathResources ==
    ASSUME NEW u, NEW desc, NEW path \in Seq(Match), IsPath(u, desc, path),
           NEW i \in DOMAIN path
    PROVE  path[i].value.with \in desc.with
<1>1. CASE i = 1
  <2>1. ClaimedBy(u, desc, path[1])
    BY DEF IsPath
  <2> QED BY <1>1, <2>1 DEF ClaimedBy, Parses, ParseCapability
<1>2. CASE i # 1
  <2>1. i - 1 \in 1..(Len(path) - 1) /\ (i - 1) + 1 = i
    BY <1>2
  <2>2. Proves(u, desc, path[i - 1], path[i])
    BY <2>1 DEF IsPath
  <2> QED BY <2>2 DEF Proves, GrantedBy, Selects, Resolves, ResolveCapability
<1> QED BY <1>1, <1>2

\* A chain that verifySession accepts names the delegation it is about and goes
\* back to an accepted attestor.
LEMMA ChainAttests ==
    ASSUME NEW d, NEW chain \in Seq(Match), IsChain(ucan, Attestation(d), chain)
    PROVE  /\ chain # <<>>
           /\ chain[1].value.nb["proof"].val = d
           /\ Last(chain).value.with \in Attestors
<1> DEFINE desc == Attestation(d)
<1>1. /\ desc.with = Attestors /\ DOMAIN desc.nb = {"proof"}
      /\ desc.nb["proof"].accepts = LinksTo(d) /\ desc.nb["proof"].optional = FALSE
  BY DEF Attestation
<1> HIDE DEF desc
<1>2. chain # <<>> /\ ClaimedBy(ucan, desc, chain[1]) /\ IsPath(ucan, desc, chain)
  BY DEF IsChain, IsPath, desc
<1>3. PICK cap \in ToSet(ucan[chain[1].src].caps) :
          Parses(desc, cap) /\ chain[1].value = ParseCapability(desc, cap)
  BY <1>2 DEF ClaimedBy
<1>4. "proof" \in DOMAIN cap.nb /\ cap.nb["proof"] \in LinksTo(d)
  BY <1>1, <1>3 DEF Parses, Readable
<1>5. chain[1].value.nb["proof"] = cap.nb["proof"]
  BY <1>1, <1>3, <1>4 DEF ParseCapability, ReadNb
<1>6. chain[1].value.nb["proof"].val = d
  BY <1>4, <1>5 DEF LinksTo, LinkTo
<1>7. Last(chain).value.with \in Attestors
  <2>1. Len(chain) \in DOMAIN chain /\ Last(chain) = chain[Len(chain)]
    BY <1>2 DEF Last
  <2> QED BY <1>1, <1>2, <2>1, PathResources
<1> QED BY <1>2, <1>6, <1>7

-----------------------------------------------------------------------------
(* What follows.                                                           *)

\* The chain a host is asked about consists of verified delegations.
LEMMA ChainVerified ==
    ASSUME VInv, stack # <<>>
    PROVE  \A i \in DOMAIN Top.chain : Verified(Top.chain[i].src)
<1>1. Sure(facts, now, Top)
  BY TopSure
<1>2. \A i \in DOMAIN Top.chain : Top.chain[i] \in ToSet(Top.chain)
  BY DEF ToSet
<1> QED BY <1>1, <1>2 DEF Sure, VerifiedBy, Verified

\* A signature that was checked is one of the right key.
LEMMA SignatureLegitimate ==
    ASSUME VInv, CheckSignature, NEW f \in facts' \ facts
    PROVE  Legitimate(f)
<1> DEFINE u == ucan[Current]
<1>1. /\ stack # <<>> /\ Top \in Frame /\ Top.next <= Len(Top.batch)
      /\ InWindow(u) /\ SelfVerifying(u)
      /\ VerifySignature(u, IF u.iss \in KeyDIDs THEN u.iss ELSE Authority)
      /\ Witness(Top, <<>>)
  BY TopFrame DEF CheckSignature, Validating, Running, VInv
<1>2. Current \in Delegations /\ WasValid(Current, now)
  BY <1>1, FrameFields, WindowPassed DEF Current, VInv
<1>3. f.ucan = Current /\ f.at = now /\ f.session = <<>>
  BY <1>1 DEF Witness, Current
<1>4. u.iss \in KeyDIDs \cup {Authority} /\ u.key = u.iss
  BY <1>1 DEF SelfVerifying, VerifySignature
<1>5. u.nbf <= now /\ now < u.exp
  <2>1. u \in UCAN /\ now \in Nat
    BY <1>2, History DEF VInv, IInv, TypeOK
  <2>2. u.nbf \in 0..Never /\ u.exp \in 0..Never /\ Never \in Nat
    BY <2>1, ChainAssumption DEF UCAN, Never
  <2> QED BY <1>1, <2>1, <2>2 DEF InWindow, IsExpired, IsTooEarly
<1> QED BY <1>2, <1>3, <1>4, <1>5 DEF Legitimate

\* ... and one that resolveDIDKey settled, of a key the host named.
LEMMA KeyLegitimate ==
    ASSUME VInv, NEW keys \in KeyAnswers, ResolveDIDKey(keys), NEW f \in facts' \ facts
    PROVE  Legitimate(f)
<1> DEFINE u == ucan[Current]
<1>1. /\ stack # <<>> /\ Top.phase = "keys" /\ Sure(facts, now, Top)
      /\ \E i \in DOMAIN keys : VerifySignature(u, keys[i])
      /\ Witness(Top, <<>>)
  BY TopSure DEF ResolveDIDKey, Running
<1>2. NeedsSession(now, Current)
  BY <1>1 DEF Sure, Current
<1>3. f.ucan = Current /\ f.at = now /\ f.session = <<>>
  BY <1>1 DEF Witness, Current
<1>4. Reached(u, keys)
  <2> DEFINE T == {i \in DOMAIN keys : keys[i] = u.key}
  <2>1. AllParse(u, keys) /\ keys \in Seq(DID)
    BY KeyAnswersAssumption DEF ResolveDIDKey
  <2>2. T \subseteq Nat /\ T # {}
    BY <1>1, <2>1 DEF VerifySignature
  <2>3. PICK i \in T : \A j \in T : i <= j
    <3> HIDE DEF T
    <3> QED BY <2>2, LeastElement
  <2>4. i \in DOMAIN keys /\ i \in Nat /\ keys[i] = u.key
    BY <2>2
  <2>5. ASSUME NEW j \in 1..i, keys[j] \in Unparsable
        PROVE  FALSE
    <3>1. j \in DOMAIN keys /\ j \in Nat /\ j <= i
      BY <2>1, <2>4
    <3>2. PICK k \in 1..(j - 1) : u.key = keys[k]
      BY <2>1, <2>5, <3>1 DEF AllParse, VerifySignature
    <3>3. k \in DOMAIN keys /\ k \in Nat /\ k < i
      BY <2>1, <3>1
    <3>4. k \in T
      BY <3>2, <3>3
    <3> HIDE DEF T
    <3> QED BY <2>3, <2>4, <3>3, <3>4
  <2> QED BY <2>4, <2>5 DEF Reached
<1> QED BY <1>2, <1>3, <1>4 DEF NeedsSession, SelfVerifying, Legitimate

\* A session attests its subject by name, and the subject is no part of what
\* it starts with.
LEMMA SessionLegitimate ==
    ASSUME VInv, ApproveSession, NEW f \in facts' \ facts
    PROVE  Legitimate(f)
<1> DEFINE caller == stack[Depth - 1]
           d == caller.batch[caller.next]
<1>1. stack # <<>> /\ Top.kind = "claim" /\ Top.phase = "approve" /\ Depth > 1
      /\ Witness(caller, Top.chain)
  BY DEF ApproveSession, Running
<1>2. /\ MayCall(caller, Top) /\ Sure(facts, now, Top) /\ Top \in Frame /\ FrameOK(Top)
  BY <1>1, CallerWaits, TopSure, TopFrame DEF VInv
<1>3. Top.about = <<d>> /\ Offered(Top) \subseteq ToSet(caller.batch) \ {d}
  BY <1>1, <1>2 DEF MayCall
<1>4. f.ucan = d /\ f.at = now /\ f.session = Top.chain
  BY <1>1 DEF Witness
<1>5. \A i \in DOMAIN Top.chain : Verified(Top.chain[i].src)
  BY <1>1, ChainVerified
<1> HIDE DEF d, caller
<1>6. NeedsSession(now, d)
  BY <1>2, <1>3 DEF Sure
<1>7. Wanted(Top.about) = Attestation(d)
  BY <1>3 DEF Wanted
<1>8. /\ IsChain(ucan, Attestation(d), Top.chain) /\ Top.chain[1].src \in ToSet(Top.batch)
      /\ Top.chain \in Seq(Match)
  BY <1>1, <1>2, <1>7, FrameFields DEF FrameOK
<1>9. Top.chain[1].src # d
  BY <1>3, <1>8 DEF Offered
<1>10. /\ Top.chain # <<>>
       /\ Top.chain[1].value.nb["proof"].val = d
       /\ Last(Top.chain).value.with \in Attestors
  BY <1>8, ChainAttests
<1>11. MayAttest(Last(Top.chain).value.with)
  <2>1. \A p \in Local : ucan[p].caps # <<>> /\ Head(ucan[p].caps) = ucan[p].caps[1]
    BY <1>6 DEF NeedsSession
  <2> QED BY <1>10, <2>1 DEF Attestors, MayAttest
<1>12. ucan[d].iss \notin KeyDIDs \cup {Authority}
  BY <1>6 DEF NeedsSession, SelfVerifying
<1> QED BY <1>4, <1>5, <1>6, <1>8, <1>9, <1>10, <1>11, <1>12 DEF Legitimate, NeedsSession

\* Nothing counts that was not verified before: every delegation of a granted
\* chain, and of every attestation used on the way, was in its window when the
\* code looked, and is signed by its issuer or attested by name by a chain from
\* an accepted attestor, each link of which had been verified by then.
THEOREM OnlyVerifiedCounts == Spec => NothingUnverified
<1> DEFINE Grounded ==
        /\ \A f \in facts' \ facts : Legitimate(f)
        /\ verdict' # verdict /\ verdict'.status = "ok" =>
              \A i \in DOMAIN verdict'.chain : Verified(verdict'.chain[i].src)
<1>1. VInv /\ [Next]_vars => Grounded
  <2> SUFFICES ASSUME VInv, [Next]_vars PROVE Grounded
    OBVIOUS
  <2>1. CASE UNCHANGED <<verdict, facts>>
    BY <2>1
  <2>2. CASE CheckSignature
    BY <2>2, SignatureLegitimate DEF CheckSignature
  <2>3. CASE \E keys \in KeyAnswers : ResolveDIDKey(keys)
    BY <2>3, KeyLegitimate DEF ResolveDIDKey
  <2>4. CASE ApproveSession
    BY <2>4, SessionLegitimate DEF ApproveSession
  <2>5. CASE ApproveAccess
    <3>1. stack # <<>> /\ verdict' = [status |-> "ok", chain |-> Top.chain] /\ UNCHANGED facts
      BY <2>5 DEF ApproveAccess, Running, Finish
    <3> QED BY <3>1, ChainVerified
  <2>6. CASE \/ ParseThrows \/ Deny \/ CallbackThrows
             \/ \E keys \in KeyAnswers : ResolvedKeyThrows(keys)
    <3>1. verdict'.status # "ok" /\ UNCHANGED facts
      BY <2>6 DEF ParseThrows, Deny, CallbackThrows, ResolvedKeyThrows, Finish
    <3> QED BY <3>1
  <2> HIDE DEF Grounded
  <2> QED BY <2>1, <2>2, <2>3, <2>4, <2>5, <2>6
          DEF Next, Step, Tick, Revoke, Returned, vars, ProofResolved, ProofUnavailable,
              Align, OutsideWindow, OpenSession, ResolveDIDKeyFails, Select, FindRoot,
              ExploreProofs, AuthorizeFails, SessionFails, Disapprove
<1>2. NothingUnverified <=> [][Grounded]_vars
  BY DEF NothingUnverified
<1> HIDE DEF Grounded
<1> QED BY <1>1, <1>2, HistoryInductive, PTL DEF Spec

-----------------------------------------------------------------------------
(* The refinement.                                                         *)

\* Access speaks of chains in the words of Validator.
LEMMA SameParsing ==
    /\ \A desc, cap : Promise!Parses(desc, cap) <=> Parses(desc, cap)
    /\ \A desc, cap : Promise!ParseCapability(desc, cap) = ParseCapability(desc, cap)
<1>1. \A schema, nb : Promise!Readable(schema, nb) <=> Readable(schema, nb)
  BY DEF Promise!Readable, Readable
<1>2. \A schema, nb : Promise!ReadNb(schema, nb) = ReadNb(schema, nb)
  BY DEF Promise!ReadNb, ReadNb
<1> QED BY <1>1, <1>2 DEF Promise!Parses, Parses, Promise!ParseCapability, ParseCapability

\* ... and of what a delegation grants.
LEMMA SameSelecting ==
    /\ \A desc, claimed, cap : Promise!Selects(desc, claimed, cap) <=> Selects(desc, claimed, cap)
    /\ \A desc, claimed, cap :
          Promise!ResolveCapability(desc, claimed, cap) = ResolveCapability(desc, claimed, cap)
<1>1. /\ \A schema, nb : Promise!Readable(schema, nb) <=> Readable(schema, nb)
      /\ \A schema, nb : Promise!ReadNb(schema, nb) = ReadNb(schema, nb)
      /\ \A claimed, delegated : Promise!InheritNb(claimed, delegated) = InheritNb(claimed, delegated)
  BY DEF Promise!Readable, Readable, Promise!ReadNb, ReadNb, Promise!InheritNb, InheritNb
<1>2. /\ \A s, t : Promise!IsPrefix(s, t) <=> IsPrefix(s, t)
      /\ \A s : Promise!Last(s) = Last(s)
      /\ \A s : Promise!Front(s) = Front(s)
  BY DEF Promise!IsPrefix, IsPrefix, Promise!Last, Last, Promise!Front, Front
<1>3. \A pattern, can : Promise!ResolveAbility(pattern, can) <=> ResolveAbility(pattern, can)
  BY <1>2 DEF Promise!ResolveAbility, ResolveAbility, Promise!AnyAbility, AnyAbility,
              Promise!IsNamespace, IsNamespace
<1>4. \A source, uri : Promise!ResolveResource(source, uri) = ResolveResource(source, uri)
  BY DEF Promise!ResolveResource, ResolveResource, Promise!AnyResource, AnyResource
<1>5. \A claimed, delegated : Promise!DefaultDerives(claimed, delegated) <=> DefaultDerives(claimed, delegated)
  BY <1>2 DEF Promise!DefaultDerives, DefaultDerives, Promise!ContainsResource, ContainsResource,
              Promise!ContainsNb, ContainsNb
<1>6. \A desc, claimed, cap : Promise!Resolves(desc, claimed, cap) <=> Resolves(desc, claimed, cap)
  BY <1>1, <1>3, <1>4 DEF Promise!Resolves, Resolves
<1>7. \A desc, claimed, cap :
         Promise!ResolveCapability(desc, claimed, cap) = ResolveCapability(desc, claimed, cap)
  BY <1>1, <1>4 DEF Promise!ResolveCapability, ResolveCapability
<1> QED BY <1>5, <1>6, <1>7 DEF Promise!Selects, Selects

\* So its chains are those of the search.
LEMMA SameChains ==
    ASSUME NEW u, NEW desc, NEW chain
    PROVE  Promise!IsChain(u, desc, chain) <=> IsChain(u, desc, chain)
<1>1. (\A s : Promise!ToSet(s) = ToSet(s)) /\ (\A s : Promise!Last(s) = Last(s))
  BY DEF Promise!ToSet, ToSet, Promise!Last, Last
<1>2. \A m : Promise!ClaimedBy(u, desc, m) <=> ClaimedBy(u, desc, m)
  BY <1>1, SameParsing DEF Promise!ClaimedBy, ClaimedBy
<1>3. \A claimed, m : Promise!GrantedBy(u, desc, claimed, m) <=> GrantedBy(u, desc, claimed, m)
  BY <1>1, SameSelecting DEF Promise!GrantedBy, GrantedBy
<1>4. \A m, n : Promise!Proves(u, desc, m, n) <=> Proves(u, desc, m, n)
  BY <1>1, <1>3 DEF Promise!Proves, Proves
<1>5. Promise!IsPath(u, desc, chain) <=> IsPath(u, desc, chain)
  BY <1>2, <1>4 DEF Promise!IsPath, IsPath
<1> QED BY <1>1, <1>5 DEF Promise!IsChain, IsChain, Promise!CanIssue, CanIssue

\* The one step that grants does so as Access has it.
LEMMA GrantStep ==
    ASSUME VInv, ApproveAccess
    PROVE  Promise!Grant
<1>1. /\ stack # <<>> /\ Depth = 1 /\ Top.phase = "approve" /\ Approves(Top.chain)
      /\ verdict' = [status |-> "ok", chain |-> Top.chain] /\ UNCHANGED <<ucan, now, revoked>>
  BY DEF ApproveAccess, Running, Finish, env
<1>2. verdict'.status = "ok" /\ verdict'.chain = Top.chain
  BY <1>1
<1>3. /\ Pending /\ Top \in Frame /\ FrameOK(Top) /\ StackOK(stack) /\ Top = stack[1]
  BY <1>1, TopFrame DEF VInv
<1>4. IsChain(ucan, Invoked, Top.chain) /\ Top.chain[1].src \in ToSet(Presented)
  BY <1>1, <1>3 DEF FrameOK, StackOK, Wanted, Offered
<1>5. ASSUME NEW i \in DOMAIN Top.chain
      PROVE  Top.chain[i].src \notin revoked /\ Promise!WasValid(Top.chain[i].src)
  <2>1. PICK f \in facts : /\ f.ucan = Top.chain[i].src /\ f.at <= now
                           /\ WasValid(Top.chain[i].src, f.at)
    BY <1>1, ChainVerified DEF Verified
  <2>2. f.at \in Nat /\ now \in Nat
    BY History DEF VInv
  <2>3. 0..f.at \subseteq 0..now
    BY <2>1, <2>2
  <2> QED BY <1>1, <2>1, <2>3 DEF Approves, WasValid, Promise!WasValid
<1>6. Promise!IsChain(ucan, Invoked, Top.chain) /\ Top.chain[1].src \in Promise!ToSet(Presented)
  BY <1>4, SameChains DEF Promise!ToSet, ToSet
<1> QED BY <1>1, <1>2, <1>3, <1>5, <1>6 DEF Promise!Grant, Promise!Pending, Pending

\* Each step of the search, of the host and of the clock is a step of Access, or
\* one of those that the caller does not see.
LEMMA AccessStep == VInv /\ [Next]_vars => [Promise!Next]_Promise!vars
<1> SUFFICES ASSUME VInv, [Next]_vars PROVE [Promise!Next]_Promise!vars
  OBVIOUS
<1>1. CASE UNCHANGED <<ucan, now, revoked, verdict>>
  BY <1>1 DEF Promise!vars
<1>2. CASE ApproveAccess
  BY <1>2, GrantStep DEF Promise!Next
<1>3. CASE \/ ParseThrows \/ Deny \/ CallbackThrows
           \/ \E keys \in KeyAnswers : ResolvedKeyThrows(keys)
  <2>1. PICK status \in {"denied", "thrown"} :
            /\ stack # <<>> /\ verdict' = [status |-> status, chain |-> <<>>]
            /\ UNCHANGED <<ucan, now, revoked>>
    BY <1>3 DEF ParseThrows, Deny, CallbackThrows, ResolvedKeyThrows, Finish, Validating, Running, env
  <2>2. Pending
    BY <2>1, TopFrame DEF VInv
  <2>3. Promise!Refuse
    BY <2>1, <2>2 DEF Promise!Refuse, Promise!Pending, Pending
  <2> QED BY <2>3 DEF Promise!Next
<1>4. CASE Tick
  <2>1. Promise!Tick
    BY <1>4 DEF Tick, Promise!Tick, Promise!Pending, Pending
  <2> QED BY <2>1 DEF Promise!Next
<1>5. CASE \E d \in Delegations : Revoke(d)
  <2>1. Promise!Revoke
    BY <1>5 DEF Revoke, Promise!Revoke, Promise!Pending, Pending
  <2> QED BY <2>1 DEF Promise!Next
<1> QED BY <1>1, <1>2, <1>3, <1>4, <1>5
        DEF Next, Step, Returned, vars, env, ProofResolved, ProofUnavailable,
            Align, OutsideWindow, CheckSignature, ResolveDIDKey, OpenSession, ResolveDIDKeyFails,
            Select, FindRoot, ExploreProofs, AuthorizeFails, SessionFails, ApproveSession, Disapprove

\* access keeps its promise, which Access states: whatever the world and the
\* host do meanwhile it decides once, and it grants only for a chain from the
\* owner to the invocation that is not revoked at that moment and each link of
\* which was valid during the call.
THEOREM PromiseKept == Spec => KeepsPromise
<1>1. Init => Promise!Init
  BY DEF Init, Promise!Init
<1> QED BY <1>1, HistoryInductive, AccessStep, PTL DEF Spec, KeepsPromise, Promise!Spec

=============================================================================

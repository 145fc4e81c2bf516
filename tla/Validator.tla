----------------------------- MODULE Validator ------------------------------
(***************************************************************************)
(* access/claim/authorize of @ucanto/validator (lib.js): the depth-first   *)
(* search for a chain of delegations that grants what an invocation        *)
(* claims, with the verification of every delegation it meets.             *)
(*                                                                         *)
(* The recursion of the code is an explicit stack.  Frame 1 is the call    *)
(* claim(capability, Presented); an "authorize" frame above a frame        *)
(* searches a proof of the match that frame is exploring; a "claim" frame  *)
(* above a frame is the authorization session (verifySession) of the       *)
(* delegation that frame is verifying.  Every place where the code awaits  *)
(* is a place where the clock may tick, a delegation may be revoked, or a  *)
(* callback of the host may answer, fail or throw.                         *)
(***************************************************************************)
EXTENDS Chain, Subsequences

CONSTANTS
    Worlds,          \* what those UCANs may say: a set of [Delegations -> UCAN]
    Presented,       \* the proofs given to claim; access gives one invocation
    Invoked,         \* descriptor of the capability claimed
    Authority,       \* DID of the service that validates
    Unparsable,      \* did:key DIDs config.principal.parse throws on
    Local,           \* config.proofs
    KeyAnswers,      \* what resolveDIDKey may answer: sequences of keys
    CallbacksThrow,  \* whether resolveDIDKey and validateAuthorization may throw
    RevokedAtStart,  \* sets of delegations that may be revoked before the call
    Revocable        \* delegations that may be revoked during the call

Attest == <<"ucan", "/", "attest">>

\* A link to d decoded from the block of h: links are equal when they are the
\* same object, and read as the same CID when they have the same val.
LinkTo(d, h) == [val |-> d, at |-> h]

ASSUME WorldsAssumption == Worlds \subseteq [Delegations -> UCAN]
ASSUME PresentedAssumption == Presented \in Seq(Delegations)
ASSUME InvokedAssumption == IsDescriptor(Invoked)
ASSUME PrincipalAssumption ==
    /\ Authority \in OtherDIDs
    /\ Unparsable \subseteq KeyDIDs

ASSUME LocalAssumption == Local \subseteq Delegations
ASSUME KeyAnswersAssumption == KeyAnswers \subseteq Seq(DID)
ASSUME BoundsAssumption ==
    /\ CallbacksThrow \in BOOLEAN
    /\ RevokedAtStart \subseteq SUBSET Delegations
    /\ Revocable \subseteq Delegations
ASSUME AttestationAssumption ==
    /\ Attest \in Ability /\ "proof" \in Field
    /\ \A d, h \in Delegations : LinkTo(d, h) \in Value

VARIABLES
    ucan,      \* the delegations: chosen in Init, never changed
    now,       \* UCAN.now(), read by every validate
    revoked,   \* what validateAuthorization of the host objects to
    stack,     \* the calls in progress
    verdict,   \* what the outermost claim returned
    facts      \* history: every successful validate, see below

env  == <<now, revoked>>
vars == <<ucan, now, revoked, stack, verdict, facts>>

-----------------------------------------------------------------------------
(* The data of a call.                                                     *)

\* A capability of a delegation that was found valid.
Source == [src : Delegations, cap : Cap]

Phases == {"resolve",    \* resolveProofs: links are being resolved
           "validate",   \* validating batch[next]
           "keys",       \* ... it needs resolveDIDKey
           "search",     \* exploring the matches in todo
           "approve"}    \* claim only: waiting for validateAuthorization

Frame == [kind   : {"claim", "authorize"},
          about  : Seq(Delegations),     \* session: the subject, else empty
          path   : Seq(Match),           \* authorize: from the claim to here
          phase  : Phases,
          links  : SUBSET Delegations,   \* links not resolved yet
          batch  : Seq(Delegations),     \* resolved, then aligned, delegations
          next   : Nat \ {0},            \* the one being validated
          sources : Seq(Source),         \* capabilities of the valid ones
          todo   : Seq(Match),           \* matches left; the first is explored
          failed : BOOLEAN,              \* failedProofs is not empty
          chain  : Seq(Match)]           \* the authorization to approve

\* History.  d passed validate at time `at`: by its signature (session empty)
\* or because the chain `session` attested it.
Fact == [ucan : Delegations, at : Time, session : Seq(Match)]

Call(kind, about, path, batch, links) ==
    [kind |-> kind, about |-> about, path |-> path, phase |-> "resolve",
     links |-> links, batch |-> batch, next |-> 1, sources |-> <<>>,
     todo |-> <<>>, failed |-> FALSE, chain |-> <<>>]

Depth   == Len(stack)
Top     == stack[Depth]
Current == Top.batch[Top.next]            \* the delegation being validated

-----------------------------------------------------------------------------
(* Verifying one delegation.                                               *)

ExpiredAfter(u) == u.exp < now                      \* mutation: valid at exp
IsExpired(u)  == u.exp <= now
IsTooEarly(u) == u.nbf > now
InWindow(u)   == ~IsExpired(u) /\ ~IsTooEarly(u)

VerifySignature(u, key) == u.key = key

\* verifyAuthorization settles the matter by a signature alone.
SelfVerifying(u) == u.iss \in KeyDIDs \/ u.iss = Authority

\* Principals whose attestations verifySession accepts: the authority and the
\* audiences of the local proofs about `ucan/attest` on the authority.
AnyLocal == {Authority} \cup {ucan[p].aud : p \in Local}  \* mutation: whatever they say
Attestors ==
    {Authority} \cup
    {ucan[p].aud : p \in {q \in Local : /\ Head(ucan[q].caps).can = Attest
                                        /\ Head(ucan[q].caps).with = Authority}}

\* Schema.link(cid): links to d, whichever block they stand in.
AnyLink(d) == {LinkTo(e, h) : e, h \in Delegations}  \* mutation: no cid asked for
LinksTo(d) == {LinkTo(d, h) : h \in Delegations}

\* The descriptor that matches an attestation of exactly this delegation.
Attestation(d) ==
    [can |-> Attest, with |-> Attestors,
     nb |-> [f \in {"proof"} |-> [accepts |-> LinksTo(d), optional |-> FALSE]]]

IsAttestation(d) == ucan[d].caps # <<>> /\ Head(ucan[d].caps).can = Attest

\* What a session about d may use.
AnyAttestation(d)  == {e \in Delegations : IsAttestation(e)}   \* mutation: even d
AttestationsFor(d) == {e \in Delegations : IsAttestation(e) /\ e # d}

-----------------------------------------------------------------------------
(* Selecting.                                                              *)

\* The capability parser a frame works for: what was invoked, or an
\* attestation of the delegation a session is about.
Wanted(about) == IF about = <<>> THEN Invoked ELSE Attestation(about[1])

\* The match frame i is exploring: the one an authorize frame above it proves.
Explored(i) == Head(stack[i].todo)

SourcesOf(d) == [i \in DOMAIN ucan[d].caps |-> [src |-> d, cap |-> ucan[d].caps[i]]]

\* capability.select: each source is parsed on its own.
SelectClaim(desc, sources) ==
    LET kept == Keep(sources, {s \in ToSet(sources) : Parses(desc, s.cap)})
    IN  [i \in DOMAIN kept |-> [src   |-> kept[i].src,
                                value |-> ParseCapability(desc, kept[i].cap)]]

\* match.select: each source is resolved in the light of the match.
SelectProof(desc, claimed, sources) ==
    LET kept == Keep(sources, {s \in ToSet(sources) : Selects(desc, claimed, s.cap)})
    IN  [i \in DOMAIN kept |-> [src   |-> kept[i].src,
                                value |-> ResolveCapability(desc, claimed, kept[i].cap)]]

Selection ==
    IF Top.kind = "claim"
    THEN SelectClaim(Wanted(Top.about), Top.sources)
    ELSE SelectProof(Wanted(Top.about), Last(Top.path).value, Top.sources)

-----------------------------------------------------------------------------
(* Steps of the call on top of the stack.                                  *)

Init ==
    /\ ucan \in Worlds
    /\ now = 0
    /\ revoked \in RevokedAtStart
    /\ stack = <<Call("claim", <<>>, <<>>, Presented, {})>>
    /\ verdict = [status |-> "pending", chain |-> <<>>]
    /\ facts = {}

Running(kind, phase) ==
    /\ stack # <<>>
    /\ Top.kind \in kind
    /\ Top.phase = phase

Either == {"claim", "authorize"}

Update(frame) == stack' = [stack EXCEPT ![Depth] = frame]

\* The top frame returns; the one below continues as `frame`.
Return(frame) == stack' = [SubSeq(stack, 1, Depth - 1) EXCEPT ![Depth - 1] = frame]

Stop(status, chain) ==                               \* mutation: no unwinding
    /\ UNCHANGED stack
    /\ verdict' = [status |-> status, chain |-> chain]

Finish(status, chain) ==
    /\ stack' = <<>>
    /\ verdict' = [status |-> status, chain |-> chain]

\* The delegation `frame` was validating is done with.
Reject(frame) == [frame EXCEPT !.phase = "validate", !.next = @ + 1]
Accept(frame) ==
    [Reject(frame) EXCEPT !.sources = @ \o SourcesOf(frame.batch[frame.next])]

Witness(frame, session) ==
    facts' = facts \cup {[ucan |-> frame.batch[frame.next], at |-> now, session |-> session]}

\* resolveProofs: the links are resolved concurrently, the host answers in any
\* order, with the delegation ...
ProofResolved(d) ==
    /\ Running(Either, "resolve")
    /\ d \in Top.links
    /\ Update([Top EXCEPT !.links = @ \ {d}, !.batch = Append(@, d)])
    /\ UNCHANGED <<env, ucan, verdict, facts>>

\* ... or with an error; a throw is caught and is an error too.
ProofUnavailable(d) ==
    /\ Running(Either, "resolve")
    /\ d \in Top.links
    /\ Update([Top EXCEPT !.links = @ \ {d}])
    /\ UNCHANGED <<env, ucan, verdict, facts>>

\* Everything is resolved.  resolveSources drops the proofs that do not
\* delegate to the issuer of what they prove; claim keeps them all.
Resolved(frame) == frame.batch                       \* mutation: no alignment
Aligned(frame) ==
    IF frame.kind = "claim" THEN frame.batch
    ELSE Keep(frame.batch,
              {d \in Delegations : ucan[d].aud = ucan[Last(frame.path).src].iss})

Align ==
    /\ Running(Either, "resolve")
    /\ Top.links = {}
    /\ Update([Top EXCEPT !.batch = Aligned(Top), !.phase = "validate"])
    /\ UNCHANGED <<env, ucan, verdict, facts>>

Validating == Running(Either, "validate") /\ Top.next <= Len(Top.batch)

\* validate reads the clock first.
OutsideWindow ==
    /\ Validating
    /\ ~InWindow(ucan[Current])
    /\ Update(Reject(Top))
    /\ UNCHANGED <<env, ucan, verdict, facts>>

\* A did:key issuer, or the authority: the signature decides.
CheckSignature ==
    /\ Validating
    /\ InWindow(ucan[Current])
    /\ SelfVerifying(ucan[Current])
    /\ ucan[Current].iss \notin Unparsable
    /\ LET u   == ucan[Current]
           key == IF u.iss \in KeyDIDs THEN u.iss ELSE Authority
       IN  IF VerifySignature(u, key)
           THEN Update(Accept(Top)) /\ Witness(Top, <<>>)
           ELSE Update(Reject(Top)) /\ UNCHANGED facts
    /\ UNCHANGED <<env, ucan, verdict>>

EagerThrows ==                                       \* mutation: for every delegation
    /\ Validating
    /\ InWindow(ucan[Current])
    /\ ucan[Current].iss \in Unparsable \/ \E p \in Local : ucan[p].caps = <<>>
    /\ Finish("thrown", <<>>)
    /\ UNCHANGED <<env, ucan, facts>>

\* config.principal.parse throws on a key of an unknown type, verifySession on
\* a local proof without capabilities: nobody catches, access throws.
ParseThrows ==
    /\ Validating
    /\ InWindow(ucan[Current])
    /\ \/ ucan[Current].iss \in Unparsable
       \/ ~SelfVerifying(ucan[Current]) /\ \E p \in Local : ucan[p].caps = <<>>
    /\ Finish("thrown", <<>>)
    /\ UNCHANGED <<env, ucan, facts>>

\* Any other issuer: verifySession claims an attestation of the delegation
\* among the attestations beside it, itself excepted.
OpenSession ==
    /\ Validating
    /\ InWindow(ucan[Current])
    /\ ~SelfVerifying(ucan[Current])
    /\ \A p \in Local : ucan[p].caps # <<>>
    /\ stack' = Append(stack, Call("claim", <<Current>>, <<>>,
                                   Keep(Top.batch, AttestationsFor(Current)), {}))
    /\ UNCHANGED <<env, ucan, verdict, facts>>

\* The keys are tried in turn; one that verifies the signature is enough, and
\* the ones after it are not parsed.
NoneThrows(u, keys) == TRUE                          \* mutation: those are skipped
AllParse(u, keys) ==
    \A i \in DOMAIN keys :
        keys[i] \in Unparsable => \E j \in 1..(i - 1) : VerifySignature(u, keys[j])

\* No session was found and none failed: the keys of the issuer are resolved.
ResolveDIDKey(keys) ==
    /\ Running(Either, "keys")
    /\ AllParse(ucan[Current], keys)
    /\ IF \E i \in DOMAIN keys : VerifySignature(ucan[Current], keys[i])
       THEN Update(Accept(Top)) /\ Witness(Top, <<>>)
       ELSE Update(Reject(Top)) /\ UNCHANGED facts
    /\ UNCHANGED <<env, ucan, verdict>>

ResolvedKeyThrows(keys) ==
    /\ Running(Either, "keys")
    /\ ~AllParse(ucan[Current], keys)
    /\ Finish("thrown", <<>>)
    /\ UNCHANGED <<env, ucan, facts>>

ResolveDIDKeyFails ==
    /\ Running(Either, "keys")
    /\ Update(Reject(Top))
    /\ UNCHANGED <<env, ucan, verdict, facts>>

\* Every delegation was validated: match their capabilities.
Select ==
    /\ Running(Either, "validate")
    /\ Top.next > Len(Top.batch)
    /\ Update([Top EXCEPT !.todo = Selection, !.phase = "search"])
    /\ UNCHANGED <<env, ucan, verdict, facts>>

Searching == Running(Either, "search") /\ Top.todo # <<>>

\* prune of the match explored.
AlwaysRoot == TRUE                                   \* mutation: canIssue not asked
ExploredIsRoot ==
    CanIssue(Explored(Depth).value, ucan[Explored(Depth).src].iss)

\* prune returns null: every authorize call returns its part of the chain, and
\* the claim they belong to asks validateAuthorization about the whole.
FindRoot ==
    /\ Searching
    /\ ExploredIsRoot
    /\ LET c == Depth - Len(Top.path)
       IN  stack' = [SubSeq(stack, 1, c) EXCEPT
                        ![c] = [@ EXCEPT !.phase = "approve",
                                         !.chain = Append(Top.path, Explored(Depth))]]
    /\ UNCHANGED <<env, ucan, verdict, facts>>

\* prune returns the match: authorize looks for it in the proofs of its source,
\* the embedded ones first.
ExploreProofs ==
    /\ Searching
    /\ ~ExploredIsRoot
    /\ LET u == ucan[Explored(Depth).src]
       IN  stack' = Append(stack, Call("authorize", Top.about,
                                       Append(Top.path, Explored(Depth)),
                                       Keep(u.prf, u.embedded),
                                       ToSet(u.prf) \ u.embedded))
    /\ UNCHANGED <<env, ucan, verdict, facts>>

\* One more of failedProofs; the next match is explored.
RetrySame(frame) == [frame EXCEPT !.failed = TRUE]   \* mutation: no next match
GiveUp(frame) == [frame EXCEPT !.todo = <<>>, !.failed = TRUE] \* mutation: return early
MatchFailed(frame) == [frame EXCEPT !.todo = Tail(@), !.failed = TRUE]

\* No match is left: authorize returns InvalidClaim to its caller.
AuthorizeFails ==
    /\ Running({"authorize"}, "search")
    /\ Top.todo = <<>>
    /\ Return(MatchFailed(stack[Depth - 1]))
    /\ UNCHANGED <<env, ucan, verdict, facts>>

\* verifySession found nothing.  When some attestation did match but could not
\* be proved it is a SessionEscalation, otherwise the keys are tried.
SessionFails ==
    /\ Running({"claim"}, "search")
    /\ Top.todo = <<>>
    /\ Depth > 1
    /\ LET caller == stack[Depth - 1]
       IN  Return(IF Top.failed THEN Reject(caller) ELSE [caller EXCEPT !.phase = "keys"])
    /\ UNCHANGED <<env, ucan, verdict, facts>>

\* access returns Unauthorized.
Deny ==
    /\ Running({"claim"}, "search")
    /\ Top.todo = <<>>
    /\ Depth = 1
    /\ Finish("denied", <<>>)
    /\ UNCHANGED <<env, ucan, facts>>

\* The host's validateAuthorization: nothing along Authorization.iterate is
\* revoked.
ApprovesHead(chain) == chain[1].src \notin revoked    \* mutation: no iterate
Approves(chain) == \A i \in DOMAIN chain : chain[i].src \notin revoked

ApproveAccess ==
    /\ Running({"claim"}, "approve")
    /\ Depth = 1
    /\ Approves(Top.chain)
    /\ Finish("ok", Top.chain)
    /\ UNCHANGED <<env, ucan, facts>>

ApproveSession ==
    /\ Running({"claim"}, "approve")
    /\ Depth > 1
    /\ Approves(Top.chain)
    /\ Return(Accept(stack[Depth - 1]))
    /\ Witness(stack[Depth - 1], Top.chain)
    /\ UNCHANGED <<env, ucan, verdict>>

\* The error joins invalidProofs (not failedProofs) and the next match is
\* explored: another path to the same match is not.
Disapprove ==
    /\ Running({"claim"}, "approve")
    /\ ~Approves(Top.chain)
    /\ Update([Top EXCEPT !.phase = "search", !.todo = Tail(@), !.chain = <<>>])
    /\ UNCHANGED <<env, ucan, verdict, facts>>

CallbackThrows ==
    /\ CallbacksThrow
    /\ Running(Either, "keys") \/ Running({"claim"}, "approve")
    /\ Finish("thrown", <<>>)
    /\ UNCHANGED <<env, ucan, facts>>

-----------------------------------------------------------------------------
(* The world around the call.                                              *)

Pending == verdict.status = "pending"

Tick ==
    /\ Pending
    /\ now < MaxTime
    /\ now' = now + 1
    /\ UNCHANGED <<ucan, revoked, stack, verdict, facts>>

Revoke(d) ==
    /\ Pending
    /\ d \in Revocable \ revoked
    /\ revoked' = revoked \cup {d}
    /\ UNCHANGED <<ucan, now, stack, verdict, facts>>

Returned == ~Pending /\ UNCHANGED vars

-----------------------------------------------------------------------------
Step ==
    \/ \E d \in Delegations : ProofResolved(d)
    \/ \E d \in Delegations : ProofUnavailable(d)
    \/ Align
    \/ OutsideWindow
    \/ CheckSignature
    \/ ParseThrows
    \/ OpenSession
    \/ \E keys \in KeyAnswers : ResolveDIDKey(keys)
    \/ \E keys \in KeyAnswers : ResolvedKeyThrows(keys)
    \/ ResolveDIDKeyFails
    \/ Select
    \/ FindRoot
    \/ ExploreProofs
    \/ AuthorizeFails
    \/ SessionFails
    \/ Deny
    \/ ApproveAccess
    \/ ApproveSession
    \/ Disapprove
    \/ CallbackThrows

Next ==
    \/ Step
    \/ Tick
    \/ \E d \in Delegations : Revoke(d)
    \/ Returned

Spec == Init /\ [][Next]_vars

\* A host whose callbacks answer: a call that can go on does.  Nothing in the
\* code waits for anything else, and no timer limits a callback that does not.
FairSpec == Spec /\ WF_vars(Step)

-----------------------------------------------------------------------------
(* Properties.                                                             *)

\* Types; and a call has a verdict exactly when no call is in progress any more:
\* every return and every throw unwinds the whole recursion.
TypeOK ==
    /\ ucan \in [Delegations -> UCAN]
    /\ now \in Time
    /\ revoked \subseteq Delegations
    /\ stack \in Seq(Frame)
    /\ verdict \in Verdict
    /\ facts \subseteq Fact
    /\ Pending <=> stack # <<>>

\* Access is granted only for a chain of delegations from the owner of the
\* resource to the issuer of what was presented, each aligned with the next and
\* each deriving from the one above: the search, with its failed branches,
\* sessions in between and links resolved in any order, never assembles a chain
\* of pieces of different paths.
GrantsOnlyChains ==
    verdict.status = "ok" =>
        /\ IsChain(ucan, Invoked, verdict.chain)
        /\ verdict.chain[1].src \in ToSet(Presented)

\* Attenuation end to end: each delegation of the chain, however many links
\* away, has a capability that covers the invocation itself, although the code
\* compares only neighbours and passes rewritten capabilities up the chain.
NoEscalation ==
    verdict.status = "ok" =>
        \A i \in DOMAIN verdict.chain :
            \E j \in DOMAIN ucan[verdict.chain[i].src].caps :
                Covers(Invoked, ucan[verdict.chain[i].src].caps[j], verdict.chain[1].value)

\* Verified by now, when it had been in its window.  (A delegation that needs a
\* session is in its window when the session opens; by the time the session
\* succeeds the delegation may have expired.)
WasValid(d, t) == \E at \in 0..t : ucan[d].nbf <= at /\ at < ucan[d].exp

Verified(d) == \E f \in facts : f.ucan = d /\ f.at <= now /\ WasValid(d, f.at)

\* The key that signed u is in the answer, with no key before it that throws.
Reached(u, keys) ==
    \E i \in DOMAIN keys : keys[i] = u.key /\ \A j \in 1..i : keys[j] \notin Unparsable

\* The authority, and whoever a local proof says may attest for it.
MayAttest(p) ==
    \/ p = Authority
    \/ \E q \in Local : /\ ucan[q].aud = p
                        /\ ucan[q].caps[1].can = Attest
                        /\ ucan[q].caps[1].with = Authority

\* By the key of the issuer, in the window at that very moment; or, when the
\* issuer has no key of its own, by a key that is resolved or by a chain of
\* verified delegations that attests exactly this one and does not start with it.
Legitimate(f) ==
    LET u == ucan[f.ucan]
    IN  /\ WasValid(f.ucan, f.at)
        /\ IF u.iss \in KeyDIDs \cup {Authority}
           THEN f.session = <<>> /\ u.key = u.iss /\ u.nbf <= f.at /\ f.at < u.exp
           ELSE /\ \A p \in Local : ucan[p].caps # <<>>
                /\ IF f.session = <<>>
                   THEN \E keys \in KeyAnswers : Reached(u, keys)
                   ELSE /\ IsChain(ucan, Attestation(f.ucan), f.session)
                        /\ f.session[1].src # f.ucan
                        /\ f.session[1].value.nb["proof"].val = f.ucan
                        /\ MayAttest(Last(f.session).value.with)
                        /\ \A i \in DOMAIN f.session : Verified(f.session[i].src)

\* Nothing counts that was not verified before: every delegation of a granted
\* chain, and of every attestation used on the way, was inside its window when
\* the code looked, and is signed by its issuer or attested, by name, by a chain
\* from an accepted attestor, each link of which had been verified by then; so
\* two delegations never vouch for each other.
NothingUnverified ==
    [][/\ \A f \in facts' \ facts : Legitimate(f)
       /\ verdict' # verdict /\ verdict'.status = "ok" =>
             \A i \in DOMAIN verdict'.chain : Verified(verdict'.chain[i].src)]_vars

Relied == {verdict.chain[i].src : i \in DOMAIN verdict.chain} \cup
          UNION {{f.session[i].src : i \in DOMAIN f.session} : f \in facts}

\* What is revoked is relied on nowhere from then on: neither in the chain that
\* grants access nor in a session that lets another delegation pass, although
\* the host is asked only about whole chains, long after each link was met.
RevokedStaysOut == [][\A d \in revoked : d \in Relied' => d \in Relied]_vars

\* Why the search ends.  A session looks only at attestations beside its
\* subject, the subject excluded, and an authorize call only at proofs of what
\* it proves: going up the stack the candidates shrink or go down the graph.
Beside(i) == ToSet(stack[i].batch)
Subject(i) == stack[i].batch[stack[i].next]
SearchDescends ==
    \A i \in 1..(Depth - 1) :
        IF stack[i + 1].kind = "claim"
        THEN /\ stack[i].phase = "validate"
             /\ Beside(i + 1) \subseteq Beside(i) \ {Subject(i)}
        ELSE /\ stack[i].phase = "search"
             /\ Explored(i).src \in Beside(i)
             /\ Beside(i + 1) \cup stack[i + 1].links \subseteq ToSet(ucan[Explored(i).src].prf)

\* Whatever the callbacks answer, access returns or throws.
Terminates == <>(verdict.status # "pending")

\* The whole call, seen from outside, is one decision: see Access.  The stack
\* and the history are hidden, what the host sees is what it is.
Promise == INSTANCE Access WITH ucan <- ucan, now <- now, revoked <- revoked, verdict <- verdict
KeepsPromise == Promise!Spec

=============================================================================

# A verification of ucanto

ucanto is an RPC framework over UCANs: a client sends signed *invocations* that carry
*delegations* as proofs, a server checks that the proofs authorise what is invoked, runs a
handler and answers with a signed receipt. This directory holds TLA+ models of it, the TLC
configurations that check them on small instances, and proofs for all instances.

## The system

| component | source (`src/packages/`) | state | operations | talks to |
|---|---|---|---|---|
| Validator | `validator/src/lib.js`, `authorization.js` | none between calls; per call the recursion, the proofs resolved so far, the sources found valid, the matches left, the errors collected | `access`, `claim`, `authorize`, `validate`, `verifyAuthorization`, `verifySession`, `resolveProofs`, `resolveSources` | the host, by callbacks: `resolve` (proof links), `resolveDIDKey`, `validateAuthorization` (revocation), `principal.parse`, `canIssue`; the clock |
| Capability algebra | `validator/src/capability.js` | none | `match`, `select`, `prune`, the `or`, `and`, `derive` combinators | schemas |
| Schema | `core/src/schema/*.js` | none | `read` of every reader | - |
| Server | `server/src/server.js`, `handler.js` | the service and its context | `handle`, `execute`, `run`, `provide` | codecs, the validator, handlers of the host |
| Client | `client/src/connection.js` | none | `execute` | codec, channel |
| Message, receipt, invocation | `core/src/message.js`, `receipt.js`, `invocation.js` | a DAG of blocks | build, view, `get`, `attach` | DAG |
| Delegation, DAG, CAR, CBOR | `core/src/delegation.js`, `dag.js`, `car.js`, `cbor.js` | blocks by CID, caches of decoded views | delegate, export, import, view, `archive`, `extract` | - |
| Transport | `transport/src/*.js` | the codecs registered | `accept`, `encode`, `decode`, `request` | HTTP |
| Principals | `principal/src/**` | key material | sign, verify, parse, archive | cryptography |

A request goes client `execute` -> codec -> channel -> server `handle` -> `execute` -> `run` for
each invocation -> handler of `provide` -> `access` -> handler of the host -> receipt ->
codec -> client. The heart is `access`: everything else moves data, and it decides.

**What is hard about it.** `access` is a backtracking search written as mutually recursive
async functions: `claim` calls `authorize` to prove a match, `authorize` calls itself for the
proofs of a proof, and validating a delegation whose issuer has no key of its own calls
`claim` again (`verifySession`) to find an attestation of it. Each `await` lets the clock
run, a delegation be revoked, links arrive in any order, and a callback fail or throw.
Nothing compares the claim with the root: each link is compared with a *rewritten* form of
the one before it. On the RPC side, a message is a batch of concurrent invocations of
which some may fail, and the transport may lose an answer after the work is done.
`PROJECT.json` lists each hazard at its line.

What makes each component correct:

* validator: only verified chains that attenuate are granted; nothing revoked is relied on;
  every valid path is found; the recursion ends;
* capability algebra: derivation is transitive along chains, combinators select what their
  parts do;
* server and client: one receipt for each invocation, of that invocation; a failure of one
  is not a failure of others; a handler runs only when access is granted;
* message and DAG: a view exported and imported is the same view, and has every block it
  links that was there;
* transport: the response is encoded as the request accepts, or refused with a status;
* schema: a reader gives a value of the type it declares, also when reading its own output
  again, before and after a journey as CBOR; an error names the place at fault.

## The modules

| module | what it is |
|---|---|
| `Capability` | the algebra: `ResolveAbility`, `ResolveResource`, `ParseCapability`, `ResolveCapability`, `DefaultDerives`, `Selects`; and `Covers`, what a delegated capability allows, said without the code's loop |
| `Attenuation` | the loop `Capability.match`, `Match.select`, `Match.select`, ... as a state machine over capabilities alone |
| `Chain` | UCANs, matches, and when a sequence of matches is a delegation chain |
| `Access` | the abstract specification: while the clock ticks and delegations are revoked, one decision; a grant shows a chain none of which is revoked and each of which was valid at some moment |
| `Validator` | `access`/`claim`/`authorize` in full |
| `ValidatorInvariant` | the inductive invariant of `Validator` |
| `Backing` | chains that `access` must not miss, and the evidence that makes them such |
| `Completeness` | a recursive definition of "there is a valid path", for TLC |
| `Subsequences` | `Keep`, the one filter the models use, in a form that can be reasoned about |
| `Server` | `handle`, `execute`, `run` and `provideAdvanced`, with the validator behind them as what it promises |
| `Connection` | client `execute` and the channel, composed with `Server` |
| `Execution` | the abstract specification of `execute`: what its caller may conclude from how it settled |
| `Schema` | `read` of every reader and combinator of the package, as operators |
| `SchemaTravel` | a schema built by the methods of schemas, a value read by it, written as CBOR and read again |
| `Selectors` | the parsers `or`, `and`, `derive` and their matches: `match`, `select`, `prune`; making capabilities |
| `SelectorPaths` | delegations issued, a capability invoked, and any path of matches followed to the owners; `allows` of delegations |
| `Delegations` | a delegation as a view over blocks: `delegate`, `attach`, `view`, `export`, `import`, `archive`, `extract`, CAR files |
| `Messages` | receipts and messages over the same, the codecs that carry them, and the choice between these |
| `Exchange` | client and server handing each other these: delegations with proofs and attachments, a message, its receipts with effects |
| `Arrivals` | how much of the chains in `Exchange` arrives: `Delegation.iterate` and the properties that speak of whole chains, for TLC |
| `MCValidator`, `MCAttenuation`, `MCConnection`, `MCSchema`, `MCSelectors`, `MCExchange` | small instances |
| `SubsequencesProofs`, `CapabilityProofs`, `AttenuationProofs` | the proofs about filters and the algebra |
| `ValidatorProofs`, `VerificationProofs` | the proofs about `Validator`: what is granted, and that what it rests on was verified and the promise of `Access` is kept |
| `CompletenessProofs` | the proof that `Validator` misses no chain there is evidence for |
| `ConnectionProofs` | the proofs about `Connection`: what a handler runs for, and that the promise of `Execution` is kept |
| `ExchangeProofs` | the proofs about `Exchange`: every invocation is answered in its place, and no block is lost either way |

### How `Validator` corresponds to the code

The recursion is the variable `stack`. A frame is a call of `claim` or of `authorize` (which
includes `resolveMatch` and `resolveSources`); its `phase` says which loop of that function it
is in:

| phase | code | actions |
|---|---|---|
| `resolve` | `resolveProofs`, then the alignment loop of `resolveSources` | `ProofResolved`, `ProofUnavailable`, `Align` |
| `validate` | the loop over proofs; `validate`, `verifyAuthorization` | `OutsideWindow`, `CheckSignature`, `ParseThrows`, `OpenSession`, `Select` |
| `keys` | `resolveDIDKey` and the loop over keys | `ResolveDIDKey`, `ResolvedKeyThrows`, `ResolveDIDKeyFails` |
| `search` | the loop over `selection.matches` | `FindRoot`, `ExploreProofs`, `AuthorizeFails`, `SessionFails`, `Deny` |
| `approve` | `validateAuthorization` | `ApproveAccess`, `ApproveSession`, `Disapprove` |

`CallbackThrows`, `ParseThrows` and `ResolvedKeyThrows` are the exceptions nobody catches:
`access` rejects. (`resolve` may throw too, that is caught, and is `ProofUnavailable`.)
Between two steps `Tick` and `Revoke` change the world. `facts` is a history variable: which
delegation was found valid when, and by which session.

`FindRoot` returns from all `authorize` frames at once: between the innermost `return` and the
claim, the code only wraps results. `ResolveDIDKey` tries the list of keys in one step, since
the loop calls nothing of the host. `Align` and `Select` are synchronous in the code.

Data. A UCAN says who issued it to whom, its capabilities, its proofs and which travel with
it, its window, and the key it was signed with: verification compares keys. An ability is the names and slashes
it is made of (a pattern for all under a name ends with a slash and `*`, and `store*` and
`storefront/add` are told apart from `store/*` and what it covers), a resource the tokens a
prefix can cut it at. What a pattern covers is said by `Covers` as the set of all patterns that
cover a given ability or resource (`AbilityPatterns`, `ResourcePatterns`), without the operators
that the parser uses. Readers are taken to give back the caveats a descriptor declares
(`ReadNb`): what they convert is in `Schema`. A caveat is a value whose equality is
that of `!=` in the code: a decoded link is an object, so it equals only the link decoded
from the same block, whereas the schema of an attestation accepts every link to its subject.
What a UCAN says is chosen in `Init` from `Worlds`.

### How `Server` and `Connection` correspond to the code

A call is one `execute` of a client and the message it sends; a run is one invocation of that
message on the server, with a phase for each `await` it may be waiting at:

| phase | code | left by |
|---|---|---|
| `access` | `await access(...)` | `Grant`, `Deny`, and if it throws `Catch` |
| `granted` | the handler is called | `CallHandler` |
| `handling` | `await handler[method](...)` | `HandlerReturns`, `Catch` |
| `issuing` | `await Receipt.issue(...)` | `Issue`; if it throws, `Catch` inside the `try` (`guarded`), `IssueThrows` outside |
| `issued`, `rejected` | the promise of `run` is settled | |

What `run` decides before its first `await` is in `Begin`: a UCAN that does not decode, more or
less than one capability, no handler, another audience. `CatchThrows` is a `server.catch` of
the host that throws itself. `Promise.all` is `Respond` and `Reject`. `Decline` is a status:
415 and 406 from the negotiation of codecs, 400 for a payload that does not decode.

`access` is the interface of the module `Access`: it grants by a chain none of which is
revoked *at that moment*, or refuses, or throws. Which sets of delegations make a chain for an
invocation is a constant (`World`), for `Validator` says how it finds them.

`wire` follows the one request and the one response of a call. Over HTTP both may be damaged
(then nothing in them decodes) and `fetch` may reject at any time (`Break`), while the server
goes on; a status that is not ok makes the channel reject. Called directly, `handle` returns a
response with its status and `codec.decode` throws on it, which `execute` turns into receipts
it signs for nobody (`errors`). A retry is another call with the same invocation.

### How `Schema` and `SchemaTravel` correspond to the code

A schema is a tuple of the name of its reader and of what it is made of; a JavaScript value is a
tuple of its kind and contents, where `undefined`, NaN, bigints beside numbers, and links and
bytes as objects with fields of their own are told apart, for readers do. Strings and keys are
sequences of the tokens a prefix can cut them at; finite numbers are counted in halves. Each `readWith`
of `schema.js` (and of `did.js`, `uri.js`, `link.js`, `text.js`, `principal.js`) is an
operator, and `Read` dispatches. `SchemaTravel` has an action for each method that makes a schema
of a schema (`optional`, `or`, `refine`, `default`, `partial`, `extend`, ...), then `Create` reads an input as
`capability.create` does, `Send` writes it as `cbor.js` does (`Prepare` is its `prepare`; what the
library `@ipld/dag-cbor` does to numbers is `Encodes` and `Decoded`), and `Receive` reads it as
the validator does.

### How `Selectors` and `SelectorPaths` correspond to the code

A parser is a tree of `Unit`, `Or`, `And`, `Derive`, a match a tree of `Match`, `DerivedMatch`,
`AndMatch`, after the classes of `capability.js`; a `Unit` has a rule of derivation, the default or a
custom one, and the constant `Derives` says what the rules are. `MatchOf` is `match` of the
parsers, `Select` is `select` of parsers and matches with the order of the results, `Prune` is
`prune`, `Combine` the function of that name in `util.js`. `SelectorPaths` issues delegations with
`Capability.delegate` or by hand, invokes, and lets `Explore` follow *any* of the matches where
`claim` and `authorize` take them in order: what holds of all paths holds of the one returned.
Windows, signatures, sessions and revocation are in `Validator`, which has one plain parser at a
time. `IterateCapabilities` is `allows` of `core/src/delegation.js`.

### How `Delegations`, `Messages` and `Exchange` correspond to the code

Blocks are content-addressed: a block is a term, a link is the term it addresses, and a view
holds a set of terms. A proof in a view is a view of the same store or `Linked`, as the code has
a delegation or a link; `Proofs` is the getter, which finds them in the store unless the delegation
was built with them. Of the order in which blocks are exported only one thing is ever used, that the
root is the last, so `Export` gives the blocks before it and the root. `ExportSubDAG`, `Export`, `ImportDAG`, `Archive`, `Extract`, `Delegate`, `Attach` are
the functions of those names; `EncodeCAR` and `DecodeCAR` are `car.js`. A message that was
built keeps the objects it was built from (`built`), one that was decoded finds them in its store. In
`Exchange`, `Issue`, `AttachBlock` and `Reload` prepare delegations, `Send` makes a message in the
client's format, `Omit` is somebody sending it without the block of an invocation or the root, `Receive`,
`Refuse`, `Answer` are `handle`, `OmitReply` is another server answering without a receipt in the
report, or without its block or the root, and `Decode` is the client. `Refuse` is every answer that is
no message, with status 415, 406 or 400, for the client's decoder rejects them alike, and what the older client's
own decoder does, which is not in the repository, is left out (`Threw`). `Accept` is the negotiation of
`transport/src/codec.js` with its order of preferences. Answers of handlers are constants; how
they come about is in `Server`.

Some operators marked `mutation:` stand next to definitions they vary, as a plausible slip in
the code would; no behaviour uses them. `PROJECT.json` says which property notices which.

## What is checked

| run | what it asks |
|---|---|
| `chains` | Chains under ticking clock and revocation of any delegation. `GrantsOnlyChains`, `NoEscalation`, `NothingUnverified`, `BackedChainsAreFound`, and `KeepsPromise`: `Validator` implements `Access` |
| `sessions` | Sessions under the same, with throwing callbacks. `TypeOK`, `Coherent`, `NothingUnverified`, `RevokedStaysOut`, `BackedChainsAreFound`, `KeepsPromise` |
| `termination` | Both families of worlds under fairness. `Terminates`, and `SearchDescends`, the reason for it |
| `complete` | Nothing revoked, links available, accounts answered with a list of keys of which one does not parse: `ExploresEveryOption`, access grants iff `Claimable`; `ThrowsForCause`, it throws only where something cannot be parsed, or a local proof read, in what it came across |
| `connection` | Two calls over both channels, with every failure of host, issuer and transport, and revocation: `TypeOK`, `OnlyPermittedEffects`, and `KeepsPromise`: `Connection` implements `Execution` |
| `connection_live` | One call under fairness: `EveryCallSettles`, `EveryRunEnds` |
| `schema` | Every schema of two combinators around each reader, and values at the edges of what they accept: `OutputHasDeclaredType`, `ReadTwiceIsReadOnce`, `ArrivesAsCreated`, `ErrorNamesTheFault` |
| `selectors` | Composed parsers over three proofs and an invocation: `ProvenToTheOwners`, `EveryCombination`, `AccountedFor`, `UnknownCaveatsAreIgnored`, `DelegatedCovers`, `AllowsOverlooksNothing` |
| `messages` | Three delegations, a message of two in both formats, both servers, one block of the request and a receipt, its block or the root of the response possibly missing: `ChainArrives`, `ProofBlocksArrive`, `ReceiptBlocksArrive`, `AttachmentsArrive`, `AnsweredInFull`, `LegacyInOrder`, `Understood` |
| `attenuation` | `ChainCoversClaim`, `EarlierDerivesFromLater` over chains of up to three capabilities |
| `chains_revoked` | a disagreement, see below |
| `chains_unparsable` | a disagreement, see below |

**Bounds.** Worlds of chains have an invocation with two candidate proofs and a root two links
away: enough for a dead end before a valid path, an error beside a success, rewriting twice,
and every order of arrival. They vary issuers, exact and wildcard abilities and resources,
matching and contradicting caveats, expired and early windows, forged signatures, proofs that
travel or are linked, and a key type the parser rejects; where only the second proof leads to
the root and what comes before it fails, a step that gives up too early is seen. Worlds of sessions have a login of
an account and two attestations, each by the authority, a delegate of it, another service or
another account, of the login or of each other, plus the delegation to the delegate and a
local proof of the service. `MaxTime = 1` is one tick: a delegation is valid before it and not
after, or the reverse. `MaxDepth = 3` compares a capability with a value rewritten twice; for
longer chains there is a proof. In `sessions` the keys of an account are a list all of which parse, or one with an
unparsable key between two others; `complete` has one list like the second, and logins that are signed
by a key before the unparsable one, behind it (`LateKeyWorlds`) or by none of them. A local proof may be
without capabilities, beside sessions, which throw for it, and beside signed chains, which
must not.

`complete`, `chains_revoked` and `chains_unparsable` restrict the steps with the action constraint
`Obliging`: every link resolves and `resolveDIDKey` answers, with keys or without, the case `Claimable` describes. Nothing
is revoked in the first and third, and one delegation, before the call, in the second.

A message of two invocations is the least where one run can fail beside another; it is
taken with two different ones, with one of them twice, and with one of every kind that is not
run (`Kinds`). One delegation is enough for a revocation before, between and after the
messages. Two calls are a retry, or a call beside an empty message; calls share only the
revocations, so more of them repeat this. `Codecs` and `Channels` hold all there are.

Two combinators (`MaxSteps`) put every reader inside every combinator inside every other, so each
pair that disagrees about `undefined`, about keys or about conversion meets; inputs are the edges of each reader
and containers of them up to two elements, one level further where an error has a longer path. 2^64 - 1
and the largest safe integer are 5 and 3. Selectors have a proof for each member of a group and one
more behind it, which is where proofs of members mix, custom rules that widen and derive, and
capabilities with wildcards and undeclared caveats. Three delegations are a
proof of a proof, given whole or as a link, and one shared by two; a message of two has two
different invocations or one twice. One missing block decides whether all or none are answered, and so does one
missing receipt, be it a block or an entry of the report.

**Deadlock** is checked but in `attenuation`, `schema`, `selectors` and `messages`, whose behaviours end: a
chain stops at `MaxDepth`, a value has been read, a path has reached the owners or a
dead end, receipts have been decoded. A call that
returned stutters (`Returned`), and so does `Connection` when all calls have settled.

**Fairness.** `Terminates` assumes `WF_vars(Step)`: a call that can go on does. The code awaits
nothing but callbacks of the host and puts no timeout on them, so a host that never answers
blocks a call forever; the assumption is that it answers, in any way, an error or a throw
included. Clock and revocation are not assumed to move. `EveryCallSettles` and `EveryRunEnds` assume
weak fairness of each run on its own (no run waits for another, the callbacks of the host and
the signer return), of putting the answer together, and of the transport of each call: what it
does not lose or damage it delivers. There is no timeout in the code either.

**What `Execution` says.** Each invocation of a message takes effect at most once per call. A
receipt with a refusal means the handler was not called, one with a result that it was;
`HandlerExecutionError` tells neither, and `errors` and a rejection tell nothing: the runs may
be over, under way or never begin. So `execute` is not safe to repeat by itself. An invocation
that stands twice in a batch is run twice and both get the receipt of the first run, which
holds of the second one only by luck: `Tells` speaks of the first.

**Refinements.** `Validator` states `Promise == INSTANCE Access WITH ...` and `Connection` states
`Promise == INSTANCE Execution WITH ...`; both mappings take the variables of the same name and
leave out the inner ones. The runs check `Promise!Spec`, under the name `KeepsPromise`.

**Disagreements found.** The comment of `access` (`lib.js:197-200`) says it explores every
possible option, and answers `Unauthorized` when there is no valid path.

* `chains_revoked`: the host is asked about revocation once `authorize` has found *a* path for
  a match of the claim. If it objects, the next match of the claim is tried, but not another
  path for the same match. A revoked first proof hides a valid second one, and swapping them
  changes the answer.
* `chains_unparsable`: `principal.parse` throws on a did:key of an unknown type, and no one
  catches it; one such proof rejects the whole call even when another makes a valid path.

**What the properties had to leave out.** Each of these is behaviour of the code which a
property would fail on without the condition it states; a reader of the code may be surprised.

* Schema (`Declared`, `Stable`, `Portable`, `Overflow`). `uint64` holds a bigint against 2^64 - 1 but a number
  only against 0. An intersection returns its input, so conversions and defaults of its members are lost. A
  union may read what a later member made by an earlier one. `didBytes` does not read what it
  gives. `partial()` keeps the defaults of fields. `undefined` as an element or under a variant arrives as `null` or not
  at all. `cbor.js` takes an object that stands twice in an array for a circle and throws (`Repeats`).
* Selectors. `resolveMatch` pools the proofs of all members of a group, so a member may be backed by
  a proof that is addressed to the issuer of another member's delegation, and since nothing is added to
  `includes` a proof is read once per member; `ProofsOf` has both. With a group, a source
  that one member matched while another found nothing is in no match, error or unknown (`AccountedFor`
  is for other selectors). `combine([])` throws for an `and()` without members, which is not built. A caveat no
  descriptor declares restricts nothing (`UnknownCaveatsAreIgnored` states it as what is).
* Messages. Attachments of a *proof* are not exported with what it proves (`Attached` is of the root). A proof given
  as a link is a delegation after the journey if its block came along. One invocation whose block is missing makes
  `handle` throw, and one missing receipt fails a batch: `AnsweredInFull` says all or none, and all
when nothing is missing (`Whole`, `ReplyWhole`); `ReceiptBlocksArrive` is about responses that are whole.
  A missing root of an older client's CAR is passed over (`LegacyInOrder` needs `Whole`). `ok` but falsy results
  are errors to older clients. `parseMediaType` counts a missing `q` as 0, so a client that accepts
  `application/vnd.ipld.car, */*;q=0.1` gets the legacy format, although the comment at `legacy.js:21-22`
  says that naming the current format is enough. `Clients` has the two the packages know, which
  send one type, or no header.

## What is proved

By TLAPS, for every value of the constants under the named assumptions of the modules (they
give constants their types: `Worlds` is a set of functions to `UCAN`, and so on):

| theorem | what it says |
|---|---|
| `ValidatorProofs!ChainsOnly` | `Spec => []GrantsOnlyChains` |
| `ValidatorProofs!NothingEscalates` | with `PlainWorlds`, `Spec => []NoEscalation` |
| `ValidatorProofs!RevokedIsOut` | `Spec => RevokedStaysOut` |
| `ValidatorProofs!Descends` | `Spec => []SearchDescends` |
| `ValidatorProofs!TypeCorrect`, `StackCoherent` | the parts of the invariant |
| `ConnectionProofs!OnlyPermitted` | `Spec => []OnlyPermittedEffects` |
| `VerificationProofs!OnlyVerifiedCounts` | `Spec => NothingUnverified` |
| `VerificationProofs!PromiseKept` | `Spec => KeepsPromise`: `Validator` implements `Access` |
| `CompletenessProofs!BackedFound` | `Spec => []BackedChainsAreFound` |
| `CompletenessProofs!EvidenceIsFound` | the same for evidence of any depth: attestations that rest on attestations |
| `ConnectionProofs!PromiseKept` | `Spec => KeepsPromise`: `Connection` implements `Execution` |
| `ConnectionProofs!TypeCorrect` | `Spec => []TypeOK` |
| `ExchangeProofs!EveryInvocationAnswered` | `Spec => []AnsweredInFull` |
| `ExchangeProofs!ResultsInOrder` | `Spec => []LegacyInOrder` |
| `ExchangeProofs!AttachmentsTravel` | `Spec => []AttachmentsArrive` |
| `ExchangeProofs!ProofBlocksTravel` | `Spec => []ProofBlocksArrive` |
| `ExchangeProofs!ReceiptBlocksTravel` | `Spec => []ReceiptBlocksArrive` |
| `CapabilityProofs!SelectsWhatCovers` | `Match.select` keeps exactly the delegated capabilities that cover the claim |
| `CapabilityProofs!UnknownCaveatsDropped` | a caveat that is not declared changes nothing |
| `AttenuationProofs!Attenuates`, `DerivesAlongTheChain`, `TypeCorrect` | the loop of `Match.select`, at any length |
| `SubsequencesProofs!KeepIsFilter`, `KeepMissesNothing` | what a filter keeps of a sequence stands, in order and each place once, at exactly the places whose element is in the set; so it drops no element of the set |

**The inductive invariant.** `GrantsOnlyChains` speaks of the verdict, which is put together in
one step (`FindRoot`) from data of frames far apart, so it is not inductive. `IInv` is `TypeOK`
with `Coherent`: (1) each frame alone (`FrameOK`): the path of an `authorize` frame is a chain
but for its root, its proofs are proofs of the last delegation of that path and, once aligned,
delegate to its issuer, and each match in `todo` continues the path; a chain waiting for
approval is a chain; (2) neighbours (`MayCall`): an `authorize` frame's path is the path below
plus the match the frame below explores; a session holds attestations beside its subject; and
(3) at a distance (`WorksFor`): `Len(path)` frames below an `authorize` frame is the claim it
works for. (3) is what `FindRoot` needs and (2) does not give without induction on the stack.
Each action has a lemma that it preserves `IInv`.

**Permitted effects.** The invariant says of a run in `access` that it is for this service and
of one in `granted` that a chain was free of what had been revoked when its message was
decoded (`RunsPermitted`); this is kept because revocations only grow and a message is decoded
once, before it has runs (`DecodedOnce`). It does not mention the client: what it and the
channel do leaves it untouched.

**Attenuation.** `DefaultDerives` between capabilities as resolved is transitive
(`CapabilityProofs!DerivationTransitive`) when the one in the middle has a `*` at the end or
nowhere, and what `Selects` accepts is a capability that covers the value before it
(`SelectedCovers`). So each value of a chain derives from all later ones, and each delegated
capability covers the claim. The hypothesis, `PlainResource`, is needed: `a**` contains the
pattern `a*`, which contains `ab`, and `a**` does not. `NothingEscalates` carries this from the
loop to chains in `Validator`, through `ChainsOnly`. `SelectsWhatCovers` has both directions: a
capability that covers a value the parser made (`ValueOfDescriptor`: its resource and
caveats are ones the readers accept; `ValuesOfDescriptor` shows that all values are such) is selected for it, also when it leaves out caveats
the claim must have. It is what `DelegatedCovers` says of the members of composed parsers, and
`UnknownCaveatsDropped` what `UnknownCaveatsAreIgnored` says of them. The resource of the delegation must
be one the parser reads, or `ucan:*`: a pattern no reader accepts is malformed.

**What counts as verified.** `NothingUnverified` compares a fact with the history at the moment it
is added. What makes a fact legitimate is said without the operators of the search: the window by its
bounds at the very moment for what its own issuer signed, a key only if none before it in the answer is
unparsable (`Reached`), attestors as principals (`MayAttest`). To be kept, it needs to know of every frame what it relies on. `VInv` is `IInv` with `AllSure`: the
sources a frame took, its matches, its path and a chain up for approval are of delegations that a
fact in the history stands for, and a delegation that a frame validates by keys or a session works
for is one its own issuer's signature cannot settle. Facts are never taken back and the clock only
advances, so a step need only be looked at for what it adds (`SureGrows`). `SessionLegitimate` is the
heart of it: the chain a session approved is a chain about the attestation of its subject, from an
attestor, and each link of it was a fact before the subject becomes one.

**What must be found.** The soundness above would hold of a search that denies everything.
`BackedChainsAreFound` is the other half of what `access` promises: while nothing is revoked it does
not answer `Unauthorized` to a chain whose delegations travel with the one they prove, are in their windows
at every moment of the call so far, and are signed by their issuers or attested beside them by signed
ones. Whatever else is presented, in whatever order links arrive, and whichever links, sessions or keys
fail meanwhile. `EvidenceIsFound` says so of any set `E` of pairs of a delegation and its company (those it is validated
beside) such that each is signed or has a chain of attestations in its company for which `E` speaks again
(`GoodEvidence`); `BackingIsGood` shows that the evidence of `BackedChainsAreFound` is of this kind.

The invariant, `CInv` of `CompletenessProofs`, adds two parts to `VInv`. `NothingMissed` says of every frame, every such `E` and
every supported chain that goes through what the frame explores, that what the frame has left to do leads to
the next link (`Promising`): in `resolve` the company of that link is in the batch already; in `validate`
and `keys` its delegation is ahead or its capabilities are among the sources; in `search` its match is in
`todo`. `GivenAll` says that the first claim was given what was presented, and a session all the
attestations beside its subject, without which evidence for the subject says nothing of the session. A
frame that leaves without a result refutes the chains through it, which is what lets the frame below give up what it was
exploring (`AuthorizeFailsHope`, `SessionFailsHope`). The hypothesis about revocation is needed for `Disapprove`, which gives
up a match after one path of it was revoked, others or not: with nothing revoked it does not happen. `KeepMissesNothing` is needed wherever a filter runs. The invariant is about one
fixed `E`, so the recursion of sessions needs no induction over their depth.

Not in `GoodEvidence`, because the code does not do it: a delegation that only a key of `resolveDIDKey` proves (keys are
tried only if no attestation was put forward, so a failing attestation beside it hides it), a
link that must be resolved (the host may fail), and a call that throws, which is not denied but rejected.
`ExploresEveryOption` covers the first two on the instances of `complete`.

**The refinements.** For `Access`, `VInv` gives that an approved chain is a chain of delegations that
were valid when they were looked at (`GrantStep`); the rest of the steps tick, revoke, refuse or
stutter. For `Execution`, `CInv` of `ConnectionProofs` says how far each process has got in terms of the others: an
outcome of a run agrees with whether its handler was called (`RunsAgree`), an answer is the outcome
of all runs of the message (`AnswersAgree`), and the wire and the client are never ahead of the
server (`WireAgrees`). `ReportTells` is the step in which a client concludes something: of an
invocation that stands twice the report has the first run, so `Tells` holds of it. `TypeOK` is a
part of `CInv`, proved with it.

**Messages.** Receipts are found by the invocation they name, so `EInv` follows the invocations from
what was sent (`RequestTells`) to what the server took for the message (`MessageTells`), to the
receipts and the report of the response (`ResponseTells`) and back (`ResultsTell`). Whatever is left out of
a response, its report names the invocations it has receipts for (`Names`), which is all that `Decode` needs;
that a response with nothing left out is read to the end is `WholeIsRead`. A missing block
shortens the older format (`Keep` of the roots) and makes the current one fail, which is why
`MessageTells` states the order only when `Whole`. `AttachmentsArrive` needs besides that what is
held are views and not links (`HeldTells`), whose blocks are exported, and that the message decoded
from a whole request has all these blocks (`Brought`).

`Behind(root, blocks)` is the least set that has the proofs of the root among the blocks and, with any block,
its proofs among them: what `Delegation.iterate` can reach. Being least it needs no induction over chains.
`exportDAG` is recursive, so `ExportSubDAGOf` shows that there is a least function that satisfies its
equation and that the one in the code satisfies it; any such function exports all that is `Behind`
(`ExportHasBehind`), and whoever has these blocks has them behind the same root (`BehindTravels`).
`ProofBlocksArrive` then needs of a delegation that it holds what its proofs do (`HoldsItsProofs` in
`IsHeld`), which `delegate` establishes because it takes over the export of each of its proofs, and
which views have because they look up proofs in their own store. `ReceiptBlocksArrive` follows the same blocks
once more: receipts hold the invocations as the server decoded them (`ReplyBrings`), the report has one
of the receipts for an invocation (`ReportHas`), and this is about the same delegation the client sent, as no
two that are held have the same root (`SentHolds`).

Each of these invariants was checked by TLC on the instances of the runs before it was proved
(`NothingMissed` for the evidence of `Backing`).

**Only model-checked**: `Terminates` (liveness; its measure `SearchDescends` is proved),
`EveryCallSettles`, `EveryRunEnds` (liveness); `ExploresEveryOption` (its half about chains that need neither links
nor keys is `EvidenceIsFound`) and `ThrowsForCause`, `ChainArrives`,
which runs `Delegation.iterate`, a recursive operator (`ProofBlocksArrive` says of sets of blocks, and
`ReceiptBlocksArrive` of effects as well, what it says of the chains that operator yields), and everything of `schema`
and `selectors`, whose modules are recursive (induction over data is out of the prover's reach, and
so are recursive operators); and `Understood`, which rests on the media types of the two clients
and codecs there are and on a sort, and says nothing for other values of the constants.

## What is not modelled

* Cryptography and encodings of keys: `principal/src/**`, of which only the key type a parser accepts and the
  key a signature is of are in `Validator`. ASN.1 and multiformats are functions of bytes, for
  unit tests with vectors. Text of errors (`error.js`) likewise: only their kinds are modelled.
* The bytes of blocks, CAR and CBOR, beyond which values survive them (`Schema`) and which
  blocks a file holds (`Delegations`); hashes do not collide.
* Composed parsers *inside* the backtracking search: `Validator` has a plain parser, `SelectorPaths` any
  parser and any path. A capability derived from a group rests on several delegations, of which
  `Authorization.iterate` (`authorization.js:43`) shows the host the first; nothing in the
  repository says what a group owes the host, so the hazard is listed without a property.
* A request or a response of which several blocks are missing, or a receipt that another server issued for
  an invocation it was not asked for.
* A failure of `Message.build` or `encode` after all receipts are issued (`server.js:94`, `113`): the call
  fails as it does for a rejected run.
* URL objects as input of the reader of URIs, and the order in which a dictionary finds the first field that
  is refused: any may be the one reported.
* Signatures of receipts, which `execute` does not check. Links of identity hashes, which `DAG.get`
  reads out of the link itself and `exportDAG` does not.
* TypeScript declarations (`interface/`), which have no behaviour; `capability.ts` and `lib.ts`
  are the types of what is modelled.

## Plan

Done: the search (what it grants and what it must find) and its algebra, RPC, both refinements and the exchange of messages with the blocks
behind them, with proofs; schemas, composed parsers and `Delegation.iterate`, by TLC. Left:

1. Lemmas about one level of composed parsers (`Combine`, `PruneGroup`) and of schemas: they need
   the operators in a module without RECURSIVE ones. Whole parsers and schemas need induction.
2. A group match in `Validator`, to state what the host is shown of it.

------------------------------ MODULE Exchange ------------------------------
(***************************************************************************)
(* What travels: a client issues delegations with proofs and attachments,  *)
(* some of which it has got from an archive, invokes some of them in one   *)
(* message, and is sent receipts with effects.  A request or a response    *)
(* may be made by somebody who leaves something out.  That handlers run,   *)
(* and what they answer, is in Server; here an answer is any outcome and   *)
(* any effects.                                                            *)
(***************************************************************************)
EXTENDS Messages

CONSTANTS Links,        \* what a delegation links to, and what is attached to it
          Attachable,   \* blocks to attach later
          Clients,      \* the content type and the accept header they send
          Codecs,       \* what the server may be configured with
          Answers,      \* what handlers return, "ok", "falsy" or "error", and effects
          MaxHeld,      \* how many delegations there are
          Batches       \* which of them are invoked in a message

ASSUME ExchangeAssumption == \A b \in Batches : b \in Seq(1..MaxHeld)

VARIABLES held, batch, client, codec, request, message, response, reply, results

vars == <<held, batch, client, codec, request, message, response, reply, results>>

None == <<"none">>

Init ==
    /\ held = <<>> /\ batch = <<>>
    /\ client \in Clients /\ codec \in Codecs
    /\ request = EncodeCAR(<<>>, {}) /\ message = None /\ reply = None /\ results = None
    /\ response = Build(<<>>, <<>>)

Preparing == batch = <<>>

-----------------------------------------------------------------------------
(* The client.                                                             *)

\* Proofs are given as delegations or as links to them.
Issue ==
    /\ Preparing /\ Len(held) < MaxHeld
    /\ \E given \in SUBSET DOMAIN held, l \in Links : \E inline \in SUBSET given :
          LET proofs == SetToSortSeq(given, <)
              d == Delegate(Len(held) + 1,
                            [k \in DOMAIN proofs |-> IF proofs[k] \in inline THEN held[proofs[k]]
                                                     ELSE Linked(held[proofs[k]].root)],
                            l.links, l.attached)
          IN  /\ held # <<>> => given # {}
              /\ IsOk(d) /\ held' = Append(held, d[2])
    /\ UNCHANGED <<batch, client, codec, request, message, response, reply, results>>

AttachBlock ==
    /\ Preparing /\ held # <<>>
    /\ \E b \in Attachable \ Last(held).blocks :
          /\ CanAttach(Last(held), b)
          /\ held' = [held EXCEPT ![Len(held)] = Attach(@, b)]
    /\ UNCHANGED <<batch, client, codec, request, message, response, reply, results>>

\* The last delegation was handed over in an archive.
Reload ==
    /\ Preparing /\ held # <<>>
    /\ LET d == Extract(Archive(Last(held)))
       IN  IsOk(d) /\ held' = [held EXCEPT ![Len(held)] = d[2]]
    /\ held' # held
    /\ UNCHANGED <<batch, client, codec, request, message, response, reply, results>>

Views == [k \in DOMAIN batch |-> held[batch[k]]]

\* Older clients send a CAR of the invocations, others a message.
Request(views) ==
    IF client.contentType = "application/car" THEN EncodeCAR(Roots(views), ExportAll(views))
                                              ELSE EncodeMessage(Build(views, <<>>))

\* Nothing was left out of the request.
Whole == request = Request(Views)

Send ==
    /\ Preparing
    /\ Len(held) = MaxHeld
    /\ batch' \in Batches
    /\ request' = Request([k \in DOMAIN batch' |-> held[batch'[k]]])
    /\ UNCHANGED <<held, client, codec, message, response, reply, results>>

\* Somebody sends a request without the block of an invocation or its root.
Omit ==
    /\ ~Preparing /\ message = None /\ Whole
    /\ \E b \in ToSet(request.roots \o Roots(Views)) : request' = [request EXCEPT !.blocks = @ \ {b}]
    /\ UNCHANGED <<held, batch, client, codec, message, response, reply, results>>

-----------------------------------------------------------------------------
(* The server: handle.                                                     *)

Accepted == Accept(codec, client.contentType, client.accept)

Receive ==
    /\ ~Preparing /\ message = None /\ IsOk(Accepted)
    /\ message' = IF client.contentType = "application/car" THEN DecodeLegacy(request)
                                                            ELSE DecodeMessage(request)
    /\ UNCHANGED <<held, batch, client, codec, request, response, reply, results>>

\* Not acceptable, or not decoded: there is no message in the response.
Refuse ==
    /\ ~Preparing /\ reply = None
    /\ ~IsOk(Accepted) \/ (message # None /\ ~IsOk(message))
    /\ reply' = Threw
    /\ UNCHANGED <<held, batch, client, codec, request, message, response, results>>

\* A receipt for each invocation, unless one cannot be had: then handle throws.
Answer ==
    /\ message # None /\ IsOk(message) /\ reply = None
    /\ LET found == Invocations(message[2])
       IN  \/ ~IsOk(found) /\ reply' = Threw /\ UNCHANGED response
           \/ /\ IsOk(found)
              /\ \E a \in Answers :
                   response' = Build(<<>>, [i \in DOMAIN found[2] |->
                                   IssueReceipt(found[2][i], a[i].out, a[i].fx, <<>>)])
              /\ reply' = <<Accepted[2], IF Accepted[2] = "car" THEN EncodeMessage(response')
                                                                ELSE EncodeLegacy(response')>>
    /\ UNCHANGED <<held, batch, client, codec, request, message, results>>

Receipted == reply # None /\ reply[1] = "car"

\* Nothing was left out of the response.
ReplyWhole == Receipted /\ reply[2] = EncodeMessage(response)

\* The response to a message that reports all receipts but one.
Unreported(ran) ==
    LET report == response.root[3]
    IN  MessageBlock(response.root[2], [r \in DOMAIN report \ {ran} |-> report[r]])

\* Some other server answers without a receipt, or without its block or the root.
OmitReply ==
    /\ ReplyWhole /\ results = None
    /\ \/ \E b \in {response.root} \cup {r.root : r \in ToSet(response.receipts)} :
              reply' = <<"car", [reply[2] EXCEPT !.blocks = @ \ {b}]>>
       \/ \E ran \in DOMAIN response.root[3] :
              reply' = <<"car", EncodeCAR(<<Unreported(ran)>>, MessageBlocks(response))>>
    /\ UNCHANGED <<held, batch, client, codec, request, message, response, results>>

-----------------------------------------------------------------------------
(* The client again: one receipt that is missing fails them all.           *)

ReceiptsFound(m) ==                          \* mutation: what is missing is passed over
    LET got == [k \in DOMAIN batch |-> Get(m, held[batch[k]].root)]
        had == SelectSeq(got, IsOk)
    IN  Ok([k \in DOMAIN had |-> had[k][2]])

ReceiptsOf(m) ==
    LET got == [k \in DOMAIN batch |-> Get(m, held[batch[k]].root)]
    IN  IF \E k \in DOMAIN got : ~IsOk(got[k]) THEN Threw
        ELSE Ok([k \in DOMAIN got |-> got[k][2]])

Decode ==
    /\ reply # None /\ results = None
    /\ results' = IF reply[1] = "car" /\ client.decodes = "car" THEN
                       LET m == DecodeMessage(reply[2])
                       IN  IF IsOk(m) THEN ReceiptsOf(m[2]) ELSE Threw
                  ELSE Threw
    /\ UNCHANGED <<held, batch, client, codec, request, message, response, reply>>

Next == \/ Issue \/ AttachBlock \/ Reload \/ Send \/ Omit
        \/ Receive \/ Refuse \/ Answer \/ OmitReply \/ Decode

Spec == Init /\ [][Next]_vars

-----------------------------------------------------------------------------
(* Properties.                                                             *)

Attached(v) == AttachedLinks(v.root) \cap v.blocks

Received == message # None /\ IsOk(message) /\ Whole

\* What was attached to a delegation itself survives every way it travels: in an
\* archive, and in a message.
AttachmentsArrive ==
    /\ \A i \in DOMAIN held : Attached(held[i]) \subseteq Extract(Archive(held[i]))[2].blocks
    /\ Received => \A k \in DOMAIN batch : Attached(Views[k]) \subseteq Invocations(message[2])[2][k].blocks

\* Proofs of a block that are among these blocks.
HeldBy(block, blocks) == IF Kind(block) = "ucan" THEN HeldProofs(block, blocks) ELSE {}

\* The proofs of a block among these, their proofs, and so on: what every set
\* has that has the first of them and with each block its proofs.
Behind(root, blocks) ==
    LET first   == HeldBy(root, blocks)
        anyones == first \cup UNION {HeldBy(b, blocks) : b \in blocks}
    IN  {b \in anyones : \A S \in SUBSET anyones :
                            first \subseteq S /\ (\A c \in S : HeldBy(c, blocks) \subseteq S) => b \in S}

HoldsItsProofs(v) ==
    \A k \in DOMAIN Proofs(v) :
        LET proof == Proofs(v)[k]
        IN  ~proof.linked =>
                {proof.root} \cup Behind(proof.root, proof.blocks) \subseteq Behind(v.root, v.blocks)

\* No block of a proof is lost that one had: a delegation holds what the proofs
\* it was given as delegations hold behind them, and all that it holds behind it
\* is in its archive, its export, and what the server makes of a request.  What is
\* held changes no more when a message was sent.
ProofBlocksArrive ==
    /\ Preparing => \A i \in DOMAIN held :
          LET v    == held[i]
              mine == Behind(v.root, v.blocks)
          IN  /\ HoldsItsProofs(v)
              /\ mine \subseteq Behind(v.root, Extract(Archive(v))[2].blocks)
              /\ mine \subseteq Behind(v.root, ImportDAG(Export(v)).blocks)
    /\ Received =>
          \A k \in DOMAIN batch :
              Behind(Views[k].root, Views[k].blocks)
                  \subseteq Behind(Views[k].root, Invocations(message[2])[2][k].blocks)

\* In a receipt for the k-th invocation is what was behind it when it was sent,
\* and what is behind each effect in the receipt that was issued.
BringsBack(k, r) ==
    /\ Whole => /\ ~r.ran.linked
                /\ Behind(Views[k].root, Views[k].blocks) \subseteq Behind(Views[k].root, r.ran.blocks)
    /\ \E sent \in ToSet(response.receipts) :
          /\ sent.root = r.root
          /\ \A i \in DOMAIN Fx(sent) :
                LET effect == Fx(sent)[i]
                IN  ~effect.linked =>
                        /\ ~Fx(r)[i].linked
                        /\ Behind(effect.root, effect.blocks) \subseteq Behind(effect.root, Fx(r)[i].blocks)

\* Nor is one lost on the way back: what the client gets brings back the blocks
\* behind the invocations as it had sent them and behind the effects.
ReceiptBlocksArrive ==
    results # None /\ IsOk(results) /\ ReplyWhole => \A k \in DOMAIN batch : BringsBack(k, results[2][k])

\* All invocations of a message are answered or none is, also when a block of it
\* is missing, and the client has a receipt for each or for none, also when the
\* response lacks one: no receipt is about another invocation than the one in its
\* place.  It has them all when nothing was left out.
AnsweredInFull ==
    /\ reply # None /\ reply # Threw =>
          [i \in DOMAIN response.receipts |-> response.receipts[i].ran.root]
              = (IF message[2].built THEN Roots(message[2].invocations) ELSE message[2].root[2])
    /\ results # None /\ IsOk(results) =>
          [k \in DOMAIN results[2] |-> results[2][k].ran.root] = Roots(Views)
    /\ results # None /\ Whole /\ ReplyWhole /\ client.decodes = "car" => IsOk(results)

\* An older client, which knows results by their position only, gets one for
\* each invocation, in order, also when it sent the same one twice; not so when
\* the block of one is missing, which is passed over as a root of the CAR.
LegacyInOrder ==
    reply # None /\ reply[1] = "legacy" /\ Whole =>
        /\ Len(reply[2]) = Len(batch)
        /\ \A k \in DOMAIN batch :
              reply[2][k] = "ok" <=> response.receipts[k].root[3] = "ok"

\* What the client is sent it can decode: receipts, whenever there are some.
Understood ==
    reply # None /\ reply # Threw => reply[1] = client.decodes

=============================================================================

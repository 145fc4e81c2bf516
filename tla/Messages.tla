------------------------------ MODULE Messages ------------------------------
(***************************************************************************)
(* Receipts and messages of @ucanto/core and the codecs that carry them    *)
(* (receipt.js, message.js, transport).  Each is a root block and a store; *)
(* what was built remembers the objects it was built from, and what was    *)
(* decoded finds them in the store when they are asked for.                *)
(***************************************************************************)
EXTENDS Delegations

-----------------------------------------------------------------------------
(* Receipts.                                                               *)

ReceiptBlock(ran, out, fx, prf) == <<"receipt", ran, out, fx, prf>>

Roots(views) == [i \in DOMAIN views |-> views[i].root]

\* Receipt.issue; fx is the forks and the join.
IssueReceipt(ran, out, fx, prf) ==
    LET root == ReceiptBlock(ran.root, out, Roots(fx), Roots(prf))
    IN  [root |-> root, ran |-> ran, proofs |-> prf,
         store |-> {root} \cup ExportIfView(ran) \cup ExportAll(fx) \cup ExportAll(prf)]

\* Receipt.view.
ReceiptView(root, store) ==
    IF root \notin store THEN Threw
    ELSE Ok([root |-> root, store |-> store, ran |-> ViewOrLink(root[2], store),
             proofs |-> [i \in DOMAIN root[5] |-> ViewOrLink(root[5][i], store)]])

\* The effects are found in the store by built receipts as well.
Fx(r) == [i \in DOMAIN r.root[4] |-> ViewOrLink(r.root[4][i], r.store)]

ReceiptBlocksBare(r) ==                      \* mutation: effects are not sent
    ExportIfView(r.ran) \cup ExportAll(r.proofs) \cup {r.root}

ReceiptBlocks(r) ==
    ExportIfView(r.ran) \cup ExportAll(Fx(r)) \cup ExportAll(r.proofs) \cup {r.root}

-----------------------------------------------------------------------------
(* Messages.                                                               *)

MessageBlock(execute, report) == <<"message", execute, report>>

WrittenOnce(receipts) ==                     \* mutation: one receipt for each invocation
    LET First(i) == \A j \in 1..(i - 1) : receipts[j].ran.root # receipts[i].ran.root
    IN  LET kept == SetToSortSeq({i \in DOMAIN receipts : First(i)}, <)
        IN  [k \in DOMAIN kept |-> receipts[kept[k]]]

\* The receipts of a built message, in order: a second one for an invocation
\* has a key of its own and is kept, for codecs that send a list.
Written(receipts) == receipts

\* The report has the first receipt of each invocation.
ReportOf(receipts) ==
    [ran \in {r.ran.root : r \in ToSet(receipts)} |->
        receipts[Min({i \in DOMAIN receipts : receipts[i].ran.root = ran})].root]

\* Message.build.
Build(invocations, receipts) ==
    LET root == MessageBlock(Roots(invocations), ReportOf(receipts))
    IN  [root |-> root, built |-> TRUE, invocations |-> invocations, receipts |-> Written(receipts),
         store |-> {root} \cup ExportAll(invocations)
                     \cup UNION {ReceiptBlocks(r) : r \in ToSet(receipts)}]

\* Message.view: MessageSchema asks no more of the block than its shape.
MessageView(root, store) ==
    IF root \in store /\ Kind(root) = "message"
    THEN Ok([root |-> root, built |-> FALSE, invocations |-> <<>>, receipts |-> <<>>, store |-> store])
    ELSE Threw

InvocationsFound(m) ==                       \* mutation: what is missing is left out
    LET found == Keep(m.root[2], m.store)
    IN  Ok(IF m.built THEN m.invocations ELSE [i \in DOMAIN found |-> View(found[i], m.store)])

\* The getter throws when the block of any of them is missing.
Invocations(m) ==
    CASE m.built -> Ok(m.invocations)
      [] ~m.built /\ ToSet(m.root[2]) \subseteq m.store ->
             Ok([i \in DOMAIN m.root[2] |-> View(m.root[2][i], m.store)])
      [] OTHER -> Threw

\* Message.get.
Get(m, ran) == IF ran \in DOMAIN m.root[3] THEN ReceiptView(m.root[3][ran], m.store) ELSE Threw

\* iterateIPLDBlocks of a built message.
MessageBlocks(m) ==
    {m.root} \cup ExportAll(m.invocations) \cup UNION {ReceiptBlocks(r) : r \in ToSet(m.receipts)}

-----------------------------------------------------------------------------
(* Codecs: the CAR format both ways, and the formats of older clients.     *)

EncodeMessage(m) == EncodeCAR(<<m.root>>, MessageBlocks(m))

DecodeMessage(car) ==
    IF DecodeCAR(car).roots = <<>> THEN Threw
    ELSE MessageView(DecodeCAR(car).roots[1], car.blocks)

\* An older client sends the invocations as the roots.
DecodeLegacy(car) ==
    LET roots == DecodeCAR(car).roots
    IN  IF \E i \in DOMAIN roots : Kind(roots[i]) # "ucan" THEN Threw
        ELSE Ok(Build([i \in DOMAIN roots |-> View(roots[i], car.blocks)], <<>>))

\* ... and is sent a list of results.  What is ok but falsy looks like an error.
EncodeLegacy(m) == [i \in DOMAIN m.receipts |-> IF m.receipts[i].root[3] = "ok" THEN "ok" ELSE "error"]

-----------------------------------------------------------------------------
(* Negotiation.  A media range is [category, type, q], q in tenths.        *)

Media(category, type, q) == [category |-> category, type |-> type, q |-> q]

Ascending(medias) ==                         \* mutation: sorted the other way
    LET qs == SetToSortSeq({medias[i].q : i \in DOMAIN medias}, <)
    IN  FlattenSeq([k \in DOMAIN qs |-> SelectSeq(medias, LAMBDA m : m.q = qs[k])])

\* The most preferred first, in their order otherwise.  Without q it is 0.
ByPreference(medias) ==
    LET qs == SetToSortSeq({medias[i].q : i \in DOMAIN medias}, >)
    IN  FlattenSeq([k \in DOMAIN qs |-> SelectSeq(medias, LAMBDA m : m.q = qs[k])])

Fits(accepted, encoder) ==
    /\ accepted.category \in {"*", encoder.category}
    /\ accepted.type \in {"*", encoder.type}

\* Inbound.accept: the status, or the encoder of the first pair that fits.
Accept(codec, contentType, accept) ==
    LET wanted   == ByPreference(accept)
        encoders == ByPreference(codec.encoders)
        pairs    == FlattenSeq([i \in DOMAIN wanted |->
                        [j \in DOMAIN encoders |-> <<wanted[i], encoders[j]>>]])
        fitting  == SelectSeq(pairs, LAMBDA p : Fits(p[1], p[2]))
    IN  IF contentType \notin DOMAIN codec.decoders THEN <<"415">>
        ELSE IF fitting = <<>> THEN <<"406">>
        ELSE Ok(Head(fitting)[2].encoder)

=============================================================================

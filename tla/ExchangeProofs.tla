--------------------------- MODULE ExchangeProofs ---------------------------
(***************************************************************************)
(* Every invocation of a message is answered in its place or none is, and  *)
(* an older client gets its results in order, and no block of a proof that *)
(* somebody held is lost on the way to the server or back, for all         *)
(* delegations, messages, clients, codecs and answers.                     *)
(*                                                                         *)
(* Receipts are found by the invocation they are for, so the invariant     *)
(* follows the invocations from what was sent to what the server took for  *)
(* the message, from there to the receipts and to the report of the        *)
(* response, and with it back to the client.                               *)
(***************************************************************************)
EXTENDS Exchange, SubsequencesProofs

\* The invocations a message asks for.
Asks(m) == IF m.built THEN Roots(m.invocations) ELSE m.root[2]

\* A receipt names the invocation it was issued for.
NamesRan(r) == r.root[2] = r.ran.root

Ran(receipts) == [i \in DOMAIN receipts |-> receipts[i].ran.root]

Quiet == Preparing => message = None /\ reply = None /\ results = None

RequestTells ==
    /\ batch \in Seq(1..MaxHeld)
    /\ ~Preparing => request.roots = Request(Views).roots

MessageTells ==
    message # None /\ IsOk(message) =>
        /\ message[2].built \in BOOLEAN
        /\ Asks(message[2]) \in Seq(ToSet(Roots(Views)))
        /\ Whole => Asks(message[2]) = Roots(Views)

\* A file with one root, whose report has under an invocation a receipt that
\* names it.
Names(car) ==
    \E root : car.roots = <<root>> /\ \A ran \in DOMAIN root[3] : root[3][ran][2] = ran

ResponseTells ==
    reply # None /\ reply # Threw =>
        /\ message # None /\ IsOk(message)
        /\ Ran(response.receipts) = Asks(message[2])
        /\ \A i \in DOMAIN response.receipts : NamesRan(response.receipts[i])
        /\ Kind(response.root) = "message"
        /\ response.root[3] = ReportOf(response.receipts)
        /\ reply[1] = "car" => Names(reply[2])
        /\ reply[1] = "legacy" => reply[2] = EncodeLegacy(response)

ResultsTell ==
    results # None /\ IsOk(results) => Ran(results[2]) = Roots(Views)

EInv == Quiet /\ RequestTells /\ MessageTells /\ ResponseTells /\ ResultsTell

-----------------------------------------------------------------------------
(* What the codecs and the views give back.                                *)

\* Of a list of invocations, decoding the older format keeps those whose block
\* is there, in their order.
LEMMA LegacyDecoded ==
    ASSUME NEW car, NEW A, car.roots \in Seq(A), IsOk(DecodeLegacy(car))
    PROVE  /\ DecodeLegacy(car)[2].built = TRUE
           /\ Asks(DecodeLegacy(car)[2]) = Keep(car.roots, car.blocks)
<1> DEFINE roots == Keep(car.roots, car.blocks)
           views == [i \in DOMAIN roots |-> View(roots[i], car.blocks)]
<1>1. roots \in Seq(A)
  BY KeepElements
<1>2. DecodeCAR(car).roots = roots
  BY DEF DecodeCAR
<1>3. DecodeLegacy(car) = Ok(Build(views, <<>>))
  BY <1>2 DEF DecodeLegacy, IsOk, Threw
<1>4. /\ Build(views, <<>>).built = TRUE
      /\ Build(views, <<>>).invocations = views
  BY DEF Build
<1>5. Roots(views) = roots
  <2>1. \A i \in DOMAIN roots : View(roots[i], car.blocks).root = roots[i]
    BY DEF View
  <2>2. Roots(views) = [i \in DOMAIN roots |-> roots[i]]
    BY <2>1 DEF Roots
  <2> QED BY <1>1, <2>2
<1> QED BY <1>3, <1>4, <1>5 DEF Ok, Asks

\* A message decoded from a file with one root has that root.
LEMMA MessageDecoded ==
    ASSUME NEW car, NEW root, car.roots = <<root>>, IsOk(DecodeMessage(car))
    PROVE  /\ DecodeMessage(car)[2].built = FALSE
           /\ DecodeMessage(car)[2].root = root
<1> DEFINE roots == Keep(car.roots, car.blocks)
<1>1. car.roots \in Seq({root})
  OBVIOUS
<1>2. roots \in Seq({root})
  BY <1>1, KeepElements
<1>3. DecodeCAR(car).roots = roots
  BY DEF DecodeCAR
<1>4. roots # <<>> /\ DecodeMessage(car) = MessageView(roots[1], car.blocks)
  BY <1>3 DEF DecodeMessage, IsOk, Threw
<1>5. roots[1] = root
  <2> HIDE DEF roots
  <2>1. 1 \in 1..Len(roots)
    BY <1>2, <1>4
  <2> QED BY <1>2, <2>1
<1> QED BY <1>4, <1>5 DEF MessageView, IsOk, Ok, Threw

\* The getter has every invocation a message asks for, in its place.
LEMMA FoundInPlace ==
    ASSUME NEW m, NEW A, m.built \in BOOLEAN, Asks(m) \in Seq(A), IsOk(Invocations(m))
    PROVE  Roots(Invocations(m)[2]) = Asks(m)
<1>1. CASE m.built
  <2>1. Invocations(m) = Ok(m.invocations)
    BY <1>1 DEF Invocations
  <2>2. Invocations(m)[2] = m.invocations
    BY <2>1 DEF Ok
  <2> QED BY <1>1, <2>2 DEF Asks
<1>2. CASE ~m.built
  <2> DEFINE views == [i \in DOMAIN m.root[2] |-> View(m.root[2][i], m.store)]
  <2>1. Invocations(m) = Ok(views)
    BY <1>2 DEF Invocations, IsOk, Threw
  <2>2. \A i \in DOMAIN m.root[2] : views[i].root = m.root[2][i]
    BY DEF View
  <2>3. Roots(views) = [i \in DOMAIN m.root[2] |-> m.root[2][i]]
    BY <2>2 DEF Roots
  <2> QED BY <1>2, <2>1, <2>3 DEF Asks, Ok
<1> QED BY <1>1, <1>2

\* The report has under an invocation a receipt that names it.
LEMMA ReportNames ==
    ASSUME NEW receipts, DOMAIN receipts \subseteq Nat,
           \A i \in DOMAIN receipts : NamesRan(receipts[i])
    PROVE  \A ran \in DOMAIN ReportOf(receipts) : ReportOf(receipts)[ran][2] = ran
<1> TAKE ran \in DOMAIN ReportOf(receipts)
<1> DEFINE places == {i \in DOMAIN receipts : receipts[i].ran.root = ran}
<1>1. places # {} /\ places \subseteq Nat
  BY DEF ReportOf, ToSet
<1>2. Min(places) \in places
  <2>1. \E x \in places : \A y \in places : x <= y
    <3> HIDE DEF places
    <3> QED BY <1>1, LeastElement
  <2> QED BY <2>1 DEF Min
<1>3. ReportOf(receipts)[ran] = receipts[Min(places)].root
  BY DEF ReportOf
<1> QED BY <1>2, <1>3 DEF NamesRan

\* The report has under an invocation one of the receipts for it.
LEMMA ReportHas ==
    ASSUME NEW receipts, DOMAIN receipts \subseteq Nat, NEW ran \in DOMAIN ReportOf(receipts)
    PROVE  \E j \in DOMAIN receipts : /\ receipts[j].ran.root = ran
                                      /\ ReportOf(receipts)[ran] = receipts[j].root
<1> DEFINE places == {i \in DOMAIN receipts : receipts[i].ran.root = ran}
<1>1. places # {} /\ places \subseteq Nat
  BY DEF ReportOf, ToSet
<1>2. Min(places) \in places
  <2>1. \E x \in places : \A y \in places : x <= y
    <3> HIDE DEF places
    <3> QED BY <1>1, LeastElement
  <2> QED BY <2>1 DEF Min
<1>3. ReportOf(receipts)[ran] = receipts[Min(places)].root
  BY DEF ReportOf
<1> QED BY <1>2, <1>3

\* A receipt that is found is about the invocation it names.
LEMMA GetNames ==
    ASSUME NEW m, NEW ran, IsOk(Get(m, ran))
    PROVE  /\ ran \in DOMAIN m.root[3]
           /\ Get(m, ran)[2].ran.root = m.root[3][ran][2]
<1>1. ran \in DOMAIN m.root[3] /\ Get(m, ran) = ReceiptView(m.root[3][ran], m.store)
  BY DEF Get, IsOk, Threw
<1> DEFINE root == m.root[3][ran]
<1>2. ReceiptView(root, m.store) =
          Ok([root |-> root, store |-> m.store, ran |-> ViewOrLink(root[2], m.store),
              proofs |-> [i \in DOMAIN root[5] |-> ViewOrLink(root[5][i], m.store)]])
  BY <1>1 DEF ReceiptView, IsOk, Threw
<1>3. ViewOrLink(root[2], m.store).root = root[2]
  BY DEF ViewOrLink, View, Linked
<1> QED BY <1>1, <1>2, <1>3 DEF Ok

-----------------------------------------------------------------------------
(* The invariant.                                                          *)

LEMMA InitEInv == Init => EInv
<1> SUFFICES ASSUME Init PROVE EInv
  OBVIOUS
<1>1. batch = <<>> /\ message = None /\ reply = None /\ results = None
  BY DEF Init
<1>2. batch \in Seq(1..MaxHeld)
  BY <1>1
<1> QED BY <1>1, <1>2 DEF EInv, Quiet, Preparing, RequestTells, MessageTells, ResponseTells, ResultsTell

\* What is sent is the list of the invocations, or a message with it.
LEMMA SentRoots ==
    ASSUME NEW views
    PROVE  Request(views).roots = Roots(views) \/
           Request(views).roots = <<MessageBlock(Roots(views), ReportOf(<<>>))>>
BY DEF Request, EncodeCAR, EncodeMessage, Build, Written

LEMMA ViewsListed ==
    ASSUME EInv
    PROVE  /\ DOMAIN Roots(Views) = 1..Len(batch)
           /\ Len(batch) \in Nat
           /\ Roots(Views) \in Seq(ToSet(Roots(Views)))
<1>1. batch \in Seq(1..MaxHeld)
  BY DEF EInv, RequestTells
<1>2. Len(batch) \in Nat /\ DOMAIN batch = 1..Len(batch)
  BY <1>1
<1>3. Roots(Views) = [k \in 1..Len(batch) |-> held[batch[k]].root]
  BY <1>2 DEF Roots, Views
<1>4. \A k \in 1..Len(batch) : held[batch[k]].root \in ToSet(Roots(Views))
  BY <1>3 DEF ToSet
<1>5. \A R : Roots(Views) = R => R \in [1..Len(batch) -> ToSet(Roots(Views))]
  BY <1>3, <1>4
<1> QED BY <1>2, <1>3, <1>5

\* Nothing that is prepared can be seen by the server or by the client yet.
LEMMA Prepared ==
    ASSUME EInv, Preparing, UNCHANGED <<message, reply, results>>,
           batch' \in Seq(1..MaxHeld),
           Preparing' \/ request'.roots = Request(Views)'.roots
    PROVE  EInv'
<1>1. message' = None /\ reply' = None /\ results' = None
  BY DEF EInv, Quiet
<1> QED BY <1>1 DEF EInv, Quiet, RequestTells, MessageTells, ResponseTells, ResultsTell

LEMMA SendKeeps ==
    ASSUME EInv, Send
    PROVE  EInv'
<1>1. Preparing /\ UNCHANGED <<message, reply, results>>
  BY DEF Send
<1>2. batch' \in Seq(1..MaxHeld)
  BY ExchangeAssumption DEF Send
<1>3. Request(Views)' = Request([k \in DOMAIN batch' |-> held[batch'[k]]])
  BY DEF Send, Views, Request
<1>4. request'.roots = Request(Views)'.roots
  BY <1>3 DEF Send
<1> QED BY <1>1, <1>2, <1>4, Prepared

\* A block that is left out is one less in the store: the roots still tell.
LEMMA OmitKeeps ==
    ASSUME EInv, Omit
    PROVE  EInv'
<1>1. /\ ~Preparing /\ message = None
      /\ UNCHANGED <<held, batch, client, codec, message, response, reply, results>>
  BY DEF Omit
<1>2. request'.roots = request.roots
  <2>1. PICK b \in ToSet(request.roots \o Roots(Views)) :
            request' = [request EXCEPT !.blocks = @ \ {b}]
    BY DEF Omit
  <2>2. request = Request(Views)
    BY DEF Omit, Whole
  <2>3. "roots" \in DOMAIN request
    BY <2>2 DEF Request, EncodeMessage, EncodeCAR
  <2> QED BY <2>1, <2>3
<1>3. Request(Views)' = Request(Views)
  BY <1>1 DEF Request, Views
<1>4. Roots(Views)' = Roots(Views)
  BY <1>1 DEF Roots, Views
<1>5. Quiet' /\ RequestTells'
  BY <1>1, <1>2, <1>3 DEF EInv, Quiet, Preparing, RequestTells
<1>6. MessageTells'
  BY <1>1 DEF MessageTells
<1>7. ResponseTells'
  BY <1>1 DEF EInv, ResponseTells
<1>8. ResultsTell'
  BY <1>1, <1>4 DEF EInv, ResultsTell
<1> QED BY <1>5, <1>6, <1>7, <1>8 DEF EInv

\* Whatever is taken for a message asks for invocations that were sent, and when
\* nothing was left out for all of them in their order.
LEMMA ReceivedTells ==
    ASSUME EInv, ~Preparing, NEW m,
           m = IF client.contentType = "application/car" THEN DecodeLegacy(request)
                                                         ELSE DecodeMessage(request),
           IsOk(m)
    PROVE  /\ m[2].built \in BOOLEAN
           /\ Asks(m[2]) \in Seq(ToSet(Roots(Views)))
           /\ Whole => Asks(m[2]) = Roots(Views)
<1> DEFINE A == ToSet(Roots(Views))
<1>1. request.roots = Request(Views).roots
  BY DEF EInv, RequestTells
<1>2. Roots(Views) \in Seq(A)
  BY ViewsListed
<1>3. CASE client.contentType = "application/car"
  <2>1. request.roots = Roots(Views)
    BY <1>1, <1>3 DEF Request, EncodeCAR
  <2>2. m = DecodeLegacy(request)
    BY <1>3
  <2>3. m[2].built = TRUE /\ Asks(m[2]) = Keep(request.roots, request.blocks)
    BY <1>2, <2>1, <2>2, LegacyDecoded
  <2>4. Asks(m[2]) \in Seq(A)
    BY <1>2, <2>1, <2>3, KeepElements
  <2>5. ASSUME Whole
        PROVE  Asks(m[2]) = Roots(Views)
    <3>1. request.blocks = ExportAll(Views) \cup ToSet(Roots(Views))
      BY <1>3, <2>5 DEF Whole, Request, EncodeCAR
    <3>2. \A i \in DOMAIN Roots(Views) : Roots(Views)[i] \in request.blocks
      BY <3>1 DEF ToSet
    <3> QED BY <1>2, <2>1, <2>3, <3>2, KeepAll
  <2> QED BY <2>3, <2>4, <2>5
<1>4. CASE client.contentType # "application/car"
  <2> DEFINE root == MessageBlock(Roots(Views), ReportOf(<<>>))
  <2>1. request.roots = <<root>>
    BY <1>1, <1>4 DEF Request, EncodeMessage, EncodeCAR, Build, Written
  <2>2. m = DecodeMessage(request)
    BY <1>4
  <2>3. m[2].built = FALSE /\ m[2].root = root
    BY <2>1, <2>2, MessageDecoded
  <2>4. root[2] = Roots(Views)
    BY DEF MessageBlock
  <2>5. Asks(m[2]) = Roots(Views)
    BY <2>3, <2>4 DEF Asks
  <2> QED BY <1>2, <2>3, <2>5
<1> QED BY <1>3, <1>4

\* A step that leaves what was sent leaves what it tells.
LEMMA SentStays ==
    ASSUME UNCHANGED <<held, batch, client, request>>
    PROVE  /\ Roots(Views)' = Roots(Views)
           /\ Request(Views)' = Request(Views)
           /\ Whole' = Whole
           /\ Preparing' = Preparing
<1>1. Roots(Views)' = Roots(Views)
  BY DEF Roots, Views
<1>2. Request(Views)' = Request(Views)
  BY DEF Request, Views
<1>3. Whole' = Whole
  BY <1>2 DEF Whole
<1> QED BY <1>1, <1>2, <1>3 DEF Preparing

LEMMA ReceiveKeeps ==
    ASSUME EInv, Receive
    PROVE  EInv'
<1>1. /\ ~Preparing /\ message = None
      /\ UNCHANGED <<held, batch, client, codec, request, response, reply, results>>
      /\ message' = IF client.contentType = "application/car" THEN DecodeLegacy(request)
                                                              ELSE DecodeMessage(request)
  BY DEF Receive
<1>2. /\ Roots(Views)' = Roots(Views)
      /\ Request(Views)' = Request(Views)
      /\ Whole' = Whole
      /\ Preparing' = Preparing
  BY <1>1, SentStays
<1>3. Quiet' /\ RequestTells'
  BY <1>1, <1>2 DEF EInv, Quiet, RequestTells
<1>4. MessageTells'
  <2> SUFFICES ASSUME IsOk(message')
               PROVE  /\ message'[2].built \in BOOLEAN
                      /\ Asks(message'[2]) \in Seq(ToSet(Roots(Views)))
                      /\ Whole => Asks(message'[2]) = Roots(Views)
    BY <1>2 DEF MessageTells, Asks, IsOk, ToSet
  <2> QED BY <1>1, ReceivedTells
<1>5. ResponseTells'
  BY <1>1 DEF EInv, ResponseTells
<1>6. ResultsTell'
  BY <1>1, <1>2 DEF EInv, ResultsTell
<1> QED BY <1>3, <1>4, <1>5, <1>6 DEF EInv

LEMMA RefuseKeeps ==
    ASSUME EInv, Refuse
    PROVE  EInv'
<1>1. /\ ~Preparing /\ reply' = Threw
      /\ UNCHANGED <<held, batch, client, codec, request, message, response, results>>
  BY DEF Refuse
<1>2. /\ Roots(Views)' = Roots(Views)
      /\ Request(Views)' = Request(Views)
      /\ Whole' = Whole
      /\ Preparing' = Preparing
  BY <1>1, SentStays
<1>3. Quiet' /\ RequestTells'
  BY <1>1, <1>2 DEF EInv, Quiet, RequestTells
<1>4. MessageTells'
  BY <1>1, <1>2 DEF EInv, MessageTells, Asks, IsOk, ToSet
<1>5. ResponseTells'
  BY <1>1 DEF ResponseTells
<1>6. ResultsTell'
  BY <1>1, <1>2 DEF EInv, ResultsTell
<1> QED BY <1>3, <1>4, <1>5, <1>6 DEF EInv

\* Receipts issued for a list of invocations, whatever the handlers answer.
LEMMA ReceiptsIssued ==
    ASSUME NEW views, NEW a, NEW receipts,
           receipts = [i \in DOMAIN views |-> IssueReceipt(views[i], a[i].out, a[i].fx, <<>>)]
    PROVE  /\ Build(<<>>, receipts).receipts = receipts
           /\ Kind(Build(<<>>, receipts).root) = "message"
           /\ Build(<<>>, receipts).root[3] = ReportOf(receipts)
           /\ Ran(receipts) = Roots(views)
           /\ \A i \in DOMAIN receipts : NamesRan(receipts[i])
<1>1. \A i \in DOMAIN views : /\ receipts[i].ran = views[i]
                              /\ receipts[i].root[2] = views[i].root
  BY DEF IssueReceipt, ReceiptBlock
<1>2. DOMAIN receipts = DOMAIN views
  OBVIOUS
<1>3. Ran(receipts) = Roots(views)
  BY <1>1, <1>2 DEF Ran, Roots
<1>4. \A i \in DOMAIN receipts : NamesRan(receipts[i])
  BY <1>1, <1>2 DEF NamesRan
<1> QED BY <1>3, <1>4 DEF Build, Written, MessageBlock, Kind

LEMMA AnswerKeeps ==
    ASSUME EInv, Answer
    PROVE  EInv'
<1> DEFINE found == Invocations(message[2])
<1>1. /\ message # None /\ IsOk(message) /\ ~Preparing
      /\ UNCHANGED <<held, batch, client, codec, request, message, results>>
  BY DEF Answer, EInv, Quiet
<1>2. /\ Roots(Views)' = Roots(Views)
      /\ Request(Views)' = Request(Views)
      /\ Whole' = Whole
      /\ Preparing' = Preparing
  BY <1>1, SentStays
<1>3. Quiet' /\ RequestTells'
  BY <1>1, <1>2 DEF EInv, Quiet, RequestTells
<1>4. MessageTells'
  BY <1>1, <1>2 DEF EInv, MessageTells, Asks, IsOk, ToSet
<1>5. ResponseTells'
  <2>1. CASE reply' = Threw
    BY <2>1 DEF ResponseTells
  <2>2. CASE reply' # Threw
    <3>1. IsOk(found)
      BY <2>2 DEF Answer
    <3>2. PICK a \in Answers :
              response' = Build(<<>>, [i \in DOMAIN found[2] |->
                              IssueReceipt(found[2][i], a[i].out, a[i].fx, <<>>)])
      BY <2>2 DEF Answer
    <3>3. reply' = <<Accepted[2], IF Accepted[2] = "car" THEN EncodeMessage(response')
                                                         ELSE EncodeLegacy(response')>>
      BY <2>2 DEF Answer
    <3> DEFINE receipts == [i \in DOMAIN found[2] |->
                               IssueReceipt(found[2][i], a[i].out, a[i].fx, <<>>)]
    <3>4. /\ response'.receipts = receipts
          /\ Kind(response'.root) = "message"
          /\ response'.root[3] = ReportOf(receipts)
          /\ Ran(receipts) = Roots(found[2])
          /\ \A i \in DOMAIN receipts : NamesRan(receipts[i])
      <4> HIDE DEF found
      <4> QED BY <3>2, ReceiptsIssued
    <3>5. Roots(found[2]) = Asks(message[2])
      BY <1>1, <3>1, FoundInPlace DEF EInv, MessageTells
    <3>6. reply'[1] = "car" => Names(reply'[2])
      <4>1. DOMAIN receipts \subseteq Nat
        <5>1. Roots(found[2]) \in Seq(ToSet(Roots(Views)))
          BY <1>1, <3>5 DEF EInv, MessageTells
        <5>2. DOMAIN Roots(found[2]) = 1..Len(Roots(found[2]))
          BY <5>1
        <5>3. DOMAIN Roots(found[2]) = DOMAIN receipts
          BY DEF Roots
        <5> QED BY <5>2, <5>3
      <4> HIDE DEF receipts, found
      <4>2. \A ran \in DOMAIN response'.root[3] : response'.root[3][ran][2] = ran
        BY <3>4, <4>1, ReportNames
      <4>3. reply'[1] = "car" => reply'[2].roots = <<response'.root>>
        BY <3>3 DEF EncodeMessage, EncodeCAR
      <4> QED BY <4>2, <4>3 DEF Names
    <3>7. reply'[1] = "legacy" => reply'[2] = EncodeLegacy(response')
      BY <3>3
    <3> HIDE DEF receipts, found
    <3>8. /\ message' # None /\ IsOk(message')
          /\ Ran(response'.receipts) = Asks(message'[2])
          /\ \A i \in DOMAIN response'.receipts : NamesRan(response'.receipts[i])
          /\ Kind(response'.root) = "message"
          /\ response'.root[3] = ReportOf(response'.receipts)
      BY <1>1, <3>4, <3>5 DEF IsOk
    <3> QED BY <3>6, <3>7, <3>8 DEF ResponseTells, Ran, Asks, NamesRan, Kind, ReportOf, EncodeLegacy
  <2> QED BY <2>1, <2>2
<1>6. ResultsTell'
  BY <1>1, <1>2 DEF EInv, ResultsTell
<1> QED BY <1>3, <1>4, <1>5, <1>6 DEF EInv

\* The client finds receipts by the invocations it sent, and each it finds is
\* about the invocation it is found by.
LEMMA DecodeKeeps ==
    ASSUME EInv, Decode
    PROVE  EInv'
<1>1. /\ reply # None /\ ~Preparing
      /\ UNCHANGED <<held, batch, client, codec, request, message, response, reply>>
  BY DEF Decode, EInv, Quiet
<1>2. /\ Roots(Views)' = Roots(Views)
      /\ Request(Views)' = Request(Views)
      /\ Whole' = Whole
      /\ Preparing' = Preparing
  BY <1>1, SentStays
<1>3. Quiet' /\ RequestTells'
  BY <1>1, <1>2 DEF EInv, Quiet, RequestTells
<1>4. MessageTells'
  BY <1>1, <1>2 DEF EInv, MessageTells, Asks, IsOk, ToSet
<1>5. ResponseTells'
  BY <1>1 DEF EInv, ResponseTells, Names, Ran, Asks, NamesRan, Kind, ReportOf, EncodeLegacy, IsOk
<1>6. ResultsTell'
  <2> SUFFICES ASSUME IsOk(results')
               PROVE  Ran(results'[2]) = Roots(Views)
    BY <1>1, <1>2 DEF ResultsTell, Ran, IsOk
  <2> DEFINE m == DecodeMessage(reply[2])
             got(k) == Get(m[2], held[batch[k]].root)
  <2>1. reply[1] = "car" /\ IsOk(m) /\ results' = ReceiptsOf(m[2])
    BY DEF Decode, IsOk, Threw
  <2>2. reply # Threw
    BY <2>1 DEF Threw
  <2>3. PICK root : /\ reply[2].roots = <<root>>
                    /\ \A ran \in DOMAIN root[3] : root[3][ran][2] = ran
    BY <1>1, <2>1, <2>2 DEF EInv, ResponseTells, Names
  <2>4. m[2].root = root
    BY <2>1, <2>3, MessageDecoded
  <2>6. /\ DOMAIN results'[2] = DOMAIN batch
        /\ \A k \in DOMAIN batch : IsOk(got(k)) /\ results'[2][k] = got(k)[2]
    BY <2>1 DEF ReceiptsOf, IsOk, Ok, Threw
  <2>7. \A k \in DOMAIN batch : results'[2][k].ran.root = held[batch[k]].root
    <3> TAKE k \in DOMAIN batch
    <3> DEFINE ran == held[batch[k]].root
    <3>1. /\ ran \in DOMAIN m[2].root[3]
          /\ got(k)[2].ran.root = m[2].root[3][ran][2]
      BY <2>6, GetNames
    <3>2. m[2].root[3][ran][2] = ran
      <4> HIDE DEF m, ran
      <4> QED BY <2>3, <2>4, <3>1
    <3> QED BY <2>6, <3>1, <3>2
  <2>8. Roots(Views) = [k \in DOMAIN batch |-> held[batch[k]].root]
    BY DEF Roots, Views
  <2> HIDE DEF m, got
  <2> QED BY <2>6, <2>7, <2>8 DEF Ran
<1> QED BY <1>3, <1>4, <1>5, <1>6 DEF EInv

\* Whatever is left out of the response, its report names what it reports.
LEMMA OmitReplyKeeps ==
    ASSUME EInv, OmitReply
    PROVE  EInv'
<1>1. /\ reply # None /\ reply[1] = "car" /\ reply # Threw
      /\ reply[2] = EncodeMessage(response) /\ results = None
      /\ UNCHANGED <<held, batch, client, codec, request, message, response, results>>
  BY DEF OmitReply, ReplyWhole, Receipted, Threw
<1>2. /\ Roots(Views)' = Roots(Views)
      /\ Request(Views)' = Request(Views)
      /\ Whole' = Whole
      /\ Preparing' = Preparing
  BY <1>1, SentStays
<1>3. Quiet' /\ RequestTells' /\ ResultsTell'
  BY <1>1, <1>2 DEF EInv, Quiet, RequestTells, ResultsTell
<1>4. MessageTells'
  BY <1>1, <1>2 DEF EInv, MessageTells, Asks, IsOk, ToSet
<1>5. /\ response.root[3] = ReportOf(response.receipts)
      /\ \A ran \in DOMAIN response.root[3] : response.root[3][ran][2] = ran
      /\ reply[2].roots = <<response.root>>
  <2>1. reply[2].roots = <<response.root>>
    BY <1>1 DEF EncodeMessage, EncodeCAR
  <2>2. response.root[3] = ReportOf(response.receipts)
    BY <1>1 DEF EInv, ResponseTells
  <2>3. Names(reply[2])
    BY <1>1 DEF EInv, ResponseTells
  <2> QED BY <2>1, <2>2, <2>3 DEF Names
<1>6. reply'[1] = "car" /\ Names(reply'[2])
  <2>1. CASE \E b : reply' = <<"car", [reply[2] EXCEPT !.blocks = @ \ {b}]>>
    <3>1. "roots" \in DOMAIN reply[2]
      BY <1>1 DEF EncodeMessage, EncodeCAR
    <3>2. reply'[1] = "car" /\ reply'[2].roots = reply[2].roots
      BY <2>1, <3>1
    <3> QED BY <1>5, <3>2 DEF Names
  <2>2. CASE \E ran \in DOMAIN response.root[3] :
                 reply' = <<"car", EncodeCAR(<<Unreported(ran)>>, MessageBlocks(response))>>
    <3>1. PICK ran \in DOMAIN response.root[3] :
              reply' = <<"car", EncodeCAR(<<Unreported(ran)>>, MessageBlocks(response))>>
      BY <2>2
    <3>2. reply'[1] = "car" /\ reply'[2].roots = <<Unreported(ran)>>
      BY <3>1 DEF EncodeCAR
    <3>3. Unreported(ran)[3] = [r \in DOMAIN response.root[3] \ {ran} |-> response.root[3][r]]
      BY DEF Unreported, MessageBlock
    <3>4. \A r \in DOMAIN Unreported(ran)[3] : Unreported(ran)[3][r][2] = r
      BY <1>5, <3>3
    <3> QED BY <3>2, <3>4 DEF Names
  <2> QED BY <2>1, <2>2 DEF OmitReply
<1>7. ResponseTells'
  BY <1>1, <1>6 DEF EInv, ResponseTells, Ran, Asks, NamesRan, Kind, ReportOf, IsOk
<1> QED BY <1>3, <1>4, <1>7 DEF EInv

LEMMA NextEInv ==
    ASSUME EInv, [Next]_vars
    PROVE  EInv'
<1>1. batch \in Seq(1..MaxHeld)
  BY DEF EInv, RequestTells
<1>2. CASE Issue
  BY <1>1, <1>2, Prepared DEF Issue, Preparing
<1>3. CASE AttachBlock
  BY <1>1, <1>3, Prepared DEF AttachBlock, Preparing
<1>4. CASE Reload
  BY <1>1, <1>4, Prepared DEF Reload, Preparing
<1>5. CASE Send
  BY <1>5, SendKeeps
<1>6. CASE Omit
  BY <1>6, OmitKeeps
<1>7. CASE Receive
  BY <1>7, ReceiveKeeps
<1>8. CASE Refuse
  BY <1>8, RefuseKeeps
<1>9. CASE Answer
  BY <1>9, AnswerKeeps
<1>10. CASE Decode
  BY <1>10, DecodeKeeps
<1>10a. CASE OmitReply
  BY <1>10a, OmitReplyKeeps
<1>11. CASE UNCHANGED vars
  <2>1. UNCHANGED <<held, batch, client, codec, request, message, response, reply, results>>
    BY <1>11 DEF vars
  <2>2. /\ Roots(Views)' = Roots(Views)
        /\ Request(Views)' = Request(Views)
        /\ Whole' = Whole
        /\ Preparing' = Preparing
    BY <2>1, SentStays
  <2>3. Quiet' /\ RequestTells' /\ ResultsTell'
    BY <2>1, <2>2 DEF EInv, Quiet, RequestTells, ResultsTell
  <2>4. MessageTells'
    BY <2>1, <2>2 DEF EInv, MessageTells, Asks, IsOk, ToSet
  <2>5. ResponseTells'
    BY <2>1 DEF EInv, ResponseTells, Names, Ran, Asks, NamesRan, Kind, ReportOf, EncodeLegacy, IsOk
  <2> QED BY <2>3, <2>4, <2>5 DEF EInv
<1> QED BY <1>2, <1>3, <1>4, <1>5, <1>6, <1>7, <1>8, <1>9, <1>10, <1>10a, <1>11 DEF Next

LEMMA Traced == Spec => []EInv
<1>1. EInv /\ [Next]_vars => EInv'
  BY NextEInv
<1> QED BY InitEInv, <1>1, PTL DEF Spec

-----------------------------------------------------------------------------
(* Nothing is missed of a response that is whole.                          *)

ResultsGiven ==
    results # None =>
        /\ reply # None
        /\ Whole /\ ReplyWhole /\ client.decodes = "car" => IsOk(results)

\* It has a receipt for each invocation of a request that is whole.
LEMMA WholeIsRead ==
    ASSUME EInv, ~Preparing, Whole, ReplyWhole
    PROVE  LET m == DecodeMessage(reply[2])
           IN  IsOk(m) /\ \A k \in DOMAIN batch : IsOk(Get(m[2], held[batch[k]].root))
<1> DEFINE root == response.root
           receipts == response.receipts
           store == reply[2].blocks
           m == DecodeMessage(reply[2])
<1>1. /\ reply # None /\ reply # Threw
      /\ reply[2] = EncodeMessage(response)
  BY DEF ReplyWhole, Receipted, Threw
<1>2. /\ Ran(receipts) = Roots(Views)
      /\ Kind(root) = "message" /\ root[3] = ReportOf(receipts)
  BY <1>1 DEF EInv, ResponseTells, MessageTells
<1>3. /\ reply[2].roots = <<root>> /\ root \in store
      /\ \A i \in DOMAIN receipts : receipts[i].root \in store
  BY <1>1 DEF EncodeMessage, EncodeCAR, MessageBlocks, ReceiptBlocks, ToSet
<1>4. m = Ok([root |-> root, built |-> FALSE, invocations |-> <<>>, receipts |-> <<>>, store |-> store])
  <2>1. <<root>> \in Seq({root}) /\ \A i \in DOMAIN <<root>> : <<root>>[i] \in store
    BY <1>3
  <2>2. Keep(reply[2].roots, store) = <<root>>
    BY <1>3, <2>1, KeepAll
  <2>3. DecodeCAR(reply[2]).roots = <<root>>
    BY <2>2 DEF DecodeCAR
  <2>4. m = MessageView(root, store)
    BY <2>3 DEF DecodeMessage
  <2> QED BY <1>2, <1>3, <2>4 DEF MessageView
<1>5. IsOk(m) /\ m[2].root = root /\ m[2].store = store
  BY <1>4 DEF IsOk, Ok
<1>6. DOMAIN receipts \subseteq Nat
  <2>1. Ran(receipts) \in Seq(ToSet(Roots(Views)))
    BY <1>2, ViewsListed
  <2>2. DOMAIN Ran(receipts) = 1..Len(Ran(receipts))
    BY <2>1
  <2>3. DOMAIN Ran(receipts) = DOMAIN receipts
    BY DEF Ran
  <2> QED BY <2>2, <2>3
<1>7. ASSUME NEW k \in DOMAIN batch
      PROVE  IsOk(Get(m[2], held[batch[k]].root))
  <2> DEFINE ran == held[batch[k]].root
  <2>1. k \in DOMAIN receipts /\ receipts[k].ran.root = ran
    <3>1. k \in DOMAIN Roots(Views) /\ Roots(Views)[k] = ran
      BY DEF Roots, Views
    <3> QED BY <1>2, <3>1 DEF Ran
  <2>2. ran \in DOMAIN ReportOf(receipts)
    BY <2>1 DEF ReportOf, ToSet
  <2> HIDE DEF receipts, store, m, ran, root
  <2>3. ReportOf(receipts)[ran] \in store
    BY <1>3, <1>6, <2>2, ReportHas
  <2>4. Get(m[2], ran) = ReceiptView(ReportOf(receipts)[ran], store)
    BY <1>2, <1>5, <2>2 DEF Get
  <2> QED BY <2>3, <2>4 DEF ReceiptView, IsOk, Ok, ran
<1> QED BY <1>5, <1>7

LEMMA NextResultsGiven ==
    ASSUME EInv, ResultsGiven, [Next]_vars
    PROVE  ResultsGiven'
<1> SUFFICES ASSUME results' # None
             PROVE  /\ reply' # None
                    /\ Whole' /\ ReplyWhole' /\ client'.decodes = "car" => IsOk(results')
  BY DEF ResultsGiven, IsOk
<1>1. CASE Decode
  <2>1. reply # None /\ UNCHANGED <<held, batch, client, request, response, reply>>
    BY <1>1 DEF Decode
  <2>2. ASSUME Whole', ReplyWhole', client'.decodes = "car"
        PROVE  IsOk(results')
    <3> DEFINE m == DecodeMessage(reply[2])
    <3>1. ~Preparing /\ Whole /\ ReplyWhole
      BY <2>1, <2>2, SentStays DEF EInv, Quiet, ReplyWhole, Receipted, EncodeMessage, MessageBlocks
    <3>2. IsOk(m) /\ \A k \in DOMAIN batch : IsOk(Get(m[2], held[batch[k]].root))
      BY <3>1, WholeIsRead
    <3>3. results' = ReceiptsOf(m[2])
      BY <1>1, <2>1, <2>2, <3>1, <3>2 DEF Decode, ReplyWhole, Receipted
    <3> HIDE DEF m
    <3> QED BY <3>2, <3>3 DEF ReceiptsOf, IsOk, Ok
  <2> QED BY <2>1, <2>2
<1>2. CASE ~Decode
  <2>1. results' = results /\ reply # None
    BY <1>2 DEF ResultsGiven, Next, Issue, AttachBlock, Reload, Send, Omit, Receive, Refuse, Answer,
                OmitReply, vars
  <2>2. ~Preparing /\ UNCHANGED <<response, reply>>
    BY <1>2, <2>1
       DEF EInv, Quiet, Next, Issue, AttachBlock, Reload, Send, Omit, Receive, Refuse, Answer,
           OmitReply, vars
  <2>3. ASSUME Whole', ReplyWhole', client'.decodes = "car"
        PROVE  IsOk(results)
    <3>1. ReplyWhole
      BY <2>2, <2>3 DEF ReplyWhole, Receipted, EncodeMessage, MessageBlocks
    <3>2. message # None
      BY <3>1 DEF EInv, ResponseTells, ReplyWhole, Receipted, Threw
    <3>3. UNCHANGED <<held, batch, client, request>>
      BY <1>2, <2>1, <2>2, <3>2
         DEF Next, Issue, AttachBlock, Reload, Send, Omit, Receive, Refuse, Answer, OmitReply, vars
    <3>4. Whole /\ client.decodes = "car"
      BY <2>3, <3>3, SentStays
    <3> QED BY <2>1, <3>1, <3>4 DEF ResultsGiven
  <2> QED BY <2>1, <2>2, <2>3
<1> QED BY <1>1, <1>2

LEMMA Given == Spec => []ResultsGiven
<1>1. Init => ResultsGiven
  BY DEF Init, ResultsGiven
<1>2. EInv /\ ResultsGiven /\ [Next]_vars => ResultsGiven'
  BY NextResultsGiven
<1> QED BY <1>1, <1>2, Traced, PTL DEF Spec

-----------------------------------------------------------------------------
(* What it gives.                                                          *)

\* Handlers' receipts are those of the invocations of the message, each in its
\* place, and a client gets a receipt about each invocation it sent or none at
\* all: for any codec, any batch, any answers, and with any block of the request
\* or any receipt of the response left out.  With nothing left out it gets them.
THEOREM EveryInvocationAnswered == Spec => []AnsweredInFull
<1>1. EInv /\ ResultsGiven => AnsweredInFull
  BY DEF EInv, ResponseTells, ResultsTell, ResultsGiven, AnsweredInFull, Ran, Asks
<1> QED BY <1>1, Traced, Given, PTL

\* A list of results has one for each invocation of the request, in its place
\* and of the same kind as the receipt, unless a block was left out.
THEOREM ResultsInOrder == Spec => []LegacyInOrder
<1>1. ASSUME EInv PROVE LegacyInOrder
  <2> SUFFICES ASSUME reply # None, reply[1] = "legacy", Whole
               PROVE  /\ Len(reply[2]) = Len(batch)
                      /\ \A k \in DOMAIN batch :
                            reply[2][k] = "ok" <=> response.receipts[k].root[3] = "ok"
    BY DEF LegacyInOrder
  <2>1. reply # Threw
    BY DEF Threw
  <2>2. /\ Ran(response.receipts) = Roots(Views)
        /\ reply[2] = EncodeLegacy(response)
    BY <1>1, <2>1 DEF EInv, ResponseTells, MessageTells
  <2>3. DOMAIN response.receipts = DOMAIN Roots(Views)
    BY <2>2 DEF Ran
  <2>4. Len(batch) \in Nat /\ DOMAIN Roots(Views) = 1..Len(batch)
    BY <1>1, ViewsListed
  <2>5. reply[2] = [k \in 1..Len(batch) |->
                       IF response.receipts[k].root[3] = "ok" THEN "ok" ELSE "error"]
    BY <2>2, <2>3, <2>4 DEF EncodeLegacy
  <2>6. DOMAIN batch = 1..Len(batch)
    BY <1>1 DEF EInv, RequestTells
  <2> QED BY <2>4, <2>5, <2>6
<1>2. EInv => LegacyInOrder
  BY <1>1
<1> QED BY <1>2, Traced, PTL

-----------------------------------------------------------------------------
(* What is exported.                                                       *)

\* An export has the root and what is attached to it.
LEMMA ExportHas ==
    ASSUME NEW v
    PROVE  v.root \in BlocksOf(Export(v)) /\ Attached(v) \subseteq BlocksOf(Export(v))
BY DEF BlocksOf, Export, Attached

-----------------------------------------------------------------------------
(* What is behind a delegation.                                            *)

\* Behind a block are its proofs, and theirs, and nothing that is not in every
\* set of this kind.
ClosedIn(S, blocks) == \A c \in S : HeldBy(c, blocks) \subseteq S

LEMMA BehindLeast ==
    ASSUME NEW root, NEW blocks, NEW S, S \subseteq blocks,
           HeldBy(root, blocks) \subseteq S, ClosedIn(S, blocks)
    PROVE  Behind(root, blocks) \subseteq S
<1> DEFINE anyones == HeldBy(root, blocks) \cup UNION {HeldBy(b, blocks) : b \in blocks}
           T == S \cap anyones
<1>1. HeldBy(root, blocks) \subseteq T /\ T \subseteq anyones
  OBVIOUS
<1>2. \A c \in T : HeldBy(c, blocks) \subseteq T
  BY DEF ClosedIn
<1>3. Behind(root, blocks) = {b \in anyones : \A R \in SUBSET anyones :
          HeldBy(root, blocks) \subseteq R /\ (\A c \in R : HeldBy(c, blocks) \subseteq R) => b \in R}
  BY DEF Behind
<1> HIDE DEF anyones, T
<1>4. Behind(root, blocks) \subseteq T
  BY <1>1, <1>2, <1>3
<1> QED BY <1>4 DEF T

LEMMA BehindClosed ==
    ASSUME NEW root, NEW blocks
    PROVE  /\ Behind(root, blocks) \subseteq blocks
           /\ HeldBy(root, blocks) \subseteq Behind(root, blocks)
           /\ ClosedIn(Behind(root, blocks), blocks)
<1> DEFINE anyones == HeldBy(root, blocks) \cup UNION {HeldBy(b, blocks) : b \in blocks}
<1>1. /\ \A b : HeldBy(b, blocks) \subseteq blocks
      /\ \A b \in blocks : HeldBy(b, blocks) \subseteq anyones
      /\ HeldBy(root, blocks) \subseteq anyones /\ anyones \subseteq blocks
  BY DEF HeldBy, HeldProofs
<1>2. Behind(root, blocks) = {b \in anyones : \A S \in SUBSET anyones :
          HeldBy(root, blocks) \subseteq S /\ (\A c \in S : HeldBy(c, blocks) \subseteq S) => b \in S}
  BY DEF Behind
<1> HIDE DEF anyones
<1>3. HeldBy(root, blocks) \subseteq Behind(root, blocks) /\ Behind(root, blocks) \subseteq blocks
  BY <1>1, <1>2
<1>4. ASSUME NEW c \in Behind(root, blocks), NEW b \in HeldBy(c, blocks)
      PROVE  b \in Behind(root, blocks)
  <2>1. b \in anyones
    BY <1>1, <1>3, <1>4
  <2> SUFFICES ASSUME NEW S \in SUBSET anyones, HeldBy(root, blocks) \subseteq S,
                      \A x \in S : HeldBy(x, blocks) \subseteq S
               PROVE  b \in S
    BY <1>2, <2>1
  <2>2. c \in S
    BY <1>2, <1>4
  <2> QED BY <1>4, <2>2
<1> QED BY <1>3, <1>4 DEF ClosedIn

\* Whoever holds what is behind a block has it behind that block.
LEMMA BehindTravels ==
    ASSUME NEW root, NEW blocks, NEW there, Behind(root, blocks) \subseteq there
    PROVE  Behind(root, blocks) \subseteq Behind(root, there)
<1> DEFINE mine == Behind(root, blocks)
<1>1. /\ mine \subseteq blocks /\ HeldBy(root, blocks) \subseteq mine
      /\ \A c \in mine : HeldBy(c, blocks) \subseteq mine
  BY BehindClosed DEF ClosedIn
<1>2. \A b, x : x \in HeldBy(b, blocks) /\ x \in there => x \in HeldBy(b, there)
  BY DEF HeldBy, HeldProofs
<1> DEFINE S == Behind(root, there)
           T == mine \cap S
<1>2a. HeldBy(root, there) \subseteq S /\ \A c \in S : HeldBy(c, there) \subseteq S
  BY BehindClosed DEF ClosedIn
<1> HIDE DEF S
<1>3. HeldBy(root, blocks) \subseteq T
  BY <1>1, <1>2, <1>2a
<1>4. \A c \in T : HeldBy(c, blocks) \subseteq T
  BY <1>1, <1>2, <1>2a
<1>5. T \subseteq blocks
  BY <1>1
<1> HIDE DEF T
<1>6. mine \subseteq T
  BY <1>3, <1>4, <1>5, BehindLeast DEF ClosedIn
<1> QED BY <1>6 DEF T, S

\* What is behind a proof is behind what it proves.
LEMMA BehindProof ==
    ASSUME NEW root, NEW blocks, NEW proof \in HeldBy(root, blocks)
    PROVE  {proof} \cup Behind(proof, blocks) \subseteq Behind(root, blocks)
<1>1. proof \in Behind(root, blocks)
  BY BehindClosed
<1>2. HeldBy(proof, blocks) \subseteq Behind(root, blocks)
  BY <1>1, BehindClosed DEF ClosedIn
<1>3. Behind(proof, blocks) \subseteq Behind(root, blocks)
  BY <1>2, BehindClosed, BehindLeast
<1> QED BY <1>1, <1>3

\* What exportSubDAG gives for a block: itself and what it gives for its proofs.
Exports(f, blocks) ==
    \A b \in blocks : f[b] = {b} \cup UNION {f[proof] : proof \in HeldProofs(b, blocks)}

\* There is such a function, the least of them, so exportSubDAG is one.
LEMMA ExportSubDAGOf ==
    ASSUME NEW root, NEW blocks, root \in blocks
    PROVE  \E f : ExportSubDAG(root, blocks) = f[root] /\ Exports(f, blocks)
<1> DEFINE all == blocks \cup {root}
           Step(f) == [b \in all |-> {b} \cup UNION {f[proof] : proof \in HeldProofs(b, blocks)}]
           exported == CHOOSE f : f = Step(f)
           Closed(S) == \A c \in S : HeldProofs(c, blocks) \subseteq S
           Least(b) == {x \in all : \A S \in SUBSET all : b \in S /\ Closed(S) => x \in S}
           least == [b \in all |-> Least(b)]
<1>1. ExportSubDAG(root, blocks) = exported[root]
  BY DEF ExportSubDAG
<1>2. \A b : HeldProofs(b, blocks) \subseteq all
  BY DEF HeldProofs
<1>3. \A b \in all : b \in Least(b) /\ Closed(Least(b))
  BY <1>2
<1>4. \A b, S : S \subseteq all /\ b \in S /\ Closed(S) => Least(b) \subseteq S
  OBVIOUS
<1>5. ASSUME NEW b \in all
      PROVE  Least(b) = {b} \cup UNION {Least(proof) : proof \in HeldProofs(b, blocks)}
  <2> DEFINE T == {b} \cup UNION {Least(proof) : proof \in HeldProofs(b, blocks)}
  <2>1. T \subseteq Least(b)
    <3>1. b \in Least(b) /\ Closed(Least(b)) /\ Least(b) \subseteq all
      BY <1>3
    <3> HIDE DEF Least
    <3>2. \A proof \in HeldProofs(b, blocks) : Least(proof) \subseteq Least(b)
      BY <1>4, <3>1
    <3> QED BY <3>1, <3>2
  <2>2. Least(b) \subseteq T
    <3>1. \A proof \in all : Least(proof) \subseteq all
      OBVIOUS
    <3> HIDE DEF Least
    <3>2. T \subseteq all
      BY <1>2, <3>1
    <3>3. ASSUME NEW c \in T PROVE HeldProofs(c, blocks) \subseteq T
      <4>1. CASE c = b
        <5>1. \A proof \in HeldProofs(b, blocks) : proof \in Least(proof)
          BY <1>2, <1>3
        <5> QED BY <4>1, <5>1
      <4>2. CASE c # b
        <5>1. PICK proof \in HeldProofs(b, blocks) : c \in Least(proof)
          BY <4>2
        <5>2. Closed(Least(proof))
          BY <1>2, <1>3
        <5> QED BY <5>1, <5>2
      <4> QED BY <4>1, <4>2
    <3> QED BY <1>4, <3>2, <3>3
  <2> QED BY <2>1, <2>2
<1> HIDE DEF Least
<1>6. least = Step(least)
  <2>1. ASSUME NEW b \in all
        PROVE  least[b] = {b} \cup UNION {least[proof] : proof \in HeldProofs(b, blocks)}
    <3>1. \A proof \in HeldProofs(b, blocks) : least[proof] = Least(proof)
      BY <1>2
    <3> HIDE DEF least
    <3>2. {least[proof] : proof \in HeldProofs(b, blocks)}
             = {Least(proof) : proof \in HeldProofs(b, blocks)}
      BY <3>1
    <3> QED BY <1>5, <3>2 DEF least
  <2>2. least = [b \in all |-> least[b]]
    OBVIOUS
  <2> HIDE DEF least
  <2> QED BY <2>1, <2>2
<1>7. exported = Step(exported)
  BY <1>6
<1> HIDE DEF exported
<1>8. \A b \in blocks : exported[b] = Step(exported)[b]
  BY <1>7
<1>9. Exports(exported, blocks)
  BY <1>8 DEF Exports
<1> QED BY <1>1, <1>9

\* exportDAG leaves nothing behind: all that is behind the root is in the export.
LEMMA ExportHasBehind ==
    ASSUME NEW v
    PROVE  Behind(v.root, v.blocks) \subseteq ProofBlocks(v)
<1> DEFINE blocks == v.blocks
           given  == HeldProofs(v.root, blocks)
           S == {b \in blocks : \E f : Exports(f, blocks) /\ f[b] \subseteq ProofBlocks(v)}
<1>1. \A b : HeldProofs(b, blocks) \subseteq blocks
  BY DEF HeldProofs
<1>2. \A proof \in given : ExportSubDAG(proof, blocks) \subseteq ProofBlocks(v)
  BY DEF ProofBlocks
<1>3. ASSUME NEW b \in given
      PROVE  b \in S
  <2>1. b \in blocks
    BY <1>1
  <2>2. PICK f : ExportSubDAG(b, blocks) = f[b] /\ Exports(f, blocks)
    BY <2>1, ExportSubDAGOf
  <2>3. b \in f[b] /\ f[b] \subseteq ProofBlocks(v)
    BY <1>2, <1>3, <2>1, <2>2 DEF Exports
  <2> QED BY <2>1, <2>2, <2>3
<1>4. ASSUME NEW c \in S, NEW b \in HeldProofs(c, blocks)
      PROVE  b \in S
  <2>1. PICK f : Exports(f, blocks) /\ f[c] \subseteq ProofBlocks(v)
    BY <1>4
  <2>2. b \in blocks /\ c \in blocks
    BY <1>1, <1>4
  <2>3. f[b] \subseteq f[c]
    BY <1>4, <2>1, <2>2 DEF Exports
  <2> QED BY <2>1, <2>2, <2>3
<1>5. S \subseteq blocks /\ S \subseteq ProofBlocks(v)
  BY DEF Exports
<1> HIDE DEF S
<1>6. HeldBy(v.root, blocks) \subseteq S
  BY <1>3 DEF HeldBy
<1>7. ClosedIn(S, blocks)
  BY <1>4 DEF ClosedIn, HeldBy
<1> QED BY <1>5, <1>6, <1>7, BehindLeast

\* So whoever has the blocks of an export has it behind the root.
LEMMA ExportTravels ==
    ASSUME NEW v, NEW there, ProofBlocks(v) \subseteq there
    PROVE  Behind(v.root, v.blocks) \subseteq Behind(v.root, there)
BY ExportHasBehind, BehindTravels

LEMMA ImportHasBehind ==
    ASSUME NEW v
    PROVE  Behind(v.root, v.blocks) \subseteq Behind(v.root, ImportDAG(Export(v)).blocks)
<1>1. ProofBlocks(v) \subseteq ImportDAG(Export(v)).blocks
  BY DEF ImportDAG, Export, View
<1> QED BY <1>1, ExportTravels

\* An archive is read again as the root with at least the blocks of the export.
LEMMA ArchiveRead ==
    ASSUME NEW v
    PROVE  \E blocks : /\ BlocksOf(Export(v)) \subseteq blocks
                       /\ Extract(Archive(v)) = Ok(View(v.root, blocks))
<1> DEFINE car == Archive(v)
           root == Variant(v.root)
<1>1. /\ car.roots = <<root>>
      /\ car.blocks = BlocksOf(Export(v)) \cup {root}
  BY DEF Archive, EncodeCAR, ToSet
<1>2. DecodeCAR(car).roots = <<root>> /\ DecodeCAR(car).blocks = car.blocks
  <2>1. <<root>> \in Seq({root}) /\ \A i \in DOMAIN <<root>> : <<root>>[i] \in car.blocks
    BY <1>1
  <2>2. Keep(<<root>>, car.blocks) = <<root>>
    BY <2>1, KeepAll
  <2> QED BY <1>1, <2>2 DEF DecodeCAR
<1>3. v.root \in BlocksOf(Export(v))
  BY ExportHas
<1>4. Kind(root) = "ucan@" /\ root[2] = v.root
  BY DEF Variant, Kind
<1>5. Extract(car) = Ok(View(v.root, car.blocks))
  <2>1. DecodeCAR(car).roots # <<>> /\ Head(DecodeCAR(car).roots) = root
    BY <1>2
  <2> HIDE DEF car, root
  <2> QED BY <1>1, <1>2, <1>3, <1>4, <2>1 DEF Extract
<1> QED BY <1>1, <1>5

\* An archive has the attached blocks of what was archived.
LEMMA ArchiveBrings ==
    ASSUME NEW v
    PROVE  Attached(v) \subseteq Extract(Archive(v))[2].blocks
<1>1. PICK blocks : /\ BlocksOf(Export(v)) \subseteq blocks
                    /\ Extract(Archive(v)) = Ok(View(v.root, blocks))
  BY ArchiveRead
<1>2. Extract(Archive(v))[2].blocks = blocks
  BY <1>1 DEF Ok, View
<1> QED BY <1>1, <1>2, ExportHas

\* What is behind a delegation is behind it in its archive.
LEMMA ArchiveHasBehind ==
    ASSUME NEW v
    PROVE  Behind(v.root, v.blocks) \subseteq Behind(v.root, Extract(Archive(v))[2].blocks)
<1>1. PICK blocks : /\ BlocksOf(Export(v)) \subseteq blocks
                    /\ Extract(Archive(v)) = Ok(View(v.root, blocks))
  BY ArchiveRead
<1>2. Extract(Archive(v))[2].blocks = blocks
  BY <1>1 DEF Ok, View
<1>3. ProofBlocks(v) \subseteq blocks
  BY <1>1 DEF BlocksOf, Export
<1> QED BY <1>2, <1>3, ExportTravels

-----------------------------------------------------------------------------
(* What is held, and what is brought.                                      *)

\* A delegation that is held is a view, not a link, of a UCAN, and holds what
\* its proofs do.  No two of them have the same root.
IsHeld(v) ==
    /\ v = [root |-> v.root, blocks |-> v.blocks, built |-> v.built, proofs |-> v.proofs,
            linked |-> v.linked]
    /\ v.linked = FALSE
    /\ v.built \in BOOLEAN
    /\ Kind(v.root) = "ucan"
    /\ HoldsItsProofs(v)

HeldTells ==
    /\ held \in Seq(ToSet(held))
    /\ \A i \in DOMAIN held : IsHeld(held[i]) /\ held[i].root[2] = i
    /\ ~Preparing => Len(held) = MaxHeld

\* Of a request that is whole the server gets all that each invocation exports.
Brings(v, w) ==
    w.root = v.root /\ w.linked = FALSE /\ BlocksOf(Export(v)) \subseteq w.blocks

Brought == Received => \A k \in DOMAIN batch : Brings(Views[k], Invocations(message[2])[2][k])

\* A view holds its proofs in its own store.
LEMMA ViewIsHeld ==
    ASSUME NEW root, NEW blocks, Kind(root) = "ucan"
    PROVE  \A proofs : IsHeld([root |-> root, blocks |-> blocks, built |-> FALSE,
                               proofs |-> proofs, linked |-> FALSE])
<1> TAKE proofs
<1> DEFINE v == [root |-> root, blocks |-> blocks, built |-> FALSE, proofs |-> proofs,
                 linked |-> FALSE]
<1>1. /\ v.root = root /\ v.blocks = blocks /\ v.built = FALSE /\ v.proofs = proofs
      /\ v.linked = FALSE
  OBVIOUS
<1>2. v = [root |-> v.root, blocks |-> v.blocks, built |-> v.built, proofs |-> v.proofs,
           linked |-> v.linked]
  BY <1>1
<1> HIDE DEF v
<1>3. HoldsItsProofs(v)
  <2> SUFFICES ASSUME NEW k \in DOMAIN Proofs(v), ~Proofs(v)[k].linked
               PROVE  {Proofs(v)[k].root} \cup Behind(Proofs(v)[k].root, Proofs(v)[k].blocks)
                         \subseteq Behind(root, blocks)
    BY <1>1 DEF HoldsItsProofs
  <2> DEFINE b == Prf(root)[k]
  <2>1. Proofs(v)[k] = ViewOrLink(b, blocks) /\ k \in DOMAIN Prf(root)
    BY <1>1 DEF Proofs
  <2>2. b \in blocks /\ Proofs(v)[k] = View(b, blocks)
    BY <2>1 DEF ViewOrLink, Linked
  <2>3. Proofs(v)[k].root = b /\ Proofs(v)[k].blocks = blocks
    BY <2>2 DEF View
  <2>4. b \in HeldBy(root, blocks)
    BY <2>1, <2>2 DEF HeldBy, HeldProofs, ToSet
  <2> HIDE DEF b
  <2> QED BY <2>3, <2>4, BehindProof
<1>4. IsHeld(v)
  BY <1>1, <1>2, <1>3 DEF IsHeld
<1> QED BY <1>4 DEF v

\* attach adds a block and takes nothing away.
LEMMA AttachIsHeld ==
    ASSUME NEW v, IsHeld(v), NEW b
    PROVE  IsHeld(Attach(v, b))
<1> DEFINE w == Attach(v, b)
           more == v.blocks \cup {b}
<1>1. /\ w = [root |-> v.root, blocks |-> more, built |-> v.built, proofs |-> v.proofs,
              linked |-> v.linked]
      /\ v.linked = FALSE
  <2> DEFINE rec == [root |-> v.root, blocks |-> v.blocks, built |-> v.built,
                     proofs |-> v.proofs, linked |-> v.linked]
  <2>1. v = rec /\ v.linked = FALSE
    BY DEF IsHeld
  <2>2. w = [v EXCEPT !.blocks = more]
    BY DEF Attach
  <2>3. [rec EXCEPT !.blocks = more] =
            [root |-> v.root, blocks |-> more, built |-> v.built, proofs |-> v.proofs,
             linked |-> v.linked]
    OBVIOUS
  <2> HIDE DEF rec, w
  <2> QED BY <2>1, <2>2, <2>3
<1>2. CASE v.built = FALSE
  <2>1. Kind(v.root) = "ucan"
    BY DEF IsHeld
  <2> HIDE DEF w
  <2> QED BY <1>1, <1>2, <2>1, ViewIsHeld DEF w
<1>3. CASE v.built = TRUE
  <2>1. /\ w.root = v.root /\ w.blocks = more /\ w.built = TRUE /\ w.proofs = v.proofs
        /\ w = [root |-> w.root, blocks |-> w.blocks, built |-> w.built, proofs |-> w.proofs,
                linked |-> w.linked]
        /\ w.linked = FALSE
    BY <1>1, <1>3
  <2> HIDE DEF w
  <2>2. Behind(v.root, v.blocks) \subseteq Behind(w.root, w.blocks)
    <3>1. Behind(v.root, v.blocks) \subseteq more
      BY BehindClosed
    <3> QED BY <2>1, <3>1, BehindTravels
  <2>3. Proofs(w) = Proofs(v)
    BY <1>3, <2>1 DEF Proofs
  <2>4. HoldsItsProofs(w)
    BY <2>2, <2>3 DEF IsHeld, HoldsItsProofs
  <2>5. IsHeld(w)
    BY <2>1, <2>4 DEF IsHeld
  <2> QED BY <2>5 DEF w
<1> QED BY <1>2, <1>3 DEF IsHeld

\* delegate takes over what the proofs it is given export.
LEMMA DelegateIsHeld ==
    ASSUME NEW id, NEW proofs, NEW links, NEW attached,
           \A k \in DOMAIN proofs : ~proofs[k].linked => IsHeld(proofs[k]),
           IsOk(Delegate(id, proofs, links, attached))
    PROVE  /\ IsHeld(Delegate(id, proofs, links, attached)[2])
           /\ Delegate(id, proofs, links, attached)[2].root[2] = id
<1> DEFINE prf == [i \in DOMAIN proofs |-> proofs[i].root]
           root == Ucan(id, prf, links)
           blocks == ExportAll(proofs) \cup attached
           d == [root |-> root, blocks |-> blocks, built |-> TRUE, proofs |-> proofs,
                 linked |-> FALSE]
<1>1. Delegate(id, proofs, links, attached) = Ok(d)
  BY DEF Delegate, IsOk, Threw
<1>2. Kind(root) = "ucan" /\ root[2] = id /\ Prf(root) = prf
  BY DEF Ucan, Kind, Prf
<1> HIDE DEF root
<1>3. /\ d.root = root /\ d.blocks = blocks /\ d.built = TRUE /\ d.proofs = proofs
      /\ d = [root |-> d.root, blocks |-> d.blocks, built |-> d.built, proofs |-> d.proofs,
              linked |-> d.linked]
      /\ d.linked = FALSE
  OBVIOUS
<1> HIDE DEF d
<1>4. ASSUME NEW k \in DOMAIN proofs, ~proofs[k].linked
      PROVE  {proofs[k].root} \cup Behind(proofs[k].root, proofs[k].blocks) \subseteq Behind(root, blocks)
  <2> DEFINE p == proofs[k]
  <2>1. BlocksOf(Export(p)) \subseteq blocks
    BY <1>4 DEF ExportAll, ExportIfView
  <2>2. p.root \in blocks /\ ProofBlocks(p) \subseteq blocks
    BY <2>1 DEF BlocksOf, Export
  <2>3. p.root \in HeldBy(root, blocks)
    BY <1>2, <2>2 DEF HeldBy, HeldProofs, ToSet
  <2> HIDE DEF p, blocks
  <2>4. Behind(p.root, p.blocks) \subseteq Behind(p.root, blocks)
    BY <2>2, ExportTravels
  <2>5. {p.root} \cup Behind(p.root, blocks) \subseteq Behind(root, blocks)
    BY <2>3, BehindProof
  <2> QED BY <2>4, <2>5 DEF p
<1>5. HoldsItsProofs(d)
  BY <1>3, <1>4 DEF HoldsItsProofs, Proofs
<1>6. IsHeld(d)
  BY <1>2, <1>3, <1>5 DEF IsHeld
<1> QED BY <1>1, <1>2, <1>3, <1>6 DEF Ok

LEMMA ExportsEach ==
    ASSUME NEW views, NEW k \in DOMAIN views, views[k].linked = FALSE
    PROVE  BlocksOf(Export(views[k])) \subseteq ExportAll(views)
BY DEF ExportAll, ExportIfView

\* A view of its root over a store that has the export is what is asked for.
LEMMA ViewBrings ==
    ASSUME NEW v, NEW blocks, BlocksOf(Export(v)) \subseteq blocks
    PROVE  Brings(v, View(v.root, blocks))
BY DEF Brings, View

\* A request that is whole and is taken for a message brings them.
LEMMA RequestBrings ==
    ASSUME EInv, HeldTells, ~Preparing, Whole, NEW m,
           m = IF client.contentType = "application/car" THEN DecodeLegacy(request)
                                                         ELSE DecodeMessage(request),
           IsOk(m)
    PROVE  \A k \in DOMAIN batch : Brings(Views[k], Invocations(m[2])[2][k])
<1> DEFINE roots == Roots(Views)
<1>1. /\ DOMAIN batch = DOMAIN Views /\ DOMAIN roots = DOMAIN batch
      /\ \A k \in DOMAIN batch : Views[k] = held[batch[k]] /\ roots[k] = Views[k].root
  BY DEF Views, Roots
<1>2. \A k \in DOMAIN Views : Views[k].linked = FALSE
  <2> TAKE k \in DOMAIN Views
  <2>1. batch \in Seq(1..MaxHeld) /\ k \in DOMAIN batch
    BY <1>1 DEF EInv, RequestTells
  <2>2. batch[k] \in 1..MaxHeld
    <3> DEFINE places == 1..MaxHeld
    <3>1. batch \in Seq(places) /\ k \in DOMAIN batch
      BY <2>1
    <3> HIDE DEF places
    <3>2. batch[k] \in places
      BY <3>1
    <3> QED BY <3>2 DEF places
  <2>3. DOMAIN held = 1..MaxHeld
    BY DEF HeldTells
  <2>4. IsHeld(held[batch[k]])
    BY <2>2, <2>3 DEF HeldTells
  <2>5. held[batch[k]].linked = FALSE
    BY <2>4 DEF IsHeld
  <2> QED BY <1>1, <2>5
<1>3. \A k \in DOMAIN Views : /\ Views[k].root \in ExportAll(Views)
                              /\ BlocksOf(Export(Views[k])) \subseteq ExportAll(Views)
  BY <1>2, ExportsEach, ExportHas
<1>4. roots \in Seq(ToSet(roots))
  BY ViewsListed
<1>5. ExportAll(Views) \subseteq request.blocks
  BY DEF Whole, Request, EncodeCAR, EncodeMessage, MessageBlocks, Build
<1>6. CASE client.contentType = "application/car"
  <2> DEFINE views == [i \in DOMAIN roots |-> View(roots[i], request.blocks)]
  <2>1. request.roots = roots
    BY <1>6 DEF Whole, Request, EncodeCAR
  <2>2. \A i \in DOMAIN roots : roots[i] \in request.blocks
    BY <1>1, <1>3, <1>5
  <2>3. DecodeCAR(request).roots = roots
    BY <1>4, <2>1, <2>2, KeepAll DEF DecodeCAR
  <2>4. m = Ok(Build(views, <<>>))
    BY <1>6, <2>3 DEF DecodeLegacy, IsOk, Threw
  <2>5. m[2].built = TRUE /\ m[2].invocations = views
    BY <2>4 DEF Ok, Build
  <2>6. Invocations(m[2]) = Ok(views)
    BY <2>5 DEF Invocations
  <2>7. \A k \in DOMAIN roots : Invocations(m[2])[2][k] = View(roots[k], request.blocks)
    BY <2>6 DEF Ok
  <2>9. SUFFICES ASSUME NEW k \in DOMAIN batch
               PROVE  Brings(Views[k], Invocations(m[2])[2][k])
    OBVIOUS
  <2>10. BlocksOf(Export(Views[k])) \subseteq request.blocks
    BY <1>1, <1>3, <1>5
  <2>11. Invocations(m[2])[2][k] = View(Views[k].root, request.blocks)
    BY <1>1, <2>7
  <2> HIDE DEF roots, views
  <2> QED BY <2>10, <2>11, ViewBrings
<1>7. CASE client.contentType # "application/car"
  <2> DEFINE root == MessageBlock(roots, ReportOf(<<>>))
             views == [i \in DOMAIN roots |-> View(roots[i], request.blocks)]
  <2>1. request.roots = <<root>>
    BY <1>7 DEF Whole, Request, EncodeMessage, EncodeCAR, Build, Written
  <2>2. m = DecodeMessage(request)
    BY <1>7
  <2>3. m[2].built = FALSE /\ m[2].root = root
    BY <2>1, <2>2, MessageDecoded
  <2>4. m[2].store = request.blocks
    BY <2>2 DEF DecodeMessage, MessageView, IsOk, Ok, Threw
  <2>5. m[2].root[2] = roots
    BY <2>3 DEF MessageBlock
  <2>6. ToSet(roots) \subseteq request.blocks
    BY <1>1, <1>3, <1>5 DEF ToSet
  <2>7. Invocations(m[2]) = Ok(views)
    BY <2>3, <2>4, <2>5, <2>6 DEF Invocations
  <2>8. \A k \in DOMAIN roots : Invocations(m[2])[2][k] = View(roots[k], request.blocks)
    BY <2>7 DEF Ok
  <2>9. SUFFICES ASSUME NEW k \in DOMAIN batch
               PROVE  Brings(Views[k], Invocations(m[2])[2][k])
    OBVIOUS
  <2>10. BlocksOf(Export(Views[k])) \subseteq request.blocks
    BY <1>1, <1>3, <1>5
  <2>11. Invocations(m[2])[2][k] = View(Views[k].root, request.blocks)
    BY <1>1, <2>8
  <2> HIDE DEF roots, views, root
  <2> QED BY <2>10, <2>11, ViewBrings
<1> QED BY <1>6, <1>7

LEMMA ListedByItself ==
    ASSUME NEW A, NEW s \in Seq(A)
    PROVE  s \in Seq(ToSet(s))
<1>1. Len(s) \in Nat /\ s \in [1..Len(s) -> A]
  OBVIOUS
<1>2. \A i \in 1..Len(s) : s[i] \in ToSet(s)
  BY <1>1 DEF ToSet
<1>3. s \in [1..Len(s) -> ToSet(s)]
  BY <1>1, <1>2
<1> QED BY <1>1, <1>3

LEMMA IssueHolds ==
    ASSUME EInv, HeldTells, Issue
    PROVE  HeldTells'
<1>1. PICK d : held' = Append(held, d) /\ IsHeld(d) /\ d.root[2] = Len(held) + 1
  <2>1. PICK given \in SUBSET DOMAIN held, l \in Links : \E inline \in SUBSET given :
            LET proofs == SetToSortSeq(given, <)
                d == Delegate(Len(held) + 1,
                              [k \in DOMAIN proofs |-> IF proofs[k] \in inline THEN held[proofs[k]]
                                                       ELSE Linked(held[proofs[k]].root)],
                              l.links, l.attached)
            IN  IsOk(d) /\ held' = Append(held, d[2])
    BY DEF Issue
  <2> DEFINE order == SetToSortSeq(given, <)
  <2>2. PICK inline \in SUBSET given :
            LET d == Delegate(Len(held) + 1,
                              [k \in DOMAIN order |-> IF order[k] \in inline THEN held[order[k]]
                                                      ELSE Linked(held[order[k]].root)],
                              l.links, l.attached)
            IN  IsOk(d) /\ held' = Append(held, d[2])
    BY <2>1
  <2> HIDE DEF order
  <2> DEFINE proofs == [k \in DOMAIN order |-> IF order[k] \in inline THEN held[order[k]]
                                               ELSE Linked(held[order[k]].root)]
  <2>3. \A k \in DOMAIN proofs : ~proofs[k].linked => IsHeld(proofs[k])
    BY DEF HeldTells, Linked
  <2> HIDE DEF proofs
  <2>4. /\ IsHeld(Delegate(Len(held) + 1, proofs, l.links, l.attached)[2])
        /\ Delegate(Len(held) + 1, proofs, l.links, l.attached)[2].root[2] = Len(held) + 1
    BY <2>2, <2>3, DelegateIsHeld DEF proofs
  <2> QED BY <2>2, <2>4 DEF proofs
<1>2. Preparing' /\ batch' = batch
  BY DEF Issue, Preparing
<1>3. held \in Seq(ToSet(held) \cup {d}) /\ d \in ToSet(held) \cup {d}
  <2>1. held \in Seq(ToSet(held))
    BY DEF HeldTells
  <2>2. \A A, B : A \subseteq B => Seq(A) \subseteq Seq(B)
    OBVIOUS
  <2> QED BY <2>1, <2>2
<1>4. held' \in Seq(ToSet(held) \cup {d})
  <2> DEFINE A == ToSet(held) \cup {d}
  <2> HIDE DEF A
  <2> QED BY <1>1, <1>3 DEF A
<1>5. held' \in Seq(ToSet(held'))
  BY <1>4, ListedByItself
<1>6. \A i \in DOMAIN held' : IsHeld(held'[i]) /\ held'[i].root[2] = i
  <2>1. \A i \in DOMAIN held' : \/ i \in DOMAIN held /\ held'[i] = held[i]
                                \/ i = Len(held) + 1 /\ held'[i] = d
    <3> DEFINE A == ToSet(held) \cup {d}
    <3>1. held \in Seq(A) /\ d \in A
      BY <1>3
    <3> HIDE DEF A
    <3> QED BY <1>1, <3>1
  <2> QED BY <1>1, <2>1 DEF HeldTells
<1> QED BY <1>2, <1>5, <1>6 DEF HeldTells, ToSet, Preparing

\* Attaching a block to the last of them, or replacing it by its archive.
LEMMA ReplaceHolds ==
    ASSUME EInv, HeldTells, AttachBlock \/ Reload
    PROVE  HeldTells'
<1> DEFINE n == Len(held)
<1>1. Preparing' /\ held # <<>>
  BY DEF AttachBlock, Reload, Preparing
<1>2. held \in Seq(ToSet(held))
  BY DEF HeldTells
<1>3. n \in Nat /\ DOMAIN held = 1..n /\ n \in DOMAIN held
  BY <1>1, <1>2
<1>4. PICK d : held' = [held EXCEPT ![n] = d] /\ IsHeld(d) /\ d.root[2] = n
  <2>0. IsHeld(held[n]) /\ held[n].root[2] = n
    BY <1>3 DEF HeldTells
  <2>1. CASE AttachBlock
    <3>1. PICK b : held' = [held EXCEPT ![n] = Attach(@, b)]
      BY <2>1 DEF AttachBlock
    <3>2. held' = [held EXCEPT ![n] = Attach(held[n], b)]
      BY <3>1
    <3>3. Attach(held[n], b).root = held[n].root
      BY <2>0 DEF Attach, IsHeld
    <3> QED BY <2>0, <3>2, <3>3, AttachIsHeld
  <2>2. CASE Reload
    <3> DEFINE r == Extract(Archive(held[n]))
    <3>1. held' = [held EXCEPT ![n] = r[2]]
      BY <2>2 DEF Reload, Last
    <3>2. PICK blocks : r = Ok(View(held[n].root, blocks))
      BY ArchiveRead
    <3>3. r[2] = View(held[n].root, blocks)
      BY <3>2 DEF Ok
    <3>4. Kind(held[n].root) = "ucan"
      BY <2>0 DEF IsHeld
    <3>5. IsHeld(View(held[n].root, blocks))
      BY <3>4, ViewIsHeld DEF View
    <3>6. View(held[n].root, blocks).root = held[n].root
      BY DEF View
    <3> QED BY <2>0, <3>1, <3>3, <3>5, <3>6
  <2> QED BY <2>1, <2>2
<1>5. DOMAIN held' = DOMAIN held /\ \A i \in DOMAIN held' : held'[i] = IF i = n THEN d ELSE held[i]
  BY <1>3, <1>4
<1>6. held' \in Seq(ToSet(held) \cup {d})
  <2>1. \A i \in 1..n : held[i] \in ToSet(held)
    BY <1>3 DEF ToSet
  <2>2. held' \in [1..n -> ToSet(held) \cup {d}]
    BY <1>3, <1>4, <1>5, <2>1
  <2> QED BY <1>3, <2>2
<1>7. held' \in Seq(ToSet(held'))
  BY <1>6, ListedByItself
<1>8. \A i \in DOMAIN held' : IsHeld(held'[i]) /\ held'[i].root[2] = i
  BY <1>4, <1>5 DEF HeldTells
<1> QED BY <1>1, <1>7, <1>8 DEF HeldTells, ToSet, Preparing

LEMMA NextHolds ==
    ASSUME EInv, HeldTells, [Next]_vars
    PROVE  HeldTells'
<1>1. CASE Issue
  BY <1>1, IssueHolds
<1>2. CASE AttachBlock \/ Reload
  BY <1>2, ReplaceHolds
<1>3. CASE Send
  <2>1. held' = held /\ Len(held) = MaxHeld
    BY <1>3 DEF Send
  <2> QED BY <2>1 DEF HeldTells, ToSet
<1>4. ASSUME UNCHANGED <<held, batch>> PROVE HeldTells'
  BY <1>4 DEF HeldTells, ToSet, Preparing
<1> QED
  BY <1>1, <1>2, <1>3, <1>4 DEF Next, Omit, Receive, Refuse, Answer, OmitReply, Decode, vars

\* A message is decoded once, from a request that no longer changes.
LEMMA NextBrought ==
    ASSUME EInv, HeldTells, Brought, [Next]_vars
    PROVE  Brought'
<1> SUFFICES ASSUME Received'
             PROVE  (\A k \in DOMAIN batch : Brings(Views[k], Invocations(message[2])[2][k]))'
  BY DEF Brought
<1>1. message' # None /\ IsOk(message') /\ Whole'
  BY DEF Received, IsOk, None
<1>2. CASE Receive
  <2>1. /\ ~Preparing
        /\ UNCHANGED <<held, batch, client, codec, request, response, reply, results>>
        /\ message' = IF client.contentType = "application/car" THEN DecodeLegacy(request)
                                                                ELSE DecodeMessage(request)
    BY <1>2 DEF Receive
  <2>2. Whole
    BY <1>1, <2>1, SentStays
  <2>3. \A k \in DOMAIN batch : Brings(Views[k], Invocations(message'[2])[2][k])
    BY <1>1, <2>1, <2>2, RequestBrings DEF IsOk
  <2> QED BY <2>1, <2>3 DEF Views, Invocations
<1>3. CASE ~Receive
  <2>1. message' = message
    BY <1>3 DEF Next, Issue, AttachBlock, Reload, Send, Omit, Refuse, Answer, OmitReply, Decode, vars
  <2>2. message # None /\ ~Preparing
    BY <1>1, <2>1 DEF EInv, Quiet
  <2>3. UNCHANGED <<held, batch, client, request>>
    BY <1>3, <2>2 DEF Next, Issue, AttachBlock, Reload, Send, Omit, Refuse, Answer, OmitReply, Decode, vars
  <2>4. Received
    BY <1>1, <2>1, <2>3, SentStays DEF Received, IsOk
  <2>5. \A k \in DOMAIN batch : Brings(Views[k], Invocations(message[2])[2][k])
    BY <2>4 DEF Brought
  <2> QED BY <2>1, <2>3, <2>5 DEF Views, Invocations
<1> QED BY <1>2, <1>3

-----------------------------------------------------------------------------
(* The way back.                                                           *)

\* The receipts hold the invocations of the message as the server has them.
ReplyBrings ==
    reply # None /\ reply # Threw =>
        \A i \in DOMAIN response.receipts : response.receipts[i].ran = Invocations(message[2])[2][i]

\* Results are those of a reply.
ResultsReplied == results # None /\ IsOk(results) => reply # None /\ reply[1] = "car"

\* What is found in a store that has an export is a view with all of it behind.
LEMMA FoundBehind ==
    ASSUME NEW v, NEW store, v.linked = FALSE, ExportIfView(v) \subseteq store
    PROVE  /\ ViewOrLink(v.root, store).linked = FALSE
           /\ ViewOrLink(v.root, store).blocks = store
           /\ Behind(v.root, v.blocks) \subseteq Behind(v.root, store)
<1>1. BlocksOf(Export(v)) \subseteq store
  BY DEF ExportIfView
<1>2. v.root \in store /\ ProofBlocks(v) \subseteq store
  BY <1>1 DEF BlocksOf, Export
<1>3. ViewOrLink(v.root, store) = View(v.root, store)
  BY <1>2 DEF ViewOrLink
<1> QED BY <1>2, <1>3, ExportTravels DEF View

\* The effects of a receipt are exported with it, and found again in its store.
LEMMA EffectsFound ==
    ASSUME NEW sent, NEW r, r.root = sent.root, ReceiptBlocks(sent) \subseteq r.store,
           NEW i \in DOMAIN Fx(sent), ~Fx(sent)[i].linked
    PROVE  /\ ~Fx(r)[i].linked
           /\ Behind(Fx(sent)[i].root, Fx(sent)[i].blocks) \subseteq Behind(Fx(sent)[i].root, Fx(r)[i].blocks)
<1> DEFINE effect == Fx(sent)[i]
<1>1. ExportIfView(effect) \subseteq r.store
  BY DEF ReceiptBlocks, ExportAll
<1>2. effect = ViewOrLink(sent.root[4][i], sent.store) /\ Fx(r)[i] = ViewOrLink(sent.root[4][i], r.store)
  BY DEF Fx
<1>3. effect.root = sent.root[4][i]
  BY <1>2 DEF ViewOrLink, View, Linked
<1>4. effect.linked = FALSE
  BY <1>2 DEF ViewOrLink, View, Linked
<1>5. Fx(r)[i] = ViewOrLink(effect.root, r.store)
  BY <1>2, <1>3
<1> HIDE DEF effect
<1>6. /\ ViewOrLink(effect.root, r.store).linked = FALSE
      /\ ViewOrLink(effect.root, r.store).blocks = r.store
      /\ Behind(effect.root, effect.blocks) \subseteq Behind(effect.root, r.store)
  BY <1>1, <1>4, FoundBehind
<1> QED BY <1>5, <1>6 DEF effect

\* A receipt of the response that is about an invocation the client has sent holds
\* what the server was brought, which is all there was behind it.
LEMMA SentHolds ==
    ASSUME EInv, HeldTells, Brought, ReplyBrings, ~Preparing, Whole,
           reply # None, reply # Threw, NEW k \in DOMAIN batch,
           NEW j \in DOMAIN response.receipts, response.receipts[j].ran.root = Views[k].root
    PROVE  Brings(Views[k], response.receipts[j].ran)
<1> DEFINE sent == response.receipts[j]
<1>1. Received /\ Ran(response.receipts) = Roots(Views)
  BY DEF EInv, ResponseTells, MessageTells, Received
<1>2. j \in DOMAIN batch /\ Views[j].root = sent.ran.root
  <2>1. DOMAIN Ran(response.receipts) = DOMAIN response.receipts /\ DOMAIN Roots(Views) = DOMAIN batch
    BY DEF Ran, Roots, Views
  <2>2. j \in DOMAIN batch
    BY <1>1, <2>1
  <2>3. Ran(response.receipts)[j] = sent.ran.root
    BY DEF Ran
  <2>4. Roots(Views)[j] = Views[j].root
    BY <2>2 DEF Roots, Views
  <2> QED BY <1>1, <2>2, <2>3, <2>4
<1>3. Views[j] = Views[k]
  <2>1. \A n \in DOMAIN batch : batch[n] \in DOMAIN held
    <3> DEFINE places == 1..MaxHeld
    <3>1. batch \in Seq(places) /\ DOMAIN held = places
      BY DEF EInv, RequestTells, HeldTells
    <3> HIDE DEF places
    <3> QED BY <3>1
  <2>2. \A n \in DOMAIN batch : Views[n] = held[batch[n]] /\ held[batch[n]].root[2] = batch[n]
    BY <2>1 DEF HeldTells, Views
  <2> QED BY <1>2, <2>2
<1>4. Brings(Views[j], Invocations(message[2])[2][j])
  BY <1>1, <1>2 DEF Brought
<1>5. sent.ran = Invocations(message[2])[2][j]
  BY DEF ReplyBrings
<1> QED BY <1>3, <1>4, <1>5

\* What a client gets for an invocation from the response brings the blocks back.
LEMMA GetBrings ==
    ASSUME EInv, HeldTells, Brought, ReplyBrings, ReplyWhole,
           NEW m, m = DecodeMessage(reply[2]), IsOk(m),
           NEW k \in DOMAIN batch, IsOk(Get(m[2], held[batch[k]].root))
    PROVE  BringsBack(k, Get(m[2], held[batch[k]].root)[2])
<1> DEFINE receipts == response.receipts
           store == reply[2].blocks
           r == Get(m[2], held[batch[k]].root)[2]
<1>1. reply # None /\ reply # Threw /\ ~Preparing
  BY DEF ReplyWhole, Receipted, Threw, EInv, Quiet
<1>2. /\ reply[2] = EncodeMessage(response)
      /\ reply[2].roots = <<response.root>>
      /\ response.root[3] = ReportOf(receipts)
  BY <1>1 DEF ReplyWhole, EInv, ResponseTells, EncodeMessage, EncodeCAR
<1>3. \A n \in DOMAIN receipts : ReceiptBlocks(receipts[n]) \subseteq store
  BY <1>2 DEF EncodeMessage, EncodeCAR, MessageBlocks, ToSet
<1>4. m[2].root = response.root /\ m[2].store = store
  <2>1. m[2].root = response.root
    BY <1>2, MessageDecoded
  <2>2. m[2].store = store
    BY DEF DecodeMessage, MessageView, IsOk, Ok, Threw
  <2> QED BY <2>1, <2>2
<1>5. Views[k].root = held[batch[k]].root
  BY DEF Views
<1>6. DOMAIN receipts \subseteq Nat
  <2>1. Ran(receipts) \in Seq(ToSet(Roots(Views)))
    BY <1>1 DEF EInv, ResponseTells, MessageTells
  <2>2. DOMAIN Ran(receipts) = 1..Len(Ran(receipts))
    BY <2>1
  <2>3. DOMAIN Ran(receipts) = DOMAIN receipts
    BY DEF Ran
  <2> QED BY <2>2, <2>3
<1> HIDE DEF receipts, store
<1>7. PICK j \in DOMAIN receipts : /\ receipts[j].ran.root = Views[k].root
                                   /\ ReportOf(receipts)[Views[k].root] = receipts[j].root
  <2>1. Views[k].root \in DOMAIN ReportOf(receipts)
    BY <1>2, <1>4, <1>5, GetNames
  <2> QED BY <1>6, <2>1, ReportHas
<1> DEFINE sent == receipts[j]
<1>8. r.root = sent.root /\ r.store = store /\ r.ran = ViewOrLink(sent.root[2], store)
  <2>1. Get(m[2], held[batch[k]].root) = ReceiptView(sent.root, store)
    BY <1>2, <1>4, <1>5, <1>7 DEF Get, IsOk, Threw
  <2>2. ReceiptView(sent.root, store) =
            Ok([root |-> sent.root, store |-> store, ran |-> ViewOrLink(sent.root[2], store),
                proofs |-> [i \in DOMAIN sent.root[5] |-> ViewOrLink(sent.root[5][i], store)]])
    BY <2>1 DEF ReceiptView, IsOk, Threw
  <2> QED BY <2>1, <2>2 DEF Ok
<1>9. ReceiptBlocks(sent) \subseteq store /\ sent \in ToSet(receipts)
  BY <1>3 DEF ToSet
<1>10. sent.root[2] = sent.ran.root
  BY <1>1, <1>7 DEF EInv, ResponseTells, NamesRan, receipts
<1> HIDE DEF r
<1>11. ASSUME Whole
       PROVE  /\ ~r.ran.linked
              /\ Behind(Views[k].root, Views[k].blocks) \subseteq Behind(Views[k].root, r.ran.blocks)
  <2>1. Brings(Views[k], sent.ran)
    BY <1>1, <1>7, <1>11, SentHolds DEF receipts
  <2>2. sent.ran.linked = FALSE /\ sent.ran.root = Views[k].root
    BY <2>1 DEF Brings
  <2>3. ProofBlocks(Views[k]) \subseteq sent.ran.blocks
    BY <2>1 DEF Brings, BlocksOf, Export
  <2>4. Behind(Views[k].root, Views[k].blocks) \subseteq Behind(Views[k].root, sent.ran.blocks)
    BY <2>3, ExportTravels
  <2>5. ExportIfView(sent.ran) \subseteq store
    BY <1>9 DEF ReceiptBlocks
  <2>6. r.ran = ViewOrLink(sent.ran.root, store)
    BY <1>8, <1>10
  <2> DEFINE v == sent.ran
  <2> HIDE DEF sent
  <2>7. /\ r.ran.linked = FALSE /\ r.ran.blocks = store
        /\ Behind(v.root, v.blocks) \subseteq Behind(v.root, store)
    <3>1. v.linked = FALSE /\ ExportIfView(v) \subseteq store /\ r.ran = ViewOrLink(v.root, store)
      BY <2>2, <2>5, <2>6
    <3> HIDE DEF v
    <3>2. /\ ViewOrLink(v.root, store).linked = FALSE
          /\ ViewOrLink(v.root, store).blocks = store
          /\ Behind(v.root, v.blocks) \subseteq Behind(v.root, store)
      BY <3>1, FoundBehind
    <3> QED BY <3>1, <3>2
  <2> QED BY <2>2, <2>4, <2>7
<1>12. ASSUME NEW i \in DOMAIN Fx(sent), ~Fx(sent)[i].linked
       PROVE  /\ ~Fx(r)[i].linked
              /\ Behind(Fx(sent)[i].root, Fx(sent)[i].blocks)
                    \subseteq Behind(Fx(sent)[i].root, Fx(r)[i].blocks)
  <2> HIDE DEF sent
  <2> QED BY <1>8, <1>9, <1>12, EffectsFound
<1> HIDE DEF sent
<1>13. BringsBack(k, r)
  BY <1>8, <1>9, <1>11, <1>12 DEF BringsBack, receipts
<1> QED BY <1>13 DEF r

LEMMA NextReplyBrings ==
    ASSUME EInv, ReplyBrings, [Next]_vars
    PROVE  ReplyBrings'
<1>1. CASE Answer
  <2> DEFINE found == Invocations(message[2])
  <2> SUFFICES ASSUME reply' # Threw
               PROVE  \A i \in DOMAIN response'.receipts : response'.receipts[i].ran = found[2][i]
    BY <1>1 DEF Answer, ReplyBrings, Invocations
  <2>1. PICK a \in Answers :
            response' = Build(<<>>, [i \in DOMAIN found[2] |->
                            IssueReceipt(found[2][i], a[i].out, a[i].fx, <<>>)])
    BY <1>1 DEF Answer
  <2> HIDE DEF found
  <2>3. response'.receipts = [i \in DOMAIN found[2] |->
                                 IssueReceipt(found[2][i], a[i].out, a[i].fx, <<>>)]
    BY <2>1, ReceiptsIssued
  <2>4. \A i \in DOMAIN found[2] : response'.receipts[i].ran = found[2][i]
    BY <2>3 DEF IssueReceipt
  <2> QED BY <2>3, <2>4
<1>2. CASE Refuse
  BY <1>2 DEF Refuse, ReplyBrings
<1>3. CASE Receive
  <2>1. message = None /\ UNCHANGED <<response, reply>>
    BY <1>3 DEF Receive
  <2> QED BY <2>1 DEF EInv, ResponseTells, ReplyBrings
<1>4. CASE OmitReply
  <2>1. reply # None /\ reply # Threw /\ UNCHANGED <<message, response>>
    BY <1>4 DEF OmitReply, ReplyWhole, Receipted, Threw
  <2> QED BY <2>1 DEF ReplyBrings, Invocations
<1>5. CASE ~Answer /\ ~Refuse /\ ~Receive /\ ~OmitReply
  <2>1. UNCHANGED <<message, response, reply>>
    BY <1>5 DEF Next, Issue, AttachBlock, Reload, Send, Omit, Decode, vars
  <2> QED BY <2>1 DEF ReplyBrings, Invocations
<1> QED BY <1>1, <1>2, <1>3, <1>4, <1>5

\* Once there are results nothing changes that they are compared with.
LEMMA NextReceipts ==
    ASSUME EInv, HeldTells, Brought, ReplyBrings, ResultsReplied, ReceiptBlocksArrive, [Next]_vars
    PROVE  ResultsReplied' /\ ReceiptBlocksArrive'
<1> SUFFICES ASSUME results' # None, IsOk(results')
             PROVE  /\ reply' # None /\ reply'[1] = "car"
                    /\ ReplyWhole' => \A k \in DOMAIN batch' : BringsBack(k, results[2][k])'
  BY DEF ResultsReplied, ReceiptBlocksArrive, IsOk
<1>1. CASE Decode
  <2> DEFINE m == DecodeMessage(reply[2])
             got(k) == Get(m[2], held[batch[k]].root)
  <2>1. UNCHANGED <<held, batch, client, request, response, reply>> /\ reply # None
    BY <1>1 DEF Decode
  <2>2. reply[1] = "car" /\ IsOk(m) /\ results' = ReceiptsOf(m[2])
    BY <1>1 DEF Decode, IsOk, Threw
  <2>3. \A k \in DOMAIN batch : IsOk(got(k)) /\ results'[2][k] = got(k)[2]
    BY <2>2 DEF ReceiptsOf, IsOk, Ok, Threw
  <2>4. ReplyWhole => \A k \in DOMAIN batch : BringsBack(k, results'[2][k])
    BY <2>2, <2>3, GetBrings
  <2>4a. ReplyWhole' = ReplyWhole
    BY <2>1 DEF ReplyWhole, Receipted, EncodeMessage, MessageBlocks
  <2>5. Whole' = Whole /\ Views' = Views
    BY <2>1, SentStays DEF Views
  <2> HIDE DEF m
  <2> QED BY <2>1, <2>2, <2>4, <2>4a, <2>5 DEF BringsBack
<1>2. CASE ~Decode
  <2>1. results' = results
    BY <1>2 DEF Next, Issue, AttachBlock, Reload, Send, Omit, Receive, Refuse, Answer, OmitReply, vars
  <2>2. reply # None /\ reply[1] = "car" /\ (ReplyWhole => \A k \in DOMAIN batch : BringsBack(k, results[2][k]))
    BY <2>1 DEF ResultsReplied, ReceiptBlocksArrive, IsOk
  <2>3. message # None /\ ~Preparing
    BY <2>2 DEF EInv, Quiet, ResponseTells, Threw
  <2>4. UNCHANGED <<held, batch, client, request, response, reply>>
    BY <1>2, <2>1, <2>2, <2>3
       DEF Next, Issue, AttachBlock, Reload, Send, Omit, Receive, Refuse, Answer, OmitReply, vars
  <2>4a. ReplyWhole' = ReplyWhole
    BY <2>4 DEF ReplyWhole, Receipted, EncodeMessage, MessageBlocks
  <2>5. Whole' = Whole /\ Views' = Views
    BY <2>4, SentStays DEF Views
  <2> QED BY <2>1, <2>2, <2>4, <2>4a, <2>5 DEF BringsBack
<1> QED BY <1>1, <1>2

LEMMA InitHolds == Init => HeldTells /\ Brought /\ ReplyBrings /\ ResultsReplied /\ ReceiptBlocksArrive
<1> SUFFICES ASSUME Init PROVE HeldTells /\ Brought /\ ReplyBrings /\ ResultsReplied /\ ReceiptBlocksArrive
  OBVIOUS
<1>1. held = <<>> /\ Preparing /\ message = None /\ reply = None /\ results = None
  BY DEF Init, Preparing
<1> QED BY <1>1 DEF HeldTells, Brought, Received, ReplyBrings, ResultsReplied, ReceiptBlocksArrive

\* The invariant of what travels.
HInv == EInv /\ HeldTells /\ Brought /\ ReplyBrings /\ ResultsReplied /\ ReceiptBlocksArrive

LEMMA AllTravels == Spec => []HInv
<1>1. Init => HInv
  BY InitEInv, InitHolds DEF HInv
<1>2. HInv /\ [Next]_vars => HInv'
  BY NextEInv, NextHolds, NextBrought, NextReplyBrings, NextReceipts DEF HInv
<1> QED BY <1>1, <1>2, PTL DEF Spec

\* Whoever gets a delegation in an archive, or a server an invocation in a
\* request that is whole, has what was attached to it.
THEOREM AttachmentsTravel == Spec => []AttachmentsArrive
<1>1. HInv => AttachmentsArrive
  BY ArchiveBrings, ExportHas DEF AttachmentsArrive, HInv, Brought, Brings
<1> QED BY <1>1, AllTravels, PTL

\* A delegation holds all that was held with the delegations it was given as
\* proofs, and every block of its proofs, of theirs, and so on, that it holds is in
\* its archive, in its export and in what the server makes of a whole request
\* (delegation.js: exportDAG follows the proofs to the end).
THEOREM ProofBlocksTravel == Spec => []ProofBlocksArrive
<1>1. ASSUME HInv PROVE ProofBlocksArrive
  <2>1. \A i \in DOMAIN held : HoldsItsProofs(held[i])
    BY <1>1 DEF HInv, HeldTells, IsHeld
  <2>2. ASSUME Received, NEW k \in DOMAIN batch
        PROVE  Behind(Views[k].root, Views[k].blocks)
                  \subseteq Behind(Views[k].root, Invocations(message[2])[2][k].blocks)
    <3>1. BlocksOf(Export(Views[k])) \subseteq Invocations(message[2])[2][k].blocks
      BY <1>1, <2>2 DEF HInv, Brought, Brings
    <3>2. ProofBlocks(Views[k]) \subseteq Invocations(message[2])[2][k].blocks
      BY <3>1 DEF BlocksOf, Export
    <3> QED BY <3>2, ExportTravels
  <2> QED BY <2>1, <2>2, ArchiveHasBehind, ImportHasBehind DEF ProofBlocksArrive
<1>2. HInv => ProofBlocksArrive
  BY <1>1
<1> QED BY <1>2, AllTravels, PTL

\* What the client gets for an invocation (receipt.js) has the invocation with all
\* that was behind it when it was sent, and the effects with all that was behind
\* them, although the server issues the receipt for what it decoded and the client
\* finds it by the root of the invocation.
THEOREM ReceiptBlocksTravel == Spec => []ReceiptBlocksArrive
<1>1. HInv => ReceiptBlocksArrive
  BY DEF HInv
<1> QED BY <1>1, AllTravels, PTL

=============================================================================

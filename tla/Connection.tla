----------------------------- MODULE Connection -----------------------------
(***************************************************************************)
(* execute of @ucanto/client (connection.js) over a channel to a Server:   *)
(* the HTTP channel of @ucanto/transport (http.js), which may lose, delay  *)
(* and damage what it carries and knows failures only as rejections, or    *)
(* the server itself, whose responses arrive as they are.                  *)
(*                                                                         *)
(* A call is one execute.  Calls are independent: a client that tries      *)
(* again, or another one, makes another call with the same invocations.    *)
(***************************************************************************)
EXTENDS Server, FiniteSetsExt

CONSTANTS
    Batches,     \* what the calls may send: a set of [Calls -> Seq(Invocations)]
    MaxBatch,    \* invocations of the longest batch
    Channels,    \* subset of {"http", "direct"}
    Codecs       \* what codec.accept may find: subset of {"match", "415", "406"}

ASSUME ConnectionAssumption ==
    /\ Batches \subseteq [Calls -> Seq(Invocations)]
    /\ \A b \in Batches : \A n \in Calls : Len(b[n]) <= MaxBatch
    /\ Channels \subseteq {"http", "direct"}
    /\ Codecs \subseteq {"match", "415", "406"}

VARIABLES
    batch,     \* batch[n]: the invocations of call n
    channel,   \* the channel of the connection
    codec,     \* whether the codecs of client and server match
    wire,      \* what is under way for call n
    client,    \* what has become of execute, call n
    results    \* the outcomes it resolved with

setup == <<world, batch, channel, codec>>
vars  == <<serverVars, batch, channel, codec, wire, client, results>>

Wires == {"idle", "request", "damaged request", "arrived", "response", "damaged response"}

\* receipts: resolved with what the server issued; errors: resolved with
\* receipts made up by execute, signed by nobody.
Clients == {"idle", "waiting", "receipts", "errors", "rejected"}

\* The report of a message: one receipt for each invocation, the first.
LastReport(receipts) ==                          \* mutation: report[key] is overwritten
    [inv \in {receipts[i].ran : i \in DOMAIN receipts} |->
        receipts[Max({i \in DOMAIN receipts : receipts[i].ran = inv})]]

Report(receipts) ==
    [inv \in {receipts[i].ran : i \in DOMAIN receipts} |->
        receipts[Min({i \in DOMAIN receipts : receipts[i].ran = inv})]]

Init ==
    /\ ServerInit
    /\ batch \in Batches
    /\ channel \in Channels
    /\ codec \in Codecs
    /\ wire = [n \in Calls |-> "idle"]
    /\ client = [n \in Calls |-> "idle"]
    /\ results = [n \in Calls |-> <<>>]

-----------------------------------------------------------------------------
(* The request.                                                            *)

Send(n) ==
    /\ client[n] = "idle"
    /\ client' = [client EXCEPT ![n] = "waiting"]
    /\ wire' = [wire EXCEPT ![n] = "request"]
    /\ UNCHANGED <<serverVars, batch, channel, codec, results>>

\* An invocation cannot be signed: nothing is sent.
Unsent(n) ==
    /\ IssueFails
    /\ client[n] = "idle"
    /\ client' = [client EXCEPT ![n] = "rejected"]
    /\ UNCHANGED <<serverVars, batch, channel, codec, wire, results>>

DamageRequest(n) ==
    /\ channel = "http"
    /\ wire[n] = "request"
    /\ wire' = [wire EXCEPT ![n] = "damaged request"]
    /\ UNCHANGED <<serverVars, batch, channel, codec, client, results>>

Arrive(n) ==
    /\ wire' = [wire EXCEPT ![n] = "arrived"]
    /\ UNCHANGED <<batch, channel, codec, client, results>>

NotAcceptable(n) ==
    /\ wire[n] \in {"request", "damaged request"}
    /\ codec # "match"
    /\ Decline(n, codec)
    /\ Arrive(n)

Malformed(n) ==
    /\ wire[n] = "damaged request"
    /\ codec = "match"
    /\ Decline(n, "400")
    /\ Arrive(n)

Deliver(n) ==
    /\ wire[n] = "request"
    /\ codec = "match"
    /\ Execute(n, batch[n])
    /\ Arrive(n)

-----------------------------------------------------------------------------
(* The response.                                                           *)

Answered(n) == answer[n].kind \notin {"none", "running"}

Return(n) ==
    /\ wire[n] = "arrived"
    /\ Answered(n)
    /\ wire' = [wire EXCEPT ![n] = "response"]
    /\ UNCHANGED <<serverVars, batch, channel, codec, client, results>>

DamageResponse(n) ==
    /\ channel = "http"
    /\ wire[n] = "response"
    /\ answer[n].kind = "message"
    /\ wire' = [wire EXCEPT ![n] = "damaged response"]
    /\ UNCHANGED <<serverVars, batch, channel, codec, client, results>>

Settle(n, how, outcomes) ==
    /\ client' = [client EXCEPT ![n] = how]
    /\ results' = [results EXCEPT ![n] = outcomes]
    /\ UNCHANGED <<serverVars, batch, channel, codec, wire>>

\* The fetch fails, at whatever point the request or the response is.
Break(n) ==
    /\ channel = "http"
    /\ client[n] = "waiting"
    /\ Settle(n, "rejected", <<>>)

\* channel.request rejects with the server, or because the status is not ok.
ReceiveFailure(n) ==
    /\ client[n] = "waiting"
    /\ wire[n] = "response"
    /\ \/ answer[n].kind = "rejected"
       \/ answer[n].kind \in Statuses /\ channel = "http"
    /\ Settle(n, "rejected", <<>>)

ReceiveReceipts(n) ==
    /\ client[n] = "waiting"
    /\ wire[n] = "response"
    /\ answer[n].kind = "message"
    /\ LET report == Report(answer[n].receipts)
       IN  Settle(n, "receipts", [i \in DOMAIN batch[n] |-> report[batch[n][i]].out])

\* codec.decode throws: the error is made a receipt for every invocation.
ReceiveNonsense(n) ==
    /\ client[n] = "waiting"
    /\ \/ wire[n] = "damaged response"
       \/ /\ wire[n] = "response"
          /\ answer[n].kind \in Statuses
          /\ channel = "direct"
    /\ Settle(n, "errors", [i \in DOMAIN batch[n] |-> "DecodeError"])

-----------------------------------------------------------------------------
Quiet == UNCHANGED <<batch, channel, codec, wire, client, results>>

Work == ServerStep /\ Quiet

RevokeAny == (\E d \in Delegations \ revoked : Revoke(d)) /\ Quiet

Transport(n) ==
    \/ NotAcceptable(n) \/ Malformed(n) \/ Deliver(n) \/ Return(n)
    \/ ReceiveFailure(n) \/ ReceiveReceipts(n) \/ ReceiveNonsense(n)

Mishap(n) == DamageRequest(n) \/ DamageResponse(n) \/ Break(n)

Settled == \A n \in Calls : client[n] \in {"receipts", "errors", "rejected"}

Next ==
    \/ \E n \in Calls : Send(n) \/ Unsent(n) \/ Transport(n) \/ Mishap(n)
    \/ Work
    \/ RevokeAny
    \/ Settled /\ UNCHANGED vars

Spec == Init /\ [][Next]_vars

\* The transport carries what it does not lose, and the callbacks of the host,
\* access among them, return: each run on its own, since none waits for another.
FairSpec ==
    /\ Spec
    /\ \A n \in Calls :
          /\ WF_vars(Transport(n))
          /\ WF_vars((Respond(n) \/ Reject(n)) /\ Quiet)
          /\ \A i \in 1..MaxBatch :
                WF_vars(i \in DOMAIN runs[n] /\ RunStep(n, i) /\ Quiet)

-----------------------------------------------------------------------------
(* Properties.                                                             *)

\* Types; and the runs of a call are the invocations of its batch, in order.
TypeOK ==
    /\ world \in [Invocations -> World]
    /\ revoked \subseteq Delegations
    /\ runs \in [Calls -> Seq(Run)]
    /\ answer \in [Calls -> Answer]
    /\ effects \subseteq Calls \X (Nat \ {0})
    /\ before \in [Calls -> SUBSET Delegations]
    /\ batch \in [Calls -> Seq(Invocations)]
    /\ channel \in {"http", "direct"}
    /\ codec \in {"match", "415", "406"}
    /\ wire \in [Calls -> Wires]
    /\ client \in [Calls -> Clients]
    /\ results \in [Calls -> Seq(Outcomes \cup {"DecodeError"})]
    /\ \A n \in Calls :
          runs[n] # <<>> => /\ Len(runs[n]) = Len(batch[n])
                           /\ \A i \in DOMAIN runs[n] : runs[n][i].inv = batch[n][i]

\* The handler of a service is called only for an invocation that is for this
\* service and that some chain authorises, none of whose delegations had been
\* revoked when the message was decoded, however the runs of all messages and
\* the revocations interleave.  (One revoked in between may or may not count.)
OnlyPermittedEffects ==
    \A e \in effects :
        /\ e[2] \in DOMAIN runs[e[1]]
        /\ LET w == world[runs[e[1]][e[2]].inv]
           IN  /\ w.kind = "plain"
               /\ \E chain \in w.chains : chain \cap before[e[1]] = {}

\* What the caller sees: see Execution.  Of a server the caller knows only the
\* effects; runs, answers and the wire are hidden.
Promise == INSTANCE Execution WITH batch <- batch, client <- client, results <- results, effects <- effects
KeepsPromise == Promise!Spec

\* Every execute settles, whichever of its runs fail and however.
EveryCallSettles ==
    \A n \in Calls :
        client[n] = "waiting" ~> client[n] \in {"receipts", "errors", "rejected"}

\* Every run that was begun ends, also when another run of its message has
\* failed the message already, or its caller has gone.
EveryRunEnds ==
    \A n \in Calls : \A i \in 1..MaxBatch :
        i \in DOMAIN runs[n]
            ~> i \in DOMAIN runs[n] /\ runs[n][i].phase \in {"issued", "rejected"}

=============================================================================

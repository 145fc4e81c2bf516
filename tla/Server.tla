------------------------------- MODULE Server -------------------------------
(***************************************************************************)
(* handle/execute/run of @ucanto/server (server.js) and the handlers that  *)
(* provideAdvanced makes (handler.js): every invocation of a message is a  *)
(* process of its own, they share the service and wait for one another     *)
(* only at the end, and whatever one of them does not catch fails the      *)
(* whole message.                                                          *)
(*                                                                         *)
(* A call is one message that reaches the server; a run is <<n, i>>, the   *)
(* i-th invocation of call n.  access is what the module Access promises:  *)
(* it grants for a chain no delegation of which is revoked at that moment, *)
(* and may refuse or throw at any time.                                    *)
(***************************************************************************)
EXTENDS Naturals, Sequences, FiniteSets

CONSTANTS
    Calls,           \* messages there may be
    Invocations,     \* CIDs of invocations
    Delegations,     \* CIDs of delegations
    Worlds,          \* what the invocations are: a set of [Invocations -> World]
    HostThrows,      \* whether the host's catch callback may throw
    IssueFails       \* whether issuing a receipt (signing, encoding) may fail

\* What decides about an invocation before it is run, and the sets of
\* delegations (itself included) that authorise it.
Kinds == {"unreadable",   \* its block is no UCAN
          "group",        \* not exactly one capability
          "unknown",      \* the service has no such handler
          "misdirected",  \* it is for another audience
          "plain"}
World == [kind : Kinds, chains : SUBSET SUBSET Delegations]

ASSUME ServerAssumption ==
    /\ Worlds \subseteq [Invocations -> World]
    /\ HostThrows \in BOOLEAN
    /\ IssueFails \in BOOLEAN

VARIABLES
    world,      \* the invocations: chosen in Init, never changed
    revoked,    \* what validateAuthorization objects to
    runs,       \* runs[n]: what has become of each invocation of call n
    answer,     \* what handle returned for call n
    effects,    \* history: the runs whose handler was called
    before      \* history: what was revoked when call n was decoded

serverVars == <<world, revoked, runs, answer, effects, before>>

-----------------------------------------------------------------------------
\* What a receipt says of a run: its handler's result, or why it has none.
Refusals == {"InvocationCapabilityError", "HandlerNotFound", "InvalidAudience", "Unauthorized"}
Results  == {"ok", "error"}
Outcomes == Refusals \cup Results \cup {"HandlerExecutionError"}

Phases == {"access",    \* waiting for access
           "granted",   \* ... which granted: the handler is next
           "handling",  \* waiting for the handler of the host
           "issuing",   \* waiting for a receipt of out
           "issued", "rejected"}

\* guarded: what fails here is caught by run.
Run == [inv : Invocations, phase : Phases, out : Outcomes \cup {"none"}, guarded : BOOLEAN]

Receipt == [ran : Invocations, out : Outcomes]

\* rejected: the promise of handle is, no response was made.
Statuses == {"415", "406", "400"}
Answer == [kind : {"none", "running", "rejected", "message"} \cup Statuses,
           receipts : Seq(Receipt)]

Only(kind) == [kind |-> kind, receipts |-> <<>>]

Issuing(inv, out, guarded) ==
    [inv |-> inv, phase |-> "issuing", out |-> out, guarded |-> guarded]

\* What run and provideAdvanced settle before their first await.  The UCAN is
\* decoded when its capabilities are first read, before the try of run.
Starting(inv, phase) == [inv |-> inv, phase |-> phase, out |-> "none", guarded |-> TRUE]

Begin(inv) ==
    CASE world[inv].kind = "unreadable"  -> Starting(inv, "rejected")
      [] world[inv].kind = "group"       -> Issuing(inv, "InvocationCapabilityError", FALSE)
      [] world[inv].kind = "unknown"     -> Issuing(inv, "HandlerNotFound", FALSE)
      [] world[inv].kind = "misdirected" -> Issuing(inv, "InvalidAudience", TRUE)
      [] world[inv].kind = "plain"       -> Starting(inv, "access")

ServerInit ==
    /\ world \in Worlds
    /\ revoked = {}
    /\ runs = [n \in Calls |-> <<>>]
    /\ answer = [n \in Calls |-> Only("none")]
    /\ effects = {}
    /\ before = [n \in Calls |-> {}]

-----------------------------------------------------------------------------
(* handle.                                                                 *)

Fresh(n)   == answer[n].kind = "none"
Working(n) == answer[n].kind = "running"

\* The codec has no decoder or no encoder for the request, or the payload
\* cannot be decoded.
Decline(n, status) ==
    /\ Fresh(n)
    /\ answer' = [answer EXCEPT ![n] = Only(status)]
    /\ UNCHANGED <<world, revoked, runs, effects, before>>

\* execute: every invocation is run at once.
ExecuteDistinct(n, invocations) ==               \* mutation: nothing is run twice
    LET first(i) == \A j \in 1..(i - 1) : invocations[j] # invocations[i]
        kept     == {i \in DOMAIN invocations : first(i)}
    IN  /\ Fresh(n)
        /\ answer' = [answer EXCEPT ![n] = Only("running")]
        /\ runs' = [runs EXCEPT ![n] = [i \in 1..Cardinality(kept) |-> Begin(invocations[i])]]
        /\ before' = [before EXCEPT ![n] = revoked]
        /\ UNCHANGED <<world, revoked, effects>>

Execute(n, invocations) ==
    /\ Fresh(n)
    /\ answer' = [answer EXCEPT ![n] = Only("running")]
    /\ runs' = [runs EXCEPT ![n] = [i \in DOMAIN invocations |-> Begin(invocations[i])]]
    /\ before' = [before EXCEPT ![n] = revoked]
    /\ UNCHANGED <<world, revoked, effects>>

\* Promise.all, Message.build, encode.
AllIssued(n) == \A i \in DOMAIN runs[n] : runs[n][i].phase = "issued"

Respond(n) ==
    /\ Working(n)
    /\ AllIssued(n)
    /\ answer' = [answer EXCEPT ![n] =
          [kind |-> "message",
           receipts |-> [i \in DOMAIN runs[n] |-> [ran |-> runs[n][i].inv,
                                                   out |-> runs[n][i].out]]]]
    /\ UNCHANGED <<world, revoked, runs, effects, before>>

\* Promise.all rejects as soon as one of them does; the others go on.
NoneRejected(n) == FALSE                         \* mutation: Promise.allSettled
SomeRejected(n) == \E i \in DOMAIN runs[n] : runs[n][i].phase = "rejected"

Reject(n) ==
    /\ Working(n)
    /\ SomeRejected(n)
    /\ answer' = [answer EXCEPT ![n] = Only("rejected")]
    /\ UNCHANGED <<world, revoked, runs, effects, before>>

-----------------------------------------------------------------------------
(* run, for the i-th invocation of call n.                                 *)

AtUnlessAnswered(n, i, phase) ==                 \* mutation: runs stop with the answer
    Working(n) /\ i \in DOMAIN runs[n] /\ runs[n][i].phase = phase
At(n, i, phase) == i \in DOMAIN runs[n] /\ runs[n][i].phase = phase

Become(n, i, run) == runs' = [runs EXCEPT ![n][i] = run]

\* access, as Access specifies it.
Unchecked(inv) == world[inv].chains # {}         \* mutation: revocation not asked
Grantable(inv) == \E chain \in world[inv].chains : chain \cap revoked = {}

Grant(n, i) ==
    /\ At(n, i, "access")
    /\ Grantable(runs[n][i].inv)
    /\ Become(n, i, [runs[n][i] EXCEPT !.phase = "granted"])
    /\ UNCHANGED <<world, revoked, answer, effects, before>>

Deny(n, i) ==
    /\ At(n, i, "access")
    /\ Become(n, i, Issuing(runs[n][i].inv, "Unauthorized", TRUE))
    /\ UNCHANGED <<world, revoked, answer, effects, before>>

CallHandler(n, i) ==
    /\ At(n, i, "granted")
    /\ Become(n, i, [runs[n][i] EXCEPT !.phase = "handling"])
    /\ effects' = effects \cup {<<n, i>>}
    /\ UNCHANGED <<world, revoked, answer, before>>

HandlerReturns(n, i, result) ==
    /\ At(n, i, "handling")
    /\ Become(n, i, Issuing(runs[n][i].inv, result, TRUE))
    /\ UNCHANGED <<world, revoked, answer, effects, before>>

\* Inside the try of run: access or the handler throws, or no receipt can be
\* made of what the handler returned.
Fails(n, i) ==
    \/ At(n, i, "access")
    \/ At(n, i, "handling")
    \/ At(n, i, "issuing") /\ runs[n][i].guarded /\ IssueFails

Catch(n, i) ==
    /\ Fails(n, i)
    /\ Become(n, i, Issuing(runs[n][i].inv, "HandlerExecutionError", FALSE))
    /\ UNCHANGED <<world, revoked, answer, effects, before>>

\* ... and the host's catch throws too.
CatchThrows(n, i) ==
    /\ HostThrows
    /\ Fails(n, i)
    /\ Become(n, i, [runs[n][i] EXCEPT !.phase = "rejected"])
    /\ UNCHANGED <<world, revoked, answer, effects, before>>

Issue(n, i) ==
    /\ At(n, i, "issuing")
    /\ Become(n, i, [runs[n][i] EXCEPT !.phase = "issued"])
    /\ UNCHANGED <<world, revoked, answer, effects, before>>

\* Outside the try nobody catches it.
IssueThrows(n, i) ==
    /\ IssueFails
    /\ At(n, i, "issuing")
    /\ ~runs[n][i].guarded
    /\ Become(n, i, [runs[n][i] EXCEPT !.phase = "rejected"])
    /\ UNCHANGED <<world, revoked, answer, effects, before>>

RunStep(n, i) ==
    \/ Grant(n, i)
    \/ Deny(n, i)
    \/ CallHandler(n, i)
    \/ \E result \in Results : HandlerReturns(n, i, result)
    \/ Catch(n, i)
    \/ CatchThrows(n, i)
    \/ Issue(n, i)
    \/ IssueThrows(n, i)

ServerStep ==
    \E n \in Calls : \/ Respond(n)
                     \/ Reject(n)
                     \/ \E i \in DOMAIN runs[n] : RunStep(n, i)

Revoke(d) ==
    /\ revoked' = revoked \cup {d}
    /\ UNCHANGED <<world, runs, answer, effects, before>>

=============================================================================

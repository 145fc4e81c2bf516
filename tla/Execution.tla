----------------------------- MODULE Execution ------------------------------
(***************************************************************************)
(* What execute() of a connection promises its caller, whatever happens on *)
(* the way.  Each invocation of a call takes effect at most once.  A call  *)
(* that resolves is over: nothing of it happens any more.  When it         *)
(* resolves with receipts they tell what happened: a refusal that nothing  *)
(* did, a result that something did.  A call that resolves with errors or  *)
(* is rejected tells nothing, and after a rejection it may still be going  *)
(* on.                                                                     *)
(***************************************************************************)
EXTENDS Naturals, Sequences, FiniteSetsExt

CONSTANTS Calls, Invocations, Batches, Refusals, Results, Outcomes

VARIABLES batch, client, results, effects

vars == <<batch, client, results, effects>>

Init ==
    /\ batch \in Batches
    /\ client = [n \in Calls |-> "idle"]
    /\ results = [n \in Calls |-> <<>>]
    /\ effects = {}

Send(n) ==
    /\ client[n] = "idle"
    /\ client' = [client EXCEPT ![n] = "waiting"]
    /\ UNCHANGED <<batch, results, effects>>

Act(n, i) ==
    /\ client[n] \in {"waiting", "rejected"}
    /\ i \in DOMAIN batch[n]
    /\ <<n, i>> \notin effects
    /\ effects' = effects \cup {<<n, i>>}
    /\ UNCHANGED <<batch, client, results>>

\* Where the i-th invocation of call n stands first: an invocation that is sent
\* twice is run twice, and the receipt of the first run answers both.
First(n, i) == Min({j \in DOMAIN batch[n] : batch[n][j] = batch[n][i]})

Tells(n, i, out) ==
    /\ out \in Outcomes
    /\ out \in Refusals => <<n, First(n, i)>> \notin effects
    /\ out \in Results => <<n, First(n, i)>> \in effects

Resolve(n) ==
    /\ client[n] = "waiting"
    /\ client' = [client EXCEPT ![n] = "receipts"]
    /\ \E outs \in [DOMAIN batch[n] -> Outcomes] :
          /\ \A i \in DOMAIN batch[n] : Tells(n, i, outs[i])
          /\ results' = [results EXCEPT ![n] = outs]
    /\ UNCHANGED <<batch, effects>>

Fail(n) ==
    /\ \/ /\ client[n] = "waiting"
          /\ client' = [client EXCEPT ![n] = "errors"]
          /\ results' = [results EXCEPT ![n] = [i \in DOMAIN batch[n] |-> "DecodeError"]]
       \/ /\ client[n] \in {"idle", "waiting"}
          /\ client' = [client EXCEPT ![n] = "rejected"]
          /\ UNCHANGED results
    /\ UNCHANGED <<batch, effects>>

Next ==
    \E n \in Calls :
        Send(n) \/ Resolve(n) \/ Fail(n) \/ \E i \in DOMAIN batch[n] : Act(n, i)

Spec == Init /\ [][Next]_vars

=============================================================================

------------------------------- MODULE Access -------------------------------
(***************************************************************************)
(* What access() promises whoever calls it, a service handler for          *)
(* instance: while the clock ticks and delegations are revoked it decides  *)
(* once, and when it grants, it shows a chain of delegations from the      *)
(* owner of the resource to the invocation, none of which is revoked at    *)
(* that moment, and each of which was valid at some moment of the call.    *)
(*                                                                         *)
(* (At some moment each, not at one moment all: the validator reads the    *)
(* clock anew for every delegation.)                                       *)
(***************************************************************************)
EXTENDS Chain

CONSTANTS Worlds, Presented, Invoked, RevokedAtStart, Revocable

VARIABLES ucan, now, revoked, verdict

vars == <<ucan, now, revoked, verdict>>

Init ==
    /\ ucan \in Worlds
    /\ now = 0
    /\ revoked \in RevokedAtStart
    /\ verdict = [status |-> "pending", chain |-> <<>>]

Pending == verdict.status = "pending"

WasValid(d) == \E t \in 0..now : ucan[d].nbf <= t /\ t < ucan[d].exp

\* The chain is the caller's to see: verdict' is any value that satisfies this.
Grant ==
    /\ Pending
    /\ verdict'.status = "ok"
    /\ IsChain(ucan, Invoked, verdict'.chain)
    /\ verdict'.chain[1].src \in ToSet(Presented)
    /\ \A i \in DOMAIN verdict'.chain :
          /\ verdict'.chain[i].src \notin revoked
          /\ WasValid(verdict'.chain[i].src)
    /\ UNCHANGED <<ucan, now, revoked>>

Refuse ==
    /\ Pending
    /\ \E status \in {"denied", "thrown"} :
          verdict' = [status |-> status, chain |-> <<>>]
    /\ UNCHANGED <<ucan, now, revoked>>

Tick ==
    /\ Pending
    /\ now < MaxTime
    /\ now' = now + 1
    /\ UNCHANGED <<ucan, revoked, verdict>>

Revoke ==
    /\ Pending
    /\ \E d \in Revocable \ revoked : revoked' = revoked \cup {d}
    /\ UNCHANGED <<ucan, now, verdict>>

Next == Grant \/ Refuse \/ Tick \/ Revoke

Spec == Init /\ [][Next]_vars

=============================================================================

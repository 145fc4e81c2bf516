-------------------------- MODULE ConnectionProofs --------------------------
(***************************************************************************)
(* Handlers run only for permitted invocations, and Connection implements  *)
(* Execution: what a caller may conclude from how execute settled is so.   *)
(* Proofs for any number of calls, batches of any length, any channel and  *)
(* every way things fail.                                                  *)
(***************************************************************************)
EXTENDS Connection, SubsequencesProofs, SequenceTheorems, TLAPS

\* What the server knows of a run whose handler it calls or has called.
Permitted(n, i) ==
    LET w == world[runs[n][i].inv]
    IN  /\ w.kind = "plain"
        /\ \E chain \in w.chains : chain \cap before[n] = {}

\* The types of what the server reads.
ServerTyped ==
    /\ world \in [Invocations -> World]
    /\ batch \in [Calls -> Seq(Invocations)]
    /\ runs \in [Calls -> Seq(Run)]
    /\ before \in [Calls -> SUBSET Delegations]
    /\ revoked \subseteq Delegations
    /\ answer = [n \in Calls |-> answer[n]]
    /\ effects \subseteq Calls \X (Nat \ {0})

\* A message is decoded once; what was revoked then still is.
DecodedOnce ==
    \A n \in Calls : /\ answer[n].kind = "none" => runs[n] = <<>>
                     /\ before[n] \subseteq revoked

\* A run comes to its handler only when it is permitted.
RunsPermitted ==
    \A n \in Calls : \A i \in DOMAIN runs[n] :
        /\ runs[n][i].phase = "access" => world[runs[n][i].inv].kind = "plain"
        /\ runs[n][i].phase = "granted" => Permitted(n, i)

\* The inductive invariant.
IInv == ServerTyped /\ DecodedOnce /\ RunsPermitted /\ OnlyPermittedEffects

-----------------------------------------------------------------------------

\* One element of one sequence of a function of them is replaced.
LEMMA ReplaceElement ==
    ASSUME NEW D, NEW S, NEW f \in [D -> Seq(S)], NEW d \in D, NEW i \in DOMAIN f[d], NEW x \in S
    PROVE  LET g == [f EXCEPT ![d][i] = x]
           IN  /\ g \in [D -> Seq(S)]
               /\ \A e \in D : DOMAIN g[e] = DOMAIN f[e]
               /\ g[d][i] = x
               /\ \A e \in D : \A j \in DOMAIN f[e] :
                     <<e, j>> # <<d, i>> => g[e][j] = f[e][j]
<1> DEFINE g == [f EXCEPT ![d][i] = x]
           s == [f[d] EXCEPT ![i] = x]
<1>1. f[d] \in Seq(S) /\ i \in 1..Len(f[d])
  OBVIOUS
<1>2. s \in Seq(S) /\ DOMAIN s = DOMAIN f[d] /\ s[i] = x
  BY <1>1
<1>3. \A j \in DOMAIN f[d] : j # i => s[j] = f[d][j]
  OBVIOUS
<1>4. g = [f EXCEPT ![d] = s]
  OBVIOUS
<1> HIDE DEF s
<1>5. g \in [D -> Seq(S)] /\ g[d] = s /\ \A e \in D : e # d => g[e] = f[e]
  BY <1>2, <1>4
<1> HIDE DEF g
<1>6. \A e \in D : DOMAIN g[e] = DOMAIN f[e]
  BY <1>2, <1>5
<1>7. \A e \in D : \A j \in DOMAIN f[e] : <<e, j>> # <<d, i>> => g[e][j] = f[e][j]
  BY <1>3, <1>5
<1> QED BY <1>2, <1>5, <1>6, <1>7 DEF g

\* Each step of run concerns one run, keeps its invocation, and does not make
\* it look permitted when it is not.
LEMMA RunBecomes ==
    ASSUME IInv, NEW n \in Calls, NEW i \in DOMAIN runs[n], NEW run \in Run,
           run.inv = runs[n][i].inv,
           run.phase # "access",
           run.phase = "granted" => Permitted(n, i),
           Become(n, i, run),
           \/ effects' = effects
           \/ effects' = effects \cup {<<n, i>>} /\ Permitted(n, i),
           UNCHANGED <<world, revoked, answer, before, batch>>
    PROVE  IInv'
<1>1. runs \in [Calls -> Seq(Run)]
  BY DEF IInv, ServerTyped
<1>2. /\ runs' \in [Calls -> Seq(Run)]
      /\ \A m \in Calls : DOMAIN runs'[m] = DOMAIN runs[m]
      /\ runs'[n][i] = run
      /\ \A m \in Calls : \A j \in DOMAIN runs[m] :
            <<m, j>> # <<n, i>> => runs'[m][j] = runs[m][j]
  BY <1>1, ReplaceElement, Zenon DEF Become
<1>3. \A m \in Calls : \A j \in DOMAIN runs[m] : runs'[m][j].inv = runs[m][j].inv
  BY <1>2
<1>4. \A m \in Calls : \A j \in DOMAIN runs[m] : Permitted(m, j)' <=> Permitted(m, j)
  BY <1>3 DEF Permitted
<1>5. i \in Nat \ {0}
  BY <1>1
<1>6. ServerTyped'
  BY <1>2, <1>5 DEF IInv, ServerTyped
<1>7. DecodedOnce'
  <2> SUFFICES ASSUME NEW m \in Calls
               PROVE  /\ answer[m].kind = "none" => runs'[m] = <<>>
                      /\ before[m] \subseteq revoked
    BY DEF DecodedOnce
  <2>1. ASSUME answer[m].kind = "none" PROVE runs'[m] = <<>>
    <3>1. runs[m] = <<>>
      BY <2>1 DEF IInv, DecodedOnce
    <3>2. m # n
      BY <3>1
    <3>3. runs'[m] = runs[m]
      BY <3>2 DEF Become
    <3> QED BY <3>1, <3>3
  <2> QED BY <2>1 DEF IInv, DecodedOnce
<1>8. RunsPermitted'
  <2> SUFFICES ASSUME NEW m \in Calls, NEW j \in DOMAIN runs[m]
               PROVE  /\ runs'[m][j].phase = "access" => world[runs'[m][j].inv].kind = "plain"
                      /\ runs'[m][j].phase = "granted" => Permitted(m, j)
    BY <1>2, <1>4 DEF RunsPermitted
  <2>1. CASE <<m, j>> = <<n, i>>
    BY <1>2, <2>1
  <2>2. CASE <<m, j>> # <<n, i>>
    BY <1>2, <2>2 DEF IInv, RunsPermitted
  <2> QED BY <2>1, <2>2
<1>9. OnlyPermittedEffects'
  <2> SUFFICES ASSUME NEW e \in effects'
               PROVE  e \in Calls \X (Nat \ {0}) /\ e[2] \in DOMAIN runs'[e[1]] /\ Permitted(e[1], e[2])'
    BY DEF OnlyPermittedEffects, Permitted
  <2>1. CASE e \in effects
    <3>1. e[1] \in Calls /\ e[2] \in DOMAIN runs[e[1]] /\ Permitted(e[1], e[2])
      BY <2>1 DEF IInv, ServerTyped, OnlyPermittedEffects, Permitted
    <3>2. e \in Calls \X (Nat \ {0})
      BY <2>1 DEF IInv, ServerTyped
    <3> QED BY <1>2, <1>4, <3>1, <3>2
  <2>2. CASE e = <<n, i>> /\ Permitted(n, i)
    BY <1>2, <1>4, <1>5, <2>2
  <2> QED BY <2>1, <2>2
<1> QED BY <1>6, <1>7, <1>8, <1>9 DEF IInv

\* The steps of run and provideAdvanced.
LEMMA RunStepIInv ==
    ASSUME IInv, NEW n \in Calls, NEW i \in DOMAIN runs[n], RunStep(n, i), UNCHANGED batch
    PROVE  IInv'
<1> DEFINE r == runs[n][i]
<1>1. runs \in [Calls -> Seq(Run)]
  BY DEF IInv, ServerTyped
<1>2. r \in Run
  BY <1>1
<1> HIDE DEF r
<1>3. r.inv \in Invocations /\ r.out \in Outcomes \cup {"none"} /\ r.guarded \in BOOLEAN
  BY <1>2 DEF Run
<1>4. ASSUME NEW out \in Outcomes, NEW guarded \in BOOLEAN
      PROVE  LET s == Issuing(r.inv, out, guarded)
             IN  s \in Run /\ s.inv = r.inv /\ s.phase = "issuing"
  BY <1>3 DEF Run, Phases, Issuing
<1>5. ASSUME NEW phase \in Phases
      PROVE  LET s == [r EXCEPT !.phase = phase]
             IN  s \in Run /\ s.inv = r.inv /\ s.phase = phase
  BY <1>2 DEF Run
<1>6. CASE Grant(n, i)
  <2>1. Permitted(n, i)
    <3>1. world[r.inv].kind = "plain"
      BY <1>6 DEF Grant, At, IInv, RunsPermitted, r
    <3>2. PICK chain \in world[r.inv].chains : chain \cap revoked = {}
      BY <1>6 DEF Grant, Grantable, r
    <3>3. chain \cap before[n] = {}
      BY <3>2 DEF IInv, DecodedOnce
    <3> QED BY <3>1, <3>2, <3>3 DEF Permitted, r
  <2>2. Become(n, i, [r EXCEPT !.phase = "granted"])
    BY <1>6 DEF Grant, r
  <2>3. UNCHANGED <<world, revoked, answer, effects, before>>
    BY <1>6 DEF Grant
  <2>4. "granted" \in Phases
    BY DEF Phases
  <2> QED BY <1>5, <2>1, <2>2, <2>3, <2>4, RunBecomes DEF r
<1>7. ASSUME UNCHANGED <<world, revoked, answer, effects, before>>,
             NEW out \in Outcomes, NEW guarded \in BOOLEAN,
             Become(n, i, Issuing(r.inv, out, guarded))
      PROVE  IInv'
  <2> DEFINE s == Issuing(r.inv, out, guarded)
  <2>1. s \in Run /\ s.inv = r.inv /\ s.phase = "issuing"
    BY <1>4
  <2>2. Become(n, i, s)
    BY <1>7
  <2> HIDE DEF s
  <2> QED BY <1>7, <2>1, <2>2, RunBecomes DEF r
<1>8. ASSUME UNCHANGED <<world, revoked, answer, effects, before>>,
             NEW phase \in {"issued", "rejected"},
             Become(n, i, [r EXCEPT !.phase = phase])
      PROVE  IInv'
  <2>1. phase \in Phases /\ phase # "access" /\ phase # "granted"
    BY DEF Phases
  <2> DEFINE s == [r EXCEPT !.phase = phase]
  <2>2. s \in Run /\ s.inv = r.inv /\ s.phase = phase
    BY <1>5, <2>1
  <2>3. Become(n, i, s)
    BY <1>8
  <2> HIDE DEF s
  <2> QED BY <1>8, <2>1, <2>2, <2>3, RunBecomes DEF r
<1>9. CASE Deny(n, i)
  BY <1>7, <1>9 DEF Deny, Outcomes, Refusals, r
<1>10. CASE CallHandler(n, i)
  <2>1. Permitted(n, i)
    BY <1>10 DEF CallHandler, At, IInv, RunsPermitted
  <2>2. Become(n, i, [r EXCEPT !.phase = "handling"])
    BY <1>10 DEF CallHandler, r
  <2>3. effects' = effects \cup {<<n, i>>} /\ UNCHANGED <<world, revoked, answer, before>>
    BY <1>10 DEF CallHandler
  <2>4. "handling" \in Phases
    BY DEF Phases
  <2> QED BY <1>5, <2>1, <2>2, <2>3, <2>4, RunBecomes DEF r
<1>11. ASSUME NEW result \in Results, HandlerReturns(n, i, result) PROVE IInv'
  BY <1>7, <1>11 DEF HandlerReturns, Outcomes, r
<1>12. CASE Catch(n, i)
  BY <1>7, <1>12 DEF Catch, Outcomes, r
<1>13. CASE CatchThrows(n, i)
  BY <1>8, <1>13 DEF CatchThrows, r
<1>14. CASE Issue(n, i)
  BY <1>8, <1>14 DEF Issue, r
<1>15. CASE IssueThrows(n, i)
  BY <1>8, <1>15 DEF IssueThrows, r
<1> QED BY <1>6, <1>9, <1>10, <1>11, <1>12, <1>13, <1>14, <1>15 DEF RunStep

\* A message is decoded: its runs begin, none of them permitted yet.
LEMMA ExecuteIInv ==
    ASSUME IInv, NEW n \in Calls, Execute(n, batch[n]), UNCHANGED batch
    PROVE  IInv'
<1>1. batch[n] \in Seq(Invocations) /\ world \in [Invocations -> World]
  BY DEF IInv, ServerTyped
<1>2. \A inv \in Invocations :
         /\ Begin(inv) \in Run
         /\ Begin(inv).inv = inv
         /\ Begin(inv).phase # "granted"
         /\ Begin(inv).phase = "access" => world[inv].kind = "plain"
  <2> SUFFICES ASSUME NEW inv \in Invocations
               PROVE  /\ Begin(inv) \in Run
                      /\ Begin(inv).inv = inv
                      /\ Begin(inv).phase # "granted"
                      /\ Begin(inv).phase = "access" => world[inv].kind = "plain"
    OBVIOUS
  <2>1. world[inv].kind \in Kinds
    BY <1>1 DEF World
  <2> QED BY <2>1 DEF Begin, Kinds, Starting, Issuing, Run, Phases, Outcomes, Refusals
<1> DEFINE begun == [i \in DOMAIN batch[n] |-> Begin(batch[n][i])]
<1>3. begun \in Seq(Run) /\ DOMAIN begun = DOMAIN batch[n]
      /\ \A i \in DOMAIN begun : batch[n][i] \in Invocations /\ begun[i] = Begin(batch[n][i])
  <2>1. \A i \in DOMAIN batch[n] : batch[n][i] \in Invocations
    BY <1>1
  <2> QED BY <1>1, <1>2, <2>1
<1>4. runs' = [runs EXCEPT ![n] = begun] /\ before' = [before EXCEPT ![n] = revoked]
      /\ UNCHANGED <<world, revoked, effects>>
      /\ answer' = [answer EXCEPT ![n] = Only("running")]
  BY DEF Execute
<1>5. \A i \in DOMAIN begun :
         /\ begun[i].phase # "granted"
         /\ begun[i].phase = "access" => world[begun[i].inv].kind = "plain"
  <2> HIDE DEF begun
  <2> QED BY <1>2, <1>3
<1> HIDE DEF begun
<1>6. /\ runs' \in [Calls -> Seq(Run)] /\ runs'[n] = begun
      /\ \A m \in Calls : m # n => runs'[m] = runs[m] /\ before'[m] = before[m]
      /\ before' \in [Calls -> SUBSET Delegations] /\ before'[n] = revoked
  BY <1>3, <1>4 DEF IInv, ServerTyped
<1>7. answer' = [m \in Calls |-> answer'[m]]
      /\ answer'[n].kind = "running" /\ \A m \in Calls : m # n => answer'[m] = answer[m]
  BY <1>4 DEF IInv, ServerTyped, Only
<1>8. ServerTyped'
  BY <1>4, <1>6, <1>7 DEF IInv, ServerTyped
<1>9. DecodedOnce'
  BY <1>4, <1>6, <1>7 DEF IInv, DecodedOnce
<1>10. \A m \in Calls : m # n => \A i \in DOMAIN runs[m] : Permitted(m, i)' <=> Permitted(m, i)
  BY <1>4, <1>6 DEF Permitted
<1>11. RunsPermitted'
  <2> SUFFICES ASSUME NEW m \in Calls, NEW i \in DOMAIN runs'[m]
               PROVE  /\ runs'[m][i].phase = "access" => world[runs'[m][i].inv].kind = "plain"
                      /\ runs'[m][i].phase = "granted" => Permitted(m, i)'
    BY <1>4 DEF RunsPermitted
  <2>1. CASE m = n
    BY <1>5, <1>6, <2>1
  <2>2. CASE m # n
    BY <1>6, <1>10, <2>2 DEF IInv, RunsPermitted
  <2> QED BY <2>1, <2>2
<1>12. \A e \in effects : e[1] \in Calls /\ e[1] # n
  <2> SUFFICES ASSUME NEW e \in effects PROVE e[1] \in Calls /\ e[1] # n
    OBVIOUS
  <2>1. e[1] \in Calls /\ e[2] \in DOMAIN runs[e[1]]
    BY DEF IInv, ServerTyped, OnlyPermittedEffects
  <2>2. runs[n] = <<>>
    BY DEF Execute, Fresh, IInv, DecodedOnce
  <2> QED BY <2>1, <2>2
<1>13. OnlyPermittedEffects'
  <2> SUFFICES ASSUME NEW e \in effects
               PROVE  e[2] \in DOMAIN runs'[e[1]] /\ Permitted(e[1], e[2])'
    BY <1>4 DEF OnlyPermittedEffects, Permitted
  <2>1. e[2] \in DOMAIN runs[e[1]] /\ Permitted(e[1], e[2])
    BY DEF IInv, OnlyPermittedEffects, Permitted
  <2> QED BY <1>6, <1>10, <1>12, <2>1
<1> QED BY <1>8, <1>9, <1>11, <1>13 DEF IInv

\* What handle answers does not concern what was run.
LEMMA AnswerIInv ==
    ASSUME IInv, NEW n \in Calls, NEW a, a.kind = "none" => runs[n] = <<>>,
           answer' = [answer EXCEPT ![n] = a],
           UNCHANGED <<world, revoked, runs, effects, before, batch>>
    PROVE  IInv'
<1>1. answer' = [m \in Calls |-> answer'[m]]
      /\ answer'[n] = a /\ \A m \in Calls : m # n => answer'[m] = answer[m]
  BY DEF IInv, ServerTyped
<1>2. ServerTyped' /\ DecodedOnce'
  BY <1>1 DEF IInv, ServerTyped, DecodedOnce
<1>3. RunsPermitted' /\ OnlyPermittedEffects'
  BY DEF IInv, RunsPermitted, OnlyPermittedEffects, Permitted
<1> QED BY <1>2, <1>3 DEF IInv

\* What is revoked later was not revoked before.
LEMMA RevokeIInv ==
    ASSUME IInv, NEW d \in Delegations, Revoke(d), UNCHANGED batch
    PROVE  IInv'
<1>1. revoked \subseteq revoked' /\ UNCHANGED <<world, runs, answer, effects, before>>
  BY DEF Revoke
<1>2. ServerTyped' /\ DecodedOnce'
  BY <1>1 DEF IInv, ServerTyped, DecodedOnce, Revoke
<1>3. RunsPermitted' /\ OnlyPermittedEffects'
  BY <1>1 DEF IInv, RunsPermitted, OnlyPermittedEffects, Permitted
<1> QED BY <1>2, <1>3 DEF IInv

\* What the client and the channel do, the server does not see.
LEMMA UnseenIInv ==
    ASSUME IInv, UNCHANGED <<serverVars, batch>>
    PROVE  IInv'
BY DEF IInv, ServerTyped, DecodedOnce, RunsPermitted, OnlyPermittedEffects, Permitted, serverVars

-----------------------------------------------------------------------------

\* It holds when nothing was sent yet.
LEMMA InitIInv == Init => IInv
<1> SUFFICES ASSUME Init PROVE IInv
  OBVIOUS
<1>1. world \in [Invocations -> World] /\ batch \in [Calls -> Seq(Invocations)]
  BY ServerAssumption, ConnectionAssumption DEF Init, ServerInit
<1>2. ServerTyped /\ DecodedOnce
  BY <1>1 DEF Init, ServerInit, ServerTyped, DecodedOnce
<1>3. RunsPermitted /\ OnlyPermittedEffects
  BY DEF Init, ServerInit, RunsPermitted, OnlyPermittedEffects
<1> QED BY <1>2, <1>3 DEF IInv

\* Every step of client, channel, server and host keeps it.
LEMMA NextIInv == IInv /\ [Next]_vars => IInv'
<1> SUFFICES ASSUME IInv, [Next]_vars PROVE IInv'
  OBVIOUS
<1>1. ASSUME NEW n \in Calls, Transport(n) PROVE IInv'
  <2>1. ASSUME NEW status, Decline(n, status), UNCHANGED batch PROVE IInv'
    <3>1. runs[n] = <<>>
      BY <2>1 DEF Decline, Fresh, IInv, DecodedOnce
    <3> QED BY <2>1, <3>1, AnswerIInv DEF Decline
  <2>2. CASE NotAcceptable(n)
    BY <2>1, <2>2 DEF NotAcceptable, Arrive
  <2>3. CASE Malformed(n)
    BY <2>1, <2>3 DEF Malformed, Arrive
  <2>4. CASE Deliver(n)
    BY <2>4, ExecuteIInv DEF Deliver, Arrive
  <2>5. CASE Return(n) \/ ReceiveFailure(n) \/ ReceiveReceipts(n) \/ ReceiveNonsense(n)
    <3>1. \A m \in Calls : \A how : \A outcomes : Settle(m, how, outcomes) => UNCHANGED <<serverVars, batch>>
      BY DEF Settle
    <3> QED BY <2>5, <3>1, UnseenIInv DEF Return, ReceiveFailure, ReceiveReceipts, ReceiveNonsense
  <2> QED BY <1>1, <2>2, <2>3, <2>4, <2>5 DEF Transport
<1>2. ASSUME NEW n \in Calls, Send(n) \/ Unsent(n) \/ Mishap(n) PROVE IInv'
  BY <1>2, UnseenIInv DEF Send, Unsent, Mishap, DamageRequest, DamageResponse, Break, Settle
<1>3. CASE Work
  <2>1. ServerStep /\ UNCHANGED batch
    BY <1>3 DEF Work, Quiet
  <2>2. ASSUME NEW n \in Calls, Respond(n) PROVE IInv'
    BY <2>1, <2>2, AnswerIInv DEF Respond
  <2>3. ASSUME NEW n \in Calls, Reject(n) PROVE IInv'
    BY <2>1, <2>3, AnswerIInv DEF Reject, Only
  <2> QED BY <2>1, <2>2, <2>3, RunStepIInv DEF ServerStep
<1>4. CASE RevokeAny
  BY <1>4, RevokeIInv DEF RevokeAny, Quiet
<1>5. CASE UNCHANGED vars
  BY <1>5, UnseenIInv DEF vars
<1> QED BY <1>1, <1>2, <1>3, <1>4, <1>5 DEF Next

\* The handler of a service is called only for an invocation that is for this
\* service and that a chain authorises which was not revoked when its message
\* was decoded: for any calls, batches, channels and failures.
THEOREM OnlyPermitted == Spec => []OnlyPermittedEffects
<1>1. IInv => OnlyPermittedEffects
  BY DEF IInv
<1> QED BY <1>1, InitIInv, NextIInv, PTL DEF Spec

-----------------------------------------------------------------------------
(* The promise of Execution.                                               *)


\* What a run has come to agrees with whether its handler was called.
Agrees(run, called) ==
    /\ run.phase \in {"access", "granted"} => ~called
    /\ run.phase = "handling" => called
    /\ run.phase \in {"issuing", "issued"} =>
          /\ run.out \in Outcomes
          /\ run.out \in Refusals => ~called
          /\ run.out \in Results => called

RunsAgree ==
    \A n \in Calls : \A i \in DOMAIN runs[n] : Agrees(runs[n][i], <<n, i>> \in effects)

\* A message that was declined has no runs, any other one for each invocation;
\* it was answered with receipts when all of them were over, and by them.
Declined(n) == answer[n].kind \in {"none"} \cup Statuses

Collected(n) ==
    [i \in DOMAIN runs[n] |-> [ran |-> runs[n][i].inv, out |-> runs[n][i].out]]

AnswersAgree ==
    \A n \in Calls :
        /\ Declined(n) => runs[n] = <<>>
        /\ ~Declined(n) => DOMAIN runs[n] = DOMAIN batch[n]
        /\ answer[n].kind = "message" => AllIssued(n) /\ answer[n].receipts = Collected(n)

\* How far the wire and the client have got, the server has got before them.
WireAgrees ==
    \A n \in Calls :
        /\ client[n] = "idle" => wire[n] = "idle"
        /\ wire[n] \in {"idle", "request", "damaged request"} => answer[n].kind = "none"
        /\ wire[n] = "damaged response" => answer[n].kind = "message"
        /\ client[n] \in {"idle", "waiting"} => results[n] = <<>>
        /\ client[n] = "receipts" => answer[n].kind = "message"
        /\ client[n] = "errors" => answer[n].kind \in {"message"} \cup Statuses

\* The inductive invariant of the refinement.
CInv == IInv /\ TypeOK /\ RunsAgree /\ AnswersAgree /\ WireAgrees

-----------------------------------------------------------------------------

\* Each step of run concerns one run, which is not over and goes on being that
\* of its invocation.
LEMMA RunBecomesAgreed ==
    ASSUME CInv, NEW n \in Calls, NEW i \in DOMAIN runs[n], NEW run \in Run,
           run.inv = runs[n][i].inv,
           runs[n][i].phase # "issued",
           Become(n, i, run),
           effects' \in {effects, effects \cup {<<n, i>>}},
           Agrees(run, <<n, i>> \in effects'),
           UNCHANGED <<world, revoked, answer, before>>, Quiet
    PROVE  TypeOK' /\ RunsAgree' /\ AnswersAgree' /\ WireAgrees'
<1>1. runs \in [Calls -> Seq(Run)]
  BY DEF CInv, TypeOK
<1>2. /\ runs' \in [Calls -> Seq(Run)]
      /\ \A m \in Calls : DOMAIN runs'[m] = DOMAIN runs[m]
      /\ runs'[n][i] = run
      /\ \A m \in Calls : \A j \in DOMAIN runs[m] :
            <<m, j>> # <<n, i>> => runs'[m][j] = runs[m][j]
  BY <1>1, ReplaceElement, Zenon DEF Become
<1>3. \A m \in Calls : \A j \in DOMAIN runs[m] : runs'[m][j].inv = runs[m][j].inv
  BY <1>2
<1>4. i \in Nat \ {0} /\ runs[n] # <<>>
  BY <1>1
<1>5. \A m \in Calls : m # n => runs'[m] = runs[m]
  BY <1>1 DEF Become
<1>6. \A m \in Calls : (runs'[m] = <<>> <=> runs[m] = <<>>) /\ Len(runs'[m]) = Len(runs[m])
  <2> TAKE m \in Calls
  <2>1. runs'[m] \in Seq(Run) /\ runs[m] \in Seq(Run) /\ DOMAIN runs'[m] = DOMAIN runs[m]
    BY <1>1, <1>2
  <2> QED BY <2>1
<1>7. TypeOK'
  <2>1. \A m \in Calls :
          runs'[m] # <<>> => /\ Len(runs'[m]) = Len(batch[m])
                             /\ \A j \in DOMAIN runs'[m] : runs'[m][j].inv = batch[m][j]
    BY <1>2, <1>3, <1>6 DEF CInv, TypeOK
  <2>2. effects' \subseteq Calls \X (Nat \ {0})
    BY <1>4 DEF CInv, TypeOK
  <2> QED BY <1>2, <2>1, <2>2 DEF CInv, TypeOK, Quiet
<1>8. RunsAgree'
  <2> SUFFICES ASSUME NEW m \in Calls, NEW j \in DOMAIN runs[m]
               PROVE  Agrees(runs'[m][j], <<m, j>> \in effects')
    BY <1>2 DEF RunsAgree, Agrees
  <2>1. CASE <<m, j>> = <<n, i>>
    BY <1>2, <2>1
  <2>2. CASE <<m, j>> # <<n, i>>
    <3>1. runs'[m][j] = runs[m][j] /\ (<<m, j>> \in effects' <=> <<m, j>> \in effects)
      BY <1>2, <2>2
    <3>2. Agrees(runs[m][j], <<m, j>> \in effects)
      BY DEF CInv, RunsAgree
    <3> QED BY <3>1, <3>2 DEF Agrees
  <2> QED BY <2>1, <2>2
<1>9. AnswersAgree'
  <2> SUFFICES ASSUME NEW m \in Calls
               PROVE  /\ Declined(m) => runs'[m] = <<>>
                      /\ ~Declined(m) => DOMAIN runs'[m] = DOMAIN batch[m]
                      /\ answer[m].kind = "message" => AllIssued(m)' /\ answer[m].receipts = Collected(m)'
    BY DEF AnswersAgree, Declined, Quiet
  <2>1. ~Declined(n) /\ answer[n].kind # "message"
    BY <1>4 DEF CInv, AnswersAgree, AllIssued
  <2>2. m # n => AllIssued(m)' = AllIssued(m) /\ Collected(m)' = Collected(m)
    BY <1>5 DEF AllIssued, Collected
  <2> QED BY <1>2, <1>6, <2>1, <2>2 DEF CInv, AnswersAgree
<1>10. WireAgrees'
  BY DEF CInv, WireAgrees, Quiet
<1> QED BY <1>7, <1>8, <1>9, <1>10

\* The steps of run and provideAdvanced.
LEMMA RunStepAgreed ==
    ASSUME CInv, NEW n \in Calls, NEW i \in DOMAIN runs[n], RunStep(n, i), Quiet
    PROVE  TypeOK' /\ RunsAgree' /\ AnswersAgree' /\ WireAgrees'
<1> DEFINE r == runs[n][i]
<1>1. r \in Run
  BY DEF CInv, TypeOK
<1>2. Agrees(r, <<n, i>> \in effects)
  BY DEF CInv, RunsAgree
<1> HIDE DEF r
<1>3. ASSUME NEW out \in Outcomes, NEW guarded \in BOOLEAN,
             r.phase # "issued",
             out \in Refusals => <<n, i>> \notin effects,
             out \in Results => <<n, i>> \in effects,
             Become(n, i, Issuing(r.inv, out, guarded)),
             UNCHANGED <<world, revoked, answer, effects, before>>
      PROVE  TypeOK' /\ RunsAgree' /\ AnswersAgree' /\ WireAgrees'
  <2> DEFINE s == Issuing(r.inv, out, guarded)
  <2>1. s \in Run /\ s.inv = r.inv /\ s.phase = "issuing" /\ s.out = out
    BY <1>1, <1>3 DEF Run, Phases, Issuing
  <2>2. Become(n, i, s)
    BY <1>3
  <2> HIDE DEF s
  <2>3. Agrees(s, <<n, i>> \in effects')
    BY <1>3, <2>1 DEF Agrees
  <2> QED BY <1>3, <2>1, <2>2, <2>3, RunBecomesAgreed DEF r
<1>4. ASSUME NEW phase \in Phases, r.phase # "issued",
             Become(n, i, [r EXCEPT !.phase = phase]),
             UNCHANGED <<world, revoked, answer, before>>,
             effects' \in {effects, effects \cup {<<n, i>>}},
             Agrees([r EXCEPT !.phase = phase], <<n, i>> \in effects')
      PROVE  TypeOK' /\ RunsAgree' /\ AnswersAgree' /\ WireAgrees'
  <2> DEFINE s == [r EXCEPT !.phase = phase]
  <2>1. s \in Run /\ s.inv = r.inv
    BY <1>1 DEF Run
  <2>2. Become(n, i, s) /\ Agrees(s, <<n, i>> \in effects')
    BY <1>4
  <2> HIDE DEF s
  <2> QED BY <1>4, <2>1, <2>2, RunBecomesAgreed DEF r
<1>5. ASSUME NEW phase \in Phases
      PROVE  LET s == [r EXCEPT !.phase = phase] IN s.phase = phase /\ s.out = r.out
  BY <1>1 DEF Run
<1>6. CASE Grant(n, i)
  <2>1. r.phase = "access" /\ "granted" \in Phases
    BY <1>6 DEF Grant, At, Phases, r
  <2>2. Agrees([r EXCEPT !.phase = "granted"], <<n, i>> \in effects)
    BY <1>2, <1>5, <2>1 DEF Agrees
  <2> QED BY <1>4, <1>6, <2>1, <2>2 DEF Grant, r
<1>7. CASE CallHandler(n, i)
  <2>1. r.phase = "granted" /\ "handling" \in Phases /\ <<n, i>> \in effects'
        /\ effects' = effects \cup {<<n, i>>}
    BY <1>7 DEF CallHandler, At, Phases, r
  <2>2. Agrees([r EXCEPT !.phase = "handling"], <<n, i>> \in effects')
    BY <1>5, <2>1 DEF Agrees
  <2> QED BY <1>4, <1>7, <2>1, <2>2 DEF CallHandler, r
<1>8. CASE Deny(n, i)
  <2>1. r.phase = "access" /\ "Unauthorized" \in Outcomes /\ "Unauthorized" \notin Results
    BY <1>8 DEF Deny, At, Outcomes, Refusals, Results, r
  <2>2. <<n, i>> \notin effects
    BY <1>2, <2>1 DEF Agrees
  <2> QED BY <1>3, <1>8, <2>1, <2>2 DEF Deny, r
<1>9. ASSUME NEW result \in Results, HandlerReturns(n, i, result)
      PROVE  TypeOK' /\ RunsAgree' /\ AnswersAgree' /\ WireAgrees'
  <2>1. r.phase = "handling" /\ result \in Outcomes /\ result \notin Refusals
    BY <1>9 DEF HandlerReturns, At, Outcomes, Refusals, Results, r
  <2>2. <<n, i>> \in effects
    BY <1>2, <2>1 DEF Agrees
  <2> QED BY <1>3, <1>9, <2>1, <2>2 DEF HandlerReturns, r
<1>10. Fails(n, i) => r.phase \in {"access", "handling", "issuing"}
  BY DEF Fails, At, r
<1>11. CASE Catch(n, i)
  <2>1. /\ "HandlerExecutionError" \in Outcomes
        /\ "HandlerExecutionError" \notin Refusals /\ "HandlerExecutionError" \notin Results
    BY DEF Outcomes, Refusals, Results
  <2> QED BY <1>3, <1>10, <1>11, <2>1 DEF Catch, r
<1>12. ASSUME r.phase \in {"access", "handling", "issuing"},
              Become(n, i, [r EXCEPT !.phase = "rejected"]),
              UNCHANGED <<world, revoked, answer, effects, before>>
       PROVE  TypeOK' /\ RunsAgree' /\ AnswersAgree' /\ WireAgrees'
  <2>1. "rejected" \in Phases
    BY DEF Phases
  <2>2. Agrees([r EXCEPT !.phase = "rejected"], <<n, i>> \in effects)
    BY <1>5, <2>1 DEF Agrees
  <2> QED BY <1>4, <1>12, <2>1, <2>2
<1>13. CASE CatchThrows(n, i)
  BY <1>10, <1>12, <1>13 DEF CatchThrows, r
<1>14. CASE IssueThrows(n, i)
  BY <1>12, <1>14 DEF IssueThrows, At, r
<1>15. CASE Issue(n, i)
  <2>1. r.phase = "issuing" /\ "issued" \in Phases
    BY <1>15 DEF Issue, At, Phases, r
  <2>2. Agrees([r EXCEPT !.phase = "issued"], <<n, i>> \in effects)
    BY <1>2, <1>5, <2>1 DEF Agrees
  <2> QED BY <1>4, <1>15, <2>1, <2>2 DEF Issue, r
<1> QED BY <1>6, <1>7, <1>8, <1>9, <1>11, <1>13, <1>14, <1>15 DEF RunStep

\* What handle does with a message that nothing can be read of.
LEMMA DeclineAgreed ==
    ASSUME CInv, NEW n \in Calls, NEW status \in Statuses, Decline(n, status), Arrive(n),
           wire[n] \in {"request", "damaged request"}
    PROVE  TypeOK' /\ RunsAgree' /\ AnswersAgree' /\ WireAgrees'
<1>1. Only(status) \in Answer /\ Only(status).kind = status /\ status \notin {"none", "message"}
  <2>1. <<>> \in Seq(Receipt)
    BY EmptySeq
  <2>2. status \notin {"none", "message"}
    BY DEF Statuses
  <2> QED BY <2>1, <2>2 DEF Only, Answer
<1>2. /\ answer' \in [Calls -> Answer] /\ answer'[n].kind = status
      /\ \A m \in Calls : m # n => answer'[m] = answer[m]
  BY <1>1 DEF Decline, CInv, TypeOK
<1>3. wire' \in [Calls -> Wires] /\ wire'[n] = "arrived"
      /\ \A m \in Calls : m # n => wire'[m] = wire[m]
  BY DEF Arrive, CInv, TypeOK, Wires
<1>4. answer[n].kind = "none" /\ client[n] \notin {"idle", "receipts", "errors"}
  BY DEF Decline, Fresh, CInv, WireAgrees, Statuses
<1>5. TypeOK'
  BY <1>2, <1>3 DEF Decline, Arrive, CInv, TypeOK
<1>6. RunsAgree'
  BY DEF Decline, CInv, RunsAgree, Agrees
<1>7. AnswersAgree'
  <2> SUFFICES ASSUME NEW m \in Calls
               PROVE  /\ Declined(m)' => runs[m] = <<>>
                      /\ ~Declined(m)' => DOMAIN runs[m] = DOMAIN batch[m]
                      /\ answer'[m].kind = "message" => AllIssued(m) /\ answer'[m].receipts = Collected(m)
    BY DEF AnswersAgree, Decline, Arrive, AllIssued, Collected
  <2>1. CASE m = n
    BY <1>1, <1>2, <1>4, <2>1 DEF Declined, CInv, AnswersAgree
  <2>2. CASE m # n
    BY <1>2, <2>2 DEF Declined, CInv, AnswersAgree
  <2> QED BY <2>1, <2>2
<1>8. WireAgrees'
  BY <1>1, <1>2, <1>3, <1>4 DEF Arrive, CInv, WireAgrees
<1> QED BY <1>5, <1>6, <1>7, <1>8

\* execute begins a run for each invocation, none of which has taken effect.
LEMMA DeliverAgreed ==
    ASSUME CInv, NEW n \in Calls, Deliver(n)
    PROVE  TypeOK' /\ RunsAgree' /\ AnswersAgree' /\ WireAgrees'
<1> DEFINE begun == [i \in DOMAIN batch[n] |-> Begin(batch[n][i])]
<1>1. batch[n] \in Seq(Invocations) /\ world \in [Invocations -> World]
  BY DEF CInv, TypeOK
<1>2. \A inv \in Invocations :
         /\ Begin(inv) \in Run
         /\ Begin(inv).inv = inv
         /\ Begin(inv).phase \in {"rejected", "issuing", "access"}
         /\ Begin(inv).phase = "issuing" => Begin(inv).out \in Refusals
  <2> SUFFICES ASSUME NEW inv \in Invocations
               PROVE  /\ Begin(inv) \in Run
                      /\ Begin(inv).inv = inv
                      /\ Begin(inv).phase \in {"rejected", "issuing", "access"}
                      /\ Begin(inv).phase = "issuing" => Begin(inv).out \in Refusals
    OBVIOUS
  <2>1. world[inv].kind \in Kinds
    BY <1>1 DEF World
  <2> QED BY <2>1 DEF Begin, Kinds, Starting, Issuing, Run, Phases, Outcomes, Refusals
<1>3. /\ begun \in Seq(Run) /\ DOMAIN begun = DOMAIN batch[n] /\ Len(begun) = Len(batch[n])
      /\ \A i \in DOMAIN begun : batch[n][i] \in Invocations /\ begun[i] = Begin(batch[n][i])
  BY <1>1, <1>2
<1>4. /\ runs' = [runs EXCEPT ![n] = begun] /\ before' = [before EXCEPT ![n] = revoked]
      /\ UNCHANGED <<world, revoked, effects>>
      /\ answer' = [answer EXCEPT ![n] = Only("running")]
      /\ wire' = [wire EXCEPT ![n] = "arrived"]
      /\ UNCHANGED <<batch, channel, codec, client, results>>
  BY DEF Deliver, Arrive, Execute
<1> HIDE DEF begun
<1>5. \A i \in DOMAIN begun : begun[i].inv = batch[n][i] /\ Agrees(begun[i], FALSE)
  <2>1. Refusals \subseteq Outcomes /\ Refusals \cap Results = {}
    BY DEF Outcomes, Refusals, Results
  <2> QED BY <1>2, <1>3, <2>1 DEF Agrees
<1>6. Only("running") \in Answer /\ Only("running").kind = "running"
      /\ "running" \notin {"none", "message"} \cup Statuses
  BY DEF Only, Answer, Statuses
<1>7. /\ answer' \in [Calls -> Answer] /\ answer'[n].kind = "running"
      /\ \A m \in Calls : m # n => answer'[m] = answer[m]
  BY <1>4, <1>6 DEF CInv, TypeOK
<1>8. wire' \in [Calls -> Wires] /\ wire'[n] = "arrived"
      /\ \A m \in Calls : m # n => wire'[m] = wire[m]
  BY <1>4 DEF CInv, TypeOK, Wires
<1>9. /\ runs' \in [Calls -> Seq(Run)] /\ runs'[n] = begun
      /\ \A m \in Calls : m # n => runs'[m] = runs[m]
  BY <1>3, <1>4 DEF CInv, TypeOK
<1>10. answer[n].kind = "none" /\ wire[n] = "request" /\ client[n] \notin {"idle", "receipts", "errors"}
       /\ runs[n] = <<>>
  BY DEF Deliver, Execute, Fresh, CInv, WireAgrees, AnswersAgree, Declined, Statuses
<1>11. TypeOK'
  <2>1. before' \in [Calls -> SUBSET Delegations]
    BY <1>4 DEF CInv, TypeOK
  <2>2. \A m \in Calls :
          runs'[m] # <<>> => /\ Len(runs'[m]) = Len(batch[m])
                             /\ \A i \in DOMAIN runs'[m] : runs'[m][i].inv = batch[m][i]
    <3> TAKE m \in Calls
    <3>1. CASE m = n
      BY <1>3, <1>5, <1>9, <3>1
    <3>2. CASE m # n
      BY <1>9, <3>2 DEF CInv, TypeOK
    <3> QED BY <3>1, <3>2
  <2> QED BY <1>4, <1>7, <1>8, <1>9, <2>1, <2>2 DEF CInv, TypeOK
<1>12. RunsAgree'
  <2>1. \A i \in Nat : <<n, i>> \notin effects
    <3>1. \A e \in effects : e[2] \in DOMAIN runs[e[1]]
      BY DEF CInv, IInv, OnlyPermittedEffects
    <3> QED BY <1>10, <3>1
  <2>2. \A i \in DOMAIN begun : <<n, i>> \notin effects
    BY <1>3, <2>1
  <2> SUFFICES ASSUME NEW m \in Calls, NEW i \in DOMAIN runs'[m]
               PROVE  Agrees(runs'[m][i], <<m, i>> \in effects)
    BY <1>4 DEF RunsAgree, Agrees
  <2>3. CASE m = n
    BY <1>5, <1>9, <2>2, <2>3 DEF Agrees
  <2>4. CASE m # n
    BY <1>9, <2>4 DEF CInv, RunsAgree
  <2> QED BY <2>3, <2>4
<1>13. AnswersAgree'
  <2> SUFFICES ASSUME NEW m \in Calls
               PROVE  /\ Declined(m)' => runs'[m] = <<>>
                      /\ ~Declined(m)' => DOMAIN runs'[m] = DOMAIN batch[m]
                      /\ answer'[m].kind = "message" => AllIssued(m)' /\ answer'[m].receipts = Collected(m)'
    BY <1>4 DEF AnswersAgree
  <2>1. CASE m = n
    BY <1>3, <1>6, <1>7, <1>9, <2>1 DEF Declined
  <2>2. CASE m # n
    <3>1. answer'[m] = answer[m] /\ runs'[m] = runs[m]
      BY <1>7, <1>9, <2>2
    <3>2. Declined(m)' = Declined(m) /\ AllIssued(m)' = AllIssued(m) /\ Collected(m)' = Collected(m)
      BY <3>1 DEF Declined, AllIssued, Collected
    <3> QED BY <3>1, <3>2 DEF CInv, AnswersAgree
  <2> QED BY <2>1, <2>2
<1>14. WireAgrees'
  BY <1>4, <1>6, <1>7, <1>8, <1>10 DEF CInv, WireAgrees
<1> QED BY <1>11, <1>12, <1>13, <1>14

\* Promise.all settles.
LEMMA AnswerAgreed ==
    ASSUME CInv, NEW n \in Calls, NEW a \in Answer, Working(n),
           a.kind \in {"rejected", "message"},
           a.kind = "message" => AllIssued(n) /\ a.receipts = Collected(n),
           answer' = [answer EXCEPT ![n] = a],
           UNCHANGED <<world, revoked, runs, effects, before>>, Quiet
    PROVE  TypeOK' /\ RunsAgree' /\ AnswersAgree' /\ WireAgrees'
<1>1. /\ answer' \in [Calls -> Answer] /\ answer'[n] = a
      /\ \A m \in Calls : m # n => answer'[m] = answer[m]
  BY DEF CInv, TypeOK
<1>2. answer[n].kind = "running" /\ "running" \notin {"none", "message"} \cup Statuses
      /\ "rejected" \notin {"none", "message"} \cup Statuses
      /\ "message" \notin {"none"} \cup Statuses
  BY DEF Working, Statuses
<1>3. TypeOK' /\ RunsAgree'
  BY <1>1 DEF Quiet, CInv, TypeOK, RunsAgree, Agrees
<1>4. AnswersAgree'
  <2> SUFFICES ASSUME NEW m \in Calls
               PROVE  /\ Declined(m)' => runs[m] = <<>>
                      /\ ~Declined(m)' => DOMAIN runs[m] = DOMAIN batch[m]
                      /\ answer'[m].kind = "message" => AllIssued(m) /\ answer'[m].receipts = Collected(m)
    BY DEF AnswersAgree, Quiet, AllIssued, Collected
  <2>1. CASE m = n
    BY <1>1, <1>2, <2>1 DEF Declined, CInv, AnswersAgree
  <2>2. CASE m # n
    BY <1>1, <2>2 DEF Declined, CInv, AnswersAgree
  <2> QED BY <2>1, <2>2
<1>5. WireAgrees'
  BY <1>1, <1>2 DEF Quiet, CInv, WireAgrees
<1> QED BY <1>3, <1>4, <1>5

\* What the channel and execute do with call n, the server does not see.
LEMMA ClientAgreed ==
    ASSUME CInv, NEW n \in Calls, NEW w \in Wires, NEW c \in Clients,
           NEW outs \in Seq(Outcomes \cup {"DecodeError"}),
           wire' = [wire EXCEPT ![n] = w],
           client' = [client EXCEPT ![n] = c],
           results' = [results EXCEPT ![n] = outs],
           UNCHANGED <<serverVars, batch, channel, codec>>,
           c = "idle" => w = "idle",
           w \in {"idle", "request", "damaged request"} => answer[n].kind = "none",
           w = "damaged response" => answer[n].kind = "message",
           c \in {"idle", "waiting"} => outs = <<>>,
           c = "receipts" => answer[n].kind = "message",
           c = "errors" => answer[n].kind \in {"message"} \cup Statuses
    PROVE  TypeOK' /\ RunsAgree' /\ AnswersAgree' /\ WireAgrees'
<1>1. UNCHANGED <<world, revoked, runs, answer, effects, before, batch, channel, codec>>
  BY DEF serverVars
<1>2. /\ wire' \in [Calls -> Wires] /\ client' \in [Calls -> Clients]
      /\ results' \in [Calls -> Seq(Outcomes \cup {"DecodeError"})]
      /\ wire'[n] = w /\ client'[n] = c /\ results'[n] = outs
      /\ \A m \in Calls : m # n => wire'[m] = wire[m] /\ client'[m] = client[m] /\ results'[m] = results[m]
  BY DEF CInv, TypeOK
<1>3. TypeOK'
  <2>1. \A m \in Calls :
          runs'[m] # <<>> => /\ Len(runs'[m]) = Len(batch'[m])
                             /\ \A i \in DOMAIN runs'[m] : runs'[m][i].inv = batch'[m][i]
    BY <1>1 DEF CInv, TypeOK
  <2> QED BY <1>1, <1>2, <2>1 DEF CInv, TypeOK
<1>4. RunsAgree' /\ AnswersAgree'
  <2>1. RunsAgree'
    BY <1>1 DEF CInv, RunsAgree, Agrees
  <2>2. \A m \in Calls : /\ Declined(m)' = Declined(m) /\ AllIssued(m)' = AllIssued(m)
                         /\ Collected(m)' = Collected(m)
    BY <1>1 DEF Declined, AllIssued, Collected
  <2> QED BY <1>1, <2>1, <2>2 DEF CInv, AnswersAgree
<1>5. WireAgrees'
  <2> SUFFICES ASSUME NEW m \in Calls
               PROVE  /\ client'[m] = "idle" => wire'[m] = "idle"
                      /\ wire'[m] \in {"idle", "request", "damaged request"} => answer[m].kind = "none"
                      /\ wire'[m] = "damaged response" => answer[m].kind = "message"
                      /\ client'[m] \in {"idle", "waiting"} => results'[m] = <<>>
                      /\ client'[m] = "receipts" => answer[m].kind = "message"
                      /\ client'[m] = "errors" => answer[m].kind \in {"message"} \cup Statuses
    BY <1>1 DEF WireAgrees
  <2>1. CASE m = n
    BY <1>2, <2>1
  <2>2. CASE m # n
    BY <1>2, <2>2 DEF CInv, WireAgrees
  <2> QED BY <2>1, <2>2
<1> QED BY <1>3, <1>4, <1>5

-----------------------------------------------------------------------------

\* The receipt that the report of a message holds for an invocation is that of
\* its first run.
LEMMA ReportTells ==
    ASSUME CInv, NEW n \in Calls, answer[n].kind = "message", NEW i \in DOMAIN batch[n]
    PROVE  LET first == Min({j \in DOMAIN batch[n] : batch[n][j] = batch[n][i]})
           IN  /\ first \in DOMAIN runs[n]
               /\ Report(answer[n].receipts)[batch[n][i]].out = runs[n][first].out
               /\ runs[n][first].phase = "issued"
<1> DEFINE inv    == batch[n][i]
           same   == {j \in DOMAIN batch[n] : batch[n][j] = inv}
           first  == Min(same)
           rs     == answer[n].receipts
<1>1. "message" \notin {"none"} \cup Statuses
  BY DEF Statuses
<1>2. DOMAIN runs[n] = DOMAIN batch[n] /\ AllIssued(n) /\ rs = Collected(n)
  BY <1>1 DEF CInv, AnswersAgree, Declined
<1>3. batch[n] \in Seq(Invocations) /\ runs[n] \in Seq(Run)
  BY DEF CInv, TypeOK
<1>4. runs[n] # <<>> /\ \A j \in DOMAIN runs[n] : runs[n][j].inv = batch[n][j]
  BY <1>2, <1>3 DEF CInv, TypeOK
<1>5. first \in same
  <2>1. same \subseteq Nat /\ same # {}
    BY <1>3
  <2> HIDE DEF same
  <2>2. \E x \in same : \A y \in same : x <= y
    BY <2>1, LeastElement
  <2> QED BY <2>2 DEF Min
<1>6. /\ DOMAIN rs = DOMAIN batch[n]
      /\ \A j \in DOMAIN rs : rs[j].ran = batch[n][j] /\ rs[j].out = runs[n][j].out
  BY <1>2, <1>4 DEF Collected
<1>7. {j \in DOMAIN rs : rs[j].ran = inv} = same /\ inv \in {rs[j].ran : j \in DOMAIN rs}
  BY <1>5, <1>6
<1>8. Report(rs)[inv] = rs[first]
  BY <1>7, Zenon DEF Report
<1> QED BY <1>2, <1>5, <1>6, <1>8 DEF AllIssued

\* So a call that resolves with receipts resolves with what they tell truly.
LEMMA ReceiptsResolve ==
    ASSUME CInv, NEW n \in Calls, ReceiveReceipts(n)
    PROVE  /\ Promise!Resolve(n)
           /\ \E outs \in Seq(Outcomes) : Settle(n, "receipts", outs)
<1> DEFINE report == Report(answer[n].receipts)
           outs   == [i \in DOMAIN batch[n] |-> report[batch[n][i]].out]
<1>1. client[n] = "waiting" /\ answer[n].kind = "message" /\ Settle(n, "receipts", outs)
  BY DEF ReceiveReceipts
<1>2. \A i \in DOMAIN batch[n] : Promise!Tells(n, i, outs[i])
  <2> SUFFICES ASSUME NEW i \in DOMAIN batch[n] PROVE Promise!Tells(n, i, outs[i])
    OBVIOUS
  <2> DEFINE first == Min({j \in DOMAIN batch[n] : batch[n][j] = batch[n][i]})
  <2>1. Promise!First(n, i) = first
    BY DEF Promise!First, Promise!Min, Min
  <2>2. /\ first \in DOMAIN runs[n] /\ outs[i] = runs[n][first].out
        /\ runs[n][first].phase = "issued"
    BY <1>1, ReportTells
  <2> HIDE DEF first, outs
  <2>3. Agrees(runs[n][first], <<n, first>> \in effects)
    BY <2>2 DEF CInv, RunsAgree
  <2> QED BY <2>1, <2>2, <2>3 DEF Agrees, Promise!Tells
<1> HIDE DEF report
<1>3. batch[n] \in Seq(Invocations)
  BY DEF CInv, TypeOK
<1>4. outs \in [DOMAIN batch[n] -> Outcomes] /\ outs \in Seq(Outcomes)
  <2>1. \A i \in DOMAIN batch[n] : outs[i] \in Outcomes
    BY <1>2 DEF Promise!Tells
  <2>2. outs \in [DOMAIN batch[n] -> Outcomes]
    BY <2>1, Zenon
  <2> HIDE DEF outs
  <2>3. DOMAIN batch[n] = 1..Len(batch[n]) /\ Len(batch[n]) \in Nat
    BY <1>3
  <2> QED BY <2>2, <2>3
<1> HIDE DEF outs
<1>5. Promise!Resolve(n)
  BY <1>1, <1>2, <1>4 DEF Promise!Resolve, Settle, serverVars
<1> QED BY <1>1, <1>4, <1>5

\* A call that the server or the channel fails, or whose answer is no message.
LEMMA FailureFails ==
    ASSUME CInv, NEW n \in Calls, ReceiveFailure(n) \/ ReceiveNonsense(n) \/ Break(n) \/ Unsent(n)
    PROVE  Promise!Fail(n)
<1>1. client[n] \in {"idle", "waiting"} => results[n] = <<>>
  BY DEF CInv, WireAgrees
<1>2. results \in [Calls -> Seq(Outcomes \cup {"DecodeError"})]
  BY DEF CInv, TypeOK
<1>3. client[n] = "waiting" => results = [results EXCEPT ![n] = <<>>]
  BY <1>1, <1>2
<1>4. CASE ReceiveFailure(n) \/ Break(n)
  <2>1. client[n] = "waiting" /\ Settle(n, "rejected", <<>>)
    BY <1>4 DEF ReceiveFailure, Break
  <2> QED BY <1>3, <2>1 DEF Settle, serverVars, Promise!Fail
<1>5. CASE ReceiveNonsense(n)
  BY <1>5 DEF ReceiveNonsense, Settle, serverVars, Promise!Fail
<1>6. CASE Unsent(n)
  BY <1>6 DEF Unsent, serverVars, Promise!Fail
<1> QED BY <1>4, <1>5, <1>6

\* A handler is called once for each run, of a call that has not settled with
\* receipts or errors.
LEMMA HandlerActs ==
    ASSUME CInv, NEW n \in Calls, NEW i \in DOMAIN runs[n], CallHandler(n, i), Quiet
    PROVE  Promise!Act(n, i)
<1>1. runs[n][i].phase = "granted" /\ effects' = effects \cup {<<n, i>>}
  BY DEF CallHandler, At
<1>2. <<n, i>> \notin effects
  BY <1>1 DEF CInv, RunsAgree, Agrees
<1>3. runs[n] # <<>> /\ ~AllIssued(n)
  BY <1>1 DEF AllIssued
<1>4. ~Declined(n) /\ answer[n].kind # "message"
  BY <1>3 DEF CInv, AnswersAgree
<1>5. i \in DOMAIN batch[n]
  BY <1>4 DEF CInv, AnswersAgree
<1>6. client[n] \in {"waiting", "rejected"}
  <2>1. client[n] \in {"idle", "waiting", "receipts", "errors", "rejected"}
    BY DEF CInv, TypeOK, Clients
  <2>2. client[n] # "idle" /\ client[n] # "receipts" /\ client[n] # "errors"
    BY <1>4 DEF CInv, WireAgrees, Declined
  <2> QED BY <2>1, <2>2
<1> QED BY <1>1, <1>2, <1>5, <1>6 DEF Quiet, Promise!Act

-----------------------------------------------------------------------------

\* Nothing was sent yet.
LEMMA InitCInv == Init => CInv
<1> SUFFICES ASSUME Init PROVE CInv
  OBVIOUS
<1>1. /\ world \in [Invocations -> World] /\ batch \in [Calls -> Seq(Invocations)]
      /\ channel \in {"http", "direct"} /\ codec \in {"match", "415", "406"}
  BY ServerAssumption, ConnectionAssumption DEF Init, ServerInit
<1>2. \A S : <<>> \in Seq(S)
  BY EmptySeq
<1>3. Only("none") \in Answer /\ Only("none").kind = "none"
  BY <1>2 DEF Only, Answer
<1>4. TypeOK
  BY <1>1, <1>2, <1>3 DEF Init, ServerInit, TypeOK, Wires, Clients
<1>5. RunsAgree
  BY DEF Init, ServerInit, RunsAgree
<1>6. AnswersAgree
  BY <1>3 DEF Init, ServerInit, AnswersAgree, Declined
<1>7. WireAgrees
  BY <1>3 DEF Init, ServerInit, WireAgrees
<1> QED BY <1>4, <1>5, <1>6, <1>7, InitIInv DEF CInv

\* The steps of the channel and of execute.
LEMMA ClientStepAgreed ==
    ASSUME CInv, NEW n \in Calls,
           \/ Send(n) \/ Unsent(n) \/ Mishap(n) \/ Return(n)
           \/ ReceiveFailure(n) \/ ReceiveReceipts(n) \/ ReceiveNonsense(n)
    PROVE  TypeOK' /\ RunsAgree' /\ AnswersAgree' /\ WireAgrees'
<1>1. /\ wire = [wire EXCEPT ![n] = wire[n]] /\ client = [client EXCEPT ![n] = client[n]]
      /\ results = [results EXCEPT ![n] = results[n]]
      /\ wire[n] \in Wires /\ client[n] \in Clients
      /\ results[n] \in Seq(Outcomes \cup {"DecodeError"})
  BY DEF CInv, TypeOK
<1>2. /\ client[n] = "idle" => wire[n] = "idle"
      /\ wire[n] \in {"idle", "request", "damaged request"} => answer[n].kind = "none"
      /\ wire[n] = "damaged response" => answer[n].kind = "message"
      /\ client[n] \in {"idle", "waiting"} => results[n] = <<>>
      /\ client[n] = "receipts" => answer[n].kind = "message"
      /\ client[n] = "errors" => answer[n].kind \in {"message"} \cup Statuses
  BY DEF CInv, WireAgrees
<1>3. /\ {"request", "damaged request", "response", "damaged response"} \subseteq Wires
      /\ {"waiting", "receipts", "errors", "rejected"} \subseteq Clients
  BY DEF Wires, Clients
<1>4. ASSUME NEW w \in Wires, wire' = [wire EXCEPT ![n] = w], client[n] # "idle",
             UNCHANGED <<serverVars, batch, channel, codec, client, results>>,
             w \in {"idle", "request", "damaged request"} => answer[n].kind = "none",
             w = "damaged response" => answer[n].kind = "message"
      PROVE  TypeOK' /\ RunsAgree' /\ AnswersAgree' /\ WireAgrees'
  <2>1. client' = [client EXCEPT ![n] = client[n]] /\ results' = [results EXCEPT ![n] = results[n]]
        /\ UNCHANGED <<serverVars, batch, channel, codec>>
    BY <1>1, <1>4
  <2> QED BY <1>1, <1>2, <1>4, <2>1, ClientAgreed, Zenon
<1>5. ASSUME NEW how \in {"receipts", "errors", "rejected"},
             NEW outs \in Seq(Outcomes \cup {"DecodeError"}),
             Settle(n, how, outs), client[n] = "waiting",
             how = "receipts" => answer[n].kind = "message",
             how = "errors" => answer[n].kind \in {"message"} \cup Statuses
      PROVE  TypeOK' /\ RunsAgree' /\ AnswersAgree' /\ WireAgrees'
  <2>1. wire' = [wire EXCEPT ![n] = wire[n]] /\ client' = [client EXCEPT ![n] = how]
        /\ results' = [results EXCEPT ![n] = outs]
        /\ UNCHANGED <<serverVars, batch, channel, codec>>
    BY <1>1, <1>5 DEF Settle
  <2>2. how \in Clients /\ how \notin {"idle", "waiting"}
    BY <1>3
  <2> QED BY <1>1, <1>2, <1>5, <2>1, <2>2, ClientAgreed
<1>6. wire[n] # "idle" => client[n] # "idle"
  BY <1>2
<1>7. CASE Send(n)
  <2>1. /\ wire' = [wire EXCEPT ![n] = "request"] /\ client' = [client EXCEPT ![n] = "waiting"]
        /\ results' = [results EXCEPT ![n] = <<>>]
        /\ UNCHANGED <<serverVars, batch, channel, codec>>
        /\ answer[n].kind = "none" /\ results[n] = <<>>
    BY <1>1, <1>2, <1>7 DEF Send
  <2> QED BY <1>1, <1>3, <2>1, ClientAgreed
<1>8. CASE Unsent(n)
  <2>1. /\ wire' = [wire EXCEPT ![n] = "idle"] /\ client' = [client EXCEPT ![n] = "rejected"]
        /\ results' = [results EXCEPT ![n] = <<>>]
        /\ UNCHANGED <<serverVars, batch, channel, codec>>
        /\ answer[n].kind = "none" /\ results[n] = <<>> /\ "idle" \in Wires
    BY <1>1, <1>2, <1>8 DEF Unsent
  <2> QED BY <1>1, <1>3, <2>1, ClientAgreed
<1>9. CASE DamageRequest(n)
  <2>1. wire[n] = "request" /\ answer[n].kind = "none"
    BY <1>2, <1>9 DEF DamageRequest
  <2> QED BY <1>3, <1>4, <1>6, <1>9, <2>1 DEF DamageRequest
<1>10. CASE DamageResponse(n)
  BY <1>3, <1>4, <1>6, <1>10 DEF DamageResponse
<1>11. CASE Return(n)
  BY <1>3, <1>4, <1>6, <1>11 DEF Return
<1>12. CASE Break(n) \/ ReceiveFailure(n)
  <2>1. <<>> \in Seq(Outcomes \cup {"DecodeError"})
    BY EmptySeq
  <2> QED BY <1>5, <1>12, <2>1 DEF Break, ReceiveFailure
<1>13. CASE ReceiveReceipts(n)
  <2>1. PICK outs \in Seq(Outcomes) : Settle(n, "receipts", outs)
    BY <1>13, ReceiptsResolve
  <2>2. outs \in Seq(Outcomes \cup {"DecodeError"})
    OBVIOUS
  <2> QED BY <1>5, <1>13, <2>1, <2>2 DEF ReceiveReceipts
<1>14. CASE ReceiveNonsense(n)
  <2> DEFINE outs == [i \in DOMAIN batch[n] |-> "DecodeError"]
  <2>1. batch[n] \in Seq(Invocations)
    BY DEF CInv, TypeOK
  <2>2. outs \in Seq(Outcomes \cup {"DecodeError"})
    <3>1. DOMAIN batch[n] = 1..Len(batch[n]) /\ Len(batch[n]) \in Nat
      BY <2>1
    <3> QED BY <3>1
  <2>3. Settle(n, "errors", outs) /\ client[n] = "waiting"
    BY <1>14 DEF ReceiveNonsense
  <2>4. answer[n].kind \in {"message"} \cup Statuses
    BY <1>2, <1>14 DEF ReceiveNonsense
  <2> HIDE DEF outs
  <2> QED BY <1>5, <2>2, <2>3, <2>4
<1> QED BY <1>7, <1>8, <1>9, <1>10, <1>11, <1>12, <1>13, <1>14 DEF Mishap

\* Every step of client, channel, server and host keeps it.
LEMMA NextCInv == CInv /\ [Next]_vars => CInv'
<1> SUFFICES ASSUME CInv, [Next]_vars PROVE CInv'
  OBVIOUS
<1>1. IInv'
  BY NextIInv DEF CInv
<1> SUFFICES TypeOK' /\ RunsAgree' /\ AnswersAgree' /\ WireAgrees'
  BY <1>1 DEF CInv
<1>2. ASSUME NEW n \in Calls, Send(n) \/ Unsent(n) \/ Transport(n) \/ Mishap(n)
      PROVE  TypeOK' /\ RunsAgree' /\ AnswersAgree' /\ WireAgrees'
  <2>1. CASE NotAcceptable(n)
    <3>1. codec \in Statuses
      BY <2>1 DEF NotAcceptable, CInv, TypeOK, Statuses
    <3> QED BY <2>1, <3>1, DeclineAgreed DEF NotAcceptable
  <2>2. CASE Malformed(n)
    <3>1. "400" \in Statuses
      BY DEF Statuses
    <3> QED BY <2>2, <3>1, DeclineAgreed DEF Malformed
  <2>3. CASE Deliver(n)
    BY <2>3, DeliverAgreed
  <2> QED BY <1>2, <2>1, <2>2, <2>3, ClientStepAgreed DEF Transport
<1>3. CASE Work
  <2>1. Quiet /\ ServerStep
    BY <1>3 DEF Work
  <2>2. ASSUME NEW n \in Calls, Respond(n) PROVE TypeOK' /\ RunsAgree' /\ AnswersAgree' /\ WireAgrees'
    <3> DEFINE a == [kind |-> "message", receipts |-> Collected(n)]
    <3>1. Collected(n) \in Seq(Receipt)
      <4>1. runs[n] \in Seq(Run)
        BY DEF CInv, TypeOK
      <4>2. \A i \in DOMAIN runs[n] : runs[n][i].inv \in Invocations
        <5>1. \A i \in DOMAIN runs[n] : runs[n][i] \in Run
          BY <4>1
        <5> QED BY <5>1 DEF Run
      <4>3. \A i \in DOMAIN runs[n] : runs[n][i].out \in Outcomes
        BY <2>2 DEF Respond, AllIssued, CInv, RunsAgree, Agrees
      <4>4. DOMAIN runs[n] = 1..Len(runs[n]) /\ Len(runs[n]) \in Nat
        BY <4>1
      <4>5. \A i \in DOMAIN runs[n] : [ran |-> runs[n][i].inv, out |-> runs[n][i].out] \in Receipt
        BY <4>2, <4>3 DEF Receipt
      <4>6. Collected(n) \in [DOMAIN runs[n] -> Receipt]
        BY <4>5, Zenon DEF Collected
      <4> QED BY <4>4, <4>6
    <3>2. a \in Answer /\ a.kind = "message" /\ a.receipts = Collected(n)
      BY <3>1 DEF Answer
    <3>3. /\ Working(n) /\ AllIssued(n) /\ answer' = [answer EXCEPT ![n] = a]
          /\ UNCHANGED <<world, revoked, runs, effects, before>>
      BY <2>2 DEF Respond, Collected
    <3> HIDE DEF a
    <3> QED BY <2>1, <3>2, <3>3, AnswerAgreed
  <2>3. ASSUME NEW n \in Calls, Reject(n) PROVE TypeOK' /\ RunsAgree' /\ AnswersAgree' /\ WireAgrees'
    <3>1. <<>> \in Seq(Receipt)
      BY EmptySeq
    <3>2. Only("rejected") \in Answer /\ Only("rejected").kind = "rejected"
      BY <3>1 DEF Only, Answer
    <3>3. /\ Working(n) /\ answer' = [answer EXCEPT ![n] = Only("rejected")]
          /\ UNCHANGED <<world, revoked, runs, effects, before>>
      BY <2>3 DEF Reject
    <3> QED BY <2>1, <3>2, <3>3, AnswerAgreed
  <2>4. ASSUME NEW n \in Calls, NEW i \in DOMAIN runs[n], RunStep(n, i)
        PROVE  TypeOK' /\ RunsAgree' /\ AnswersAgree' /\ WireAgrees'
    BY <2>1, <2>4, RunStepAgreed
  <2> QED BY <2>1, <2>2, <2>3, <2>4 DEF ServerStep
<1>4. ASSUME NEW d \in Delegations, Revoke(d), Quiet
      PROVE  TypeOK' /\ RunsAgree' /\ AnswersAgree' /\ WireAgrees'
  <2>1. TypeOK'
    BY <1>4 DEF Revoke, Quiet, CInv, TypeOK
  <2>2. RunsAgree' /\ WireAgrees'
    BY <1>4 DEF Revoke, Quiet, CInv, RunsAgree, Agrees, WireAgrees
  <2>3. AnswersAgree'
    BY <1>4 DEF Revoke, Quiet, CInv, AnswersAgree, Declined, AllIssued, Collected
  <2> QED BY <2>1, <2>2, <2>3
<1>5. CASE UNCHANGED vars
  <2>1. UNCHANGED <<world, revoked, runs, answer, effects, before>> /\ Quiet
    BY <1>5 DEF vars, serverVars, Quiet
  <2>2. TypeOK'
    BY <2>1 DEF Quiet, CInv, TypeOK
  <2>3. RunsAgree' /\ WireAgrees'
    BY <2>1 DEF Quiet, CInv, RunsAgree, Agrees, WireAgrees
  <2>4. AnswersAgree'
    BY <2>1 DEF Quiet, CInv, AnswersAgree, Declined, AllIssued, Collected
  <2> QED BY <2>2, <2>3, <2>4
<1> QED BY <1>2, <1>3, <1>4, <1>5 DEF Next, RevokeAny

-----------------------------------------------------------------------------

\* The inductive invariant is one of the specification.
LEMMA InductiveC == Spec => []CInv
BY InitCInv, NextCInv, PTL DEF Spec

\* Types of every state; and the runs of a call are the invocations of its
\* batch, in order, from when its message was decoded to the end.
THEOREM TypeCorrect == Spec => []TypeOK
<1>1. CInv => TypeOK
  BY DEF CInv
<1> QED BY <1>1, InductiveC, PTL

\* Each step of client, channel, server and host is a step of Execution, or one
\* of those that the caller does not see.
LEMMA PromiseStep == CInv /\ [Next]_vars => [Promise!Next]_Promise!vars
<1> SUFFICES ASSUME CInv, [Next]_vars PROVE [Promise!Next]_Promise!vars
  OBVIOUS
<1>1. ASSUME UNCHANGED <<batch, client, results, effects>> PROVE UNCHANGED Promise!vars
  BY <1>1 DEF Promise!vars
<1>2. ASSUME NEW n \in Calls, Promise!Send(n) \/ Promise!Resolve(n) \/ Promise!Fail(n)
      PROVE  Promise!Next
  BY <1>2 DEF Promise!Next
<1>3. ASSUME NEW n \in Calls, Send(n) PROVE Promise!Next
  <2>1. Promise!Send(n)
    BY <1>3 DEF Send, serverVars, Promise!Send
  <2> QED BY <1>2, <2>1
<1>4. ASSUME NEW n \in Calls, ReceiveReceipts(n) PROVE Promise!Next
  BY <1>2, <1>4, ReceiptsResolve
<1>5. ASSUME NEW n \in Calls,
             ReceiveFailure(n) \/ ReceiveNonsense(n) \/ Break(n) \/ Unsent(n)
      PROVE  Promise!Next
  BY <1>2, <1>5, FailureFails
<1>6. ASSUME NEW n \in Calls,
             \/ NotAcceptable(n) \/ Malformed(n) \/ Deliver(n) \/ Return(n)
             \/ DamageRequest(n) \/ DamageResponse(n)
      PROVE  UNCHANGED <<batch, client, results, effects>>
  BY <1>6 DEF NotAcceptable, Malformed, Deliver, Arrive, Decline, Execute, Return,
              DamageRequest, DamageResponse, serverVars
<1>7. ASSUME NEW n \in Calls, Send(n) \/ Unsent(n) \/ Transport(n) \/ Mishap(n)
      PROVE  [Promise!Next]_Promise!vars
  BY <1>1, <1>3, <1>4, <1>5, <1>6, <1>7 DEF Transport, Mishap
<1>8. ASSUME NEW n \in Calls, NEW i \in DOMAIN runs[n], RunStep(n, i), Quiet
      PROVE  [Promise!Next]_Promise!vars
  <2>1. CASE CallHandler(n, i)
    <3>1. Promise!Act(n, i)
      BY <1>8, <2>1, HandlerActs
    <3>2. i \in DOMAIN batch[n]
      BY <3>1 DEF Promise!Act
    <3> QED BY <3>1, <3>2 DEF Promise!Next
  <2>2. CASE ~CallHandler(n, i)
    <3>1. UNCHANGED effects
      BY <1>8, <2>2 DEF RunStep, Grant, Deny, HandlerReturns, Catch, CatchThrows, Issue, IssueThrows
    <3> QED BY <1>1, <1>8, <3>1 DEF Quiet
  <2> QED BY <2>1, <2>2
<1>9. CASE Work
  <2>1. \A n \in Calls : Respond(n) \/ Reject(n) => UNCHANGED effects
    BY DEF Respond, Reject
  <2> QED BY <1>1, <1>8, <1>9, <2>1 DEF Work, ServerStep, Quiet
<1>10. CASE RevokeAny \/ UNCHANGED vars
  BY <1>1, <1>10 DEF RevokeAny, Revoke, Quiet, vars, serverVars
<1> QED BY <1>7, <1>9, <1>10 DEF Next

\* execute keeps the promise made to its caller, which Execution states: each
\* invocation takes effect at most once, receipts tell truly whether it did, and
\* nothing of a call happens after it resolved.
THEOREM PromiseKept == Spec => KeepsPromise
<1>1. Init => Promise!Init
  BY DEF Init, ServerInit, Promise!Init
<1> QED BY <1>1, InductiveC, PromiseStep, PTL DEF Spec, KeepsPromise, Promise!Spec

=============================================================================

---------------------------- MODULE MCValidator -----------------------------
(***************************************************************************)
(* Small instances of Validator.  A world says what every UCAN holds; the  *)
(* families below vary the parts the search branches on.                   *)
(***************************************************************************)
EXTENDS Backing

Alice == <<"did:key:", "alice">>       \* owns a space
Bob   == <<"did:key:", "bob">>         \* the agent that invokes
Carol == <<"did:key:", "carol">>       \* an agent between them
Dave  == <<"did:key:", "dave">>        \* a key the principal parser rejects
W3    == <<"did:web:", "w3">>          \* the service
Ext   == <<"did:web:", "ext">>         \* another service
Acc   == <<"did:mailto:", "acc">>      \* an account
AnyKey == <<"did:key:", "*">>          \* a pattern, not a principal

MCKeyDIDs   == {Alice, Bob, Carol, Dave}
MCOtherDIDs == {W3, Ext, Acc}
MCUnparsable == {Dave}

MCToken == {"store", "add", "list", "ucan", "attest", "/", "*", "ucan:", "did:key:", "did:web:",
            "did:mailto:", "alice", "bob", "carol", "dave", "w3", "ext", "acc"}

Plain(x) == [val |-> x, at |-> "scalar"]
MCField == {"size", "proof"}
ChainDelegations   == {"inv", "p1", "p2", "root"}
SessionDelegations == {"inv", "login", "att1", "att2", "auth", "local"}
MCNames == ChainDelegations \cup SessionDelegations
MCValue == {Plain("1"), Plain("2")} \cup [val : MCNames, at : MCNames]

NoNb == [f \in {} |-> Plain("1")]
Size(x) == [f \in {"size"} |-> Plain(x)]
StoreAdd(with, nb) == [can |-> <<"store", "/", "add">>, with |-> with, nb |-> nb]
StoreAny(with, nb) == [can |-> <<"store", "/", "*">>, with |-> with, nb |-> nb]
Everything         == [can |-> AnyAbility, with |-> AnyResource, nb |-> NoNb]

MCInvoked == [can |-> <<"store", "/", "add">>, with |-> {Alice, Bob, Acc, AnyKey},
              nb |-> [f \in {"size"} |-> [accepts |-> {Plain("1"), Plain("2")},
                                          optional |-> TRUE]]]

\* A UCAN that is always in its window, signed by its issuer, with its proofs
\* embedded; and its variations.
Signed(iss, aud, caps, prf) ==
    [iss |-> iss, aud |-> aud, caps |-> caps, prf |-> prf, embedded |-> ToSet(prf),
     nbf |-> 0, exp |-> Never, key |-> iss]
Until(u, t) == [u EXCEPT !.exp = t]
From(u, t)  == [u EXCEPT !.nbf = t]
Linked(u)   == [u EXCEPT !.embedded = {}]
Forged(u)   == [u EXCEPT !.key = Carol]

-----------------------------------------------------------------------------
(* Chains: Bob invokes on Alice's space with two candidate proofs, p1 from *)
(* Alice or from Carol, who may hold root from Alice.                      *)

Invocation(prf) == Signed(Bob, W3, <<StoreAdd(Alice, Size("1"))>>, prf)

P1Caps == {<<StoreAdd(Alice, NoNb)>>,
           <<StoreAdd(Alice, Size("2"))>>,
           <<StoreAdd(AnyKey, NoNb)>>,
           <<StoreAny(Alice, Size("1")), Everything>>}

P1s == {Signed(iss, Bob, caps, <<"root">>) : iss \in {Alice, Carol}, caps \in P1Caps}
       \cup {Signed(Alice, Carol, <<Everything>>, <<>>),
             Signed(Dave, Bob, <<Everything>>, <<>>),
             Until(Signed(Alice, Bob, <<Everything>>, <<>>), 1),
             Forged(Signed(Alice, Bob, <<Everything>>, <<>>))}

P2s == {Linked(Signed(Carol, Bob, <<StoreAdd(AnyResource, NoNb)>>, <<"root">>)),
        From(Signed(Alice, Bob, <<StoreAdd(Alice, NoNb)>>, <<>>), 1),
        Signed(Alice, Bob, <<StoreAny(AnyResource, NoNb)>>, <<>>)}

Roots == {Signed(Alice, Carol, <<Everything>>, <<>>),
          Until(Signed(Alice, Carol, <<StoreAdd(Alice, Size("1"))>>, <<>>), 1),
          Signed(Bob, Carol, <<Everything>>, <<>>)}

ChainWorlds ==
    {[d \in ChainDelegations |->
        CASE d = "inv"  -> inv
          [] d = "p1"   -> p1
          [] d = "p2"   -> p2
          [] d = "root" -> root] :
      inv \in {Invocation(<<"p1", "p2">>), Linked(Invocation(<<"p1", "p2">>))},
      p1 \in P1s, p2 \in P2s, root \in Roots}

-----------------------------------------------------------------------------
(* Sessions: Bob invokes on the account, whose login carries no signature  *)
(* of a key (or one of Carol's); att1 and att2 may attest the login, or    *)
(* one the other; auth lets Carol attest for the service; local is what    *)
(* the service was configured with.                                        *)

AccInvocation(prf) == Signed(Bob, W3, <<StoreAdd(Acc, Size("1"))>>, prf)

AttestCap(d, by, with) ==
    [can |-> Attest, with |-> with, nb |-> [f \in {"proof"} |-> LinkTo(d, by)]]

Login(key) == [Signed(Acc, Bob, <<StoreAny(Acc, NoNb)>>, <<>>) EXCEPT !.key = key]
Logins == {Until(Login(NoKey), 1), Login(Carol)}

Att1s == {Signed(W3, Bob, <<AttestCap("login", "att1", W3)>>, <<>>),
          Signed(Carol, Bob, <<AttestCap("login", "att1", W3)>>, <<"auth">>),
          [Signed(Ext, Bob, <<AttestCap("login", "att1", Ext)>>, <<>>) EXCEPT !.key = Alice],
          [Signed(Acc, Bob, <<AttestCap("att2", "att1", W3)>>, <<"auth">>) EXCEPT !.key = Carol]}

Att2s == {Signed(W3, Bob, <<AttestCap("att1", "att2", W3)>>, <<>>),
          Until(Signed(W3, Bob, <<AttestCap("login", "att2", W3)>>, <<>>), 1),
          Forged(Signed(W3, Bob, <<AttestCap("login", "att2", W3)>>, <<>>)),
          [Signed(Ext, Bob, <<AttestCap("att1", "att2", Ext),
                              AttestCap("login", "att2", W3)>>, <<>>) EXCEPT !.key = Alice]}

Auths == {Signed(W3, Carol, <<Everything>>, <<>>),
          Signed(W3, Carol, <<AttestCap("login", "auth", W3)>>, <<>>),
          Linked(Until(Signed(W3, Acc, <<[Everything EXCEPT !.with = W3]>>, <<>>), 1))}

Locals == {Signed(W3, Ext, <<[can |-> Attest, with |-> W3, nb |-> NoNb]>>, <<>>),
           Signed(W3, Ext, <<Everything>>, <<>>),
           Signed(W3, Ext, <<>>, <<>>)}

SessionWorld(prf, login, att1, att2, auth, local) ==
    [d \in SessionDelegations |->
        CASE d = "inv"   -> AccInvocation(prf)
          [] d = "login" -> login
          [] d = "att1"  -> att1
          [] d = "att2"  -> att2
          [] d = "auth"  -> auth
          [] d = "local" -> local]

\* A login signed by the key that the answers below have behind one that cannot
\* be parsed.
LateKeyWorlds ==
    {SessionWorld(<<"login">>, Login(Bob), att, att, auth, local) :
      att \in {Signed(W3, Bob, <<AttestCap("att2", "att1", W3)>>, <<>>)},
      auth \in {Signed(W3, Carol, <<Everything>>, <<>>)}, local \in Locals}

SessionWorlds ==
    LateKeyWorlds \cup
    {SessionWorld(prf, login, att1, att2, auth, local) :
      prf \in {<<"login", "att1", "att2">>, <<"att2", "att1", "login">>},
      login \in Logins, att1 \in Att1s, att2 \in Att2s, auth \in Auths, local \in Locals}

-----------------------------------------------------------------------------
(* Both families over the same names; a name a family does not use is a    *)
(* delegation nobody refers to, but for a local proof that says nothing.   *)

Unused == Signed(W3, W3, <<Everything>>, <<>>)
Silent == Signed(W3, Ext, <<>>, <<>>)

AllWorlds ==
    {[d \in MCNames |-> IF d \in DOMAIN w THEN w[d] ELSE Unused] :
        w \in ChainWorlds \cup SessionWorlds}
    \cup {[d \in MCNames |-> IF d \in DOMAIN w THEN w[d] ELSE Silent] :
              w \in {x \in ChainWorlds : x["inv"].embedded = {}}}

AccessInvocation == <<"inv">>
NoKeys == {<<>>}
SomeKeys == {<<Carol, Alice>>, <<Alice, Dave, Bob>>}
OneAnswer == {<<Alice, Carol, Dave, Bob>>}
Nothing == {{}}
EachRevoked == {{d} : d \in ChainDelegations}
MaybeRevoked == {{}, {"auth"}}
RevocableSessions == {"att1"}
LocalProof == {"local"}

=============================================================================

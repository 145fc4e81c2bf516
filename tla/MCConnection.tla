---------------------------- MODULE MCConnection ----------------------------
(***************************************************************************)
(* Small instances of Connection.                                          *)
(***************************************************************************)
EXTENDS Connection

OneCall  == {1}
TwoCalls == {1, 2}

MCInvocations == {"a", "b"}

\* b is whatever an invocation may be that is not run, or another one that is;
\* both are authorised by the chains.
WorldsWith(chains) ==
    {[inv \in MCInvocations |->
        [kind |-> IF inv = "a" THEN "plain" ELSE kind, chains |-> chains]] : kind \in Kinds}

\* One chain with one delegation, which may be revoked.
OneDelegation == {"d"}
OneChain      == WorldsWith({OneDelegation})

\* Two invocations, one of them twice, one alone, and an empty message.
MCMessages == {<<"a", "b">>, <<"a", "a">>, <<"b">>, <<>>}
Alone      == {<<m>> : m \in MCMessages}

\* Such a message beside an empty one; and an invocation that is tried again.
Together == {<<m, <<>>>> : m \in {<<"a", "b">>, <<"a", "a">>}} \cup {<< <<"a">>, <<"a">> >>}

MCChannels == {"http", "direct"}
MCCodecs   == {"match", "415", "406"}

=============================================================================

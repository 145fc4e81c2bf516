----------------------------- MODULE MCExchange -----------------------------
(***************************************************************************)
(* Exchange with three delegations, a message of two invocations, and the  *)
(* clients and servers the package knows.                                  *)
(***************************************************************************)
EXTENDS Arrivals

D == Data(1)
E == Data(2)
F == Data(3)

MCLinks == {[links |-> {}, attached |-> {}],
            [links |-> {<<"nb", D>>, <<"fact", E>>, <<"inside a fact", F>>}, attached |-> {D}]}
MCAttachable == {E, F}

CarMedia == Media("application", "vnd.ipld.car", 0)
AnyMedia == Media("*", "*", 0)
Encoder(media, name) == [category |-> media.category, type |-> media.type, q |-> media.q, encoder |-> name]

\* The client of the package and an older one.
MCClients ==
    {[contentType |-> "application/vnd.ipld.car", accept |-> <<CarMedia>>, decodes |-> "car"],
     [contentType |-> "application/car", accept |-> <<AnyMedia>>, decodes |-> "legacy"]}

ModernCodec == [decoders |-> "application/vnd.ipld.car" :> "car", encoders |-> <<Encoder(CarMedia, "car")>>]
LegacyCodec == [decoders |-> ("application/vnd.ipld.car" :> "car") @@ ("application/car" :> "legacy"),
                encoders |-> <<Encoder(Media("*", "*", 1), "legacy"), Encoder(CarMedia, "car")>>]
MCCodecs == {ModernCodec, LegacyCodec}

MCBatches == {<<2, 3>>, <<3, 3>>}

Fork == View(Ucan(11, <<Ucan(10, <<>>, {})>>, {}), {Ucan(10, <<>>, {})})
Join == View(Ucan(12, <<>>, {}), {})
Returns(out, fx) == [out |-> out, fx |-> fx]
MCAnswers == {<<Returns("ok", <<Fork, Join>>), Returns("error", <<>>)>>,
              <<Returns("falsy", <<>>), Returns("ok", <<Join>>)>>}

=============================================================================

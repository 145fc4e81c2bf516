--------------------------- MODULE MCAttenuation ----------------------------
(***************************************************************************)
(* Attenuation over every capability built from a few abilities, resources *)
(* and caveats, wildcards at every level among them.                       *)
(***************************************************************************)
EXTENDS Attenuation

MCToken == {"store", "front", "add", "/", "*", "ucan:", "file:", "a", "b"}
MCField == {"size", "root", "extra"}
MCValue == {[val |-> v, at |-> "scalar"] : v \in {"1", "2"}}

\* 'storefront/add' and what may or may not stand for it.
Add == <<"store", "front", "/", "add">>
MCAbilities == {Add, <<"store", "front", "/", "*">>, <<"*">>, Add \o <<"/", "*">>,
                <<"store", "/", "*">>, <<"store", "*">>}
MCResources == {<<"file:", "a">>, <<"file:", "a", "b">>, <<"file:", "a", "*">>,
                <<"file:", "*">>, AnyResource}
MCNbs == UNION {[F -> MCValue] : F \in {{}, {"size"}, {"root"}, {"size", "extra"}}}

MCCaps == [can : MCAbilities, with : MCResources, nb : MCNbs]

\* size must be there, root may be, and extra is not known to the service.
MCDesc == [can |-> Add, with |-> MCResources \ {AnyResource},
           nb |-> [f \in {"size", "root"} |->
                     [accepts |-> MCValue, optional |-> f = "root"]]]

=============================================================================

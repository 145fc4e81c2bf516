----------------------------- MODULE MCSelectors -----------------------------
(***************************************************************************)
(* SelectorPaths with a space, its members alice and carol, and bob, to    *)
(* whom they delegate and who invokes.                                     *)
(***************************************************************************)
EXTENDS SelectorPaths

MCToken == {"store", "add", "list", "edit", "/", "*", "ucan:", "space", "alice", "bob", "carol"}
MCField == {"size", "note"}
MCValue == 1..2

Space == <<"space">>
Alice == <<"alice">>
Bob   == <<"bob">>
Carol == <<"carol">>

Size(optional) == "size" :> [accepts |-> 1..2, optional |-> optional]
Desc(ability, nb) == [can |-> <<"store", "/", ability>>, with |-> {Space, Alice}, nb |-> nb]

AddD  == Desc("add", Size(FALSE))
ListD == Desc("list", <<>>)
EditD == Desc("edit", Size(TRUE))
MCDescriptors == {AddD, ListD, EditD}

Add  == Unit(AddD, "default")
List == Unit(ListD, "default")
Edit == Unit(EditD, "size")
MCParsers == {Add, Or(Edit, List), And(<<Add, List>>), And(<<Edit, Or(Add, Edit)>>),
              Derive(Add, List, "same"), Derive(And(<<Add, List>>), Edit, "each"),
              And(<<Derive(Add, List, "same"), Add>>)}

AtMost(c, d, f) == f \in DOMAIN d.nb => f \in DOMAIN c.nb /\ c.nb[f] <= d.nb[f]

MCDerives(rule, c, d) ==
    CASE rule = "default" -> DefaultDerives(c, d)
      [] rule = "size"    -> c.with = d.with /\ AtMost(c, d, "size")
      [] rule = "same"    -> c.with = d.with
      [] rule = "each"    -> \A i \in DOMAIN d : c.with = d[i].with

MCResources == {Space}
MCAnyNb == {<<>>, "size" :> 2}

C(can, with, nb) == [can |-> can, with |-> with, nb |-> nb]

MCWritten ==
    {<<C(<<"store", "/", "*">>, Space, "note" :> 1)>>, <<C(<<"*">>, AnyResource, <<>>)>>,
     <<C(<<"store", "/", "add">>, Space, "size" :> 1), C(<<"store", "/", "list">>, Space, <<>>)>>,
     <<C(<<"store", "/", "edit">>, Space, ("size" :> 1) @@ ("note" :> 1)), C(<<"store", "/", "add">>, Alice, "size" :> 2)>>}

Role(iss, aud) == [iss |-> iss, aud |-> aud]
MCRoles == <<Role({Space}, {Alice, Carol}), Role({Alice}, {Bob}), Role({Carol, Space}, {Bob}),
             Role({Bob}, {Space})>>

=============================================================================

------------------------------ MODULE MCSchema -------------------------------
(***************************************************************************)
(* SchemaTravel with every reader of the package and values at the edges   *)
(* of what each accepts.                                                   *)
(***************************************************************************)
EXTENDS SchemaTravel

A == <<"a">>
B == <<"b">>
Rest == <<"_">>
NoKey == <<>>
MCKeys == {A, Rest}

Key == <<"did:", "key:", "z">>
Web == <<"did:", "web:", "w">>

StringS == <<"string">>
AB == (A :> StringS) @@ (B :> <<"uint64">>)

MCBases ==
    {<<"never">>, <<"unknown">>, <<"boolean">>, <<"number">>, StringS, <<"bytes">>,
     <<"uint64">>, <<"enum", {Str(A), Str(B)}>>, <<"literal", Str(A)>>, <<"literal", Null>>,
     <<"refine", StringS, <<"did", "">>>>, <<"didBytes", "key:">>, <<"principal", "">>,
     <<"link", {0, 1}, {0, 1}>>, <<"link", {1}, {1}>>, <<"uri", {"did:"}>>,
     <<"struct", AB>>, <<"variant", AB @@ (Rest :> <<"unknown">>)>>,
     <<"dictionary", <<"uri", {"did:"}>>, <<"number">>>>}

MCRefinements ==
    {<<"integer">>, <<"float">>, <<"lessThan", 3>>, <<"greaterThan", 0>>,
     <<"startsWith", <<"did:">>>>, <<"endsWith", <<"z">>>>, <<"match", {A, Key}>>, <<"did", "key:">>}

MCOthers == {StringS, <<"uint64">>, <<"struct", A :> <<"optional", StringS>>>>}

Scalars ==
    {Undefined, Null, Bool(TRUE), Num(3), Num(-1), Half, NaN, BigInt(-1), BigInt(5), Num(6),
     Str(A), Str(<<"did:">>), Str(Key), Str(Web), Str(<<" ">> \o Key), Bytes(Key), Bytes(<<>>), Link(0, 0), Link(1, 1)}

Few == {Undefined, Num(3), Str(A)}

MCDefaults == {Null, Num(6), Str(A), Obj(<<>>)}

MCInputs ==
    Scalars
    \cup {Arr(<<>>), Arr(<<Undefined>>)} \cup {Arr(<<v, w>>) : v, w \in Few}
    \cup {Obj(<<>>), Obj(NoKey :> Num(3))} \cup {Obj(k :> v) : k \in {A, Rest}, v \in Few}
    \cup {Obj((A :> v) @@ (B :> w)) : v \in Few, w \in {BigInt(5), Str(A)}}
    \cup {Obj(A :> Obj(A :> Str(A))), Arr(<<Obj(A :> Str(A)), Obj(A :> Str(A))>>),
          Obj((Key :> Num(3)) @@ (<<" ">> \o Key :> Num(0)))}

=============================================================================

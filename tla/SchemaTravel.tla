---------------------------- MODULE SchemaTravel -----------------------------
(***************************************************************************)
(* A schema and a value read by it.  The schema is built by a few calls of *)
(* the methods every schema has; a value is read, as create() reads the nb *)
(* of a capability, written as CBOR, and what arrives is read by the same  *)
(* schema again, as the validator reads the nb of the invocation.          *)
(***************************************************************************)
EXTENDS Schema

CONSTANTS Bases,        \* the schemas to begin with
          Refinements,  \* readers of a number or a string to refine with
          Others,       \* what or() and and() combine with
          Keys,         \* names of fields
          Inputs,       \* what is read
          Defaults,     \* what default() is given
          MaxSteps      \* how many combinators are applied

VARIABLES schema, steps, input, created, carried, received

vars == <<schema, steps, input, created, carried, received>>

None == <<"none">>

Init ==
    /\ schema \in Bases
    /\ steps = 0
    /\ input = None /\ created = None /\ carried = None /\ received = None

-----------------------------------------------------------------------------
(* The methods of API: each makes a schema of a schema.                    *)

Building == created = None

Becomes(s) ==
    /\ Building
    /\ steps < MaxSteps
    /\ steps' = steps + 1
    /\ schema' = s
    /\ UNCHANGED <<input, created, carried, received>>

MakeOptional == Becomes(IF schema[1] \in {"optional", "default"} THEN schema ELSE <<"optional", schema>>)
MakeNullable == Becomes(<<"nullable", schema>>)
MakeArray    == Becomes(<<"array", schema>>)
Or           == \E s \in Others : Becomes(<<"union", <<schema, s>>>>)
And          == \E s \in Others : Becomes(<<"intersection", <<schema, s>>>>)

\* Only what reads as a number or a string is refined.
Refinable(s) == s[1] \in {"number", "string"} \/ s[1] = "refine"
Refine == /\ Refinable(schema)
          /\ \E s \in Refinements :
                /\ s[1] \in {"integer", "float", "lessThan", "greaterThan"}
                      <=> (IF schema[1] = "refine" THEN schema[2] ELSE schema)[1] = "number"
                /\ Becomes(<<"refine", schema, s>>)

\* default() reads the value first, and throws unless that gives a value.
MakeDefault ==
    \E v \in Defaults :
        /\ Accepts(schema, v)
        /\ Output(Read(schema, v)) # Undefined
        /\ Becomes(<<"default", schema, Output(Read(schema, v))>>)

InTuple      == Becomes(<<"tuple", <<schema>>>>)
InDictionary == Becomes(<<"dictionary", <<"string">>, schema>>)
InStruct     == \E k \in Keys : Becomes(<<"struct", k :> schema>>)
InVariant    == \E k \in Keys : Becomes(<<"variant", k :> schema>>)

\* The fields of partial() are optional, also those with a default.
Partial ==
    \/ /\ schema[1] = "struct"
       /\ Becomes(<<"struct", [k \in DOMAIN schema[2] |-> <<"optional", schema[2][k]>>]>>)
    \/ /\ schema[1] = "dictionary"
       /\ Becomes(<<"dictionary", schema[2], <<"optional", schema[3]>>>>)

Extend ==
    /\ schema[1] = "struct"
    /\ \E k \in Keys, s \in Others : Becomes(<<"struct", (k :> s) @@ schema[2]>>)

Build ==
    \/ MakeOptional \/ MakeNullable \/ MakeArray \/ Or \/ And \/ Refine \/ MakeDefault
    \/ InTuple \/ InDictionary \/ InStruct \/ InVariant \/ Partial \/ Extend

-----------------------------------------------------------------------------
(* CBOR.                                                                   *)

RECURSIVE Prepare(_), Encodes(_), Repeats(_), Decoded(_)

\* Undefined elements become null, undefined fields disappear.
Prepare(v) ==
    CASE v = Undefined       -> Null
      [] Kind(v) = "array"   -> Arr([i \in DOMAIN v[2] |-> Prepare(v[2][i])])
      [] Kind(v) = "object"  -> Obj([k \in {k \in DOMAIN v[2] : v[2][k] # Undefined} |->
                                        Prepare(v[2][k])])
      [] OTHER -> v

\* The places visited in an array are remembered for its later elements: an
\* object that stands in it twice is taken for a circle.
Repeats(v) ==
    CASE Kind(v) = "array" ->
            \/ \E i, j \in DOMAIN v[2] : i # j /\ v[2][i] = v[2][j] /\ Kind(v[2][i]) \in {"object", "array"}
            \/ \E i \in DOMAIN v[2] : Repeats(v[2][i])
      [] Kind(v) = "object" -> \E k \in DOMAIN v[2] : Repeats(v[2][k])
      [] OTHER -> FALSE

\* dag-cbor has no NaN and no integer of more than 64 bits ...
Encodes(v) ==
    CASE Kind(v) = "array"  -> \A i \in DOMAIN v[2] : Encodes(v[2][i])
      [] Kind(v) = "object" -> \A k \in DOMAIN v[2] : Encodes(v[2][k])
      [] Kind(v) = "bigint" -> v[2] <= MaxUint64
      [] OTHER -> v # NaN

\* ... and a small integer arrives as a number, whatever it was.
Decoded(v) ==
    CASE Kind(v) = "array"  -> Arr([i \in DOMAIN v[2] |-> Decoded(v[2][i])])
      [] Kind(v) = "object" -> Obj([k \in DOMAIN v[2] |-> Decoded(v[2][k])])
      [] Kind(v) = "bigint" -> IF v[2] <= MaxSafe THEN Num(v[2]) ELSE v
      [] OTHER -> v

-----------------------------------------------------------------------------
(* A value is read, travels and is read again.                             *)

Create ==
    /\ Building
    /\ \E v \in Inputs : input' = v /\ created' = Read(schema, v)
    /\ UNCHANGED <<schema, steps, carried, received>>

Send ==
    /\ ~Building /\ IsOk(created) /\ carried = None
    /\ \/ /\ Encodes(Prepare(Output(created)))
          /\ carried' = Ok(Decoded(Prepare(Output(created))))
       \/ /\ Repeats(Output(created)) \/ ~Encodes(Prepare(Output(created)))
          /\ carried' = TypeError
    /\ UNCHANGED <<schema, steps, input, created, received>>

Receive ==
    /\ carried # None /\ IsOk(carried) /\ received = None
    /\ received' = Read(schema, Output(carried))
    /\ UNCHANGED <<schema, steps, input, created, carried>>

Next == Build \/ Create \/ Send \/ Receive

Spec == Init /\ [][Next]_vars

-----------------------------------------------------------------------------
(* Kinds of schemas.                                                       *)

RECURSIVE Keeps(_), Stable(_), Portable(_), Declared(_), Inhabits(_, _), Leaves(_)

Parts(s) ==
    CASE s[1] \in {"optional", "nullable", "array", "default"} -> {s[2]}
      [] s[1] = "dictionary" -> {s[3]}
      [] s[1] = "refine"     -> {s[2], s[3]}
      [] s[1] \in {"struct", "variant", "tuple", "union", "intersection"} -> {s[2][k] : k \in DOMAIN s[2]}
      [] OTHER -> {}

\* The reader gives back what it is given, or an error.
Keeps(s) ==
    \/ s[1] = "intersection"
    \/ /\ s[1] \notin {"struct", "dictionary", "variant", "default", "uint64", "didBytes", "uri"}
       /\ \A p \in Parts(s) : Keeps(p)

\* What it reads it reads the same again: not so for bytes that become a DID
\* string, nor for a union when what a later member made of a value is
\* something an earlier one accepts.
Stable(s) ==
    /\ s[1] # "didBytes"
    /\ s[1] = "union" => \A p \in Parts(s) : Keeps(p)
    /\ s[1] # "intersection" => \A p \in Parts(s) : Stable(p)

MayBeUndefined(s) == Read(s, Undefined) = Ok(Undefined)

\* CBOR brings back what it gives: undefined stands nowhere but in a field, the
\* width of an integer is read anew, and nothing undeclared is handed on.
Portable(s) ==
    /\ s[1] \notin {"unknown", "intersection", "didBytes"}
    /\ s[1] = "union" => \A p \in Parts(s) : Keeps(p)
    /\ s[1] \in {"array", "tuple", "variant"} => \A p \in Parts(s) : ~MayBeUndefined(p)
    /\ \A p \in Parts(s) : Portable(p)

\* An intersection hands its input on, so its members must not convert.
Declared(s) ==
    /\ s[1] = "intersection" => \A p \in Parts(s) : Keeps(p)
    /\ \A p \in Parts(s) : Declared(p)

Leaves(v) ==
    CASE Kind(v) \in {"array", "object"} -> UNION {Leaves(v[2][k]) : k \in DOMAIN v[2]}
      [] OTHER -> {v}

Oversized(v) ==
    \E x \in Leaves(v) : Kind(x) \in {"number", "bigint"} /\ Doubled(x) > 2 * MaxUint64

\* The type a schema declares for what it reads (Infer in type.ts).
Inhabits(s, v) ==
    CASE s[1] = "nullable" -> v = Null \/ Inhabits(s[2], v)
      [] s[1] = "optional" -> v = Undefined \/ Inhabits(s[2], v)
      [] s[1] = "default"  -> v # Undefined /\ Inhabits(s[2], v)
      [] s[1] = "array"    -> Kind(v) = "array" /\ \A i \in DOMAIN v[2] : Inhabits(s[2], v[2][i])
      [] s[1] = "tuple"    -> /\ Kind(v) = "array" /\ DOMAIN v[2] = DOMAIN s[2]
                              /\ \A i \in DOMAIN v[2] : Inhabits(s[2][i], v[2][i])
      [] s[1] = "dictionary" ->
            /\ Kind(v) = "object"
            /\ \A k \in DOMAIN v[2] : Inhabits(s[2], Str(k)) /\ Inhabits(s[3], v[2][k])
      [] s[1] = "struct"   -> /\ Kind(v) = "object" /\ DOMAIN v[2] \subseteq DOMAIN s[2]
                              /\ \A k \in DOMAIN s[2] : Inhabits(s[2][k], Get(v, k))
      [] s[1] = "variant"  -> /\ Kind(v) = "object"
                              /\ \E k \in DOMAIN s[2] : DOMAIN v[2] = {k} /\ Inhabits(s[2][k], Get(v, k))
      [] s[1] = "union"    -> \E p \in Parts(s) : Inhabits(p, v)
      [] s[1] \in {"intersection", "refine"} -> \A p \in Parts(s) : Inhabits(p, v)
      [] s[1] = "uint64"   -> Kind(v) = "bigint" /\ v[2] \in 0..MaxUint64
      [] s[1] = "didBytes" -> Kind(v) = "string" /\ IsPrefix(DidPrefix(s[2]), v[2])
      [] s[1] = "uri"      -> Kind(v) = "string" /\ v[2][1] \in s[2]
      [] OTHER -> Accepts(s, v)

-----------------------------------------------------------------------------
(* Where an error says the input is wrong.                                 *)

RECURSIVE Path(_), SameAlong(_, _, _)

Path(e) == IF e.at = <<>> THEN <<>> ELSE <<e.at[2]>> \o Path(e.causes[1])

Indexed(v) == CASE Kind(v) \in {"array", "object"} -> v[2] [] IsRecord(v) -> Fields(v) [] OTHER -> <<>>

\* v and w have the same keys at every step along the path and the same value,
\* or none, at its end.
SameAlong(v, w, path) ==
    IF path = <<>> THEN v = w
    ELSE /\ Kind(v) = Kind(w)
         /\ DOMAIN Indexed(v) = DOMAIN Indexed(w)
         /\ Head(path) \in DOMAIN Indexed(v) =>
               SameAlong(Indexed(v)[Head(path)], Indexed(w)[Head(path)], Tail(path))

-----------------------------------------------------------------------------
(* Properties.                                                             *)

WasRead == created # None /\ IsOk(created)

\* A number of more than 64 bits came in, or a default has one.
Overflow == Oversized(input) \/ Oversized(Output(created))

\* What a reader gives back is of the type it declares, whatever it was given;
\* excepted are numbers of more than 64 bits and intersections that convert.
OutputHasDeclaredType ==
    WasRead /\ Declared(schema) /\ ~Overflow => Inhabits(schema, Output(created))

\* A value that was read is read as itself by the same schema: deriving a
\* capability reads the nb of a capability that was read before.
ReadTwiceIsReadOnce ==
    WasRead /\ Stable(schema) /\ ~Overflow => Read(schema, Output(created)) = created

\* What create() made arrives as it was made: written as CBOR, sent, and read by
\* the same schema it is the same value.
ArrivesAsCreated ==
    /\ received # None
    /\ Portable(schema) /\ ~MayBeUndefined(schema) /\ ~Overflow
    => received = created

\* An error names the place that is at fault: whatever the rest of the input, it
\* is refused as long as that place holds the same.
ErrorNamesTheFault ==
    created # None /\ ~IsOk(created) =>
        \A w \in Inputs : SameAlong(input, w, Path(Cause(created))) => ~Accepts(schema, w)

=============================================================================

------------------------------- MODULE Schema -------------------------------
(***************************************************************************)
(* The readers of @ucanto/core/schema: what each combinator accepts, and   *)
(* the value it gives back, which is not always the value it was given.    *)
(*                                                                         *)
(* A schema and a JavaScript value are both tuples whose first element     *)
(* says what they are.  A string is the sequence of the tokens a prefix or *)
(* a suffix can cut it at, and so is the key of an object.  A finite       *)
(* number is counted in halves, so that there are some that are no         *)
(* integers.  Objects are what JavaScript calls objects: links and bytes   *)
(* are, with fields of their own.                                          *)
(***************************************************************************)
EXTENDS Integers, Sequences, SequencesExt, FiniteSetsExt, TLC

CONSTANTS MaxUint64,   \* stands for 2^64 - 1
          MaxSafe      \* stands for Number.MAX_SAFE_INTEGER

-----------------------------------------------------------------------------
(* Values.                                                                 *)

Undefined == <<"undefined">>
Null      == <<"null">>
Bool(b)   == <<"boolean", b>>
Num(n)    == <<"number", "finite", 2 * n>>
Half      == <<"number", "finite", 1>>
NaN       == <<"number", "NaN", 0>>
BigInt(n) == <<"bigint", n>>
Str(s)    == <<"string", s>>
Bytes(did) == <<"bytes", did>>           \* did = <<>>: no DID in these bytes
Link(code, version) == <<"link", code, version>>
Arr(items)  == <<"array", items>>
Obj(fields) == <<"object", fields>>

Kind(v) == v[1]

\* typeof v === 'object', and neither null nor an array.
IsRecord(v) == Kind(v) \in {"object", "bytes", "link"}

\* Object.entries(v).
Fields(v) ==
    CASE Kind(v) = "object" -> v[2]
      [] Kind(v) = "bytes"  -> <<"0">> :> Num(1)
      [] Kind(v) = "link"   -> <<"code">> :> Num(v[2]) @@ <<"version">> :> Num(v[3])

Get(v, k) == IF k \in DOMAIN Fields(v) THEN Fields(v)[k] ELSE Undefined

-----------------------------------------------------------------------------
(* Results.  An error has a name, the place in the input it is about, and  *)
(* the errors that caused it.                                              *)

Ok(v)    == <<"ok", v>>
IsOk(r)  == r[1] = "ok"
Output(r) == r[2]

Failed(name, at, causes) == <<"error", [name |-> name, at |-> at, causes |-> causes]>>
Cause(r) == r[2]

SchemaError == Failed("SchemaError", <<>>, <<>>)
TypeError   == Failed("TypeError", <<>>, <<>>)
LiteralError == Failed("LiteralError", <<>>, <<>>)
ElementError(i, r)  == Failed("ElementError", <<"at", i>>, <<Cause(r)>>)
FieldError(k, r)    == Failed("FieldError", <<"at", k>>, <<Cause(r)>>)
UnionError(rs)      == Failed("UnionError", <<>>, [i \in DOMAIN rs |-> Cause(rs[i])])
IntersectionError(rs) == Failed("IntersectionError", <<>>, [i \in DOMAIN rs |-> Cause(rs[i])])

OkIf(condition, v, error) == IF condition THEN Ok(v) ELSE error

-----------------------------------------------------------------------------
(* Readers of one value.                                                   *)

ReadBoolean(v) == OkIf(Kind(v) = "boolean", v, TypeError)
ReadNumber(v)  == OkIf(Kind(v) = "number", v, TypeError)
ReadString(v)  == OkIf(Kind(v) = "string", v, TypeError)
ReadBytes(v)   == OkIf(Kind(v) = "bytes", v, TypeError)
ReadEnum(variants, v) == OkIf(v \in variants, v, TypeError)
ReadLiteral(expect, v) == OkIf(v = expect /\ v # NaN, v, LiteralError)

IsFinite(v)  == Kind(v) = "number" /\ v[2] = "finite"
IsInteger(v) == IsFinite(v) /\ v[3] % 2 = 0
ReadInteger(v) == OkIf(IsInteger(v), v, TypeError)
ReadFloat(v)   == OkIf(IsFinite(v), v, TypeError)

Doubled(v) == IF Kind(v) = "bigint" THEN 2 * v[2] ELSE v[3]
ReadLessThan(n, v)    == OkIf(v # NaN /\ Doubled(v) < 2 * n, v, SchemaError)
ReadGreaterThan(n, v) == OkIf(v # NaN /\ Doubled(v) > 2 * n, v, SchemaError)

\* mutation: a number stays a number
ReadUint64AsIs(v) ==
    CASE Kind(v) = "bigint" -> OkIf(v[2] \in 0..MaxUint64, v, SchemaError)
      [] IsInteger(v)       -> OkIf(v[3] >= 0, v, SchemaError)
      [] OTHER -> TypeError

\* A bigint is held against both bounds, a number against the lower one only.
ReadUint64(v) ==
    CASE Kind(v) = "bigint" -> OkIf(v[2] \in 0..MaxUint64, v, SchemaError)
      [] IsInteger(v)       -> OkIf(v[3] >= 0, BigInt(v[3] \div 2), SchemaError)
      [] OTHER -> TypeError

ReadStartsWith(prefix, v) == OkIf(IsPrefix(prefix, v[2]), v, SchemaError)
ReadEndsWith(suffix, v)   == OkIf(IsSuffix(suffix, v[2]), v, SchemaError)
ReadMatch(pattern, v)     == OkIf(v[2] \in pattern, v, SchemaError)

DidPrefix(method) == IF method = "" THEN <<"did:">> ELSE <<"did:", method>>
ReadDID(method, v) == OkIf(IsPrefix(DidPrefix(method), v[2]), v, SchemaError)

ReadDIDBytes(method, v) ==
    IF Kind(v) # "bytes" THEN TypeError
    ELSE OkIf(IsPrefix(DidPrefix(method), v[2]), Str(v[2]), SchemaError)

\* The principal that is given back is a view of the same bytes.
ReadPrincipal(method, v) ==
    IF Kind(v) # "bytes" THEN TypeError
    ELSE OkIf(IsPrefix(DidPrefix(method), v[2]), v, SchemaError)

ReadLink(codes, versions, v) ==
    OkIf(Kind(v) = "link" /\ v[2] \in codes /\ v[3] \in versions, v, SchemaError)

\* new URL(input).href: white space before a URI is dropped.
Href(s) == IF s # <<>> /\ Head(s) = " " THEN Tail(s) ELSE s
ReadURI(protocols, v) ==
    OkIf(Kind(v) = "string" /\ Href(v[2]) # <<>> /\ Head(Href(v[2])) \in protocols,
         Str(Href(v[2])), SchemaError)

-----------------------------------------------------------------------------
(* Combinators.  The readers they are made of stand inside them, and Read  *)
(* finds the reader for what a schema is.                                  *)

RECURSIVE Read(_, _)

Accepts(s, v) == IsOk(Read(s, v))

ReadNullable(s, v) ==
    LET r == Read(s, v)
    IN  IF IsOk(r) THEN r ELSE OkIf(v = Null, Null, UnionError(<<r, TypeError>>))

ReadOptional(s, v) == IF v = Undefined /\ ~Accepts(s, v) THEN Ok(Undefined) ELSE Read(s, v)

ReadDefault(s, value, v) ==
    LET r == Read(s, v)
    IN  IF v = Undefined \/ r = Ok(Undefined) THEN Ok(value) ELSE r

ElementsFromZero(results) ==                 \* mutation: an index is off by one
    LET refused == {i \in DOMAIN results : ~IsOk(results[i])}
    IN  IF refused = {} THEN Ok(Arr([i \in DOMAIN results |-> Output(results[i])]))
        ELSE ElementError(Max({1, Min(refused) - 1}), results[Min(refused)])

\* The loop over the elements of an array ends at the first that is refused.
Elements(results) ==
    LET refused == {i \in DOMAIN results : ~IsOk(results[i])}
    IN  IF refused = {} THEN Ok(Arr([i \in DOMAIN results |-> Output(results[i])]))
        ELSE ElementError(Min(refused), results[Min(refused)])

ReadArray(s, v) ==
    IF Kind(v) # "array" THEN TypeError
    ELSE Elements([i \in DOMAIN v[2] |-> Read(s, v[2][i])])

ReadTuple(shape, v) ==
    IF Kind(v) # "array" THEN TypeError
    ELSE IF Len(v[2]) # Len(shape) THEN SchemaError
    ELSE Elements([i \in DOMAIN shape |-> Read(shape[i], v[2][i])])

MembersAll(results) ==                       \* mutation: undefined is copied
    LET refused == {k \in DOMAIN results : ~IsOk(results[k])}
        first   == CHOOSE k \in refused : TRUE
    IN  IF refused = {} THEN Ok(Obj([k \in DOMAIN results |-> Output(results[k])]))
        ELSE FieldError(first, results[first])

\* Which of several refused fields is named depends on the order of the keys,
\* which is left open; a field that reads as undefined is not copied.
Members(results) ==
    LET refused == {k \in DOMAIN results : ~IsOk(results[k])}
        defined == {k \in DOMAIN results : results[k] # Ok(Undefined)}
        first   == CHOOSE k \in refused : TRUE
    IN  IF refused = {} THEN Ok(Obj([k \in defined |-> Output(results[k])]))
        ELSE FieldError(first, results[first])

\* A key is read too, and the value is stored under what the key reads as.
ReadDictionary(key, value, v) ==
    IF ~IsRecord(v) THEN TypeError
    ELSE LET keys == [k \in DOMAIN Fields(v) |-> Read(key, Str(k))]
             r == Members([k \in DOMAIN keys |->
                              IF IsOk(keys[k]) THEN Read(value, Get(v, k)) ELSE keys[k]])
             As(k) == Output(keys[k])[2]
             read == Output(r)[2]
         IN  IF ~IsOk(r) THEN r
             ELSE Ok(Obj([n \in {As(k) : k \in DOMAIN read} |->
                             read[CHOOSE k \in DOMAIN read : As(k) = n]]))

ReadUnion(variants, v) ==
    LET accepting == {i \in DOMAIN variants : Accepts(variants[i], v)}
    IN  IF accepting # {} THEN Read(variants[Min(accepting)], v)
        ELSE UnionError([i \in DOMAIN variants |-> Read(variants[i], v)])

\* All must accept; what they read is not used.
ReadIntersection(schemas, v) ==
    LET Refuses(s) == ~Accepts(s, v)
        refusing   == SelectSeq(schemas, Refuses)
    IN  IF refusing = <<>> THEN Ok(v)
        ELSE IntersectionError([i \in DOMAIN refusing |-> Read(refusing[i], v)])

ReadRefine(base, s, v) ==
    LET r == Read(base, v) IN IF IsOk(r) THEN Read(s, Output(r)) ELSE r

ReadStruct(shape, v) ==
    IF ~IsRecord(v) THEN TypeError
    ELSE Members([k \in DOMAIN shape |-> Read(shape[k], Get(v, k))])

ReadVariantBare(variants, v) ==              \* mutation: the key is not put back
    LET keys  == DOMAIN Fields(v)
        named == {k \in keys \cap DOMAIN variants : keys = {k} /\ k # <<>>}
    IN  IF ~IsRecord(v) THEN TypeError
        ELSE IF named # {} THEN Read(variants[CHOOSE k \in named : TRUE], Get(v, CHOOSE k \in named : TRUE))
        ELSE IF <<"_">> \in DOMAIN variants THEN Read(variants[<<"_">>], v)
        ELSE SchemaError

\* An object of one key is read by the variant of that name, any other by the
\* variant named _.  An object whose one key is '' counts as one without a key.
ReadVariant(variants, v) ==
    LET keys  == DOMAIN Fields(v)
        named == {k \in keys \cap DOMAIN variants : keys = {k} /\ k # <<>>}
        key   == CHOOSE k \in named : TRUE
        rest  == Read(variants[<<"_">>], v)
        one   == Read(variants[key], Get(v, key))
    IN  IF ~IsRecord(v) THEN TypeError
        ELSE IF named # {} THEN IF IsOk(one) THEN Ok(Obj(key :> Output(one))) ELSE FieldError(key, one)
        ELSE IF <<"_">> \in DOMAIN variants THEN IF IsOk(rest) THEN Ok(Obj(<<"_">> :> Output(rest))) ELSE rest
        ELSE SchemaError

Read(s, v) ==
    CASE s[1] = "never"       -> TypeError
      [] s[1] = "unknown"     -> Ok(v)
      [] s[1] = "boolean"     -> ReadBoolean(v)
      [] s[1] = "number"      -> ReadNumber(v)
      [] s[1] = "string"      -> ReadString(v)
      [] s[1] = "bytes"       -> ReadBytes(v)
      [] s[1] = "enum"        -> ReadEnum(s[2], v)
      [] s[1] = "literal"     -> ReadLiteral(s[2], v)
      [] s[1] = "integer"     -> ReadInteger(v)
      [] s[1] = "float"       -> ReadFloat(v)
      [] s[1] = "lessThan"    -> ReadLessThan(s[2], v)
      [] s[1] = "greaterThan" -> ReadGreaterThan(s[2], v)
      [] s[1] = "uint64"      -> ReadUint64(v)
      [] s[1] = "startsWith"  -> ReadStartsWith(s[2], v)
      [] s[1] = "endsWith"    -> ReadEndsWith(s[2], v)
      [] s[1] = "match"       -> ReadMatch(s[2], v)
      [] s[1] = "did"         -> ReadDID(s[2], v)
      [] s[1] = "didBytes"    -> ReadDIDBytes(s[2], v)
      [] s[1] = "principal"   -> ReadPrincipal(s[2], v)
      [] s[1] = "link"        -> ReadLink(s[2], s[3], v)
      [] s[1] = "uri"         -> ReadURI(s[2], v)
      [] s[1] = "nullable"    -> ReadNullable(s[2], v)
      [] s[1] = "optional"    -> ReadOptional(s[2], v)
      [] s[1] = "default"     -> ReadDefault(s[2], s[3], v)
      [] s[1] = "array"       -> ReadArray(s[2], v)
      [] s[1] = "tuple"       -> ReadTuple(s[2], v)
      [] s[1] = "dictionary"  -> ReadDictionary(s[2], s[3], v)
      [] s[1] = "union"       -> ReadUnion(s[2], v)
      [] s[1] = "intersection" -> ReadIntersection(s[2], v)
      [] s[1] = "refine"      -> ReadRefine(s[2], s[3], v)
      [] s[1] = "struct"      -> ReadStruct(s[2], v)
      [] s[1] = "variant"     -> ReadVariant(s[2], v)

=============================================================================

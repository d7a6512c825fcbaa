-------------------------------- MODULE MCCodec -------------------------------
(* Instances of JobAccessors for TLC.                                      *)
EXTENDS JobAccessors

Keys == <<"-b", "*a", "CaseName", "ClassName", "Keys", "Properties", "Values",
          "a", "b", "chained", "class", "collectionClass", "commandName",
          "connection", "id", "relations">>

PhpNames == ("*a" :> "a") @@ ("-b" :> "b")

PhpScalars ==
    {Nil, <<"bool", TRUE>>, <<"bool", FALSE>>, <<"int", 0>>, <<"int", MaxInt>>,
     <<"int", -MaxInt - 1>>, <<"float", "finite", -3>>, <<"float", "infinite", 1>>,
     <<"string", "x">>, <<"enum", "Suit", "Hearts">>}

Scalars == PhpScalars \cup
    {<<"uint", 1>>, <<"uint", MaxInt + 1>>, <<"string", Binary>>, <<"other">>}

(* Some scalars, for lists and maps of two.                                *)
Few == {Nil, <<"int", MaxInt>>, <<"string", "x">>, <<"string", Binary>>, <<"other">>}

Lists(S, n) == UNION {[1..i -> S] : i \in 0..n}

Maps(S, K) == UNION {[D -> S] : D \in SUBSET K}

Models ==
    {ToObject([class |-> "User", id |-> id, relations |-> r, connection |-> "mysql",
               collectionClass |-> c]) :
        id \in {<<"int", 1>>, <<"string", "x">>, <<"slice", <<<<"int", 1>>, <<"int", 2>>>>>>},
        r \in Lists({<<"string", "posts">>, <<"string", "x">>}, 2),
        c \in {Nil, <<"string", "Collection">>}}

MixedArrays == {<<"array", <<<<"int", 1>>, <<"string", "a">>>>, <<x, y>>>> :
                   x \in {Nil, <<"string", "x">>}, y \in Few \ {<<"other">>}}

Values ==
    Scalars
    \cup {<<"slice", s>> : s \in Lists(Scalars, 1) \cup Lists(Few, 2)}
    \cup {<<"map", m>> : m \in Maps(Scalars, {"a"}) \cup Maps(Few, {"a", "b"})}
    \cup {<<"slice", <<<<"map", m>>>>>> : m \in Maps(Few, {"a"})}
    \cup {<<"object", "Note", m>> : m \in Maps(Few, {"b"})}
    \cup Models
    \cup MixedArrays

Arguments == Maps(Values, {"a"}) \cup Maps(Few, {"a", "b"})

Chains == {<<>>} \cup {<<[a |-> v]>> : v \in {<<"string", Binary>>, <<"other">>}}
                 \cup {<<[a |-> <<"int", 0>>], [b |-> <<"slice", <<<<"string", "x">>>>>>]>>}

GoOrders == {[from |-> "go", format |-> f, args |-> a, chain |-> c] :
                f \in {"php", "json"}, a \in Arguments, c \in Chains}

Laravel(args) == [from |-> "laravel", format |-> "php", args |-> args, chain |-> <<>>]

(* Jobs as PHP writes them: protected and private properties, arrays with  *)
(* any keys, nested objects, a custom object; no object occurs twice.      *)
PhpValues ==
    PhpScalars
    \cup {<<"array", <<<<"int", 3>>, <<"string", "b">>>>, <<x, y>>>> :
             x \in PhpScalars, y \in {Nil, <<"string", "x">>}}
    \cup {<<"object", "Note", m>> : m \in Maps(PhpScalars, {"*a"}) \cup Maps({Nil, <<"string", "x">>}, {"*a", "-b"})}
    \cup {<<"object", "Note", [a |-> <<"object", "Tag", m>>]>> :
             m \in Maps(PhpScalars, {"-b"})}
    \cup {<<"custom", "Closure">>}

LaravelOrders ==
    {Laravel(("*a" :> v) @@ ("b" :> w)) : v \in PhpValues, w \in {Nil, <<"int", 0>>}}
    \cup {Laravel(("*a" :> <<"string", "x">>) @@ ("-b" :> v)) : v \in PhpValues}

(* Two properties hold the same object.                                    *)
Note == <<"object", "Note", [a |-> <<"int", 0>>]>>
SharedOrders ==
    {Laravel([a |-> Note, b |-> Note])}
    \cup {Laravel([a |-> v, b |-> w]) : v \in PhpScalars, w \in PhpScalars}
=============================================================================

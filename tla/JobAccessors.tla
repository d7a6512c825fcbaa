----------------------------- MODULE JobAccessors -----------------------------
(***************************************************************************)
(* The property accessors of a parsed Job (job.go, phpserialize/helpers.go *)
(* and model_identifier.go), and what they show of the job as dispatched.  *)
(***************************************************************************)
EXTENDS JobCodec

Properties == IF job.data = Nil THEN NoProperties ELSE job.data[3]

Property(key) == Prop(Properties, key)

EmptyMap == NoProperties

GetString(key) == StringOf(Property(key))

GetEnum(key) == IF Property(key)[1] = "enum" THEN Property(key) ELSE Nil

GetInt(key) == IntOf(Property(key))

GetFloat(key) == FloatOf(Property(key))

GetBool(key) == Property(key) = <<"bool", TRUE>>

(* Array.IsSequential and Array.ToSlice.                                   *)
IsSequential(a) == \A i \in DOMAIN a[2] : a[2][i] = <<"int", i - 1>>

ToSlice(a) == IF IsSequential(a) THEN a[3] ELSE <<>>

(* Array.ToMap. Decimal is strconv.FormatInt; of two keys that become the  *)
(* same string the later stays.                                            *)
Decimal(n) == ToString(n)

ToMap(a) ==
    LET name(i) == IF a[2][i][1] = "int" THEN Decimal(a[2][i][2]) ELSE a[2][i][2]
        last(n) == CHOOSE i \in DOMAIN a[2] :
                       /\ name(i) = n
                       /\ \A j \in DOMAIN a[2] : name(j) = n => j <= i
    IN  [n \in {name(i) : i \in DOMAIN a[2]} |-> a[3][last(n)]]

GetSlice(key) ==
    LET v == Property(key)
    IN  CASE v[1] = "array" -> v[3]
          [] v[1] = "slice" -> v[2]
          [] OTHER -> <<>>

GetMap(key) ==
    LET v == Property(key)
    IN  CASE v[1] = "array" -> ToMap(v)
          [] v[1] = "map" -> v[2]
          [] OTHER -> EmptyMap

(* The links of the chain, as the strings the worker would push.           *)
ChainedJobs == SelectSeq(GetSlice("chained"), LAMBDA v : v[1] \in {"string", "payload"})

-----------------------------------------------------------------------------
ModelIdentifierClass == "ModelIdentifier"

(* Relations keeps the strings of a list.                                  *)
Identifier(props, class, connection, relations) ==
    [class |-> class,
     id |-> Prop(props, "id"),
     relations |-> SelectSeq(relations, LAMBDA v : v[1] = "string"),
     connection |-> connection,
     collectionClass |-> IF Prop(props, "collectionClass")[1] = "string"
                         THEN Prop(props, "collectionClass") ELSE Nil]

(* Mutant: the relations are looked for as a Go slice.                     *)
AsModelIdentifierOfSlice(v) ==
    Identifier(v[3], StringOf(Prop(v[3], "class")), StringOf(Prop(v[3], "connection")),
               IF Prop(v[3], "relations")[1] = "slice" THEN v[3]["relations"][2] ELSE <<>>)

AsModelIdentifier(v) ==
    Identifier(v[3], StringOf(Prop(v[3], "class")), StringOf(Prop(v[3], "connection")),
               IF Prop(v[3], "relations")[1] = "array" THEN v[3]["relations"][3] ELSE <<>>)

NoIdentifier == [class |-> "no identifier"]

(* A command in JSON has the identifier as an object of its own.           *)
GetModelID(key) ==
    LET v == Property(key)
    IN  CASE v[1] = "object" /\ v[2] = ModelIdentifierClass -> AsModelIdentifier(v)
          [] v[1] = "map" ->
                 Identifier(v[2], stringFromAny(Prop(v[2], "class")),
                            stringFromAny(Prop(v[2], "connection")),
                            IF Prop(v[2], "relations")[1] = "slice"
                            THEN v[2]["relations"][2] ELSE <<>>)
          [] OTHER -> NoIdentifier

ToObject(m) ==
    <<"object", ModelIdentifierClass,
      [class |-> <<"string", m.class>>,
       id |-> m.id,
       connection |-> <<"string", m.connection>>,
       collectionClass |-> m.collectionClass,
       relations |-> <<"array", [i \in DOMAIN m.relations |-> <<"int", i - 1>>],
                                m.relations>>]>>

-----------------------------------------------------------------------------
(* What a value should be after encode and decode: integers are int64, and *)
(* lists and maps are PHP arrays, maps in the order of their keys.         *)
RECURSIVE Meant(_)
Meant(v) ==
    CASE v[1] = "custom" -> <<"object", v[2], NoProperties>>
      [] v[1] = "slice" -> <<"array", [i \in DOMAIN v[2] |-> <<"int", i - 1>>],
                                      [i \in DOMAIN v[2] |-> Meant(v[2][i])]>>
      [] v[1] = "map" ->
             LET keys == SelectSeq(KeyOrder, LAMBDA k : k \in DOMAIN v[2])
             IN  <<"array", [i \in DOMAIN keys |-> <<"string", keys[i]>>],
                            [i \in DOMAIN keys |-> Meant(v[2][keys[i]])]>>
      [] v[1] = "object" ->
             LET plain(k) == IF k \in DOMAIN Mangled THEN Mangled[k] ELSE k
             IN  <<"object", v[2],
                   [n \in {plain(k) : k \in DOMAIN v[3]} |->
                       Meant(v[3][CHOOSE k \in DOMAIN v[3] : plain(k) = n])]>>
      [] v[1] = "array" -> <<"array", v[2], [i \in DOMAIN v[3] |-> Meant(v[3][i])]>>
      [] OTHER -> MeantScalar(v)

(* The value as a job of the format shows it.                              *)
Shown(format, v) == IF format = "json" THEN Json(v) ELSE Meant(v)

(* Arguments that the format can carry unharmed.                           *)
Portable(format, args) ==
    \A v \in Within(<<"map", args>>) :
        /\ v[1] # "other"
        /\ v # <<"string", Binary>>
        /\ v[1] = "uint" => v[2] <= MaxInt
        /\ v[1] = "float" /\ format = "json" => v[2] = "finite"

PortableOrder ==
    /\ Portable(order.format, order.args)
    /\ \A i \in DOMAIN order.chain : Portable(order.format, order.chain[i])

Parsed(from) == stage = "parsed" /\ order.from = from

(* A command in PHP's format arrives whole or not at all: after it was     *)
(* decoded and encoded again for its chain, wrapped in JSON and decoded by *)
(* the worker, the job has every argument unchanged, or no properties. It  *)
(* has them when the format can carry them, and only then is it accepted.  *)
ArgumentsArrive ==
    LET links == [i \in DOMAIN order.chain |->
                     <<"payload", JsonPayload(marshalCommand("php", order.chain[i]))>>]
        chained == IF links = <<>> THEN NoProperties ELSE "chained" :> <<"slice", links>>
    IN  order.from = "go" /\ order.format = "php" =>
            /\ PortableOrder => stage # "refused"
            /\ Parsed("go") =>
                  \/ job.data = Meant(<<"object", CommandName, chained @@ order.args>>)
                  \/ job.data = Nil /\ ~PortableOrder

(* In either format the accessor of an argument's kind returns it, as long *)
(* as an integer fits the float64 that JSON makes of it.                   *)
AccessorsReadBack ==
    Parsed("go") /\ PortableOrder =>
        \A key \in DOMAIN order.args :
            LET v == order.args[key]
            IN  CASE v[1] \in {"int", "uint"} ->
                         order.format = "php" \/ Exact(v[2]) = v[2] => GetInt(key) = v[2]
                  [] v[1] = "float" -> GetFloat(key) = v
                  [] v[1] = "string" -> GetString(key) = v[2]
                  [] v[1] = "bool" -> GetBool(key) = v[2]
                  [] v[1] = "enum" -> order.format = "php" =>
                                          GetEnum(key) = v /\ GetString(key) = v[3]
                  [] v[1] = "slice" ->
                         /\ Len(GetSlice(key)) = Len(v[2])
                         /\ \A i \in DOMAIN v[2] :
                                GetSlice(key)[i] = Shown(order.format, v[2][i])
                         /\ order.format = "php" => ToSlice(Property(key)) = GetSlice(key)
                  [] v[1] = "map" ->
                         /\ DOMAIN GetMap(key) = DOMAIN v[2]
                         /\ \A k \in DOMAIN v[2] :
                                GetMap(key)[k] = Shown(order.format, v[2][k])
                  [] OTHER -> TRUE

(* In either format the links of a chain come out in the order they were   *)
(* given, none missing, and each can be parsed as a job with its arguments.*)
ChainInOrder ==
    Parsed("go") /\ PortableOrder /\ order.chain # <<>> =>
        /\ Len(ChainedJobs) = Len(order.chain)
        /\ \A i \in DOMAIN order.chain :
               LET link == decodeCommand(ChainedJobs[i][2]).data[3]
               IN  \A key \in DOMAIN order.chain[i] :
                      Prop(link, key) = Shown(order.format, order.chain[i][key])

(* A job that PHP serialized is read as PHP meant it, with properties of   *)
(* any visibility under their plain names.                                 *)
LaravelJobsArrive ==
    Parsed("laravel") => job.data = Meant(<<"object", CommandName, order.args>>)

(* A model identifier that was sent as an object is read back the same:    *)
(* class, key, relations, connection and collection class.                 *)
ModelsReadBack ==
    Parsed("go") /\ PortableOrder /\ order.format = "php" =>
        \A key \in DOMAIN order.args :
            LET v == order.args[key]
            IN  v[1] = "object" /\ v[2] = ModelIdentifierClass =>
                    Meant(ToObject(GetModelID(key))) = Meant(v)
=============================================================================

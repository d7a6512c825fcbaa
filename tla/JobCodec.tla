------------------------------- MODULE JobCodec -------------------------------
(***************************************************************************)
(* The way of a job's arguments from a dispatcher (dispatcher.go), or from *)
(* a Laravel application, through the payload on the queue to the property *)
(* accessors of the Job that a worker parses (job.go). The command inside  *)
(* the payload is PHP's serialize format or JSON, and the payload around   *)
(* it is always JSON.                                                      *)
(***************************************************************************)
EXTENDS PhpSerialize, TLC

CONSTANTS GoOrder,      \* what a Go program dispatches
          LaravelOrder  \* what a Laravel application dispatches

ASSUME JsonAssumption ==
    /\ MaxInt = MaxExact + 1
    /\ MaxExact % 2 = 0

(* An order is a record of the dispatcher (from), the command format, the  *)
(* arguments and the arguments of the jobs chained to it.                  *)
VARIABLES order,
          stage,   \* "new", "queued", "parsed", or "refused" by the dispatcher
          body,    \* the command in the payload on the queue
          job      \* the Job: its properties (Nil: none) and their format

vars == <<order, stage, body, job>>

NoBody == <<"none">>
NoJob == [data |-> Nil, format |-> "php"]

Init ==
    /\ order \in GoOrder \cup LaravelOrder
    /\ stage = "new"
    /\ body = NoBody
    /\ job = NoJob

-----------------------------------------------------------------------------
(* encoding/json: the value that Unmarshal into any gives for what Marshal *)
(* wrote. Numbers become float64, strings become UTF-8, and the structs of *)
(* phpserialize become objects of their field names.                       *)
RECURSIVE Json(_)
Json(v) ==
    CASE v[1] = "slice" -> <<"slice", [i \in DOMAIN v[2] |-> Json(v[2][i])]>>
      [] v[1] = "map" -> <<"map", [k \in DOMAIN v[2] |-> Json(v[2][k])]>>
      [] v[1] = "object" -> <<"map", ("ClassName" :> <<"string", v[2]>>)
                                  @@ ("Properties" :> Json(<<"map", v[3]>>))>>
      [] v[1] = "array" -> <<"map", ("Keys" :> Json(<<"slice", v[2]>>))
                                 @@ ("Values" :> Json(<<"slice", v[3]>>))>>
      [] v[1] = "enum" -> <<"map", ("ClassName" :> <<"string", v[2]>>)
                                @@ ("CaseName" :> <<"string", v[3]>>)>>
      [] OTHER -> JsonScalar(v)

(* A value and the values inside it.                                       *)
RECURSIVE Within(_)
Within(v) ==
    {v} \cup CASE v[1] = "slice" -> UNION {Within(x) : x \in Range(v[2])}
               [] v[1] = "map" -> UNION {Within(v[2][k]) : k \in DOMAIN v[2]}
               [] v[1] = "object" -> UNION {Within(v[3][k]) : k \in DOMAIN v[3]}
               [] v[1] = "array" -> UNION {Within(x) : x \in Range(v[3])}
               [] OTHER -> {}

JsonFails(v) ==
    \E x \in Within(v) : \/ x[1] = "other"
                         \/ x[1] = "float" /\ x[2] # "finite"

-----------------------------------------------------------------------------
(* The dispatcher.                                                         *)
CommandName == "Job"

marshalCommandJSON(args) ==
    args @@ ("commandName" :> <<"string", CommandName>>)

marshalCommand(format, args) ==
    IF format = "json" THEN Json(<<"map", marshalCommandJSON(args)>>)
    ELSE <<"php", MarshalObject(CommandName, args)>>

MarshalFails(format, args) ==
    IF format = "json" THEN JsonFails(<<"map", args>>)
    ELSE Fails(MarshalObject(CommandName, args))

(* json.Marshal of the payload, whose command is one string.               *)
JsonPayload(command) ==
    IF command[1] # "php" THEN command
    ELSE <<"php", [i \in DOMAIN command[2] |-> JsonToken(command[2][i])]>>

(* Mutant: the chain is built from its end.                                *)
buildChainReversed(format, chain) ==
    [i \in DOMAIN chain |->
        <<"payload", JsonPayload(marshalCommand(format, chain[Len(chain) + 1 - i]))>>]

buildChainPayloads(format, chain) ==
    [i \in DOMAIN chain |-> <<"payload", JsonPayload(marshalCommand(format, chain[i]))>>]

InjectFails(command) ==
    command[1] = "php" /\ LET d == Decode(command[2]) IN ~d.ok \/ d.val[1] # "object"

(* A PHP command is decoded, extended and encoded again.                   *)
injectChain(command, links) ==
    IF command[1] = "map"
    THEN <<"map", ("chained" :> <<"slice", links>>) @@ command[2]>>
    ELSE LET obj == Decode(command[2]).val
         IN  <<"php", MarshalObject(obj[2], ("chained" :> <<"slice", links>>) @@ obj[3])>>

(* DispatchWithOptions, up to the push.                                    *)
DispatchWithOptions ==
    LET command == marshalCommand(order.format, order.args)
        links == buildChainPayloads(order.format, order.chain)
    IN  /\ stage = "new"
        /\ order \in GoOrder
        /\ \/ /\ \/ MarshalFails(order.format, order.args)
                 \/ \E i \in DOMAIN order.chain :
                        MarshalFails(order.format, order.chain[i])
                 \/ order.chain # <<>> /\ InjectFails(command)
              /\ stage' = "refused"
              /\ UNCHANGED body
           \/ /\ ~MarshalFails(order.format, order.args)
              /\ \A i \in DOMAIN order.chain :
                     ~MarshalFails(order.format, order.chain[i])
              /\ order.chain # <<>> => ~InjectFails(command)
              /\ body' = JsonPayload(IF order.chain = <<>> THEN command
                                     ELSE injectChain(command, links))
              /\ stage' = "queued"
        /\ UNCHANGED <<order, job>>

-----------------------------------------------------------------------------
(* PHP's serialize(): a value takes the next slot, a key takes none, and   *)
(* an object that has been written before is written as a reference to its *)
(* slot. Equal objects of the model are the same PHP object.               *)
RECURSIVE PhpValue(_, _)
RECURSIVE PhpEntries(_, _, _)

PhpEntries(keys, values, w) ==
    IF keys = <<>> THEN [w EXCEPT !.out = Append(@, Close)]
    ELSE PhpEntries(Tail(keys), Tail(values),
             PhpValue(Head(values), [w EXCEPT !.out = Append(@, Head(keys))]))

PhpValue(v, w) ==
    LET Open(t) == [out |-> Append(w.out, t), slots |-> Append(w.slots, v)]
        keys == SelectSeq(KeyOrder, LAMBDA k : k \in DOMAIN v[3])
    IN  CASE v[1] = "object" /\ v \in Range(w.slots) ->
                 LET slot == CHOOSE i \in DOMAIN w.slots : w.slots[i] = v
                 IN  [out |-> Append(w.out, <<"r", slot>>), slots |-> Append(w.slots, Nil)]
          [] v[1] = "object" /\ v \notin Range(w.slots) ->
                 PhpEntries([i \in DOMAIN keys |-> encodeString(keys[i])],
                            [i \in DOMAIN keys |-> v[3][keys[i]]],
                            Open(<<"O", v[2], Len(keys)>>))
          [] v[1] = "array" ->
                 PhpEntries([i \in DOMAIN v[2] |-> encodeValue(v[2][i])[1]], v[3],
                            Open(<<"a", Len(v[2])>>))
          [] v[1] = "custom" -> Open(<<"C", v[2]>>)
          [] OTHER -> Open(encodeValue(v)[1])

LaravelDispatch ==
    /\ stage = "new"
    /\ order \in LaravelOrder
    /\ body' = <<"php", PhpValue(<<"object", CommandName, order.args>>,
                                 [out |-> <<>>, slots |-> <<>>]).out>>
    /\ stage' = "queued"
    /\ UNCHANGED <<order, job>>

-----------------------------------------------------------------------------
(* The worker.                                                             *)
stringFromAny(v) == IF v[1] = "string" THEN v[2] ELSE ""

Prop(props, key) == IF key \in DOMAIN props THEN props[key] ELSE Nil

decodeCommandJSON(command) ==
    [data |-> <<"object", stringFromAny(Prop(command[2], "commandName")), command[2]>>,
     format |-> "json"]

decodeCommand(command) ==
    IF command[1] = "map" THEN decodeCommandJSON(command)
    ELSE LET d == Decode(command[2])
         IN  IF d.ok /\ d.val[1] = "object" THEN [data |-> d.val, format |-> "php"]
             ELSE NoJob

ParseJob ==
    /\ stage = "queued"
    /\ job' = decodeCommand(body)
    /\ stage' = "parsed"
    /\ UNCHANGED <<order, body>>

Idle ==
    /\ stage \in {"parsed", "refused"}
    /\ UNCHANGED vars

Next == DispatchWithOptions \/ LaravelDispatch \/ ParseJob \/ Idle

Spec == Init /\ [][Next]_vars
=============================================================================

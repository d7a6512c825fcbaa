----------------------------- MODULE PhpSerialize -----------------------------
(***************************************************************************)
(* pkg/phpserialize: encoder, decoder and accessors of PHP's serialize()   *)
(* format. A text is a sequence of tokens. The values of ScalarCodec are   *)
(* joined by the ones that hold others, and by the string, tagged payload, *)
(* that is the JSON text of a whole job (a link of a chain).               *)
(***************************************************************************)
EXTENDS ScalarCodec, FiniteSets, SequencesExt

CONSTANTS KeyOrder,  \* every key, in the order of sort.Strings
          Mangled    \* PHP's names of protected and private properties

ASSUME CodecAssumption ==
    /\ Cardinality(Range(KeyOrder)) = Len(KeyOrder)
    /\ Range(Mangled) \subseteq Range(KeyOrder)

Close == <<"}">>
EncodeError == <<"error">>
NoProperties == [k \in {} |-> Nil]

-----------------------------------------------------------------------------
(* Encode. An error anywhere is an error of the whole.                     *)
RECURSIVE encodeValue(_)

encodeEntries(keys, values) ==
    FlattenSeq([i \in DOMAIN keys |-> <<keys[i]>> \o encodeValue(values[i])])

(* Mutant: list keys start at 1.                                           *)
encodeSliceFromOne(items) ==
    <<<<"a", Len(items)>>>>
    \o encodeEntries([i \in DOMAIN items |-> writeInt(i)], items)
    \o <<Close>>

encodeSlice(items) ==
    <<<<"a", Len(items)>>>>
    \o encodeEntries([i \in DOMAIN items |-> writeInt(i - 1)], items)
    \o <<Close>>

encodeSortedProperties(props) ==
    LET keys == SelectSeq(KeyOrder, LAMBDA k : k \in DOMAIN props)
    IN  encodeEntries([i \in DOMAIN keys |-> encodeString(keys[i])],
                      [i \in DOMAIN keys |-> props[keys[i]]])

encodeMap(m) ==
    <<<<"a", Cardinality(DOMAIN m)>>>> \o encodeSortedProperties(m) \o <<Close>>

encodeObject(class, props) ==
    <<<<"O", class, Cardinality(DOMAIN props)>>>>
    \o encodeSortedProperties(props)
    \o <<Close>>

encodeArray(keys, values) ==
    <<<<"a", Len(keys)>>>>
    \o encodeEntries([i \in DOMAIN keys |->
                         CASE keys[i][1] = "int" -> writeInt(keys[i][2])
                           [] keys[i][1] = "string" -> encodeString(keys[i][2])
                           [] OTHER -> EncodeError],
                     values)
    \o <<Close>>

encodeValue(v) ==
    CASE v[1] \in ScalarKinds -> <<encodeScalar(v)>>
      [] v[1] = "payload" -> <<<<"p", v[2]>>>>
      [] v[1] = "slice" -> encodeSlice(v[2])
      [] v[1] = "map" -> encodeMap(v[2])
      [] v[1] = "object" -> encodeObject(v[2], v[3])
      [] v[1] = "array" -> encodeArray(v[2], v[3])
      [] OTHER -> <<EncodeError>>

MarshalObject(class, props) == encodeValue(<<"object", class, props>>)

Fails(text) == EncodeError \in Range(text)

-----------------------------------------------------------------------------
(* The decoder of the values that hold others.                             *)
RECURSIVE readValue(_)
RECURSIVE readEntries(_, _, _)

(* An array key is an integer or a string; a property name is a string.    *)
(* Either takes a reference slot, like the values.                         *)
readKey(d, kinds) ==
    CASE d.rest = <<>> -> Failed
      [] d.rest # <<>> /\ Head(d.rest)[1] \notin kinds -> Failed
      [] d.rest # <<>> /\ Head(d.rest)[1] \in kinds ->
             IF Head(d.rest)[1] = "i" THEN readInt(d) ELSE readString(d)

(* The loop over count keys and values.                                    *)
readEntries(count, kinds, d) ==
    IF count = 0 \/ ~d.ok THEN d
    ELSE LET k == readKey(d, kinds)
             v == IF k.ok THEN readValue(k) ELSE Failed
         IN  readEntries(count - 1, kinds,
                 [ok |-> v.ok, rest |-> v.rest, refs |-> v.refs,
                  keys |-> Append(d.keys, k.val), values |-> Append(d.values, v.val)])

(* A container takes its slot before its contents. A reference to one that *)
(* is not complete yet is a pointer into the cycle.                        *)
readContents(d, count, kinds) ==
    readEntries(count, kinds,
        [ok |-> TRUE, rest |-> Tail(d.rest),
         refs |-> Append(d.refs, <<"cycle", Len(d.refs) + 1>>),
         keys |-> <<>>, values |-> <<>>])

Complete(d, e, v) ==
    IF e.ok /\ e.rest # <<>> /\ Head(e.rest) = Close
    THEN [ok |-> TRUE, val |-> v, rest |-> Tail(e.rest),
          refs |-> [e.refs EXCEPT ![Len(d.refs) + 1] = v]]
    ELSE Failed

readArray(d) ==
    LET e == readContents(d, Head(d.rest)[2], {"i", "s"})
    IN  Complete(d, e, <<"array", e.keys, e.values>>)

(* Mutant: the name is kept as PHP writes it.                              *)
stripNothing(name) == name

stripVisibility(name) == IF name \in DOMAIN Mangled THEN Mangled[name] ELSE name

(* Properties is a map: of two properties with one name the later stays.   *)
readObject(d) ==
    LET e == readContents(d, Head(d.rest)[3], {"s"})
        names == [i \in DOMAIN e.keys |-> stripVisibility(e.keys[i][2])]
        last(n) == CHOOSE i \in DOMAIN names :
                       /\ names[i] = n
                       /\ \A j \in DOMAIN names : names[j] = n => j <= i
    IN  Complete(d, e, <<"object", Head(d.rest)[2],
                         [n \in Range(names) |-> e.values[last(n)]]>>)

(* A reference gives what is in its slot and takes none.                   *)
readReference(d) ==
    LET n == Head(d.rest)[2]
    IN  IF n \in DOMAIN d.refs
        THEN [ok |-> TRUE, val |-> d.refs[n], rest |-> Tail(d.rest), refs |-> d.refs]
        ELSE Failed

(* The content of a custom object is skipped.                              *)
readCustomObject(d) == Scalar(d, <<"object", Head(d.rest)[2], NoProperties>>)

readValue(d) ==
    IF d.rest = <<>> THEN Failed
    ELSE LET t == Head(d.rest)[1]
         IN  CASE t \in ScalarTokens -> readScalar(d)
               [] t = "p" -> Scalar(d, <<"payload", Head(d.rest)[2]>>)
               [] t = "a" -> readArray(d)
               [] t = "O" -> readObject(d)
               [] t = "r" -> readReference(d)
               [] t = "C" -> readCustomObject(d)
               [] OTHER -> Failed

(* Decode: what follows the first value is not looked at.                  *)
Decode(text) == readValue([rest |-> text, refs |-> <<>>])
=============================================================================

------------------------------ MODULE ScalarCodec -----------------------------
(***************************************************************************)
(* The values of one token in PHP's serialize() format (pkg/phpserialize), *)
(* what encoding/json makes of them, and how the accessors of job.go read  *)
(* them. PhpSerialize adds the values that hold others.                    *)
(*                                                                         *)
(* A Go value is a tuple that starts with its type: nil, bool, int, uint,  *)
(* float, string, slice, map, object, array, enum, and other for the types *)
(* the encoder refuses. The signed integer types are one, as the encoder   *)
(* widens them; a finite float is counted in halves. A token is a tuple    *)
(* that starts with its type indicator; a length or count is part of the   *)
(* token it precedes.                                                      *)
(***************************************************************************)
EXTENDS Integers, Sequences

CONSTANTS MaxInt,    \* math.MaxInt64
          MaxExact   \* 2^53: the integers a float64 holds exactly

ASSUME ScalarAssumption ==
    /\ MaxInt \in Nat
    /\ MaxExact \in Nat

Int64 == -(MaxInt + 1) .. MaxInt

(* A string that is not UTF-8, and what encoding/json makes of it.         *)
Binary == "binary"
Replacement == "replacement"

JsonText(s) == IF s = Binary THEN Replacement ELSE s

(* The length of a string in bytes, as far as strings are compared here:   *)
(* U+FFFD is longer than the byte it replaces.                             *)
Size(s) == IF s = Replacement THEN 3 ELSE 1

Nil == <<"nil">>

-----------------------------------------------------------------------------
(* The encoder.                                                            *)
ScalarKinds == {"nil", "bool", "int", "uint", "float", "string", "enum"}

writeInt(n) == <<"i", n>>

encodeFloat(v) == <<"d", v[2], v[3]>>

encodeString(s) == <<"s", Size(s), s>>

encodeEnum(v) == <<"E", v[2], v[3]>>

encodeScalar(v) ==
    CASE v[1] = "nil" -> <<"N">>
      [] v[1] = "bool" -> <<"b", v[2]>>
      [] v[1] \in {"int", "uint"} -> writeInt(v[2])
      [] v[1] = "float" -> encodeFloat(v)
      [] v[1] = "string" -> encodeString(v[2])
      [] v[1] = "enum" -> encodeEnum(v)

-----------------------------------------------------------------------------
(* The decoder: the text that is left and the table of reference slots. A  *)
(* reader returns the value it read and the decoder after it.              *)
Failed == [ok |-> FALSE, val |-> Nil, rest |-> <<>>, refs |-> <<>>]

(* A value of one token, which takes the next slot.                        *)
Scalar(d, v) ==
    [ok |-> TRUE, val |-> v, rest |-> Tail(d.rest), refs |-> Append(d.refs, v)]

readNull(d) == Scalar(d, Nil)

readBool(d) == Scalar(d, <<"bool", Head(d.rest)[2]>>)

readInt(d) ==
    LET n == Head(d.rest)[2]
    IN  IF n \in Int64 THEN Scalar(d, <<"int", n>>) ELSE Failed

readFloat(d) == Scalar(d, <<"float", Head(d.rest)[2], Head(d.rest)[3]>>)

(* Mutant: the length is not compared with what is there.                  *)
readStringAnyLength(d) == Scalar(d, <<"string", Head(d.rest)[3]>>)

readString(d) ==
    LET t == Head(d.rest)
    IN  IF t[2] = Size(t[3]) THEN Scalar(d, <<"string", t[3]>>) ELSE Failed

readEnum(d) == Scalar(d, <<"enum", Head(d.rest)[2], Head(d.rest)[3]>>)

ScalarTokens == {"N", "b", "i", "d", "s", "E"}

readScalar(d) ==
    LET t == Head(d.rest)[1]
    IN  CASE t = "N" -> readNull(d)
          [] t = "b" -> readBool(d)
          [] t = "i" -> readInt(d)
          [] t = "d" -> readFloat(d)
          [] t = "s" -> readString(d)
          [] t = "E" -> readEnum(d)

-----------------------------------------------------------------------------
(* encoding/json: the value that Unmarshal into any gives for what Marshal *)
(* wrote, and what a token of an encoded command becomes in the string     *)
(* that holds the command.                                                 *)
Exact(n) == IF n \in -MaxExact .. MaxExact \/ n % 2 = 0 THEN n
            ELSE IF n > 0 THEN n - 1 ELSE n + 1

JsonScalar(v) ==
    CASE v[1] \in {"int", "uint"} -> <<"float", "finite", 2 * Exact(v[2])>>
      [] v[1] = "string" -> <<"string", JsonText(v[2])>>
      [] OTHER -> v

JsonToken(t) == IF t[1] = "s" THEN <<"s", t[2], JsonText(t[3])>> ELSE t

-----------------------------------------------------------------------------
(* What the accessors make of a property's value.                          *)

(* int64(f), towards zero.                                                 *)
Truncated(f) == IF f[3] >= 0 THEN f[3] \div 2 ELSE -((-f[3]) \div 2)

IntOf(v) ==
    CASE v[1] = "int" -> v[2]
      [] v[1] = "float" -> Truncated(v)
      [] OTHER -> 0

FloatOf(v) ==
    CASE v[1] = "float" -> v
      [] v[1] = "int" -> <<"float", "finite", 2 * Exact(v[2])>>
      [] OTHER -> <<"float", "finite", 0>>

StringOf(v) ==
    CASE v[1] = "string" -> v[2]
      [] v[1] = "enum" -> v[3]
      [] OTHER -> ""

(* The scalar that a value should be after encode and decode.              *)
MeantScalar(v) == IF v[1] = "uint" THEN <<"int", v[2]>> ELSE v
=============================================================================

------------------------------ MODULE CodecProofs -----------------------------
(***************************************************************************)
(* Proofs about the scalars of the codec, for every integer width, every   *)
(* string and every place in a text. The values that hold others are       *)
(* encoded and decoded recursively and stay with TLC.                      *)
(***************************************************************************)
EXTENDS ScalarCodec, TLAPS

(* The scalars of a Go program, by kind.                                   *)
ScalarValue ==
    {Nil}
    \cup {<<"bool", b>> : b \in BOOLEAN}
    \cup {<<"int", n>> : n \in Int64}
    \cup {<<"uint", n>> : n \in Nat}
    \cup {<<"float", class, halves>> : class \in STRING, halves \in Int}
    \cup {<<"string", s>> : s \in STRING}
    \cup {<<"enum", class, name>> : class \in STRING, name \in STRING}

(* The scalars that PHP's format inside JSON can carry.                    *)
Carried(v) ==
    /\ v[1] = "uint" => v[2] \in Int64
    /\ v[1] = "string" => v[2] # Binary

(* A scalar that the encoder wrote, and that the JSON of the payload went  *)
(* over, is read back as it was meant or is refused, wherever in a text it *)
(* stands: the reader takes one token and one reference slot, an unsigned  *)
(* integer beyond int64 is not wrapped, and a string in which JSON         *)
(* replaced a byte does not shift the rest of the text.                    *)
THEOREM ScalarsArrive ==
  ASSUME NEW v \in ScalarValue, NEW text, NEW refs,
         text # <<>>, Head(text) = JsonToken(encodeScalar(v))
  PROVE  LET r == readScalar([rest |-> text, refs |-> refs])
         IN  IF Carried(v)
             THEN r = [ok |-> TRUE, val |-> MeantScalar(v), rest |-> Tail(text),
                       refs |-> Append(refs, MeantScalar(v))]
             ELSE r = Failed
  <1> DEFINE d == [rest |-> text, refs |-> refs]
             t == Head(text)
  <1>0. d.rest = text /\ d.refs = refs
    OBVIOUS
  <1> HIDE DEF d
  <1>s. \A x : Scalar(d, x) = [ok |-> TRUE, val |-> x, rest |-> Tail(text),
                               refs |-> Append(refs, x)]
    BY <1>0 DEF Scalar
  <1> DEFINE Right(r) == IF Carried(v) THEN r = Scalar(d, MeantScalar(v)) ELSE r = Failed
  <1>1. ASSUME v = Nil PROVE Right(readScalar(d))
    <2>1. t = <<"N">> /\ t[1] = "N"
      BY <1>1 DEF encodeScalar, JsonToken, Nil
    <2>2. MeantScalar(v) = Nil /\ Carried(v)
      BY <1>1 DEF MeantScalar, Carried, Nil
    <2> QED
      BY <1>0, <2>1, <2>2 DEF readScalar, readNull
  <1>2. ASSUME NEW b \in BOOLEAN, v = <<"bool", b>> PROVE Right(readScalar(d))
    <2>1. t = <<"b", b>>
      BY <1>2 DEF encodeScalar, JsonToken
    <2>2. MeantScalar(v) = v /\ Carried(v)
      BY <1>2 DEF MeantScalar, Carried
    <2>3. t[1] = "b" /\ t[2] = b
      BY <2>1
    <2> QED
      BY <1>0, <1>2, <2>2, <2>3 DEF readScalar, readBool
  <1>3. ASSUME NEW n \in Int, NEW k \in {"int", "uint"}, k = "int" => n \in Int64,
               v = <<k, n>>
        PROVE  Right(readScalar(d))
    <2>1. t = <<"i", n>>
      BY <1>3 DEF encodeScalar, JsonToken, writeInt
    <2>2. t[1] = "i" /\ t[2] = n
      BY <2>1
    <2>3. MeantScalar(v) = <<"int", n>> /\ (Carried(v) <=> n \in Int64)
      BY <1>3 DEF MeantScalar, Carried
    <2>4. readScalar(d) = IF n \in Int64 THEN Scalar(d, <<"int", n>>) ELSE Failed
      BY <1>0, <2>2 DEF readScalar, readInt
    <2> QED
      BY <2>3, <2>4
  <1>4. ASSUME NEW class \in STRING, NEW halves \in Int, v = <<"float", class, halves>>
        PROVE  Right(readScalar(d))
    <2>1. t = <<"d", class, halves>>
      BY <1>4 DEF encodeScalar, JsonToken, encodeFloat
    <2>2. t[1] = "d" /\ t[2] = class /\ t[3] = halves
      BY <2>1
    <2>3. MeantScalar(v) = v /\ Carried(v)
      BY <1>4 DEF MeantScalar, Carried
    <2> QED
      BY <1>0, <1>4, <2>2, <2>3 DEF readScalar, readFloat
  <1>5. ASSUME NEW s \in STRING, v = <<"string", s>> PROVE Right(readScalar(d))
    <2>1. t = <<"s", Size(s), JsonText(s)>>
      BY <1>5 DEF encodeScalar, JsonToken, encodeString
    <2>2. t[1] = "s" /\ t[2] = Size(s) /\ t[3] = JsonText(s)
      BY <2>1
    <2>3. MeantScalar(v) = v /\ (Carried(v) <=> s # Binary)
      BY <1>5 DEF MeantScalar, Carried
    <2>4. /\ s # Binary => JsonText(s) = s
          /\ s = Binary => Size(s) = 1 /\ Size(JsonText(s)) = 3
      BY DEF JsonText, Size, Binary, Replacement
    <2>5. readScalar(d) = IF Size(s) = Size(JsonText(s))
                          THEN Scalar(d, <<"string", JsonText(s)>>) ELSE Failed
      BY <1>0, <2>2 DEF readScalar, readString
    <2> QED
      BY <1>5, <2>3, <2>4, <2>5
  <1>6. ASSUME NEW class \in STRING, NEW name \in STRING, v = <<"enum", class, name>>
        PROVE  Right(readScalar(d))
    <2>1. t = <<"E", class, name>>
      BY <1>6 DEF encodeScalar, JsonToken, encodeEnum
    <2>2. t[1] = "E" /\ t[2] = class /\ t[3] = name
      BY <2>1
    <2>3. MeantScalar(v) = v /\ Carried(v)
      BY <1>6 DEF MeantScalar, Carried
    <2> QED
      BY <1>0, <1>6, <2>2, <2>3 DEF readScalar, readEnum
  <1>7. Right(readScalar(d))
    <2> HIDE DEF Right
    <2>0. \A n \in Int64 : n \in Int
      BY ScalarAssumption DEF ScalarAssumption, Int64
    <2>1. CASE v = Nil
      BY <1>1, <2>1
    <2>2. CASE \E b \in BOOLEAN : v = <<"bool", b>>
      BY <1>2, <2>2
    <2>3. CASE \E n \in Int64 : v = <<"int", n>>
      <3>1. PICK n \in Int64 : v = <<"int", n>>
        BY <2>3
      <3> QED
        BY <1>3, <2>0, <3>1
    <2>4. CASE \E n \in Nat : v = <<"uint", n>>
      <3>1. PICK n \in Nat : v = <<"uint", n>>
        BY <2>4
      <3> QED
        BY <1>3, <3>1
    <2>5. CASE \E class \in STRING, halves \in Int : v = <<"float", class, halves>>
      BY <1>4, <2>5
    <2>6. CASE \E s \in STRING : v = <<"string", s>>
      BY <1>5, <2>6
    <2>7. CASE \E class \in STRING, name \in STRING : v = <<"enum", class, name>>
      BY <1>6, <2>7
    <2> QED
      BY <2>1, <2>2, <2>3, <2>4, <2>5, <2>6, <2>7 DEF ScalarValue
  <1> QED
    BY <1>7, <1>s DEF d

-----------------------------------------------------------------------------
(* What an accessor returns for a scalar that was written as JSON (a job   *)
(* for a Go worker) is what it returns for one written in PHP's format:    *)
(* the number itself, although JSON has no integers and the value comes    *)
(* back as a float, for every integer a float64 holds exactly.             *)
THEOREM IntegersReadBack ==
  ASSUME NEW n \in -MaxExact .. MaxExact, NEW k \in {"int", "uint"}
  PROVE  /\ IntOf(JsonScalar(<<k, n>>)) = n
         /\ IntOf(MeantScalar(<<k, n>>)) = n
         /\ FloatOf(JsonScalar(<<k, n>>)) = FloatOf(MeantScalar(<<k, n>>))
  <1>0. n \in Int
    BY ScalarAssumption DEF ScalarAssumption
  <1> DEFINE v == <<k, n>>
             f == <<"float", "finite", 2 * n>>
  <1>1. Exact(n) = n
    BY DEF Exact
  <1>2. JsonScalar(v) = f
    BY <1>1 DEF JsonScalar
  <1>3. MeantScalar(v) = <<"int", n>>
    BY DEF MeantScalar
  <1>4. Truncated(f) = n
    <2>1. f[3] = 2 * n
      OBVIOUS
    <2>2. (2 * n) \div 2 = n /\ (-(2 * n)) \div 2 = -n
      BY <1>0
    <2> QED
      BY <1>0, <2>1, <2>2 DEF Truncated
  <1>5. IntOf(f) = n
    BY <1>4 DEF IntOf
  <1>6. FloatOf(f) = f
    BY DEF FloatOf
  <1>7. IntOf(<<"int", n>>) = n
    BY DEF IntOf
  <1>8. FloatOf(<<"int", n>>) = f
    BY <1>1 DEF FloatOf
  <1> QED
    BY <1>2, <1>3, <1>5, <1>6, <1>7, <1>8
=============================================================================

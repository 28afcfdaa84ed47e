---------------------------- MODULE Payload ----------------------------
(***************************************************************************)
(* The payload codec: what a device's document decodes to under a mapping, *)
(* how a value is encoded for a device, how it is stored as JSON and read  *)
(* back, and how the API renders it.                                       *)
(*                                                                         *)
(* Numbers are counted in halves, so that n stands for n / 2.  The widths  *)
(* are scaled down: int32 is -MaxInt32 - 1 .. MaxInt32, int64 likewise,    *)
(* and MaxSafe (2^53 in the code) is where a float64 begins to skip whole  *)
(* numbers; MaxInt64 is below 2 * MaxSafe.  Instants are milliseconds.  A  *)
(* document is [format, v, t]; a token of it is [is, v] with the form it   *)
(* has on the wire, a string's being what can be read from its text.       *)
(***************************************************************************)
EXTENDS Integers, Sequences

CONSTANTS MaxInt32, MaxSafe, MaxInt64, MaxTime, MaxArrayLen

Rejected == [is |-> "rejected", v |-> 0]

Missing == [is |-> "missing", v |-> 0]

\* A decoded value: its declared type and what it holds.
Val(t, v) == [is |-> t, v |-> v]

\* What the text of a string can be read as.
Strings == {"text", "decimal", "base64", "time", "long", "not UTF-8"}

Abs(n) == IF n < 0 THEN -n ELSE n

\* The multiple of s nearest to n, the even one of two.
RoundTo(n, s) ==
  LET q == n \div s  r == n % s
  IN s * (IF 2 * r < s \/ (2 * r = s /\ q % 2 = 0) THEN q ELSE q + 1)

\* The float64 nearest to n halves.
FloatOf(n) ==
  RoundTo(n, IF Abs(n) < MaxSafe THEN 1 ELSE IF Abs(n) < 2 * MaxSafe THEN 2 ELSE 4)

-----------------------------------------------------------------------------
(* Coercions *)

Ok(val) == val.is # "rejected"

\* Only what survives the way there and back is widened.
DoubleFromInt64(i) ==
  LET f == FloatOf(2 * i)
  IN IF f < 2 * (MaxInt64 + 1) /\ f = 2 * i THEN Val("double", f) ELSE Rejected

Int32FromInt64(i) == IF i \in -MaxInt32 - 1..MaxInt32 THEN Val("integer", i) ELSE Rejected

Int32FromFloat64(f) == IF f % 2 = 0 THEN Int32FromInt64(f \div 2) ELSE Rejected

CheckString(token) ==
  IF token.is \in {"long", "not UTF-8"} THEN Rejected ELSE Val("string", <<token.is, token.v>>)

DateTimeFromMillis(ms) == IF ms \in -MaxTime..MaxTime THEN Val("datetime", ms) ELSE Rejected

\* An instant in halves of a millisecond, cut to milliseconds.
CheckDateTime(h) == IF h \in -2 * MaxTime..2 * MaxTime THEN Val("datetime", h \div 2) ELSE Rejected

\* collectArray: one element that does not coerce refuses the array.
CollectArray(n, elem(_)) ==
  IF n > MaxArrayLen \/ \E i \in 1..n : ~Ok(elem(i))
  THEN Rejected
  ELSE Val("array", [i \in 1..n |-> elem(i)])

-----------------------------------------------------------------------------
(* Decoding *)

\* A token of plain digits is exact; a fraction or an exponent goes through a
\* float64 and is trusted below MaxSafe only.
JsonInt64(token) ==
  LET f == FloatOf(token.v) IN
  CASE token.is = "digits" ->
         IF token.v \div 2 \in -MaxInt64 - 1..MaxInt64 THEN Val("longinteger", token.v \div 2) ELSE Rejected
    [] token.is = "fraction" ->
         IF f % 2 = 0 /\ Abs(f) < 2 * MaxSafe THEN Val("longinteger", f \div 2) ELSE Rejected
    [] OTHER -> Rejected

\* A whole number and the coercion that narrows it.
Narrowed(long, to(_)) == IF Ok(long) THEN to(long.v) ELSE Rejected

DecodeJSONDateTime(token) ==
  IF token.is = "time" THEN CheckDateTime(token.v)
  ELSE Narrowed(JsonInt64(token), DateTimeFromMillis)

DecodeJSONScalar(token, t) ==
  CASE t = "double" /\ token.is \in {"digits", "fraction"} -> Val(t, FloatOf(token.v))
    [] t = "integer" -> Narrowed(JsonInt64(token), Int32FromInt64)
    [] t = "longinteger" /\ token.is = "decimal" -> JsonInt64([is |-> "digits", v |-> 2 * token.v])
    [] t = "longinteger" /\ token.is # "decimal" -> JsonInt64(token)
    [] t = "boolean" /\ token.is = "boolean" -> Val(t, token.v)
    [] t = "string" /\ token.is \in Strings -> CheckString(token)
    [] t = "binaryblob" /\ token.is = "base64" -> Val(t, token.v)
    [] t = "datetime" -> DecodeJSONDateTime(token)
    [] OTHER -> Rejected

\* A double that is not finite is a token of its own and fits nothing.
DecodeBSONScalar(token, t) ==
  CASE t = "double" /\ token.is = "double" -> Val(t, token.v)
    [] t = "double" /\ token.is \in {"int32", "int64"} -> DoubleFromInt64(token.v)
    [] t = "integer" /\ token.is \in {"int32", "int64"} -> Int32FromInt64(token.v)
    [] t = "integer" /\ token.is = "double" -> Int32FromFloat64(token.v)
    [] t = "longinteger" /\ token.is \in {"int32", "int64"} -> Val(t, token.v)
    [] t = "boolean" /\ token.is = "boolean" -> Val(t, token.v)
    [] t = "string" /\ token.is \in Strings -> CheckString(token)
    [] t = "binaryblob" /\ token.is = "binary" -> Val(t, token.v)
    [] t = "datetime" /\ token.is = "datetime" -> DateTimeFromMillis(token.v)
    [] OTHER -> Rejected

Scalar(format, token, t) ==
  IF format = "json" THEN DecodeJSONScalar(token, t) ELSE DecodeBSONScalar(token, t)

\* A mapping is [type, array, explicit, unset].
DecodeValue(format, token, m) ==
  IF ~m.array THEN Scalar(format, token, m.type)
  ELSE IF token.is # "array" THEN Rejected
  ELSE CollectArray(Len(token.v), LAMBDA i : Scalar(format, token.v[i], m.type))

\* The timestamp of the envelope, in either format.
EnvelopeTime(doc) ==
  IF doc.t.is = "missing" THEN Missing
  ELSE IF doc.format = "json" THEN DecodeJSONDateTime(doc.t)
  ELSE IF doc.t.is = "datetime" THEN DateTimeFromMillis(doc.t.v) ELSE Rejected

\* The sniffed format; a document of no format is told by neither its length
\* prefix nor its first brace.
DetectFormat(doc) == IF doc.format \in {"empty", "bson", "json"} THEN doc.format ELSE "invalid"

\* gate: documents over the cap and those of no format are refused.
Readable(doc) == DetectFormat(doc) # "invalid"

\* A timestamp is required by a mapping that declares it and ignored otherwise.
FinishDecode(val, t, explicit) ==
  IF ~Ok(val) \/ ~Ok(t) \/ (explicit /\ t.is = "missing") THEN Rejected
  ELSE [is |-> "decoded", v |-> val, t |-> IF explicit THEN t ELSE Missing]

Individual(doc, m) ==
  IF ~Readable(doc) THEN Rejected
  ELSE IF doc.format = "empty"
  THEN IF m.unset THEN [is |-> "decoded", v |-> Missing, t |-> Missing] ELSE Rejected
  ELSE IF doc.v.is = "missing" THEN Rejected
  ELSE FinishDecode(DecodeValue(doc.format, doc.v, m), EnvelopeTime(doc), m.explicit)

\* An object's document is a function from its keys; leaves from names to
\* [type, array, explicit, required].
Object(doc, leaves) ==
  IF ~Readable(doc) \/ doc.format = "empty" \/ doc.v.is # "object" THEN Rejected
  ELSE LET obj == doc.v.v
           values == [k \in DOMAIN obj |-> DecodeValue(doc.format, obj[k], leaves[k])]
       IN IF \/ DOMAIN obj = {} \/ ~(DOMAIN obj \subseteq DOMAIN leaves)
             \/ \E k \in DOMAIN obj : ~Ok(values[k])
             \/ \E k \in DOMAIN leaves \ DOMAIN obj : leaves[k].required
          THEN Rejected
          ELSE FinishDecode(Val("object", values), EnvelopeTime(doc), \E k \in DOMAIN leaves : leaves[k].explicit)

-----------------------------------------------------------------------------
(* Encoding *)

Digits(n) == [is |-> "digits", v |-> 2 * n]

\* json.Marshal of a float64: whole numbers come out as plain digits.
FloatToken(f) == [is |-> IF f % 2 = 0 THEN "digits" ELSE "fraction", v |-> f]

JsonifyScalar(val) ==
  CASE val.is = "double" -> FloatToken(val.v)
    [] val.is = "integer" -> Digits(val.v)
    [] val.is = "longinteger" -> IF Abs(val.v) > MaxSafe THEN Val("decimal", val.v) ELSE Digits(val.v)
    [] val.is = "binaryblob" -> Val("base64", val.v)
    [] val.is = "datetime" -> Val("time", 2 * val.v)
    [] val.is = "string" -> Val(val.v[1], val.v[2])
    [] OTHER -> val

BSONScalar(val) ==
  CASE val.is = "integer" -> [val EXCEPT !.is = "int32"]
    [] val.is = "longinteger" -> [val EXCEPT !.is = "int64"]
    [] val.is = "binaryblob" -> [val EXCEPT !.is = "binary"]
    [] val.is = "string" -> Val(val.v[1], val.v[2])
    [] OTHER -> val

RECURSIVE TokenOf(_, _)
TokenOf(scalar(_), val) ==
  IF val.is \in {"array", "object"}
  THEN [val EXCEPT !.v = [i \in DOMAIN @ |-> TokenOf(scalar, @[i])]]
  ELSE scalar(val)

Encode(val, ts, format) ==
  [format |-> format,
   v |-> IF format = "json" THEN TokenOf(JsonifyScalar, val) ELSE TokenOf(BSONScalar, val),
   t |-> IF ts.is = "missing" THEN Missing
         ELSE IF format = "json" THEN JsonifyScalar(ts) ELSE BSONScalar(ts)]

-----------------------------------------------------------------------------
(* Storing and reading back *)

\* Mutant: every longinteger is stored as a number.
JsonableNumbers(val) ==
  IF val.is = "longinteger" THEN Digits(val.v) ELSE JsonifyScalar(val)

\* jsonable: one below the bound of the codec for the devices.
JsonableScalar(val) ==
  IF val.is = "longinteger" /\ Abs(val.v) > MaxSafe - 1 THEN Val("decimal", val.v)
  ELSE JsonifyScalar(val)

EncodeValueJSON(val) == TokenOf(JsonableScalar, val)

\* rehydrateValue: the stored JSON as a device of the JSON profile would send it.
RehydrateValue(stored, m) ==
  Individual([format |-> "json", v |-> stored, t |-> Missing], [m EXCEPT !.explicit = FALSE])

\* A token as encoding/json's generic form has it: numbers are float64.
RECURSIVE Generic(_)
Generic(token) ==
  CASE token.is \in {"digits", "fraction"} -> [is |-> "number", v |-> FloatOf(token.v)]
    [] token.is \in {"array", "object"} -> [token EXCEPT !.v = [i \in DOMAIN @ |-> Generic(@[i])]]
    [] OTHER -> token

JsonEqual(a, b) == Generic(a) = Generic(b)

\* applyBigIntegerOpts, on the token of a longinteger in an object's row.
BigInteger(token, allow, safe) ==
  IF token.is = "digits" /\ (~allow \/ (safe /\ Abs(token.v) > 2 * (MaxSafe - 1)))
  THEN Val("decimal", token.v \div 2) ELSE token

\* individualValue: scalars from their columns, arrays as they were stored.
IndividualValue(val) ==
  CASE val.is = "longinteger" -> Val("decimal", val.v)
    [] val.is = "array" -> EncodeValueJSON(val)
    [] OTHER -> JsonifyScalar(val)
=============================================================================

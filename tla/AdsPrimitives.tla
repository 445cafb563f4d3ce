--------------------------- MODULE AdsPrimitives ---------------------------
(***************************************************************************)
(* The conversions of types/: a primitive PLC type between the bytes of    *)
(* the PLC and a JSON leaf.  A byte has Base values (256 in the code), so  *)
(* that a width of w bytes overflows where it does in the code, on small   *)
(* numbers.  What panics in the code gives Bad, in bytes or as a leaf.     *)
(***************************************************************************)
EXTENDS Integers, Sequences
SX == INSTANCE SequencesExt

CONSTANTS
    Base,          \* values of a byte
    Lead,          \* bytes that begin a UTF-8 character of two bytes
    Continuation   \* bytes that end one

ASSUME PrimitiveAssumption ==
    /\ Base \in Nat /\ Base > 1 /\ Base % 2 = 0
    /\ Lead \subseteq 1..(Base - 1) /\ Continuation \subseteq (1..(Base - 1)) \ Lead

Byte == 0..(Base - 1)
Power(b, n) ==
    LET power[i \in Nat] == IF i = 0 THEN 1 ELSE b * power[i - 1] IN power[n]
Pow(w) == Power(Base, w)

\* JSON leaves: an integer, a number with a fraction that a float holds as it is
\* (its floor, which rounding leaves alone), a text (its UTF-8 bytes), a boolean,
\* null.
Num(n) == [k |-> "num", of |-> n]
Frac(n) == [k |-> "frac", of |-> n]
Text(b) == [k |-> "text", of |-> b]
Flag(b) == [k |-> "flag", of |-> b]
Null == [k |-> "null", of |-> 0]
Bad == [k |-> "bad", of |-> 0]
BadByte == -1

-----------------------------------------------------------------------------
\* AdsPlcType.  An integer type has a width, a sign and the subrange lo..hi
\* (its own limits when the TPY gives none).

Least(w, signed) == IF signed THEN -(Pow(w) \div 2) ELSE 0
Greatest(w, signed) == IF signed THEN Pow(w) \div 2 - 1 ELSE Pow(w) - 1

IntType(w, signed, lo, hi) == [k |-> "int", w |-> w, signed |-> signed, lo |-> lo, hi |-> hi]
WholeInt(w, signed) == IntType(w, signed, Least(w, signed), Greatest(w, signed))
BoolType == [k |-> "bool"]
\* f32 or f64, exact up to mantissa
RealType(w, mantissa) == [k |-> "real", w |-> w, mantissa |-> mantissa]
StringType(len) == [k |-> "string", len |-> len]
OtherType(reference) == [k |-> "other", reference |-> reference]

Width(p) ==
    CASE p.k = "bool" -> 1
      [] p.k \in {"int", "real"} -> p.w
      [] p.k = "string" -> p.len + 1

-----------------------------------------------------------------------------
\* Numbers: little endian, two's complement; `as` cuts to the width.

Bytes(n, w) == [i \in 1..w |-> (n \div Pow(i - 1)) % Base]
Number(b) ==
    LET upTo[i \in 0..Len(b)] == IF i = 0 THEN 0 ELSE upTo[i - 1] + b[i] * Pow(i - 1)
    IN  upTo[Len(b)]

Signed(n, w) == IF n >= Pow(w) \div 2 THEN n - Pow(w) ELSE n
Cut(n, p) == IF p.signed THEN Signed(n % Pow(p.w), p.w) ELSE n % Pow(p.w)
Clamp(n, p) == IF n < p.lo THEN p.lo ELSE IF n > p.hi THEN p.hi ELSE n

\* The float nearest to n: the fewer digits, ties to the even one.
Rounded(n, mantissa) ==
    LET k == CHOOSE i \in 0..n : /\ n \div Power(2, i) < mantissa
                                 /\ i = 0 \/ n \div Power(2, i - 1) >= mantissa
        unit == Power(2, k)
        down == n \div unit
        rest == n % unit
    IN  unit * IF 2 * rest > unit \/ (2 * rest = unit /\ down % 2 = 1) THEN down + 1 ELSE down

\* write_ads_number and read_ads_number of an integer type, which must have the
\* bounds of its subrange (unwrap).
RangeFits(p) == {p.lo, p.hi} \subseteq Least(p.w, p.signed)..Greatest(p.w, p.signed)
WriteInt(n, p) ==
    IF RangeFits(p) THEN Bytes(Clamp(Cut(n, p), p) % Pow(p.w), p.w) ELSE <<BadByte>>
ReadIntUnsigned(b, p) == IF RangeFits(p) THEN Num(Clamp(Number(b), p)) ELSE Bad
ReadInt(b, p) ==
    IF RangeFits(p)
    THEN Num(Clamp(IF p.signed THEN Signed(Number(b), p.w) ELSE Number(b), p))
    ELSE Bad

\* REAL and LREAL take the same way: the number is the bit pattern.  A negative
\* number has no u64, write_uint refuses one that is too long, and a pattern
\* from 2^63 on has no i64.
WriteReal(n, p) ==
    LET f == IF n < 0 THEN n ELSE Rounded(n, p.mantissa) IN
    IF f < 0 \/ f >= Pow(p.w) THEN <<BadByte>> ELSE Bytes(f, p.w)
ReadReal(b, p) ==
    LET f == Rounded(Number(b), p.mantissa) IN
    IF f >= Pow(8) \div 2 THEN Bad ELSE Num(f)

-----------------------------------------------------------------------------
\* Strings: the text, cut or filled up to len bytes, and a NUL.

ValidUtf8(b) ==
    \A i \in DOMAIN b : /\ b[i] \in Lead => i < Len(b) /\ b[i + 1] \in Continuation
                        /\ b[i] \in Continuation => i > 1 /\ b[i - 1] \in Lead

WriteStringShort(b, len) == [i \in 1..(len + 1) |-> IF i < len /\ i <= Len(b) THEN b[i] ELSE 0]
WriteString(b, len) == [i \in 1..(len + 1) |-> IF i <= len /\ i <= Len(b) THEN b[i] ELSE 0]

\* Without a NUL among them, the first len bytes.
ReadString(b, len) ==
    LET n == SX!SelectInSeq(b, LAMBDA x : x = 0)
        s == SubSeq(b, 1, IF n = 0 THEN len ELSE n - 1)
    IN  IF ValidUtf8(s) THEN Text(s) ELSE Bad

-----------------------------------------------------------------------------
\* AdsPlcType::to_writer and as_data_struct, for all but Other.

\* as_i64 has every integer here, as_u64 no negative one, neither a fraction.
IsIntegerAnySign(v, p) == v.k = "num"
IsInteger(v, p) == v.k = "num" /\ (p.signed \/ v.of >= 0)

WritePrimitive(p, v) ==
    CASE p.k = "bool" /\ v.k = "flag"              -> <<IF v.of THEN 1 ELSE 0>>
      [] p.k = "int" /\ IsInteger(v, p)            -> WriteInt(v.of, p)
      [] p.k = "real" /\ v.k \in {"num", "frac"}   -> WriteReal(v.of, p)
      [] p.k = "string" /\ v.k = "text"            -> WriteString(v.of, p.len)
      [] OTHER                                     -> <<BadByte>>

\* A reader that is too short fails, but for a string: read_exact's error is ignored.
ReadPrimitive(p, b) ==
    CASE Len(b) < Width(p) -> IF p.k = "string" THEN Text(<<>>) ELSE Bad
      [] p.k = "bool"      -> Flag(b[1] >= 1)
      [] p.k = "int"       -> ReadInt(SubSeq(b, 1, p.w), p)
      [] p.k = "real"      -> ReadReal(SubSeq(b, 1, p.w), p)
      [] p.k = "string"    -> ReadString(SubSeq(b, 1, p.len + 1), p.len)

-----------------------------------------------------------------------------
\* Rows of bytes: what a reader has left, a slice that is written into a row, and
\* (rposition) the last byte that changes, or else the last byte of all.

From(b, n) == SubSeq(b, n + 1, Len(b))
OverlayShort(row, at, bytes) == SubSeq(row, 1, at) \o bytes
Overlay(row, at, bytes) == SubSeq(row, 1, at) \o bytes \o From(row, at + Len(bytes))

FirstChange(old, new) ==
    LET differ == SX!SelectInSeq([i \in DOMAIN SX!Zip(new, old) |-> old[i] # new[i]],
                                 LAMBDA differs : differs)
    IN  IF differ = 0 THEN Len(new) ELSE differ
LastChange(old, new) ==
    LET differ == SX!SelectLastInSeq([i \in DOMAIN SX!Zip(new, old) |-> old[i] # new[i]],
                                     LAMBDA differs : differs)
    IN  IF differ = 0 THEN Len(new) ELSE differ

-----------------------------------------------------------------------------
\* What an enum value outside the keys becomes: the first or the last key in the
\* HashMap's order.  One key has no last (unwrap).

EnumKeyOrKept(n, keys) ==
    IF n < keys[1] THEN keys[1] ELSE IF n > keys[Len(keys)] THEN keys[Len(keys)] ELSE n
EnumType == WholeInt(2, TRUE)
EnumKey(n, keys) == IF n \in SX!ToSet(keys) THEN n ELSE EnumKeyOrKept(n, keys)
WriteEnum(v, keys) ==
    LET n == Cut(v.of, EnumType) IN
    IF v.k = "num" /\ (n \in SX!ToSet(keys) \/ Len(keys) > 1)
    THEN WriteInt(EnumKey(n, keys), EnumType) ELSE <<BadByte>>

-----------------------------------------------------------------------------
\* What the properties say of a leaf and its bytes.

\* Bytes that are a value of its type, written as the server writes it.
Raw(ty, b) == IF ty.signed THEN Signed(Number(b), ty.w) ELSE Number(b)
Clean(ty, b) ==
    CASE ty.k = "bool"   -> b[1] <= 1
      [] ty.k = "int"    -> Raw(ty, b) \in ty.lo..ty.hi
      [] ty.k = "enum"   -> Raw(EnumType, b) \in SX!ToSet(ty.keys)
      [] ty.k = "real"   -> Rounded(Number(b), ty.mantissa) = Number(b) /\ ReadReal(b, ty) # Bad
      [] ty.k = "string" -> \E n \in 0..ty.len :
            /\ \A i \in DOMAIN b : b[i] = 0 <=> i > n
            /\ ValidUtf8(SubSeq(b, 1, n))

\* What a field holds after a mutation gave it v: the nearest value of the subrange
\* unless v is cut to the width first; a key of the enum, or what is left of v
\* between two keys; the text as far as it fits; the number as exact as a REAL
\* has it.
Nearest(v, ty) == CHOOSE n \in ty.lo..ty.hi :
    \A i \in ty.lo..ty.hi : (n - v) * (n - v) <= (i - v) * (i - v)
Becomes(ty, v, b) ==
    CASE ty.k = "bool"   -> b = <<IF v.of THEN 1 ELSE 0>>
      [] ty.k = "int"    ->
            /\ Raw(ty, b) \in ty.lo..ty.hi
            /\ v.of \in Least(ty.w, ty.signed)..Greatest(ty.w, ty.signed) =>
                  Raw(ty, b) = Nearest(v.of, ty)
      [] ty.k = "enum"   ->
            LET keys == SX!ToSet(ty.keys) IN
            \/ Raw(EnumType, b) \in keys /\ (v.of \in keys => Raw(EnumType, b) = v.of)
            \/ /\ Raw(EnumType, b) = Cut(v.of, EnumType)
               /\ \E i, j \in keys : i < Raw(EnumType, b) /\ Raw(EnumType, b) < j
      [] ty.k = "real"   -> Number(b) = Rounded(v.of, ty.mantissa)
      [] ty.k = "string" ->
            \A i \in DOMAIN b : b[i] = IF i <= ty.len /\ i <= Len(v.of) THEN v.of[i] ELSE 0
=============================================================================

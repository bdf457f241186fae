--------------------------- MODULE CoFifoNumbers ---------------------------
(* Numbers as text: CO_fifo_readU82a ... readR642a show the bytes in the     *)
(* fifo as a number, CO_fifo_cpyTok2U8 ... cpyTok2R64 take a number from the *)
(* text and write its bytes (301/CO_fifo.c).  The text is the number that it *)
(* stands for; "%g" and strtof round it.  A byte has ByteBits bits, 8 in the *)
(* code; the widths of the types, of uint32_t and of long follow from it.    *)
EXTENDS Integers, Sequences, FiniteSetsExt

CONSTANTS ByteBits,
          Types,        \* of the gateway's table: "u8" ... "x64", "i8" ... "i64", "r32", "r64"
          Typed,        \* the numbers that may be typed
          Rooms,        \* the room for text that readXX2a may have
          Spaces        \* the room in the destination

VARIABLES type, bytes,       \* the type and the data in the fifo
          text,              \* the text, and the number that it stands for
          back, st           \* the bytes and the status after scanning the text

vars == <<type, bytes, text, back, st>>

Size(t) == CASE t \in {"u8", "x8", "i8"} -> 1 [] t \in {"u16", "x16", "i16"} -> 2
             [] t \in {"u32", "x32", "i32", "r32"} -> 4 [] OTHER -> 8

(* The room that a type asks for *)
Room(t) == CASE t \in {"u8", "x8", "i8"} -> 6 [] t \in {"u16", "x16", "i16"} -> 8
             [] t \in {"u32", "x32"} -> 12 [] t = "i32" -> 13 [] t \in {"u64", "x64", "r32"} -> 20
             [] t = "i64" -> 23 [] OTHER -> 30

Bits(n) == n * ByteBits
Signed(t) == t \in {"i8", "i16", "i32", "i64"}
Real(t) == t \in {"r32", "r64"}

(* v as a number of n bytes with or without a sign *)
Unsigned(v, n) == v % 2^Bits(n)
TwosComplement(v, n) == LET u == Unsigned(v, n) IN IF u < 2^(Bits(n) - 1) THEN u ELSE u - 2^Bits(n)

Limits(t) == IF Signed(t) THEN (-(2^(Bits(Size(t)) - 1)))..(2^(Bits(Size(t)) - 1) - 1)
             ELSE 0..(2^Bits(Size(t)) - 1)

(* Little endian *)
FromBytes(b) == MapThenSumSet(LAMBDA i : b[i] * 2^Bits(i - 1), 1..Len(b))
ToBytes(v, n) == [i \in 1..n |-> (Unsigned(v, n) \div 2^Bits(i - 1)) % 2^ByteBits]

(* Reals are multiples of a unit: a float64_t is any of them, a float32_t    *)
(* every second, and the six digits of "%g" give every fourth.               *)
to_float32(v) == 2 * (v \div 2)
to_six_digits(v) == 4 * (v \div 4)
real_unit(t) == IF t = "r32" THEN 2 ELSE 1

value(t, b) == CASE Signed(t) -> TwosComplement(FromBytes(b), Len(b))
                 [] Real(t) -> real_unit(t) * FromBytes(b)
                 [] OTHER -> FromBytes(b)

Token(kind, v) == [kind |-> kind, v |-> v]

(* The fifo must hold just one number and there must be room for it;         *)
(* otherwise the bytes are shown as hex digits.                              *)
read2a(t, b, count) ==
    IF Len(b) # Size(t) \/ count < Room(t) THEN Token("hex", 0)
    ELSE Token("shown", IF Real(t) THEN to_six_digits(value(t, b)) ELSE value(t, b))

(* strtoul and strtol with a long of eight bytes: a number beyond the limits *)
(* becomes the limit                                                         *)
ULONG_MAX == 2^Bits(8) - 1
strtoul(v) == IF v > ULONG_MAX \/ v < -ULONG_MAX THEN ULONG_MAX ELSE Unsigned(v, 8)
strtol(v) == CASE v > 2^(Bits(8) - 1) - 1 -> 2^(Bits(8) - 1) - 1
               [] v < -(2^(Bits(8) - 1)) -> -(2^(Bits(8) - 1))
               [] OTHER -> v

(* The number as the variable in the function holds it: uint32_t or int32_t  *)
(* for the types of up to four bytes.                                        *)
parsed(t, v) == CASE Real(t) -> to_float32(v)
                  [] Signed(t) -> IF Size(t) = 8 THEN strtol(v) ELSE TwosComplement(strtol(v), 4)
                  [] OTHER -> IF Size(t) = 8 THEN strtoul(v) ELSE Unsigned(strtoul(v), 4)

\* Mutant of in_range: the upper limit is one too large
in_range_off_by_one(t, n) == Real(t) \/ Size(t) >= 4 \/ n \in Limits(t) \/ n - 1 \in Limits(t)

in_range(t, n) == Real(t) \/ Size(t) >= 4 \/ n \in Limits(t)

stored(t, n) == IF Real(t) THEN n \div real_unit(t) ELSE n

(* What is written to a destination with so much space, and the status *)
cpyTok2(t, token, space) ==
    IF token.kind = "empty" THEN [data |-> <<>>, st |-> "errTok"]
    ELSE IF token.kind = "bad" \/ ~in_range(t, parsed(t, token.v)) THEN [data |-> <<>>, st |-> "errVal"]
    ELSE LET b == ToBytes(stored(t, parsed(t, token.v)), Size(t))
         IN [data |-> SubSeq(b, 1, Min({space, Size(t)})),
             st |-> IF space < Size(t) THEN "errBuf" ELSE "ok"]
-----------------------------------------------------------------------------
Init == /\ type \in Types
        /\ bytes = <<>> /\ text = Token("none", 0)
        /\ back = <<>> /\ st = "none"

(* A number of the type, or of another size, is uploaded and shown *)
Show == /\ text.kind = "none"
        /\ \E v \in Typed, n \in {Size(type), 3}, count \in Rooms :
             /\ bytes' = ToBytes(v, n)
             /\ text' = read2a(type, ToBytes(v, n), count)
        /\ UNCHANGED <<type, back, st>>

(* A number, or something else, is typed *)
Type == /\ text.kind = "none"
        /\ text' \in {Token("typed", v) : v \in Typed} \cup {Token("bad", 0), Token("empty", 0)}
        /\ UNCHANGED <<type, bytes, back, st>>

Scan == /\ text.kind \in {"shown", "typed", "bad", "empty"}
        /\ st = "none"
        /\ \E space \in Spaces :
             LET r == cpyTok2(type, text, space) IN back' = r.data /\ st' = r.st
        /\ UNCHANGED <<type, bytes, text>>

Next == Show \/ Type \/ Scan

Spec == Init /\ [][Next]_vars
-----------------------------------------------------------------------------
(* An integer that is shown and typed in again gives the same bytes.         *)
ShownIntegersComeBack == text.kind = "shown" /\ ~Real(type) /\ st = "ok" => back = bytes

(* The variable of four bytes can hold v *)
fits(t, v) == IF Signed(t) THEN v \in (-(2^(Bits(4) - 1)))..(2^(Bits(4) - 1) - 1)
              ELSE v \in 0..(2^Bits(4) - 1)

(* A number within the limits of its type is taken, as the bytes that stand  *)
(* for it.  A number beyond them is refused when the variable that the       *)
(* function compares can hold it; one that is cut to that variable first may *)
(* come within the limits and is taken.                                      *)
LimitsAreObserved ==
    text.kind = "typed" /\ ~Real(type) /\ st # "none"
      => /\ text.v \in Limits(type) => st \in {"ok", "errBuf"}
         /\ text.v \in Limits(type) /\ st = "ok" => value(type, back) = text.v
         /\ Size(type) <= 2 /\ text.v \notin Limits(type) /\ fits(type, text.v) => st = "errVal"
=============================================================================

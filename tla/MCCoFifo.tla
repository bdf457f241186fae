------------------------------ MODULE MCCoFifo ------------------------------
(***************************************************************************)
(* The circular buffer and the text functions on it for TLC.  A behaviour  *)
(* is about one part; the others stand still.                              *)
(***************************************************************************)
EXTENDS CoFifo

(* The buffer: a letter, a blank and the two delimiters *)
MCText == {<<c>> : c \in Char} \cup {<<"a", "nl">>, <<"hash", "sp">>}
MCCount == {1, 3}

(* Showing: messages of up to five bytes, among them a quote, a NUL and a    *)
(* byte whose high and low bits differ                                       *)
Messages == {<<>>} \cup UNION {[1..n -> {34, 129}] : n \in 1..3}
            \cup {<<97, 0, 34, 13>>, <<255, 129, 7, 64>>, <<1, 2, 3, 4, 5>>}

VARIABLES part,
          msg, format, sent, p_fifo, p_started, p_step, word, out, done,
          case, input, src, dest, copied, s_started, s_step, aux, st, late,
          type, bytes, text, back, n_st

p_vars == <<msg, format, sent, p_fifo, p_started, p_step, word, out, done>>
s_vars == <<case, input, src, dest, copied, s_started, s_step, aux, st, late>>
n_vars == <<type, bytes, text, back, n_st>>

P == INSTANCE CoFifoPrint WITH
       Formats <- {"hex", "vs", "b64"}, FifoSize <- 3, Counts <- {4, 5, 6, 8},
       fifo <- p_fifo, started <- p_started, step <- p_step

T == INSTANCE CoFifoText

(* Scanning: values of up to six bytes, written in each format, with what    *)
(* may follow them: nothing, blanks, a comment, and another command          *)
Values == {<<1>>, <<34>>} \cup [1..2 -> {34, 129}]
          \cup {<<33, 34, 35>>, <<1, 2, 3, 4, 5, 6>>, <<255, 129, 7, 64>>}
Strings == {<<>>, <<97>>, <<34>>, <<97, 32, 34>>, <<34, 34>>, <<35, 97>>}
Command(f, m, after, following) ==
    [format |-> f, text |-> T!Encoded(f, m) \o after, next |-> following, msg |-> m]
\* how the value ends, and what follows
Ends == {<<<<10>>, <<>>>>, <<<<10>>, <<114, 10>>>>, <<<<32, 10>>, <<32, 114, 10>>>>,
         <<<<32, 35, 120, 10>>, <<>>>>, <<<<32, 35, 120, 10>>, <<114, 10>>>>}
Cases == {Command(f, m, e[1], e[2]) : f \in {"hex", "b64"}, m \in Values, e \in Ends}
         \cup {Command("vs", m, e[1], e[2]) : m \in Strings, e \in Ends}
         \cup {[format |-> "hex", text |-> <<49, 32, 97, 50, 10>>, next |-> <<>>, msg |-> <<1, 162>>],
               [format |-> "hex", text |-> <<49, 50, 35, 120, 10>>, next |-> <<114, 10, 114, 10>>, msg |-> <<18>>],
               [format |-> "vs", text |-> <<97, 98, 10>>, next |-> <<>>, msg |-> <<97, 98>>]}

S == INSTANCE CoFifoScan WITH SrcSize <- 6, DestSize <- 4, started <- s_started, step <- s_step

(* Numbers: bytes of two bits, so uint32_t has eight and long sixteen bits;  *)
(* the numbers around every limit of every type.                             *)
Typed == UNION {{v - 1, v, v + 1, -v, -v - 1, 1 - v} :
                  v \in {0, 2, 2^2, 2^3, 2^4, 2^6, 2^7, 2^8, 2^15, 2^16}}

N == INSTANCE CoFifoNumbers WITH
       ByteBits <- 2, Rooms <- {5, 6, 8, 12, 13, 20, 23, 30}, Spaces <- {0, 1, 3, 8},
       Types <- {"u8", "u16", "u32", "u64", "x8", "x16", "x32", "x64",
                 "i8", "i16", "i32", "i64", "r32", "r64"},
       st <- n_st

NoPrint == /\ msg = 0 /\ format = 0 /\ sent = 0 /\ p_fifo = 0 /\ p_started = 0
           /\ p_step = 0 /\ word = 0 /\ out = 0 /\ done = 0
NoScan == /\ case = 0 /\ input = 0 /\ src = 0 /\ dest = 0 /\ copied = 0
          /\ s_started = 0 /\ s_step = 0 /\ aux = 0 /\ st = 0 /\ late = FALSE
NoNumber == type = 0 /\ bytes = 0 /\ text = 0 /\ back = 0 /\ n_st = 0

MCInit ==
    /\ Init
    /\ \/ part = "queue" /\ NoPrint /\ NoScan /\ NoNumber
       \/ part = "print" /\ P!Init /\ NoScan /\ NoNumber
       \/ part = "scan" /\ NoPrint /\ S!Init /\ NoNumber
       \/ part = "numbers" /\ NoPrint /\ NoScan /\ N!Init

Queue == part = "queue" /\ Next /\ UNCHANGED <<part, p_vars, s_vars, n_vars>>
Showing == part = "print" /\ P!Next /\ UNCHANGED <<part, vars, s_vars, n_vars>>
Scanning == part = "scan" /\ S!Next /\ UNCHANGED <<part, vars, p_vars, n_vars>>
Numbers == part = "numbers" /\ N!Next /\ UNCHANGED <<part, vars, p_vars, s_vars>>

MCSpec == MCInit /\ [][Queue \/ Showing \/ Scanning \/ Numbers]_<<part, vars, p_vars, s_vars, n_vars>>
-----------------------------------------------------------------------------
(* The text that is shown is a beginning of the encoded message, and with    *)
(* hex digits it becomes the whole of it.                                    *)
PrintsThePrefix == part = "print" => P!PrintsThePrefix /\ (format = "hex" => P!PrintsTheWhole)

(* CO_fifo.h:411 "A visible string is enclosed with double quotes" and line  *)
(* 416 "Encoding is as specified in RFC 2045": the text becomes complete.    *)
PrintsTheWhole == part = "print" => P!PrintsTheWhole

(* A well-formed text gives its bytes, and the next command stays in the     *)
(* source.                                                                   *)
ScansTheValue == part = "scan" => S!ScansTheValue /\ S!NextCommandIsKept

(* Integers come back from their text, and the limits of their types hold.   *)
NumbersKeepTheirValue == part = "numbers" => N!ShownIntegersComeBack /\ N!LimitsAreObserved
=============================================================================

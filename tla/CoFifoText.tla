---------------------------- MODULE CoFifoText ----------------------------
(* The text formats in which the gateway shows and takes data (301/CO_fifo.h *)
(* lines 393-470): bytes as hex digits, visible strings in quotes, base64.   *)
(* A character is its ASCII code.  The Encoded operators define the formats; *)
(* CoFifoPrint and CoFifoScan compare the loops of CO_fifo.c with them.      *)
EXTENDS Integers, Sequences, SequencesExt, FiniteSetsExt, Folds

DELIM_COMMAND == 10
DELIM_COMMENT == 35
DELIM_DQUOTE == 34
SPACE == 32
PAD == 61

isgraph(c) == c \in 33..126

isxdigit(c) == c \in (48..57) \cup (65..70) \cup (97..102)

xdigit(c) == CASE c \in 48..57 -> c - 48 [] c \in 65..70 -> c - 55 [] OTHER -> c - 87

hexdigit(v) == IF v < 10 THEN 48 + v ELSE 55 + v

base64EncTable == [v \in 0..63 |-> CASE v \in 0..25 -> 65 + v [] v \in 26..51 -> 71 + v
                                     [] v \in 52..61 -> v - 4 [] v = 62 -> 43 [] OTHER -> 47]

(* 100 is a pad, 101 to 103 are the delimiter and blanks, 255 is not allowed *)
base64DecTable(c) ==
    CASE c \in 65..90 -> c - 65 [] c \in 97..122 -> c - 71 [] c \in 48..57 -> c + 4
      [] c = 43 -> 62 [] c = 47 -> 63 [] c = PAD -> 100 [] c = DELIM_COMMAND -> 101
      [] c = 13 -> 102 [] c \in {9, SPACE} -> 103 [] OTHER -> 255

(* Two digits for every byte, separated by one blank *)
EncodedHex(msg) ==
    FlattenSeq([i \in 1..Len(msg) |->
        (IF i = 1 THEN <<>> ELSE <<SPACE>>) \o <<hexdigit(msg[i] \div 16), hexdigit(msg[i] % 16)>>])

(* NUL and CR do not appear, and a quote is doubled *)
EncodedVs(msg) ==
    <<DELIM_DQUOTE>>
    \o FlattenSeq([i \in 1..Len(msg) |-> IF msg[i] \in {0, 13} THEN <<>>
                                         ELSE IF msg[i] = DELIM_DQUOTE THEN <<DELIM_DQUOTE, DELIM_DQUOTE>>
                                         ELSE <<msg[i]>>])
    \o <<DELIM_DQUOTE>>

(* The bits of the message in groups of six, with pads up to a multiple of   *)
(* four characters                                                           *)
EncodedB64(msg) ==
    LET bit(b) == IF b < 8 * Len(msg) THEN (msg[b \div 8 + 1] \div 2^(7 - (b % 8))) % 2 ELSE 0
        groups == (8 * Len(msg) + 5) \div 6
        group(g) == MapThenSumSet(LAMBDA j : bit(6 * g + j) * 2^(5 - j), 0..5)
    IN [i \in 1..(4 * ((Len(msg) + 2) \div 3)) |->
          IF i <= groups THEN base64EncTable[group(i - 1)] ELSE PAD]

Encoded(format, msg) == CASE format = "hex" -> EncodedHex(msg)
                          [] format = "vs" -> EncodedVs(msg)
                          [] OTHER -> EncodedB64(msg)
=============================================================================

---------------------------- MODULE CoFifoPrint ----------------------------
(* Showing uploaded data as text: CO_fifo_readHex2a, readVs2a and readB642a  *)
(* of 301/CO_fifo.c, called by the gateway (309/CO_gateway_ascii.c, state    *)
(* CO_GTWA_ST_READ) each time the SDO client's buffer is full and until it   *)
(* is empty at the end.  Each call has a limited buffer; what is left over   *)
(* is kept in started and aux of the fifo.                                   *)
EXTENDS CoFifoText

CONSTANTS Messages,     \* the data that may be uploaded
          Formats,      \* "hex", "vs", "b64"
          FifoSize,     \* how much the SDO client's buffer holds
          Counts        \* the room that a call may have

VARIABLES msg, format, sent,      \* what is uploaded, and how much has arrived
          fifo,                   \* the data in the SDO client's buffer
          started, step, word,    \* of CO_fifo_t; step and word are in aux
          out,                    \* the text so far
          done                    \* the gateway has gone idle

vars == <<msg, format, sent, fifo, started, step, word, out, done>>

Init == /\ msg \in Messages
        /\ format \in Formats
        /\ sent = 0 /\ fifo = <<>>
        /\ started = FALSE /\ step = 0 /\ word = 0
        /\ out = <<>> /\ done = FALSE

(* A call in progress: the fifo, what is kept in it, and the text *)
Call == [fifo |-> fifo, started |-> started, step |-> step, word |-> word, buf |-> <<>>, stop |-> FALSE]

(* turn is repeated while the condition of its loop holds *)
repeat(turn(_), c) == FoldLeft(LAMBDA a, i : IF a.stop THEN a ELSE turn(a), c,
                               [i \in 1..(Len(c.fifo) + 1) |-> i])

hex(v) == <<hexdigit(v \div 16), hexdigit(v % 16)>>

is_first(c) == ~c.started /\ c.fifo # <<>>

readHex2a(c, count) ==
    LET first == IF is_first(c)
                 THEN [c EXCEPT !.fifo = Tail(@), !.buf = hex(Head(c.fifo)), !.started = TRUE]
                 ELSE c
        turn(a) == IF Len(a.buf) + 3 >= count \/ a.fifo = <<>> THEN [a EXCEPT !.stop = TRUE]
                   ELSE [a EXCEPT !.fifo = Tail(@), !.buf = @ \o <<SPACE>> \o hex(Head(a.fifo))]
    IN IF count > 3 THEN repeat(turn, first) ELSE c

readVs2a(c, count, end) ==
    LET first == IF c.started THEN c ELSE [c EXCEPT !.buf = <<DELIM_DQUOTE>>, !.started = TRUE]
        put(a) == CASE Head(a.fifo) \in {0, 13} -> a.buf
                    [] Head(a.fifo) = DELIM_DQUOTE -> a.buf \o <<DELIM_DQUOTE, DELIM_DQUOTE>>
                    [] OTHER -> Append(a.buf, Head(a.fifo))
        turn(a) == IF Len(a.buf) + 2 >= count THEN [a EXCEPT !.stop = TRUE]
                   ELSE IF a.fifo = <<>>
                   THEN [a EXCEPT !.stop = TRUE, !.buf = IF end THEN Append(@, DELIM_DQUOTE) ELSE @]
                   ELSE [a EXCEPT !.fifo = Tail(@), !.buf = put(a)]
    IN IF count > 3 THEN repeat(turn, first) ELSE c

sextet(w, shift) == base64EncTable[(w \div 2^shift) % 64]

next_step(st) == IF st >= 2 THEN 0 ELSE st + 1

(* Mutant of left_over: the bits of the last byte are not kept *)
left_over_forgets(w) == 0

left_over(w) == (w * 256) % 65536

readB642a(c, count, end) ==
    LET first == IF c.started THEN c ELSE [c EXCEPT !.started = TRUE, !.step = 0, !.word = 0]
        pads(a) == CASE a.step = 1 -> <<sextet(a.word, 4), PAD, PAD>>
                     [] a.step = 2 -> <<sextet(a.word, 6), PAD>>
                     [] OTHER -> <<>>
        put(s, w) == CASE s = 0 -> <<sextet(w, 2)>>
                       [] s = 1 -> <<sextet(w, 4)>>
                       [] OTHER -> <<sextet(w, 6), sextet(w, 0)>>
        turn(a) ==
          IF Len(a.buf) + 3 > count THEN [a EXCEPT !.stop = TRUE]
          ELSE IF a.fifo = <<>> THEN [a EXCEPT !.stop = TRUE, !.buf = IF end THEN @ \o pads(a) ELSE @]
          ELSE LET w == a.word + Head(a.fifo)
               IN [a EXCEPT !.fifo = Tail(@), !.buf = @ \o put(a.step, w),
                            !.step = next_step(a.step), !.word = left_over(w)]
    IN IF count >= 4 THEN repeat(turn, first) ELSE c

dataTypePrint(c, count, end) == CASE format = "hex" -> readHex2a(c, count)
                                  [] format = "vs" -> readVs2a(c, count, end)
                                  [] OTHER -> readB642a(c, count, end)
-----------------------------------------------------------------------------
(* The SDO client puts received data into its buffer *)
Upload(n) == /\ ~done
             /\ n <= FifoSize - Len(fifo)
             /\ sent + n <= Len(msg)
             /\ fifo' = fifo \o SubSeq(msg, sent + 1, sent + n)
             /\ sent' = sent + n
             /\ UNCHANGED <<msg, format, started, step, word, out, done>>

(* One turn of the gateway's loop: ret is CO_SDO_RT_ok_communicationEnd when *)
(* all data has arrived, CO_SDO_RT_uploadDataBufferFull before               *)
Show(count) ==
    /\ ~done
    /\ \/ sent = Len(msg)
       \/ fifo # <<>>
    /\ \E c \in {dataTypePrint(Call, count, sent = Len(msg))} :
         /\ out' = out \o c.buf
         /\ fifo' = c.fifo
         /\ started' = c.started /\ step' = c.step /\ word' = c.word
         /\ done' = (sent = Len(msg) /\ c.fifo = <<>>)
    /\ UNCHANGED <<msg, format, sent>>

Next == \/ \E n \in 1..FifoSize : Upload(n)
        \/ \E count \in Counts : Show(count)

Spec == Init /\ [][Next]_vars
-----------------------------------------------------------------------------
(* However the data and the room for text come in pieces, the text is a      *)
(* beginning of the encoded message: no byte is lost, doubled or encoded     *)
(* with the bits of another one.                                             *)
PrintsThePrefix == IsPrefix(out, Encoded(format, msg))

(* CO_fifo.h:411 says of readVs2a: "A visible string is enclosed with double *)
(* quotes", and line 416 of readB642a: "Encoding is as specified in RFC      *)
(* 2045": when the gateway ends its response, the text is complete.          *)
PrintsTheWhole == done => out = Encoded(format, msg)
=============================================================================

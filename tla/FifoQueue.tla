----------------------------- MODULE FifoQueue -----------------------------
(* What CO_fifo.h promises of a fifo: a bounded queue of characters from    *)
(* which bytes, commands and tokens are taken, with a second reader that    *)
(* runs ahead of the first between CO_fifo_altBegin and CO_fifo_altFinish.  *)
(* Every operation is described by the part of the queue that it takes;     *)
(* CoFifo shows that the ring buffer does just that.                        *)
EXTENDS Integers, Sequences, SequencesExt, FiniteSetsExt

CONSTANTS Char,      \* the characters
          Capacity,  \* how many the queue holds
          NL,        \* DELIM_COMMAND
          HASH,      \* DELIM_COMMENT
          Blank,     \* the other characters that are not isgraph()
          Text,      \* what may be written in one call
          Count      \* the counts and offsets of a call

VARIABLES q,         \* the queue
          ahead,     \* how far the second reader is ahead, -1 when not in use
          res        \* what the last call returned

vars == <<q, ahead, res>>

Plain == Char \ ({NL, HASH} \cup Blank)

(* The results of a call: a number, characters, and two truth values *)
Ret(n, data, a, b) == [n |-> n, data |-> data, a |-> a, b |-> b]

From(i) == SubSeq(q, i, Len(q))

(* The first position from i on whose character is in S, 0 if there is none *)
First(S, i) == LET at == {j \in i..Len(q) : q[j] \in S}
               IN IF at = {} THEN 0 ELSE Min(at)

Init == /\ q = <<>>
        /\ ahead = -1
        /\ res = Ret(0, <<>>, FALSE, FALSE)

Write(s) == LET n == Min({Len(s), Capacity - Len(q)})
            IN /\ q' = q \o SubSeq(s, 1, n)
               /\ res' = Ret(n, <<>>, FALSE, FALSE)
               /\ UNCHANGED ahead

(* CO_fifo_putc_ov gives up the oldest character *)
Overwrite(c) == /\ ahead = -1
                /\ q' = LET n == Append(q, c) IN IF Len(n) > Capacity THEN Tail(n) ELSE n
                /\ res' = Ret(0, <<>>, FALSE, FALSE)
                /\ UNCHANGED ahead

(* CO_fifo_read stops after a delimiter, if the caller asks for that *)
Read(n, toDelimiter) ==
    LET last == IF toDelimiter /\ First({NL}, 1) \in 1..n THEN First({NL}, 1) ELSE Min({n, Len(q)})
    IN /\ ahead = -1
       /\ res' = Ret(last, SubSeq(q, 1, last), toDelimiter /\ last > 0 /\ q[last] = NL, FALSE)
       /\ q' = From(last + 1)
       /\ UNCHANGED ahead

Clear == /\ ahead = -1
         /\ q' = <<>>
         /\ res' = Ret(0, <<>>, q # <<>>, FALSE)
         /\ UNCHANGED ahead

AltBegin(n) == /\ ahead' = Min({n, Len(q)})
               /\ res' = Ret(Min({n, Len(q)}), <<>>, FALSE, FALSE)
               /\ UNCHANGED q

AltRead(n) == LET last == Min({ahead + n, Len(q)})
              IN /\ ahead >= 0
                 /\ res' = Ret(last - ahead, SubSeq(q, ahead + 1, last), FALSE, FALSE)
                 /\ ahead' = last
                 /\ UNCHANGED q

(* The bytes that were read ahead leave the queue and enter the checksum *)
AltFinish == /\ ahead >= 0
             /\ res' = Ret(0, SubSeq(q, 1, ahead), FALSE, FALSE)
             /\ q' = From(ahead + 1)
             /\ ahead' = -1

(* A command is there when its delimiter is, or when there is no more room *)
Searched(s) == NL \in ToSet(s) \/ Len(s) = Capacity

AfterCommand(i) == LET nl == First({NL}, i) IN IF nl = 0 THEN <<>> ELSE From(nl + 1)

CommSearch(clear) == /\ ahead = -1
                     /\ res' = Ret(0, <<>>, Searched(q), FALSE)
                     /\ q' = IF clear THEN AfterCommand(1) ELSE q
                     /\ UNCHANGED ahead

(* Blanks and comments are removed up to a character of the next token or   *)
(* up to and including the delimiter.                                       *)
TrimSpaces(inside) ==
    LET comment(i) == inside \/ First({HASH}, 1) \in 1..(i - 1)
        stops == {i \in 1..Len(q) : q[i] = NL \/ (q[i] \in Plain /\ ~comment(i))}
        stop == IF stops = {} THEN Len(q) + 1 ELSE Min(stops)
        closed == stop <= Len(q) /\ q[stop] = NL
    IN /\ ahead = -1
       /\ q' = From(IF closed THEN stop + 1 ELSE stop)
       /\ res' = Ret(0, <<>>, closed, ~closed /\ comment(stop))
       /\ UNCHANGED ahead

(* The token between i and j - 1 is taken; what follows it up to k is        *)
(* skipped: k is at the next token, at a delimiter, at a comment, or 0.      *)
ReadToken(count, expect) ==
    LET i == First(Char \ Blank, 1)
        j == IF i = 0 \/ q[i] \notin Plain THEN i ELSE First(Char \ Plain, i)
        k == IF j = 0 THEN 0 ELSE First(Char \ Blank, j)
        size == IF j = 0 THEN 0 ELSE Min({j - i, count})
        comment == k > 0 /\ q[k] = HASH
        found == k > 0 /\ (q[k] = NL \/ (comment /\ Searched(From(k))))
    IN /\ ahead = -1
       /\ count > 1
       /\ q' = CASE j = 0 -> q                \* no token, or one whose end is not seen
                 [] j > 0 /\ k = 0 -> <<>>
                 [] k > 0 /\ q[k] = NL -> From(k + 1)
                 [] comment -> AfterCommand(k)
                 [] OTHER -> From(k)
       /\ res' = Ret(IF size = count THEN 0 ELSE size,
                     IF size = count THEN <<>> ELSE SubSeq(q, i, i + size - 1),
                     found,
                     \/ size = count
                     \/ expect = 1 /\ (~found \/ size = 0)
                     \/ expect = 0 /\ (found \/ size = 0))
       /\ UNCHANGED ahead

(* The room that is left, what there is to read, and what there is to read   *)
(* ahead.  The truth values say what was asked for.                          *)
GetSize == /\ \/ res' = Ret(Capacity - Len(q), <<>>, FALSE, FALSE)
              \/ res' = Ret(Len(q), <<>>, TRUE, FALSE)
              \/ ahead >= 0 /\ res' = Ret(Len(q) - ahead, <<>>, FALSE, TRUE)
           /\ UNCHANGED <<q, ahead>>

Next == \/ \E s \in Text : Write(s)
        \/ \E c \in Char : Overwrite(c)
        \/ \E n \in Count, toDelimiter \in BOOLEAN : Read(n, toDelimiter)
        \/ Clear
        \/ \E n \in Count : AltBegin(n) \/ AltRead(n)
        \/ AltFinish \/ GetSize
        \/ \E clear \in BOOLEAN : CommSearch(clear)
        \/ \E inside \in BOOLEAN : TrimSpaces(inside)
        \/ \E count \in Count, expect \in {0, 1, 255} : ReadToken(count, expect)

Spec == Init /\ [][Next]_vars
=============================================================================

------------------------------- MODULE CoFifo -------------------------------
(* The circular buffer of CANopenNode (301/CO_fifo.c, 301/CO_fifo.h): one    *)
(* place of the buffer stays empty, readPtr = writePtr means empty.  Bytes,  *)
(* commands and tokens are found by walking the buffer with a pointer that   *)
(* wraps.  The module refines FifoQueue.                                     *)
EXTENDS Integers, Sequences, FiniteSetsExt

CONSTANTS bufSize,                    \* size of the buffer, usable is one less
          Char, NL, HASH, Blank,      \* as in FifoQueue
          Text, Count

ASSUME SizeAssumption == bufSize \in Nat /\ bufSize >= 2
\* The delimiters are two characters, and neither is a blank.
ASSUME CharAssumption == /\ {NL, HASH} \subseteq Char /\ NL # HASH
                         /\ Blank \subseteq Char \ {NL, HASH}
ASSUME CallsAssumption == Text \subseteq Seq(Char) /\ Count \subseteq Nat

VARIABLES fifo,      \* CO_fifo_t
          alt,       \* an alternate read is in progress
          res        \* what the last call returned

vars == <<fifo, alt, res>>

(* The results of a call: a number, characters, and two truth values *)
Ret(n, data, a, b) == [n |-> n, data |-> data, a |-> a, b |-> b]

Place == 0..(bufSize - 1)

CO_fifo_t == [buf: [Place -> Char], writePtr: Place, readPtr: Place, altReadPtr: Place]

next(p) == IF p + 1 = bufSize THEN 0 ELSE p + 1

(* The place that is i steps from p *)
place(p, i) == IF p + i < bufSize THEN p + i ELSE p + i - bufSize

isgraph(c) == c \notin Blank \cup {NL}

between(from, to) == LET d == to - from IN IF d < 0 THEN d + bufSize ELSE d

CO_fifo_getSpace(f) == LET d == f.readPtr - f.writePtr - 1 IN IF d < 0 THEN d + bufSize ELSE d

CO_fifo_getOccupied(f) == between(f.readPtr, f.writePtr)

CO_fifo_altGetOccupied(f) == between(f.altReadPtr, f.writePtr)

(* p after n steps, not beyond writePtr *)
advance(f, p) == IF p = f.writePtr THEN p ELSE next(p)

forward(f, p, n) == LET run[i \in 0..n] == IF i = 0 THEN p ELSE advance(f, run[i - 1])
                    IN run[n]

(* The characters that a pointer meets from p up to, but not including, e *)
walked(f, p, e) == [i \in 1..between(p, e) |-> f.buf[place(p, i - 1)]]

(* Mutant of CO_fifo_putc: the place that is kept empty at the end of the    *)
(* buffer is used                                                            *)
CO_fifo_putc_no_wrap_check(f, c) ==
    IF f.writePtr + 1 # f.readPtr
    THEN [f EXCEPT !.buf[f.writePtr] = c, !.writePtr = next(f.writePtr)]
    ELSE f

CO_fifo_putc(f, c) ==
    IF f.writePtr + 1 # f.readPtr /\ ~(f.writePtr + 1 = bufSize /\ f.readPtr = 0)
    THEN [f EXCEPT !.buf[f.writePtr] = c, !.writePtr = next(f.writePtr)]
    ELSE f

CO_fifo_write(f, s) ==
    LET run[i \in 0..Len(s)] == IF i = 0 THEN f ELSE CO_fifo_putc(run[i - 1], s[i])
    IN run[Len(s)]

CO_fifo_putc_ov(f, c) ==
    LET w == next(f.writePtr)
    IN [f EXCEPT !.buf[f.writePtr] = c, !.writePtr = w,
                 !.readPtr = IF f.readPtr = w THEN next(f.readPtr) ELSE f.readPtr]

(* One turn of the loop of CO_fifo_read, which stops after a delimiter if    *)
(* the caller asks for that                                                  *)
read_step(f, toDelimiter, t) ==
    IF t.eof \/ t.ptr = f.writePtr THEN t
    ELSE [ptr |-> next(t.ptr), eof |-> toDelimiter /\ f.buf[t.ptr] = NL]

CO_fifo_read(f, n, toDelimiter) ==
    LET run[i \in 0..n] == IF i = 0 THEN [ptr |-> f.readPtr, eof |-> FALSE]
                           ELSE read_step(f, toDelimiter, run[i - 1])
    IN run[n]

-----------------------------------------------------------------------------
Init == /\ fifo \in {[buf |-> [p \in Place |-> NL], writePtr |-> 0, readPtr |-> 0, altReadPtr |-> 0]}
        /\ alt = FALSE
        /\ res = Ret(0, <<>>, FALSE, FALSE)

Write(s) == LET f == CO_fifo_write(fifo, s)
            IN /\ fifo' = f
               /\ res' = Ret(between(fifo.writePtr, f.writePtr), <<>>, FALSE, FALSE)
               /\ UNCHANGED alt

Overwrite(c) == /\ ~alt
                /\ fifo' = CO_fifo_putc_ov(fifo, c)
                /\ res' = Ret(0, <<>>, FALSE, FALSE)
                /\ UNCHANGED alt

(* CO_fifo_read, and CO_fifo_getc with n = 1 *)
Read(n, toDelimiter) ==
    LET t == CO_fifo_read(fifo, n, toDelimiter)
        data == walked(fifo, fifo.readPtr, t.ptr)
    IN /\ ~alt
       /\ fifo' = [fifo EXCEPT !.readPtr = t.ptr]
       /\ res' = Ret(Len(data), data, t.eof, FALSE)
       /\ UNCHANGED alt

(* CO_fifo_reset and CO_fifo_purge; purge leaves the pointers of an empty    *)
(* buffer alone                                                              *)
Clear == /\ ~alt
         /\ \E purge \in BOOLEAN :
              fifo' = IF purge /\ fifo.readPtr = fifo.writePtr THEN fifo
                      ELSE [fifo EXCEPT !.readPtr = 0, !.writePtr = 0]
         /\ res' = Ret(0, <<>>, fifo.readPtr # fifo.writePtr, FALSE)
         /\ UNCHANGED alt

AltBegin(n) == LET to == forward(fifo, fifo.readPtr, n)
               IN /\ fifo' = [fifo EXCEPT !.altReadPtr = to]
                  /\ res' = Ret(between(fifo.readPtr, to), <<>>, FALSE, FALSE)
                  /\ alt' = TRUE

AltRead(n) == LET to == forward(fifo, fifo.altReadPtr, n)
              IN /\ alt
                 /\ fifo' = [fifo EXCEPT !.altReadPtr = to]
                 /\ res' = Ret(between(fifo.altReadPtr, to), walked(fifo, fifo.altReadPtr, to), FALSE, FALSE)
                 /\ UNCHANGED alt

(* The characters that enter the checksum are the result *)
AltFinish == /\ alt
             /\ fifo' = [fifo EXCEPT !.readPtr = fifo.altReadPtr]
             /\ res' = Ret(0, walked(fifo, fifo.readPtr, fifo.altReadPtr), FALSE, FALSE)
             /\ alt' = FALSE

(* memchr over buf[from .. from + count - 1], -1 when there is no delimiter *)
memchr(f, from, count) == LET at == {p \in from..(from + count - 1) : f.buf[p] = NL}
                          IN IF at = {} THEN -1 ELSE Min(at)

(* The search in the first part of the data, and in the second when the data *)
(* wraps                                                                     *)
commandEnd(f) ==
    LET count == IF f.readPtr < f.writePtr THEN f.writePtr - f.readPtr ELSE bufSize - f.readPtr
        end1 == memchr(f, f.readPtr, count)
    IN IF end1 # -1 \/ f.readPtr < f.writePtr THEN end1 ELSE memchr(f, 0, f.writePtr)

CO_fifo_CommSearch(f) ==
    /\ f.readPtr # f.writePtr
    /\ \/ commandEnd(f) # -1
       \/ f.readPtr > f.writePtr /\ f.readPtr = f.writePtr + 1
       \/ f.readPtr = 0 /\ f.writePtr = bufSize - 1

cleared(f) == [f EXCEPT !.readPtr = IF f.readPtr = f.writePtr \/ commandEnd(f) = -1 THEN f.writePtr
                                    ELSE next(commandEnd(f))]

CommSearch(clear) == /\ ~alt
                     /\ res' = Ret(0, <<>>, CO_fifo_CommSearch(fifo), FALSE)
                     /\ fifo' = IF clear THEN cleared(fifo) ELSE fifo
                     /\ UNCHANGED alt

(* One turn of the loop of CO_fifo_trimSpaces *)
trim(f, t) ==
    LET c == f.buf[t.ptr]
        inside == t.inside \/ c = HASH
    IN IF t.ptr = f.writePtr \/ t.stop THEN t
       ELSE IF isgraph(c) /\ ~inside THEN [t EXCEPT !.stop = TRUE]
       ELSE [ptr |-> next(t.ptr), inside |-> inside /\ c # NL, stop |-> c = NL, found |-> c = NL]

CO_fifo_trimSpaces(f, insideComment) ==
    LET run[i \in 0..bufSize] ==
            IF i = 0 THEN [ptr |-> f.readPtr, inside |-> insideComment, stop |-> FALSE, found |-> FALSE]
            ELSE trim(f, run[i - 1])
    IN run[bufSize]

TrimSpaces(inside) == LET t == CO_fifo_trimSpaces(fifo, inside)
                      IN /\ ~alt
                         /\ fifo' = [fifo EXCEPT !.readPtr = t.ptr]
                         /\ res' = Ret(0, <<>>, t.found, t.inside)
                         /\ UNCHANGED alt
-----------------------------------------------------------------------------
(* CO_fifo_readToken: steps 0 before, 1 inside and 2 after the token.  The   *)
(* walk t ends with readPtr in t.to; at the end of the data an unfinished    *)
(* token is left in the buffer.                                              *)
token_step(f, count, t) ==
    LET c == f.buf[t.ptr]
        comment == isgraph(c) /\ c = HASH
        taken == isgraph(c) /\ ~comment /\ t.step <= 1
        step == IF taken THEN 1 ELSE IF ~isgraph(c) /\ t.step = 1 THEN 2 ELSE t.step
        token == IF taken /\ Len(t.token) < count THEN Append(t.token, c) ELSE t.token
        u == [t EXCEPT !.step = step, !.token = token, !.ptr = next(t.ptr)]
        from == [f EXCEPT !.readPtr = t.ptr]
    IN IF t.finished THEN t
       ELSE IF comment
       THEN [t EXCEPT !.finished = TRUE, !.found = CO_fifo_CommSearch(from), !.to = cleared(from).readPtr]
       ELSE IF c = NL THEN [u EXCEPT !.finished = TRUE, !.found = TRUE, !.to = u.ptr]
       ELSE IF isgraph(c) /\ t.step = 2 THEN [t EXCEPT !.finished = TRUE, !.to = t.ptr]
       ELSE IF u.ptr # f.writePtr THEN u
       ELSE IF step = 2 THEN [u EXCEPT !.finished = TRUE, !.to = u.ptr]
       ELSE [u EXCEPT !.finished = TRUE, !.token = <<>>]

CO_fifo_readToken(f, count, expect) ==
    LET run[i \in 0..bufSize] ==
            IF i = 0 THEN [ptr |-> f.readPtr, step |-> 0, token |-> <<>>, found |-> FALSE,
                           finished |-> f.readPtr = f.writePtr, to |-> f.readPtr]
            ELSE token_step(f, count, run[i - 1])
        t == run[bufSize]
    IN [to |-> t.to,
        ret |-> Ret(IF Len(t.token) = count THEN 0 ELSE Len(t.token),
                    IF Len(t.token) = count THEN <<>> ELSE t.token,
                    t.found,
                    \/ Len(t.token) = count
                    \/ expect = 1 /\ (~t.found \/ t.token = <<>>)
                    \/ expect = 0 /\ (t.found \/ t.token = <<>>))]

ReadToken(count, expect) ==
    /\ ~alt
    /\ count > 1
    /\ \E t \in {CO_fifo_readToken(fifo, count, expect)} :
         /\ fifo' = [fifo EXCEPT !.readPtr = t.to]
         /\ res' = t.ret
    /\ UNCHANGED alt

(* The truth values say what was asked for. *)
GetSize == /\ \/ res' = Ret(CO_fifo_getSpace(fifo), <<>>, FALSE, FALSE)
              \/ res' = Ret(CO_fifo_getOccupied(fifo), <<>>, TRUE, FALSE)
              \/ alt /\ res' = Ret(CO_fifo_altGetOccupied(fifo), <<>>, FALSE, TRUE)
           /\ UNCHANGED <<fifo, alt>>

Next == \/ \E s \in Text : Write(s)
        \/ \E c \in Char : Overwrite(c)
        \/ \E n \in Count, toDelimiter \in BOOLEAN : Read(n, toDelimiter)
        \/ Clear
        \/ \E n \in Count : AltBegin(n) \/ AltRead(n)
        \/ AltFinish \/ GetSize
        \/ \E clear \in BOOLEAN : CommSearch(clear)
        \/ \E inside \in BOOLEAN : TrimSpaces(inside)
        \/ \E count \in Count, expect \in {0, 1, 255} : ReadToken(count, expect)

Spec == Init /\ [][Next]_vars
-----------------------------------------------------------------------------
(* The buffer is a bounded queue: every call returns, and leaves in the      *)
(* buffer, what FifoQueue says, wherever the data wraps in the buffer.       *)
contents(f) == walked(f, f.readPtr, f.writePtr)

Q == INSTANCE FifoQueue WITH
       q <- contents(fifo),
       ahead <- IF alt THEN between(fifo.readPtr, fifo.altReadPtr) ELSE -1,
       Capacity <- bufSize - 1

ImplementsQueue == Q!Spec
=============================================================================

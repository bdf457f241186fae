----------------------------- MODULE CoFifoScan -----------------------------
(* Taking data from text: CO_fifo_cpyTok2Hex, cpyTok2Vs and cpyTok2B64 of    *)
(* 301/CO_fifo.c.  The command arrives in pieces and the destination, the    *)
(* SDO client's buffer, is emptied in pieces; what is known between two      *)
(* calls is in started and aux of the destination (step, first character or  *)
(* dword).  The text of the value ends with the command's delimiter; another *)
(* command may follow in the source.                                         *)
EXTENDS CoFifoText

CONSTANTS Cases,       \* what is typed: [format, text, next, msg]
          SrcSize,     \* how much the source holds
          DestSize     \* how much the destination holds

VARIABLES case,        \* the command that is typed
          input,       \* what is still to be typed
          src,         \* the source
          dest,        \* how much is in the destination
          copied,      \* everything that was written to the destination
          started, step, aux,
          st,          \* status of the last call: "none", "partial", "closed", "errTok"
          late         \* history: a delimiter was read in step 6

vars == <<case, input, src, dest, copied, started, step, aux, st, late>>

Init == /\ case \in Cases
        /\ input = case.text \o case.next
        /\ src = <<>> /\ dest = 0 /\ copied = <<>>
        /\ started = FALSE /\ step = 0 /\ aux = 0
        /\ st = "none" /\ late = FALSE

(* CO_fifo_trimSpaces, as FifoQueue describes it: what is left of s, whether *)
(* the delimiter was found, and whether s ends inside a comment              *)
trimSpaces(s, inside) ==
    LET comment(i) == inside \/ \E j \in 1..(i - 1) : s[j] = DELIM_COMMENT
        stops == {i \in 1..Len(s) : \/ s[i] = DELIM_COMMAND
                                    \/ isgraph(s[i]) /\ s[i] # DELIM_COMMENT /\ ~comment(i)}
        stop == IF stops = {} THEN Len(s) + 1 ELSE Min(stops)
        found == stop <= Len(s) /\ s[stop] = DELIM_COMMAND
    IN [rest |-> SubSeq(s, IF found THEN stop + 1 ELSE stop, Len(s)),
        found |-> found, inside |-> ~found /\ comment(stop)]

(* A call in progress *)
Call == [src |-> src, data |-> <<>>, step |-> step, aux |-> aux, st |-> "partial", late |-> late]

(* Mutant of trimmed: after the delimiter a comment is assumed *)
trimmed_beyond(a, c, inside, otherwise) ==
    LET t == trimSpaces(a.src, inside \/ c = DELIM_COMMAND)
    IN [a EXCEPT !.src = t.rest,
                 !.st = IF t.found \/ c = DELIM_COMMAND THEN "closed" ELSE @,
                 !.step = IF t.inside THEN 6 ELSE otherwise]

(* The rest of the command is trimmed after c; then it is either closed, or  *)
(* in a comment, or in step `otherwise'                                      *)
trimmed(a, c, inside, otherwise) ==
    LET t == trimSpaces(a.src, inside)
    IN [a EXCEPT !.src = t.rest,
                 !.st = IF t.found \/ c = DELIM_COMMAND THEN "closed" ELSE @,
                 !.step = IF t.inside THEN 6 ELSE otherwise]

(* One character of hex digits *)
on_hex(a, c) ==
    CASE a.step = 6 -> trimmed(a, c, TRUE, 6)
      [] a.step # 6 /\ isxdigit(c) ->
           IF a.step = 0 THEN [a EXCEPT !.aux = c, !.step = 1]
           ELSE [a EXCEPT !.data = Append(@, 16 * xdigit(a.aux) + xdigit(c)), !.step = 0]
      [] a.step # 6 /\ ~isxdigit(c) /\ isgraph(c) ->
           IF c = DELIM_COMMENT THEN [a EXCEPT !.step = 6] ELSE [a EXCEPT !.st = "errTok"]
      [] OTHER ->
           trimmed([a EXCEPT !.data = IF a.step = 1 THEN Append(@, xdigit(a.aux)) ELSE @], c, FALSE, 0)

(* One character of a visible string.  Steps: 0 start, 1 in a quoted and 2   *)
(* in an unquoted string, 3 and 4 after a quote in them, 5 after the string, *)
(* 6 in a comment                                                            *)
on_vs(a, c) ==
    CASE a.step = 0 -> IF c = DELIM_DQUOTE THEN [a EXCEPT !.step = 1]
                       ELSE [a EXCEPT !.data = Append(@, c), !.step = 2]
      [] a.step \in {1, 2} /\ c = DELIM_DQUOTE -> [a EXCEPT !.step = @ + 2]
      [] a.step = 2 /\ c # DELIM_DQUOTE /\ ~isgraph(c) -> trimmed(a, c, FALSE, 5)
      [] a.step = 1 /\ c = DELIM_COMMAND -> [a EXCEPT !.st = "errTok"]
      [] \/ a.step = 1 /\ c \notin {DELIM_DQUOTE, DELIM_COMMAND}
         \/ a.step = 2 /\ c # DELIM_DQUOTE /\ isgraph(c) -> [a EXCEPT !.data = Append(@, c)]
      [] a.step \in {3, 4} /\ c = DELIM_DQUOTE -> [a EXCEPT !.data = Append(@, c), !.step = @ - 2]
      [] a.step = 3 /\ ~isgraph(c) -> trimmed(a, c, FALSE, 5)
      [] \/ a.step = 3 /\ c # DELIM_DQUOTE /\ isgraph(c)
         \/ a.step = 4 /\ c # DELIM_DQUOTE -> [a EXCEPT !.st = "errTok"]
      [] a.step = 5 ->
           LET t == trimmed(a, c, FALSE, 5)
           IN IF t.st = "closed" \/ t.step = 6 \/ ~isgraph(c) THEN t
              ELSE IF c = DELIM_COMMENT THEN [t EXCEPT !.step = 6]
              ELSE [t EXCEPT !.st = "errTok"]
      [] OTHER -> trimmed(a, c, TRUE, 6)

(* One character of base64: steps 0 to 3 count the characters of a group of  *)
(* four, 5 is after the data, 6 in a comment; aux is dword                   *)
on_b64(a, c) ==
    LET code == base64DecTable(c)
        dword == (a.aux * 64 + code) % 2^24
        tail == CASE a.step = 2 -> <<(a.aux \div 16) % 256>>
                  [] a.step = 3 -> <<(a.aux \div 1024) % 256, (a.aux \div 4) % 256>>
                  [] OTHER -> <<>>
    IN CASE a.step >= 5 ->
              LET t == trimmed(a, c, a.step > 5, a.step)
              IN IF t.st = "closed" \/ t.step = 6 \/ ~isgraph(c) \/ c = PAD THEN t
                 ELSE IF c = DELIM_COMMENT THEN [t EXCEPT !.step = 6]
                 ELSE [t EXCEPT !.st = "errTok"]
         [] a.step < 5 /\ code = 255 -> [a EXCEPT !.st = "errTok"]
         [] a.step < 5 /\ code \in 64..254 -> trimmed([a EXCEPT !.data = @ \o tail], c, FALSE, 5)
         [] a.step = 3 /\ code < 64 ->
              [a EXCEPT !.data = @ \o <<dword \div 65536, (dword \div 256) % 256, dword % 256>>,
                        !.aux = 0, !.step = 0]
         [] OTHER -> [a EXCEPT !.aux = dword, !.step = @ + 1]

on_char(a, c) == CASE case.format = "hex" -> on_hex(a, c)
                   [] case.format = "vs" -> on_vs(a, c)
                   [] OTHER -> on_b64(a, c)

(* Room that a character may need *)
need == IF case.format = "b64" THEN 3 ELSE 1

(* The first call skips blanks; a delimiter or a comment means there is no   *)
(* token.                                                                    *)
begin(a) == IF started THEN a
            ELSE LET t == trimSpaces(a.src, FALSE)
                 IN [a EXCEPT !.src = t.rest, !.step = 0, !.aux = 0,
                              !.st = IF t.found \/ t.inside THEN "errTok" ELSE @]

(* The comment ends here: what is trimmed now is the next command already *)
late_end(a) == a.step = 6 /\ Head(a.src) = DELIM_COMMAND

scan(c) == FoldLeft(LAMBDA a, i : IF \/ a.st # "partial"
                                     \/ DestSize - dest - Len(a.data) < need
                                     \/ a.src = <<>> THEN a
                                  ELSE on_char([a EXCEPT !.src = Tail(@), !.late = @ \/ late_end(a)],
                                               Head(a.src)),
                    begin(c), [i \in 1..(Len(c.src) + 1) |-> i])

Over == st \in {"closed", "errTok"}
-----------------------------------------------------------------------------
(* Some of the command is written to the source *)
Type(n) == /\ ~Over
           /\ n <= Len(input) /\ n <= SrcSize - Len(src)
           /\ src' = src \o SubSeq(input, 1, n)
           /\ input' = SubSeq(input, n + 1, Len(input))
           /\ UNCHANGED <<case, dest, copied, started, step, aux, st, late>>

(* CO_fifo_cpyTok2Hex, ...Vs or ...B64 *)
Scan == /\ ~Over
        /\ src # <<>>
        /\ \E a \in {scan(Call)} :
             /\ src' = a.src
             /\ copied' = copied \o a.data
             /\ dest' = dest + Len(a.data)
             /\ step' = a.step /\ aux' = a.aux
             /\ st' = a.st
             /\ late' = a.late
        /\ started' = TRUE
        /\ UNCHANGED <<case, input>>

(* The SDO client sends the data *)
Drain == /\ dest > 0
         /\ ~Over
         /\ dest' = 0
         /\ UNCHANGED <<case, input, src, copied, started, step, aux, st, late>>

Next == \/ \E n \in 1..SrcSize : Type(n)
        \/ Scan
        \/ Drain

Spec == Init /\ [][Next]_vars
-----------------------------------------------------------------------------
(* A text that is written as CO_fifo.h says is taken, and gives the bytes    *)
(* that it stands for, however it arrives and however little room there is.  *)
ScansTheValue == /\ st # "errTok"
                 /\ IsPrefix(copied, case.msg)
                 /\ st = "closed" => copied = case.msg

(* What follows the delimiter is the next command: it stays in the source    *)
(* except for blanks, whether a comment is before the delimiter or not.      *)
(* CO_fifo.h:324 says of CO_fifo_trimSpaces: "It stops on first graphical    *)
(* character or on command delimiter".  A delimiter that is read in step 6   *)
(* (the comment is empty, or the source ended just before its delimiter) is  *)
(* the exception: the trimming that follows takes some of the next line.     *)
NextCommandIsKept ==
    LET graphic(s) == SelectSeq(s, isgraph) IN
    st = "closed" => /\ IsSuffix(graphic(src \o input), graphic(case.next))
                     /\ ~late => graphic(src \o input) = graphic(case.next)
=============================================================================

------------------------------ MODULE MCSdoBus ------------------------------
(***************************************************************************)
(* SdoBus for TLC.  The values of x have eight bytes, those of y eight or  *)
(* two, so that an answer for y may have the form of one for x; no value   *)
(* is shared.  absent is in no dictionary.                                 *)
(***************************************************************************)
EXTENDS SdoBus

Bytes(len, b) == [i \in 1..len |-> 16 * b + i]

x      == <<8192, 0>>
y      == <<8193, 0>>
absent == <<39321, 0>>

MCObjects == {x, y}
MCValuesOf == [m \in MCObjects |->
                 IF m = x THEN {Bytes(8, 1), Bytes(8, 2)}
                          ELSE {Bytes(8, 6), Bytes(2, 7)}]

MCCalls ==
    {Upload(x), Upload(y), Upload(absent), Download(x, Bytes(8, 3)),
     Download(x, Bytes(8, 4)), Download(y, Bytes(2, 5)), Download(x, <<>>)}

\* The calls that can be mistaken for each other.
MCSimilarCalls ==
    {Upload(x), Upload(y), Download(x, Bytes(8, 3)), Download(x, Bytes(8, 4)),
     Download(y, Bytes(2, 5))}

\* retries, calls, updates, lost, repeated, io, late
Scenario(r, c, u, lo, re, io, la) ==
    [retries |-> r, calls |-> c, updates |-> u, lost |-> lo, repeated |-> re,
     io |-> io, late |-> la]

\* More attempts than losses; one attempt on a bus slower than its timeouts.
Faults == {Scenario(3, 2, 1, 2, 0, 0, 0), Scenario(1, 2, 1, 0, 0, 0, 2)}

\* A frame repeated, an access that fails and a frame that is late.
Disorder == {Scenario(2, 2, 1, 0, 1, 1, 1)}

OneLoss == {Scenario(1, 2, 1, 1, 0, 0, 0)}

=============================================================================

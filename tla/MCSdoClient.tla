---------------------------- MODULE MCSdoClient ----------------------------
(***************************************************************************)
(* SdoClient for TLC: two nodes and two objects, payloads on both sides of *)
(* the expedited and of the segment boundary, and one response per case    *)
(* the handlers tell apart.                                                *)
(***************************************************************************)
EXTENDS SdoClient

Bytes(len) == [i \in 1..len |-> i]

a == <<8192, 0>>
b == <<8192, 1>>

MCMuxes    == {a, b}
MCPayloads == {Bytes(0), Bytes(4), Bytes(5), Bytes(7), Bytes(8), Bytes(15)}
MCAborts   == {"General"}

MCResponses ==
    {init_upload_expedited(5, m, <<1, 2>>) : m \in {a, b}}
    \cup {init_upload_segmented(5, a, n) : n \in {0, 8}}
    \cup {init_download_ack(n, m) : n \in {5, 6}, m \in {a, b}}
    \cup {download_segment_ack(5, t) : t \in BOOLEAN}
    \cup {upload_segment(5, t, p, c) :
             t \in BOOLEAN, p \in {<<>>, <<9>>, Bytes(7)}, c \in BOOLEAN}
    \cup {AbortFrame(tsdo_id(5), m, "OutOfMemory") : m \in {a, ZeroMux}}
    \cup {\* size not indicated: expedited (e=1, s=0) and segmented (e=0, s=0)
          InitFrame(tsdo_id(5), SCS_INIT_UPLOAD + 2, a, 0, <<7, 7, 7, 7>>),
          InitFrame(tsdo_id(5), SCS_INIT_UPLOAD, a, 0, Pad(<<>>, 4)),
          \* another node, with a byte that node 5 does not send, and a
          \* request instead of a response
          upload_segment(6, FALSE, <<8>>, TRUE),
          init_upload(5, a)}

=============================================================================

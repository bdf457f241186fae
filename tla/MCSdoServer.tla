---------------------------- MODULE MCSdoServer ----------------------------
(***************************************************************************)
(* SdoServer for TLC: a buffer of eight bytes, one object per kind of      *)
(* access, and one request per case the handlers tell apart.               *)
(***************************************************************************)
EXTENDS SdoServer

Bytes(len) == [i \in 1..len |-> i]

rw     == <<8192, 0>>
wo     == <<8193, 1>>
ro     == <<8194, 0>>     \* and its read() ignores the size of the buffer
absent == <<39321, 0>>

MCObjects  == {rw, wo, ro}
MCReadable == {rw, ro}
MCWritable == {rw, wo}
MCHonest   == {rw, wo}
MCValues   == {Bytes(0), Bytes(4), Bytes(8), Bytes(9)}

MCRequests ==
    {init_upload(NodeId, m) : m \in {rw, wo, ro, absent}}
    \cup {upload_segment_request(NodeId, t) : t \in BOOLEAN}
    \cup {init_download_expedited(NodeId, m, <<5, 6>>) : m \in {rw, ro}}
    \cup {init_download_segmented(NodeId, m, 8) : m \in {rw, ro}}
    \cup {init_download_segmented(NodeId, rw, 9),
          \* size not indicated: expedited (e=1, s=0) and segmented (e=0, s=0)
          InitFrame(rsdo_id(NodeId), CCS_INIT_DOWNLOAD + 2, rw, 0, <<7, 7, 7, 7>>),
          InitFrame(rsdo_id(NodeId), CCS_INIT_DOWNLOAD, absent, 0, Pad(<<>>, 4)),
          \* a reserved command specifier, an abort, another node, a response
          InitFrame(rsdo_id(NodeId), 7 * 32, rw, 0, Pad(<<>>, 4)),
          AbortFrame(rsdo_id(NodeId), rw, "General"),
          init_upload(NodeId + 1, rw),
          init_download_ack(NodeId, rw)}
    \cup {download_segment(NodeId, t, p, c) :
             t \in BOOLEAN, p \in {<<9>>, Bytes(7)}, c \in BOOLEAN}

=============================================================================

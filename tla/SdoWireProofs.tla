--------------------------- MODULE SdoWireProofs ---------------------------
(***************************************************************************)
(* What the proofs about both state machines need of the frames: the       *)
(* constructors of SdoWire build frames, slices of a frame's data bytes    *)
(* are byte strings of the decoded length, and the arithmetic of segments. *)
(***************************************************************************)
EXTENDS SdoWire, SequenceTheorems, TLAPS

\* A slice of a byte string is a byte string of the expected length.
LEMMA SliceType ==
    ASSUME NEW s \in Seq(Byte), NEW m \in Nat, NEW n \in Nat,
           n <= Len(s), m <= n
    PROVE  /\ SubSeq(s, m + 1, n) \in Seq(Byte)
           /\ Len(SubSeq(s, m + 1, n)) = n - m
  <1>1. \A i \in (m + 1) .. n : s[i] \in Byte
    BY ElementOfSeq
  <1>2. /\ SubSeq(s, m + 1, n) \in Seq(Byte)
        /\ Len(SubSeq(s, m + 1, n)) =
             IF m + 1 <= n THEN n - (m + 1) + 1 ELSE 0
    BY <1>1, SubSeqProperties, m + 1 \in Int, n \in Int
  <1> QED  BY <1>2

\* copy_from_slice into a zeroed array gives bytes.
LEMMA PadType ==
    ASSUME NEW payload \in Seq(Byte), NEW k \in Nat
    PROVE  Pad(payload, k) \in Seq(Byte) /\ Len(Pad(payload, k)) = k
  <1>1. \A i \in 1..k : (IF i <= Len(payload) THEN payload[i] ELSE 0) \in Byte
    BY ElementOfSeq, LenProperties DEF Byte
  <1>2. Pad(payload, k) \in [1..k -> Byte]
    BY <1>1 DEF Pad
  <1> QED  BY <1>2, IsASeq, LenProperties

\* The empty payload.
LEMMA EmptyBytes == <<>> \in Seq(Byte) /\ Len(<<>>) = 0
  BY EmptySeq

\* The COB-IDs of a node.
LEMMA CobIdType ==
    ASSUME NEW n \in Byte
    PROVE  rsdo_id(n) \in Nat /\ tsdo_id(n) \in Nat
  BY DEF Byte, rsdo_id, tsdo_id, COB_RSDO_BASE, COB_TSDO_BASE

\* The bits that a command byte decodes to.
LEMMA CmdDecode ==
    ASSUME NEW cmd \in Byte
    PROVE  /\ expedited_len(cmd) \in 1..4
           /\ decode_segment(cmd).len \in 0..7
           /\ decode_segment(cmd).complete \in BOOLEAN
           /\ toggle_of(cmd) \in BOOLEAN
  BY DEF Byte, expedited_len, decode_segment, toggle_of, size_indicated

\* What the encoders build is a frame.
LEMMA InitFrameType ==
    ASSUME NEW cob_id \in Nat, NEW cmd \in Byte, NEW mux \in Mux,
           NEW size \in Nat, NEW bytes \in Seq(Byte)
    PROVE  InitFrame(cob_id, cmd, mux, size, bytes) \in SdoFrame
  BY DEF InitFrame, SdoFrame

\* segment_frame builds a frame.
LEMMA SegmentFrameType ==
    ASSUME NEW cob_id \in Nat, NEW cmd \in Byte, NEW payload \in Seq(Byte)
    PROVE  SegmentFrame(cob_id, cmd, payload) \in SdoFrame
  <1>1. Pad(payload, 7) \in Seq(Byte)
    BY PadType
  <1> QED  BY <1>1 DEF SegmentFrame, SdoFrame, ZeroMux, Mux

\* wire::abort builds a frame.
LEMMA AbortFrameType ==
    ASSUME NEW cob_id \in Nat, NEW mux \in Mux, NEW code \in SdoAbortCode
    PROVE  AbortFrame(cob_id, mux, code) \in SdoFrame
  <1>1. CS_ABORT \in Byte
    BY DEF CS_ABORT, Byte
  <1> QED  BY <1>1, EmptyBytes DEF AbortFrame, SdoFrame

\* The command bytes that the encoders compute fit a byte.
LEMMA CmdTypes ==
    /\ \A len \in 1..4 : /\ expedited_cmd(SCS_INIT_UPLOAD, len) \in Byte
                         /\ expedited_cmd(CCS_INIT_DOWNLOAD, len) \in Byte
    /\ segmented_cmd(SCS_INIT_UPLOAD) \in Byte
    /\ segmented_cmd(CCS_INIT_DOWNLOAD) \in Byte
    /\ SCS_INIT_DOWNLOAD \in Byte /\ CCS_INIT_UPLOAD \in Byte
    /\ \A t \in BOOLEAN : /\ SCS_DOWNLOAD_SEGMENT + toggle_bit(t) \in Byte
                          /\ CCS_UPLOAD_SEGMENT + toggle_bit(t) \in Byte
    /\ \A t \in BOOLEAN, last \in BOOLEAN, len \in 0..7 :
          /\ segment_cmd(SCS_UPLOAD_SEGMENT, t, len, last) \in Byte
          /\ segment_cmd(CCS_DOWNLOAD_SEGMENT, t, len, last) \in Byte
  BY DEF expedited_cmd, segmented_cmd, segment_cmd, toggle_bit, TOGGLE_BIT,
         SCS_INIT_UPLOAD, CCS_INIT_DOWNLOAD, SCS_INIT_DOWNLOAD,
         CCS_INIT_UPLOAD, SCS_DOWNLOAD_SEGMENT, CCS_UPLOAD_SEGMENT,
         SCS_UPLOAD_SEGMENT, CCS_DOWNLOAD_SEGMENT, Byte

\* The length of a payload that fits a segment.
LEMMA ShortLen ==
    ASSUME NEW v \in Seq(Byte), Len(v) <= 7
    PROVE  Len(v) \in 0..7
  <1>1. Len(v) \in Nat
    BY LenProperties
  <1>2. \A n \in Nat : n <= 7 => n \in 0..7
    OBVIOUS
  <1> QED  BY <1>1, <1>2

\* The server's responses are frames.
LEMMA ServerFrameTypes ==
    ASSUME NEW n \in Byte, NEW mux \in Mux
    PROVE  /\ \A v \in Seq(Byte) : Len(v) \in 1..4 =>
                 init_upload_expedited(n, mux, v) \in SdoFrame
           /\ \A len \in Nat : init_upload_segmented(n, mux, len) \in SdoFrame
           /\ \A t \in BOOLEAN, v \in Seq(Byte), last \in BOOLEAN :
                 Len(v) <= 7 => upload_segment(n, t, v, last) \in SdoFrame
           /\ init_download_ack(n, mux) \in SdoFrame
           /\ \A t \in BOOLEAN : download_segment_ack(n, t) \in SdoFrame
  <1>0. tsdo_id(n) \in Nat /\ Pad(<<>>, 4) \in Seq(Byte) /\ 0 \in Nat
    BY CobIdType, PadType, EmptyBytes
  <1>1. ASSUME NEW v \in Seq(Byte), Len(v) \in 1..4
        PROVE  init_upload_expedited(n, mux, v) \in SdoFrame
    <2>1. expedited_cmd(SCS_INIT_UPLOAD, Len(v)) \in Byte
      BY <1>1, CmdTypes
    <2>2. Pad(v, 4) \in Seq(Byte)
      BY PadType
    <2> QED  BY <1>0, <2>1, <2>2, InitFrameType DEF init_upload_expedited
  <1>2. ASSUME NEW len \in Nat
        PROVE  init_upload_segmented(n, mux, len) \in SdoFrame
    BY <1>0, CmdTypes, InitFrameType DEF init_upload_segmented
  <1>3. ASSUME NEW t \in BOOLEAN, NEW v \in Seq(Byte), NEW last \in BOOLEAN,
               Len(v) <= 7
        PROVE  upload_segment(n, t, v, last) \in SdoFrame
    <2>1. Len(v) \in 0..7
      BY <1>3, ShortLen
    <2>2. segment_cmd(SCS_UPLOAD_SEGMENT, t, Len(v), last) \in Byte
      BY <2>1, CmdTypes
    <2> QED  BY <1>0, <2>2, SegmentFrameType DEF upload_segment
  <1>4. init_download_ack(n, mux) \in SdoFrame
    BY <1>0, CmdTypes, InitFrameType DEF init_download_ack
  <1>5. ASSUME NEW t \in BOOLEAN
        PROVE  download_segment_ack(n, t) \in SdoFrame
    BY <1>0, CmdTypes, EmptyBytes, SegmentFrameType DEF download_segment_ack
  <1> QED  BY <1>1, <1>2, <1>3, <1>4, <1>5

\* The client's requests are frames.
LEMMA ClientFrameTypes ==
    ASSUME NEW n \in Byte, NEW mux \in Mux
    PROVE  /\ init_upload(n, mux) \in SdoFrame
           /\ \A t \in BOOLEAN : upload_segment_request(n, t) \in SdoFrame
           /\ \A v \in Seq(Byte) : Len(v) \in 1..4 =>
                 init_download_expedited(n, mux, v) \in SdoFrame
           /\ \A len \in Nat : init_download_segmented(n, mux, len) \in SdoFrame
           /\ \A t \in BOOLEAN, v \in Seq(Byte), last \in BOOLEAN :
                 Len(v) <= 7 => download_segment(n, t, v, last) \in SdoFrame
  <1>0. rsdo_id(n) \in Nat /\ Pad(<<>>, 4) \in Seq(Byte) /\ 0 \in Nat
    BY CobIdType, PadType, EmptyBytes
  <1>1. init_upload(n, mux) \in SdoFrame
    BY <1>0, CmdTypes, InitFrameType DEF init_upload
  <1>2. ASSUME NEW t \in BOOLEAN
        PROVE  upload_segment_request(n, t) \in SdoFrame
    BY <1>0, CmdTypes, EmptyBytes, SegmentFrameType DEF upload_segment_request
  <1>3. ASSUME NEW v \in Seq(Byte), Len(v) \in 1..4
        PROVE  init_download_expedited(n, mux, v) \in SdoFrame
    <2>1. expedited_cmd(CCS_INIT_DOWNLOAD, Len(v)) \in Byte
      BY <1>3, CmdTypes
    <2>2. Pad(v, 4) \in Seq(Byte)
      BY PadType
    <2> QED  BY <1>0, <2>1, <2>2, InitFrameType DEF init_download_expedited
  <1>4. ASSUME NEW len \in Nat
        PROVE  init_download_segmented(n, mux, len) \in SdoFrame
    BY <1>0, CmdTypes, InitFrameType DEF init_download_segmented
  <1>5. ASSUME NEW t \in BOOLEAN, NEW v \in Seq(Byte), NEW last \in BOOLEAN,
               Len(v) <= 7
        PROVE  download_segment(n, t, v, last) \in SdoFrame
    <2>1. Len(v) \in 0..7
      BY <1>5, ShortLen
    <2>2. segment_cmd(CCS_DOWNLOAD_SEGMENT, t, Len(v), last) \in Byte
      BY <2>1, CmdTypes
    <2> QED  BY <1>0, <2>2, SegmentFrameType DEF download_segment
  <1> QED  BY <1>1, <1>2, <1>3, <1>4, <1>5

\* Sending seven more bytes keeps the position a multiple of seven and flips
\* the parity of the segments.
LEMMA NextSegment ==
    ASSUME NEW n \in Nat, n % 7 = 0
    PROVE  /\ (n + 7) % 7 = 0
           /\ (((n + 7) \div 7) % 2 = 1) <=> ~((n \div 7) % 2 = 1)
  OBVIOUS

\* Bytes that are appended leave those before them alone.
LEMMA PrefixOfConcat ==
    ASSUME NEW s \in Seq(Byte), NEW t \in Seq(Byte)
    PROVE  SubSeq(s \o t, 1, Len(s)) = s
  <1>1. Len(s) \in Nat
    BY LenProperties
  <1>2. CASE Len(s) = 0
    <2>1. s = <<>>
      BY <1>2, EmptySeq
    <2>2. SubSeq(s \o t, 1, 0) = <<>>
      BY SubSeqEmpty, 1 \in Int, 0 \in Int, 0 < 1
    <2> QED  BY <1>2, <2>1, <2>2
  <1>3. CASE Len(s) # 0
    <2>1. 1 \in 1..Len(s) /\ Len(s) \in 1..Len(s)
      BY <1>1, <1>3
    <2> QED  BY <2>1, SubSeqOfConcat1, SubSeqFull
  <1> QED  BY <1>2, <1>3

=============================================================================

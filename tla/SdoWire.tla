------------------------------ MODULE SdoWire ------------------------------
(***************************************************************************)
(* The frames that both SDO state machines build and read: src/frame.rs,   *)
(* src/wire.rs, the encoders of src/client.rs (mod enc) and the response   *)
(* builders of src/server.rs.                                              *)
(*                                                                         *)
(* Byte 0 of a frame, the command byte, is kept as the number it is on the *)
(* wire, because every handler dispatches on its bits.  Bytes 1..7 are     *)
(* kept as the fields a handler reads from them:                           *)
(*   mux    <<index, sub-index>>, bytes 1..3 of an initiate/abort frame    *)
(*   size   the little-endian u32 in bytes 4..7 of a segmented initiate    *)
(*   code   the abort code in bytes 4..7 of an abort frame                 *)
(*   bytes  the data bytes, zero-padded as on the wire: four of an         *)
(*          expedited initiate frame, seven of a segment                   *)
(***************************************************************************)
EXTENDS Integers, Sequences

\* Option::None of a deadline, an announced length or a node id.
None == -1

Byte == 0..255

---------------------------------------------------------------------------
(* COB-IDs (src/frame.rs) *)

COB_RSDO_BASE == 1536   \* 0x600, client to server
COB_TSDO_BASE == 1408   \* 0x580, server to client

rsdo_id(node_id) == COB_RSDO_BASE + (node_id % 128)
tsdo_id(node_id) == COB_TSDO_BASE + (node_id % 128)

\* cob_id & 0x780 keeps bits 7..10.
function_code(cob_id) == ((cob_id \div 128) % 16) * 128

node_of_tsdo(cob_id) ==
    IF function_code(cob_id) = COB_TSDO_BASE THEN cob_id % 128 ELSE None
node_of_rsdo(cob_id) ==
    IF function_code(cob_id) = COB_RSDO_BASE THEN cob_id % 128 ELSE None

---------------------------------------------------------------------------
(* The command byte (src/wire.rs) *)

CCS_DOWNLOAD_SEGMENT == 0 * 32
CCS_INIT_DOWNLOAD    == 1 * 32
CCS_INIT_UPLOAD      == 2 * 32
CCS_UPLOAD_SEGMENT   == 3 * 32
CS_ABORT             == 4 * 32

SCS_UPLOAD_SEGMENT   == 0 * 32
SCS_DOWNLOAD_SEGMENT == 1 * 32
SCS_INIT_UPLOAD      == 2 * 32
SCS_INIT_DOWNLOAD    == 3 * 32

TOGGLE_BIT == 16

\* cmd & CS_MASK
cs_of(cmd) == (cmd \div 32) * 32

\* (cmd & TOGGLE_BIT) != 0
toggle_of(cmd) == (cmd \div 16) % 2 = 1

\* The e and s bits of an initiate frame, and the payload length an
\* expedited one carries: 4 - n when the size is indicated, else all four.
is_expedited(cmd)   == (cmd \div 2) % 2 = 1
size_indicated(cmd) == cmd % 2 = 1
expedited_len(cmd)  == IF size_indicated(cmd) THEN 4 - ((cmd \div 4) % 4) ELSE 4

\* The payload length and the "complete" bit of a segment.
decode_segment(cmd) ==
    [len |-> 7 - ((cmd \div 2) % 8), complete |-> cmd % 2 = 1]

toggle_bit(toggle) == IF toggle THEN TOGGLE_BIT ELSE 0

segment_cmd(cs, toggle, payload_len, last) ==
    cs + toggle_bit(toggle) + 2 * (7 - payload_len) + (IF last THEN 1 ELSE 0)

\* SCS_INIT_UPLOAD / CCS_INIT_DOWNLOAD | n << 2 | e | s
expedited_cmd(cs, len) == cs + 4 * (4 - len) + 3
segmented_cmd(cs)      == cs + 1

---------------------------------------------------------------------------
(* Abort codes (src/abort.rs); NoCode stands in a frame that is no abort. *)

NoCode == "NoCode"

SdoAbortCode ==
    {"ToggleBitNotAlternated", "ProtocolTimeout", "InvalidCommandSpecifier",
     "InvalidBlockSize", "InvalidSequenceNumber", "CrcError", "OutOfMemory",
     "UnsupportedAccess", "ReadWriteOnly", "WriteReadOnly",
     "ObjectDoesNotExist", "NotMappable", "PdoLengthExceeded",
     "ParameterIncompatibility", "InternalIncompatibility", "HardwareError",
     "DataTypeLengthMismatch", "DataTypeLengthHigh", "DataTypeLengthLow",
     "SubindexDoesNotExist", "InvalidValue", "ValueTooHigh", "ValueTooLow",
     "MaxLessThanMin", "ResourceNotAvailable", "General", "StorageError",
     "StorageLocalControl", "StorageDeviceState", "NoObjectDictionary",
     "NoData", "Unknown"}

---------------------------------------------------------------------------
(* Frames *)

Mux     == Nat \X Nat
ZeroMux == <<0, 0>>

SdoFrame == [cob_id : Nat, cmd : Byte, mux : Mux, size : Nat,
             code : SdoAbortCode \cup {NoCode}, bytes : Seq(Byte)]

\* let mut out = [0u8; 8]; out[k..k + len].copy_from_slice(payload)
Pad(payload, k) ==
    [i \in 1..k |-> IF i <= Len(payload) THEN payload[i] ELSE 0]

InitFrame(cob_id, cmd, mux, size, bytes) ==
    [cob_id |-> cob_id, cmd |-> cmd, mux |-> mux, size |-> size,
     code |-> NoCode, bytes |-> bytes]

SegmentFrame(cob_id, cmd, payload) ==
    [cob_id |-> cob_id, cmd |-> cmd, mux |-> ZeroMux, size |-> 0,
     code |-> NoCode, bytes |-> Pad(payload, 7)]

AbortFrame(cob_id, mux, code) ==
    [cob_id |-> cob_id, cmd |-> CS_ABORT, mux |-> mux, size |-> 0,
     code |-> code, bytes |-> <<>>]

(* Client requests (src/client.rs, mod enc) *)

init_upload(node, mux) ==
    InitFrame(rsdo_id(node), CCS_INIT_UPLOAD, mux, 0, Pad(<<>>, 4))

upload_segment_request(node, toggle) ==
    SegmentFrame(rsdo_id(node), CCS_UPLOAD_SEGMENT + toggle_bit(toggle), <<>>)

init_download_expedited(node, mux, data) ==
    InitFrame(rsdo_id(node), expedited_cmd(CCS_INIT_DOWNLOAD, Len(data)),
              mux, 0, Pad(data, 4))

init_download_segmented(node, mux, total_len) ==
    InitFrame(rsdo_id(node), segmented_cmd(CCS_INIT_DOWNLOAD),
              mux, total_len, Pad(<<>>, 4))

download_segment(node, toggle, payload, last) ==
    SegmentFrame(rsdo_id(node),
                 segment_cmd(CCS_DOWNLOAD_SEGMENT, toggle, Len(payload), last),
                 payload)

(* Server responses (src/server.rs) *)

init_upload_expedited(node, mux, val) ==
    InitFrame(tsdo_id(node), expedited_cmd(SCS_INIT_UPLOAD, Len(val)),
              mux, 0, Pad(val, 4))

init_upload_segmented(node, mux, len) ==
    InitFrame(tsdo_id(node), segmented_cmd(SCS_INIT_UPLOAD),
              mux, len, Pad(<<>>, 4))

upload_segment(node, toggle, payload, last) ==
    SegmentFrame(tsdo_id(node),
                 segment_cmd(SCS_UPLOAD_SEGMENT, toggle, Len(payload), last),
                 payload)

init_download_ack(node, mux) ==
    InitFrame(tsdo_id(node), SCS_INIT_DOWNLOAD, mux, 0, Pad(<<>>, 4))

download_segment_ack(node, toggle) ==
    SegmentFrame(tsdo_id(node), SCS_DOWNLOAD_SEGMENT + toggle_bit(toggle), <<>>)

=============================================================================

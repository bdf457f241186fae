---------------------------- MODULE CoSdoFrame ----------------------------
(***************************************************************************)
(* What CANopenNode's SDO server and SDO client have in common: frames,    *)
(* states and abort codes.  A frame has the fields that its bytes are read *)
(* as; the ones it does not set are zero.                                  *)
(***************************************************************************)
EXTENDS Integers, Sequences

Lowest(a, b) == IF a < b THEN a ELSE b
bits(byte, low, count) == (byte \div (2^low)) % (2^count)

NoBytes == [i \in 1..7 |-> 0]
Frame(cmd) ==
    [cmd |-> cmd, mux |-> <<0, 0>>, size |-> 0, code |-> "NONE",
     bytes |-> NoBytes, seq |-> 0, blk |-> 0, pst |-> 0, crc |-> <<>>]
MuxFrame(cmd, mux) == [Frame(cmd) EXCEPT !.mux = mux]
Padded(bytes) == [i \in 1..7 |-> IF i <= Len(bytes) THEN bytes[i] ELSE 0]

CO_SDO_state ==
    {"IDLE", "ABORT", "DOWNLOAD_LOCAL_TRANSFER", "UPLOAD_LOCAL_TRANSFER",
     "DOWNLOAD_INITIATE_REQ", "DOWNLOAD_INITIATE_RSP",
     "DOWNLOAD_SEGMENT_REQ", "DOWNLOAD_SEGMENT_RSP",
     "UPLOAD_INITIATE_REQ", "UPLOAD_INITIATE_RSP",
     "UPLOAD_SEGMENT_REQ", "UPLOAD_SEGMENT_RSP",
     "DOWNLOAD_BLK_INITIATE_REQ", "DOWNLOAD_BLK_INITIATE_RSP",
     "DOWNLOAD_BLK_SUBBLOCK_REQ", "DOWNLOAD_BLK_SUBBLOCK_RSP",
     "DOWNLOAD_BLK_END_REQ", "DOWNLOAD_BLK_END_RSP",
     "UPLOAD_BLK_INITIATE_REQ", "UPLOAD_BLK_INITIATE_RSP", "UPLOAD_BLK_INITIATE_REQ2",
     "UPLOAD_BLK_SUBBLOCK_SREQ", "UPLOAD_BLK_SUBBLOCK_CRSP",
     "UPLOAD_BLK_END_SREQ", "UPLOAD_BLK_END_CRSP"}

\* strlen, but at least 1.
string_length(bytes) ==
    LET zeros == {i \in DOMAIN bytes : bytes[i] = 0}
        first == CHOOSE i \in zeros : \A j \in zeros : i <= j
    IN  IF zeros = {} THEN Len(bytes) ELSE IF first = 1 THEN 1 ELSE first - 1
=============================================================================

---------------------------- MODULE CoSdoServer ----------------------------
(***************************************************************************)
(* The SDO server of CANopenNode, CO_SDOserver.c: expedited, segmented and *)
(* block transfers of both directions.                                     *)
(*                                                                         *)
(* The C code runs in two contexts.  CO_SDO_receive takes a frame from the *)
(* CAN driver: it copies block segments straight into the buffer and keeps *)
(* any other frame for CO_SDOserver_process, which the main loop calls     *)
(* with the time that has passed.  Each is one action here, built from one *)
(* operator per case of its switch statements.  Those operators take and   *)
(* return the structure k: the server s, the dictionary od, and the local  *)
(* variables abortCode (ab), ret and the frames sent (tx).                 *)
(*                                                                         *)
(* buf holds the bytes below bufOffsetWr, so bufOffsetWr is Len(buf).  A   *)
(* CRC is the sequence of the bytes that were fed to it: the model has no  *)
(* collisions.  toggle is the bit 0x10 as a Boolean.                       *)
(* rx is cleared together with rxNew: nobody reads it in between.          *)
(***************************************************************************)
EXTENDS CoOD, CoSdoFrame

CONSTANTS
    Entries,        \* the object dictionary: index -> entry
    InitialOd,      \* <<index, sub-index>> -> bytes
    BUFFER_SIZE,    \* CO_CONFIG_SDO_SRV_BUFFER_SIZE (900)
    MAX_BLKSIZE,    \* the largest sub-block, 127 segments
    SDOtimeoutTime, \* in ticks
    block_SDOtimeoutTime,
    Clients,        \* a client's name -> the frames that CO_SDO_receive may be given
    Patience,       \* timed calls after which a server without a client is idle
    Histories       \* sequences of requests that the server has answered before

\* CO_SDOserver.c:25 requires at least 20 bytes; the sub-block arithmetic
\* needs the 7 bytes of every segment and two for a string's terminator.
ASSUME BufferAssumption ==
    /\ MAX_BLKSIZE \in 1..127
    /\ BUFFER_SIZE \in Nat /\ BUFFER_SIZE >= 7 * MAX_BLKSIZE + 2
    /\ BUFFER_SIZE >= 20

\* Every object of the dictionary has its bytes, and a variable (ODT_VAR) has
\* sub-index 0.
Byte == 0..255
ASSUME DictionaryAssumption ==
    /\ InitialOd \in [UNION {{<<i, x>> : x \in DOMAIN Entries[i].sub} : i \in DOMAIN Entries}
                       -> Seq(Byte)]
    /\ \A i \in DOMAIN Entries :
          /\ Entries[i].odObjectType = "VAR" => 0 \in DOMAIN Entries[i].sub
          /\ \A x \in DOMAIN Entries[i].sub :
                /\ Entries[i].sub[x].attribute \subseteq {"SDO_R", "SDO_W", "STR"}
                /\ Entries[i].sub[x].dataLength = Len(InitialOd[<<i, x>>])

\* The frames that reach the server have the fields of an 8 byte CAN frame.
Heard ==
    {Frame(0)} \cup UNION {Clients[c] : c \in DOMAIN Clients}
    \cup UNION {{h[i] : i \in 1..Len(h)} : h \in Histories}
ASSUME FrameAssumption ==
    /\ \A h \in Histories : h \in Seq(Heard)
    /\ \A f \in Heard :
          /\ f.cmd \in Byte /\ f.mux \in Nat \X Nat /\ f.size \in Nat
          /\ f.bytes \in [1..7 -> Byte] /\ f.crc \in Seq(Byte)
          /\ f.seq \in Byte /\ f.blk \in Byte /\ f.pst \in Byte

\* A silent client is noticed after the segments of a sub-block, one for every
\* call, and the timeout.
ASSUME TimeAssumption ==
    /\ SDOtimeoutTime \in Nat \ {0} /\ block_SDOtimeoutTime \in Nat
    /\ Patience \in Nat /\ 1 + SDOtimeoutTime <= Patience
    /\ \A f \in Heard : f.blk \in 1..127 => f.blk + SDOtimeoutTime <= Patience

VARIABLES
    client, \* the client of this behaviour
    SDO,    \* CO_SDOserver_t
    od,     \* the variables of the dictionary
    over,   \* the transfer under study has ended, or its client is gone
    waited  \* timed calls of the main loop since then

\* CO_SDOserver_init
InitServer ==
    [valid |-> TRUE, state |-> "IDLE", mux |-> <<0, 0>>,
     stream |-> [attribute |-> {}, dataLength |-> 0, dataOffset |-> 0],
     rxNew |-> FALSE, rx |-> Frame(0),
     sizeInd |-> 0, sizeTran |-> 0, toggle |-> FALSE, finished |-> FALSE,
     timeoutTimer |-> 0, buf |-> <<>>, bufOffsetRd |-> 0,
     block_timeoutTimer |-> 0, block_seqno |-> 0, block_blksize |-> 0,
     block_noData |-> 0, block_crcEnabled |-> FALSE, block_crc |-> <<>>]

---------------------------------------------------------------------------
(* CO_SDO_receive *)

\* Block download: a segment of the sub-block. The next one in sequence is
\* taken, a repeated one and any before the first are ignored, any other one
\* ends the sub-block.
receive_segment(s, f) ==
    LET seqno == bits(f.cmd, 0, 7)
        t == [s EXCEPT !.timeoutTimer = 0, !.block_timeoutTimer = 0]
    IN  IF Len(s.buf) > BUFFER_SIZE - 9 THEN s
        ELSE IF seqno <= s.block_blksize /\ seqno = s.block_seqno + 1
        THEN [t EXCEPT !.block_seqno = seqno,
                       !.buf = @ \o f.bytes,
                       !.sizeTran = @ + 7,
                       !.finished = @ \/ f.cmd >= 128,
                       !.state = IF f.cmd >= 128 \/ seqno = s.block_blksize
                                 THEN "DOWNLOAD_BLK_SUBBLOCK_RSP" ELSE @]
        ELSE IF seqno # s.block_seqno /\ s.block_seqno # 0
        THEN [t EXCEPT !.state = "DOWNLOAD_BLK_SUBBLOCK_RSP"]
        ELSE t

CO_SDO_receive(s, f) ==
    CASE f.cmd = 128 -> [s EXCEPT !.state = "IDLE"]
      [] f.cmd # 128 /\ s.rxNew -> s
      [] f.cmd = 161 /\ ~s.rxNew /\ s.state = "UPLOAD_BLK_END_CRSP" ->
           [s EXCEPT !.state = "IDLE"]
      [] f.cmd # 128 /\ ~s.rxNew /\ s.state = "DOWNLOAD_BLK_SUBBLOCK_REQ" ->
           receive_segment(s, f)
      [] f.cmd # 128 /\ ~s.rxNew /\ s.state = "DOWNLOAD_BLK_SUBBLOCK_RSP" -> s
      [] OTHER -> [s EXCEPT !.rx = f, !.rxNew = TRUE]

---------------------------------------------------------------------------
(* Access to the dictionary *)

Abort(k, code) == [k EXCEPT !.s.state = "ABORT", !.ab = code]
Aborted(k) == k.s.state = "ABORT"
is_string(s) == "STR" \in s.stream.attribute
LongOrShort(n, limit) == IF n > limit THEN "DATA_LONG" ELSE "DATA_SHORT"
Continue(k, state) == IF Aborted(k) THEN k ELSE [k EXCEPT !.s.state = state]

\* The zero bytes that end a string shorter than its variable.
terminators(s) ==
    LET sizeInOd == s.stream.dataLength IN
    CASE ~(is_string(s) /\ (sizeInOd = 0 \/ s.sizeTran < sizeInOd)
           /\ Len(s.buf) + 2 <= BUFFER_SIZE) -> 0
      [] sizeInOd # 0 /\ s.sizeTran + 1 >= sizeInOd -> 1
      [] OTHER -> 2

\* What the variable says of the write, complete or not, must be what the
\* transfer says.
written(k, odRet) ==
    CASE odRet \notin {"OK", "PARTIAL"} -> Abort(k, OD_getSDOabCode(odRet))
      [] odRet = "PARTIAL" /\ k.s.finished -> Abort(k, "DATA_SHORT")
      [] odRet = "OK" /\ ~k.s.finished -> Abort(k, "DATA_LONG")
      [] OTHER -> k

\* w is what OD_IO.write returned.
write(k, w) ==
    written([k EXCEPT !.od[k.s.mux] = w.data, !.s.stream = w.stream, !.s.buf = <<>>], w.ret)

\* What is left to do when the size is right: terminate a string, bring the
\* CRC up to date (crcOperation > 0) and compare it (2), write.
terminated(k, zeros) ==
    [k EXCEPT !.s.buf = @ \o [i \in 1..zeros |-> 0],
              !.s.sizeTran = @ + zeros,
              !.s.stream.dataLength =
                  IF k.s.finished /\ (zeros > 0 \/ @ = 0) THEN k.s.sizeTran + zeros ELSE @]

with_crc(k, data, crcOperation) ==
    IF k.s.block_crcEnabled /\ crcOperation > 0 THEN [k EXCEPT !.s.block_crc = @ \o data]
    ELSE k

check_crc_and_write(k, crcOperation, crcClient) ==
    IF k.s.block_crcEnabled /\ crcOperation = 2 /\ crcClient # k.s.block_crc
    THEN Abort(k, "CRC")
    ELSE write(k, OD_writeOriginal(k.od[k.s.mux], k.s.stream, k.s.buf))

\* The data is too long or too short, for what was indicated or for the
\* variable.
size_error(s) ==
    CASE s.sizeInd > 0 /\ s.finished /\ s.sizeTran # s.sizeInd -> LongOrShort(s.sizeTran, s.sizeInd)
      [] s.sizeInd > 0 /\ ~s.finished /\ s.sizeTran > s.sizeInd -> "DATA_LONG"
      [] s.finished /\ s.sizeInd \in {0, s.sizeTran} /\ terminators(s) = 0
         /\ s.stream.dataLength \notin {0, s.sizeTran} ->
           LongOrShort(s.sizeTran, s.stream.dataLength)
      [] OTHER -> "NONE"

validateAndWriteToOD(k, crcOperation, crcClient) ==
    IF size_error(k.s) # "NONE" THEN Abort(k, size_error(k.s))
    ELSE check_crc_and_write(
            with_crc(terminated(k, IF k.s.finished THEN terminators(k.s) ELSE 0),
                     k.s.buf, crcOperation),
            crcOperation, crcClient)

\* The remaining data is moved to the start of the buffer.
moved(k) ==
    [k EXCEPT !.s.buf = SubSeq(@, k.s.bufOffsetRd + 1, Len(@)), !.s.bufOffsetRd = 0]

\* Data of a string ends at the first zero byte, and with it the read.
cut_string(s, r) ==
    IF is_string(s) /\ Len(r.bytes) > 0 /\ string_length(r.bytes) < Len(r.bytes)
    THEN [ret |-> "OK", bytes |-> SubSeq(r.bytes, 1, string_length(r.bytes)),
          stream |-> [r.stream EXCEPT !.dataLength = s.sizeTran + string_length(r.bytes)]]
    ELSE r

\* r is what OD_IO.read returned.
refilled(k, r, countMinimum, calculateCrc) ==
    LET finished == ~(r.ret = "PARTIAL" \/ (k.s.buf = <<>> /\ r.bytes = <<>>))
        j == [k EXCEPT !.s.stream = r.stream, !.s.buf = @ \o r.bytes, !.s.finished = finished]
    IN  IF r.ret \notin {"OK", "PARTIAL"} THEN Abort(k, OD_getSDOabCode(r.ret))
        ELSE IF ~finished /\ Len(k.s.buf) + Len(r.bytes) < countMinimum
        THEN Abort(j, "DEVICE_INCOMPAT")
        ELSE with_crc(j, r.bytes, IF calculateCrc THEN 1 ELSE 0)

\* Refill the buffer when it holds less than countMinimum bytes.
readFromOd(k, countMinimum, calculateCrc) ==
    LET countRemain == Len(k.s.buf) - k.s.bufOffsetRd IN
    IF k.s.finished \/ countRemain >= countMinimum THEN k
    ELSE refilled(moved(k),
                  cut_string(k.s, OD_readOriginal(k.od[k.s.mux], k.s.stream,
                                                  BUFFER_SIZE - countRemain)),
                  countMinimum, calculateCrc)

---------------------------------------------------------------------------
(* CO_SDOserver_process, a frame was received *)

request_state(cmd) ==
    CASE bits(cmd, 4, 4) = 2 -> "DOWNLOAD_INITIATE_REQ"
      [] cmd = 64 -> "UPLOAD_INITIATE_REQ"
      [] bits(cmd, 3, 5) = 24 /\ cmd % 2 = 0 -> "DOWNLOAD_BLK_INITIATE_REQ"
      [] cmd \in {160, 164} -> "UPLOAD_BLK_INITIATE_REQ"
      [] OTHER -> "ABORT"

access_error(index, subIndex, upload) ==
    LET odRet == OD_getSub(Entries, index, subIndex)
        attribute == OD_stream(Entries, index, subIndex).attribute
    IN  IF odRet # "OK" THEN OD_getSDOabCode(odRet)
        ELSE CASE attribute \cap {"SDO_R", "SDO_W"} = {} -> "UNSUPPORTED_ACCESS"
               [] upload /\ attribute \cap {"SDO_R", "SDO_W"} = {"SDO_W"} -> "WRITEONLY"
               [] ~upload /\ attribute \cap {"SDO_R", "SDO_W"} = {"SDO_R"} -> "READONLY"
               [] OTHER -> "NONE"

\* The size of the upload; it is not known for a string that is not yet read
\* to its end.
upload_size(k) ==
    LET dataLength == k.s.stream.dataLength IN
    CASE Aborted(k) -> k
      [] ~Aborted(k) /\ ~k.s.finished ->
           [k EXCEPT !.s.sizeInd = IF is_string(k.s) THEN 0 ELSE dataLength]
      [] ~Aborted(k) /\ k.s.finished /\ dataLength \in {0, Len(k.s.buf)} ->
           [k EXCEPT !.s.sizeInd = Len(k.s.buf)]
      [] OTHER -> Abort([k EXCEPT !.s.sizeInd = dataLength], "DEVICE_INCOMPAT")

\* An upload loads the variable, or as much of it as the buffer takes.
load_for_upload(k) ==
    upload_size(readFromOd([k EXCEPT !.s.bufOffsetRd = 0, !.s.buf = <<>>,
                                     !.s.sizeTran = 0, !.s.finished = FALSE], 7, FALSE))

\* Idle: a frame that is no initiate request is answered by an abort that
\* still names the object of the transfer before.
new_communication(k) ==
    LET f == k.s.rx
        state == request_state(f.cmd)
        upload == state \in {"UPLOAD_INITIATE_REQ", "UPLOAD_BLK_INITIATE_REQ"}
        error == access_error(f.mux[1], f.mux[2], upload)
        j == [k EXCEPT !.s.state = state, !.s.mux = f.mux]
    IN  IF state = "ABORT" THEN Abort(k, "CMD")
        ELSE IF OD_getSub(Entries, f.mux[1], f.mux[2]) # "OK" THEN Abort(j, error)
        ELSE LET o == [j EXCEPT !.s.stream = OD_stream(Entries, f.mux[1], f.mux[2])]
             IN  IF error # "NONE" THEN Abort(o, error)
                 ELSE IF upload THEN load_for_upload(o) ELSE o

\* Expedited: the size is indicated, or that of the variable, or four.
expedited_size(cmd, sizeInOd) ==
    IF cmd % 2 = 1 THEN 4 - bits(cmd, 2, 2)
    ELSE IF sizeInOd \in 1..3 THEN sizeInOd ELSE 4

expedited_written(k, w) ==
    IF w.ret # "OK"
    THEN Abort([k EXCEPT !.s.stream = w.stream], OD_getSDOabCode(w.ret))
    ELSE [k EXCEPT !.s.stream = w.stream, !.od[k.s.mux] = w.data,
                   !.s.state = "DOWNLOAD_INITIATE_RSP", !.s.finished = TRUE]

\* One or two zero bytes terminate a string that is shorter than its variable.
download_expedited(k) ==
    LET sizeInOd == k.s.stream.dataLength
        n == expedited_size(k.s.rx.cmd, sizeInOd)
        str == is_string(k.s) /\ (sizeInOd = 0 \/ n < sizeInOd)
        size == IF str THEN n + (IF sizeInOd - n = 1 THEN 1 ELSE 2) ELSE n
    IN  IF ~str /\ sizeInOd \notin {0, n} THEN Abort(k, LongOrShort(n, sizeInOd))
        ELSE expedited_written(k, OD_writeOriginal(
                k.od[k.s.mux],
                [k.s.stream EXCEPT !.dataLength = IF str \/ sizeInOd = 0 THEN size ELSE @],
                [i \in 1..size |-> IF i <= n THEN k.s.rx.bytes[i] ELSE 0]))

\* An indicated size must be that of the variable; a string may be shorter.
download_sized(k, indicated, next) ==
    LET size == k.s.rx.size
        sizeInOd == k.s.stream.dataLength
        j == [k EXCEPT !.s.sizeInd = IF indicated THEN size ELSE 0]
    IN  IF indicated /\ sizeInOd > 0
           /\ (size > sizeInOd \/ (size < sizeInOd /\ ~is_string(k.s)))
        THEN Abort(j, LongOrShort(size, sizeInOd))
        ELSE [j EXCEPT !.s.state = next, !.s.finished = FALSE]

on_download_initiate(k) ==
    IF bits(k.s.rx.cmd, 1, 1) = 1 THEN download_expedited(k)
    ELSE download_sized(k, k.s.rx.cmd % 2 = 1, "DOWNLOAD_INITIATE_RSP")

\* Defect: the buffer is emptied when a segment no longer fits, too late.
empty_buffer_late(k) ==
    IF k.s.finished \/ BUFFER_SIZE - Len(k.s.buf) < 2
    THEN validateAndWriteToOD(k, 0, <<>>) ELSE k

\* Defect: every segment is written at once.
empty_buffer_always(k) == validateAndWriteToOD(k, 0, <<>>)

\* Write at the end, and when the next segment might not fit.
empty_buffer(k) ==
    IF k.s.finished \/ BUFFER_SIZE - Len(k.s.buf) < 7 + 2
    THEN validateAndWriteToOD(k, 0, <<>>) ELSE k

on_download_segment(k) ==
    LET cmd == k.s.rx.cmd
        count == 7 - bits(cmd, 1, 3)
        j == [k EXCEPT !.s.finished = cmd % 2 = 1]
        stored == [j EXCEPT !.s.buf = @ \o SubSeq(k.s.rx.bytes, 1, count),
                            !.s.sizeTran = @ + count]
        dataLength == k.s.stream.dataLength
    IN  IF bits(cmd, 5, 3) # 0 THEN Abort(k, "CMD")
        ELSE IF (bits(cmd, 4, 1) = 1) # k.s.toggle THEN Abort(j, "TOGGLE_BIT")
        ELSE IF dataLength > 0 /\ k.s.sizeTran + count > dataLength
        THEN Abort(stored, "DATA_LONG")
        ELSE Continue(empty_buffer(stored), "DOWNLOAD_SEGMENT_RSP")

on_upload_segment(k) ==
    LET cmd == k.s.rx.cmd IN
    IF cmd \notin {96, 112} THEN Abort(k, "CMD")
    ELSE IF (cmd = 112) # k.s.toggle THEN Abort(k, "TOGGLE_BIT")
    ELSE [k EXCEPT !.s.state = "UPLOAD_SEGMENT_RSP"]

on_download_blk_initiate(k) ==
    download_sized([k EXCEPT !.s.block_crcEnabled = bits(k.s.rx.cmd, 2, 1) = 1],
                   bits(k.s.rx.cmd, 1, 1) = 1, "DOWNLOAD_BLK_INITIATE_RSP")

on_download_blk_end(k) ==
    LET cmd == k.s.rx.cmd
        noData == bits(cmd, 2, 3)
    IN  IF bits(cmd, 5, 3) # 6 \/ cmd % 4 # 1 THEN Abort(k, "CMD")
        ELSE IF Len(k.s.buf) <= noData THEN Abort(k, "DEVICE_INCOMPAT")
        ELSE Continue(validateAndWriteToOD(
                        [k EXCEPT !.s.sizeTran = @ - noData,
                                  !.s.buf = SubSeq(@, 1, Len(@) - noData)],
                        2, k.s.rx.crc),
                      "DOWNLOAD_BLK_END_RSP")

on_upload_blk_initiate(k) ==
    LET f == k.s.rx
        crc == bits(f.cmd, 2, 1) = 1
        j == [k EXCEPT !.s.block_crcEnabled = crc,
                       !.s.block_crc = IF crc THEN k.s.buf ELSE @,
                       !.s.block_blksize = f.blk]
    IN  IF k.s.sizeInd > 0 /\ f.pst > 0 /\ f.pst >= k.s.sizeInd
        THEN [k EXCEPT !.s.state = "UPLOAD_INITIATE_RSP"]
        ELSE IF f.blk \notin 1..127 THEN Abort(j, "BLOCK_SIZE")
        ELSE IF ~k.s.finished /\ Len(k.s.buf) < f.blk * 7 THEN Abort(j, "DEVICE_INCOMPAT")
        ELSE [j EXCEPT !.s.state = "UPLOAD_BLK_INITIATE_RSP"]

on_upload_blk_initiate2(k) ==
    IF k.s.rx.cmd = 163
    THEN [k EXCEPT !.s.block_seqno = 0, !.s.state = "UPLOAD_BLK_SUBBLOCK_SREQ"]
    ELSE Abort(k, "CMD")

\* Defect: only the buffer is rewound.
rewound_buffer_only(s, ackseq) ==
    [s EXCEPT !.bufOffsetRd = @ - ((s.block_seqno - ackseq) * 7 - s.block_noData)]

\* Go back to the byte after the last segment that the client acknowledges.
rewound(s, ackseq) ==
    LET failed == (s.block_seqno - ackseq) * 7 - s.block_noData IN
    [s EXCEPT !.bufOffsetRd = @ - failed, !.sizeTran = @ - failed]

next_subblock(k) ==
    IF Aborted(k) THEN k
    ELSE IF Len(k.s.buf) = k.s.bufOffsetRd THEN [k EXCEPT !.s.state = "UPLOAD_BLK_END_SREQ"]
    ELSE [k EXCEPT !.s.block_seqno = 0, !.s.state = "UPLOAD_BLK_SUBBLOCK_SREQ"]

on_upload_blk_ack(k) ==
    LET f == k.s.rx
        j == [k EXCEPT !.s.block_blksize = f.blk]
    IN  IF f.cmd # 162 THEN Abort(k, "CMD")
        ELSE IF f.blk \notin 1..127 THEN Abort(j, "BLOCK_SIZE")
        ELSE IF f.seq > k.s.block_seqno THEN Abort(j, "CMD")
        ELSE next_subblock(readFromOd(
                IF f.seq < k.s.block_seqno THEN [j EXCEPT !.s = rewound(@, f.seq)] ELSE j,
                f.blk * 7, TRUE))

\* switch (SDO->state) of a received frame
on_request(k) ==
    CASE k.s.state \in {"IDLE", "ABORT", "DOWNLOAD_BLK_SUBBLOCK_REQ"} -> k
      [] k.s.state = "DOWNLOAD_INITIATE_REQ" -> on_download_initiate(k)
      [] k.s.state = "DOWNLOAD_SEGMENT_REQ" -> on_download_segment(k)
      [] k.s.state = "UPLOAD_INITIATE_REQ" -> [k EXCEPT !.s.state = "UPLOAD_INITIATE_RSP"]
      [] k.s.state = "UPLOAD_SEGMENT_REQ" -> on_upload_segment(k)
      [] k.s.state = "DOWNLOAD_BLK_INITIATE_REQ" -> on_download_blk_initiate(k)
      [] k.s.state = "DOWNLOAD_BLK_END_REQ" -> on_download_blk_end(k)
      [] k.s.state = "UPLOAD_BLK_INITIATE_REQ" -> on_upload_blk_initiate(k)
      [] k.s.state = "UPLOAD_BLK_INITIATE_REQ2" -> on_upload_blk_initiate2(k)
      [] k.s.state \in {"UPLOAD_BLK_SUBBLOCK_SREQ", "UPLOAD_BLK_SUBBLOCK_CRSP"} ->
           on_upload_blk_ack(k)
      [] OTHER -> Abort(k, "CMD")

---------------------------------------------------------------------------
(* CO_SDOserver_process, timers *)

\* The time to add: none in the call that handled a frame.
expire(k, dt) ==
    LET timer == IF k.s.timeoutTimer < SDOtimeoutTime THEN k.s.timeoutTimer + dt
                 ELSE k.s.timeoutTimer
        j == [k EXCEPT !.s.timeoutTimer = timer]
    IN  IF timer >= SDOtimeoutTime THEN Abort(j, "TIMEOUT") ELSE j

\* A pause within a sub-block ends it: what arrived is acknowledged.
expire_subblock(k, dt) ==
    LET timer == IF k.s.block_timeoutTimer < block_SDOtimeoutTime
                 THEN k.s.block_timeoutTimer + dt ELSE k.s.block_timeoutTimer
        j == [k EXCEPT !.s.block_timeoutTimer = timer]
    IN  IF k.s.state # "DOWNLOAD_BLK_SUBBLOCK_REQ" THEN k
        ELSE IF timer >= block_SDOtimeoutTime
        THEN [j EXCEPT !.s.state = "DOWNLOAD_BLK_SUBBLOCK_RSP", !.s.rxNew = FALSE]
        ELSE j

---------------------------------------------------------------------------
(* CO_SDOserver_process, transmit *)

Send(k, frame) == [k EXCEPT !.tx = Append(@, frame)]
End(k) == [k EXCEPT !.s.state = "IDLE", !.ret = "ok_communicationEnd"]

send_download_initiate(k) ==
    LET j == Send([k EXCEPT !.s.timeoutTimer = 0], MuxFrame(96, k.s.mux)) IN
    IF k.s.finished THEN End(j)
    ELSE [j EXCEPT !.s.toggle = FALSE, !.s.sizeTran = 0, !.s.buf = <<>>,
                   !.s.bufOffsetRd = 0, !.s.state = "DOWNLOAD_SEGMENT_REQ"]

send_download_segment(k) ==
    LET j == Send([k EXCEPT !.s.timeoutTimer = 0, !.s.toggle = ~@],
                  Frame(32 + IF k.s.toggle THEN 16 ELSE 0))
    IN  IF k.s.finished THEN End(j) ELSE [j EXCEPT !.s.state = "DOWNLOAD_SEGMENT_REQ"]

send_upload_initiate(k) ==
    LET s == k.s IN
    IF s.sizeInd \in 1..4
    THEN End(Send(k, [MuxFrame(67 + 4 * (4 - s.sizeInd), s.mux)
                        EXCEPT !.bytes = Padded(SubSeq(s.buf, 1, s.sizeInd))]))
    ELSE Send([k EXCEPT !.s.toggle = FALSE, !.s.timeoutTimer = 0,
                        !.s.state = "UPLOAD_SEGMENT_REQ"],
              [MuxFrame(IF s.sizeInd > 0 THEN 65 ELSE 64, s.mux) EXCEPT !.size = s.sizeInd])

\* The segment that the buffer holds next, and whether it is the last one.
next_segment(s) ==
    LET count == Len(s.buf) - s.bufOffsetRd
        last  == count < 7 \/ (s.finished /\ count = 7)
        n     == IF last THEN count ELSE 7
    IN  [last |-> last, n |-> n,
         bytes |-> SubSeq(s.buf, s.bufOffsetRd + 1, s.bufOffsetRd + n)]

\* An upload that ends too short or runs too long for what was indicated.
upload_size_error(s, sizeTran, last) ==
    CASE s.sizeInd > 0 /\ sizeTran > s.sizeInd -> "DATA_LONG"
      [] s.sizeInd > 0 /\ last /\ sizeTran < s.sizeInd -> "DATA_SHORT"
      [] OTHER -> "NONE"

segment_sent(k, seg) ==
    LET sent == [k EXCEPT !.s.toggle = ~@, !.s.bufOffsetRd = @ + seg.n,
                          !.s.sizeTran = @ + seg.n]
        error == upload_size_error(k.s, k.s.sizeTran + seg.n, seg.last)
        frame == [Frame((IF k.s.toggle THEN 16 ELSE 0)
                        + (IF seg.last THEN 2 * (7 - seg.n) + 1 ELSE 0))
                    EXCEPT !.bytes = Padded(seg.bytes)]
    IN  IF error # "NONE" THEN Abort(sent, error)
        ELSE IF seg.last THEN End(Send(sent, frame))
        ELSE Send([sent EXCEPT !.s.timeoutTimer = 0, !.s.state = "UPLOAD_SEGMENT_REQ"], frame)

send_upload_segment(k) ==
    LET send(r) == IF Aborted(r) THEN r ELSE segment_sent(r, next_segment(r.s))
    IN  send(readFromOd(k, 7, FALSE))

\* The segments that fit into the free part of the buffer.
free_segments(s) == Lowest(MAX_BLKSIZE, (BUFFER_SIZE - 2 - Len(s.buf)) \div 7)

send_download_blk_initiate(k) ==
    LET j == [k EXCEPT !.s.buf = <<>>, !.s.bufOffsetRd = 0, !.s.sizeTran = 0,
                       !.s.finished = FALSE, !.s.block_seqno = 0, !.s.block_crc = <<>>,
                       !.s.timeoutTimer = 0, !.s.block_timeoutTimer = 0,
                       !.s.rxNew = FALSE, !.s.state = "DOWNLOAD_BLK_SUBBLOCK_REQ"]
        count == free_segments(j.s)
    IN  Send([j EXCEPT !.s.block_blksize = count],
             [MuxFrame(164, k.s.mux) EXCEPT !.blk = count])

\* The answer to a sub-block that ended after seqno segments.
subblock_answered(k, seqno) ==
    IF Aborted(k) THEN k
    ELSE Send([k EXCEPT !.s.block_timeoutTimer = 0],
              [Frame(162) EXCEPT !.seq = seqno, !.blk = k.s.block_blksize])

next_download_subblock(k) ==
    IF Aborted(k) THEN k
    ELSE [k EXCEPT !.s.block_blksize = free_segments(k.s), !.s.block_seqno = 0,
                   !.s.state = "DOWNLOAD_BLK_SUBBLOCK_REQ", !.s.rxNew = FALSE]

\* Defect: the transfer's timer restarts with every sub-block.
send_download_blk_subblock_restarts(k) ==
    subblock_answered(
        [next_download_subblock(IF free_segments(k.s) < MAX_BLKSIZE /\ Len(k.s.buf) > 0
                                THEN validateAndWriteToOD(k, 1, <<>>) ELSE k)
           EXCEPT !.s.timeoutTimer = 0],
        k.s.block_seqno)

\* Acknowledge a sub-block. The buffer is emptied into the variable unless
\* another whole sub-block fits. The timer of the transfer keeps running.
send_download_blk_subblock(k) ==
    subblock_answered(
        IF k.s.finished THEN [k EXCEPT !.s.state = "DOWNLOAD_BLK_END_REQ"]
        ELSE next_download_subblock(IF free_segments(k.s) < MAX_BLKSIZE /\ Len(k.s.buf) > 0
                                    THEN validateAndWriteToOD(k, 1, <<>>) ELSE k),
        k.s.block_seqno)

send_upload_blk_initiate(k) ==
    Send([k EXCEPT !.s.timeoutTimer = 0, !.s.state = "UPLOAD_BLK_INITIATE_REQ2"],
         [MuxFrame(196 + IF k.s.sizeInd > 0 THEN 2 ELSE 0, k.s.mux)
            EXCEPT !.size = k.s.sizeInd])

blk_segment_sent(k, seg) ==
    LET empty == Len(k.s.buf) = k.s.bufOffsetRd + seg.n
        error == upload_size_error(k.s, k.s.sizeTran + seg.n, empty)
        sent == [k EXCEPT !.s.block_seqno = @ + 1, !.s.bufOffsetRd = @ + seg.n,
                          !.s.block_noData = 7 - seg.n, !.s.sizeTran = @ + seg.n]
    IN  IF error # "NONE" THEN Abort(sent, error)
        ELSE Send([sent EXCEPT !.s.timeoutTimer = 0,
                               !.s.state = IF empty \/ k.s.block_seqno + 1 >= k.s.block_blksize
                                           THEN "UPLOAD_BLK_SUBBLOCK_CRSP" ELSE @],
                  [Frame(k.s.block_seqno + 1 + IF seg.last THEN 128 ELSE 0)
                     EXCEPT !.bytes = Padded(seg.bytes)])

send_upload_blk_segment(k) == blk_segment_sent(k, next_segment(k.s))

send_upload_blk_end(k) ==
    Send([k EXCEPT !.s.timeoutTimer = 0, !.s.state = "UPLOAD_BLK_END_CRSP"],
         [Frame(193 + 4 * k.s.block_noData) EXCEPT !.crc = k.s.block_crc])

\* switch (SDO->state) of the transmission
transmit(k) ==
    CASE k.s.state = "DOWNLOAD_INITIATE_RSP" -> send_download_initiate(k)
      [] k.s.state = "DOWNLOAD_SEGMENT_RSP" -> send_download_segment(k)
      [] k.s.state = "UPLOAD_INITIATE_RSP" -> send_upload_initiate(k)
      [] k.s.state = "UPLOAD_SEGMENT_RSP" -> send_upload_segment(k)
      [] k.s.state = "DOWNLOAD_BLK_INITIATE_RSP" -> send_download_blk_initiate(k)
      [] k.s.state = "DOWNLOAD_BLK_SUBBLOCK_RSP" -> send_download_blk_subblock(k)
      [] k.s.state = "DOWNLOAD_BLK_END_RSP" -> End(Send(k, Frame(161)))
      [] k.s.state = "UPLOAD_BLK_INITIATE_RSP" -> send_upload_blk_initiate(k)
      [] k.s.state = "UPLOAD_BLK_SUBBLOCK_SREQ" -> send_upload_blk_segment(k)
      [] k.s.state = "UPLOAD_BLK_END_SREQ" -> send_upload_blk_end(k)
      [] OTHER -> k

send_abort(k) ==
    IF k.s.state # "ABORT" THEN k
    ELSE [k EXCEPT !.tx = Append(@, [MuxFrame(128, k.s.mux) EXCEPT !.code = k.ab]),
                   !.s.state = "IDLE", !.ret = "endedWithServerAbort"]

---------------------------------------------------------------------------
(* CO_SDOserver_process *)

Waiting(k) == k.ret = "waitingResponse"

\* The first part: is there anything to do, and the frame that was received.
received(k, NMTisPreOrOperational) ==
    IF k.s.state = "IDLE" /\ k.s.valid /\ ~k.s.rxNew
    THEN [k EXCEPT !.ret = "ok_communicationEnd"]
    ELSE IF ~NMTisPreOrOperational \/ ~k.s.valid
    THEN [k EXCEPT !.s.state = "IDLE", !.s.rxNew = FALSE, !.s.rx = Frame(0),
                   !.ret = "ok_communicationEnd"]
    ELSE IF k.s.rxNew
    THEN [on_request(IF k.s.state = "IDLE" THEN new_communication(k) ELSE k)
            EXCEPT !.s.timeoutTimer = 0, !.s.rxNew = FALSE, !.s.rx = Frame(0)]
    ELSE k

\* A full transmit buffer returns before anything is sent; an abort code that
\* was set in this call is then forgotten (abortCode is a local variable).
timed(k, dt, bufferFull) ==
    IF ~Waiting(k) THEN k
    ELSE IF bufferFull
    THEN [expire_subblock(expire(k, dt), dt) EXCEPT !.ret = "transmittBufferFull"]
    ELSE expire_subblock(expire(k, dt), dt)

transmitted(k) == IF Waiting(k) THEN transmit(k) ELSE k
ended(k) == IF Waiting(k) THEN send_abort(k) ELSE k

CO_SDOserver_process(s, o, NMTisPreOrOperational, timeDifference, bufferFull) ==
    ended(transmitted(timed(
        received([s |-> s, od |-> o, ab |-> "NONE", ret |-> "waitingResponse", tx |-> <<>>],
                 NMTisPreOrOperational),
        IF s.rxNew THEN 0 ELSE timeDifference, bufferFull)))

---------------------------------------------------------------------------
(* The server with an arbitrary client *)

vars == <<client, SDO, od, over, waited>>

\* What is left in the structure by the transfers before: each request is
\* received and processed, the last one twice more without a request.
After(history) ==
    LET start == [s |-> InitServer, od |-> InitialOd, ab |-> "NONE", ret |-> "", tx |-> <<>>]
        done[i \in 0..Len(history)] ==
            IF i = 0 THEN start
            ELSE CO_SDOserver_process(CO_SDO_receive(done[i - 1].s, history[i]), done[i - 1].od,
                                      TRUE, 0, FALSE)
    IN  done[Len(history)]

Init ==
    /\ \E k \in {After(history) : history \in Histories} : SDO = k.s /\ od = k.od
    /\ client \in DOMAIN Clients /\ over = FALSE /\ waited = 0

Ends == over' = (over \/ (SDO.state # "IDLE" /\ SDO'.state = "IDLE"))

\* The CAN driver hands over a frame.
Receive ==
    /\ ~over
    /\ \E f \in Clients[client] : SDO' = CO_SDO_receive(SDO, f)
    /\ Ends /\ UNCHANGED <<client, od, waited>>

\* The main loop calls the server with the time that has passed.
Call(NMTisPreOrOperational, timeDifference, bufferFull) ==
    /\ \E k \in {CO_SDOserver_process(SDO, od, NMTisPreOrOperational, timeDifference, bufferFull)} :
          SDO' = k.s /\ od' = k.od
    /\ Ends /\ UNCHANGED client

\* A quick call, and one after a tick.
Process == Call(TRUE, 0, FALSE) /\ UNCHANGED waited
Tick ==
    /\ Call(TRUE, 1, FALSE)
    /\ waited' = IF over THEN Lowest(waited + 1, Patience) ELSE 0

\* The driver could not send the last frame yet.
ProcessFull == Call(TRUE, 1, TRUE) /\ UNCHANGED waited

\* The node was stopped by NMT.
ProcessStopped == Call(FALSE, 0, FALSE) /\ UNCHANGED waited

\* The client is not heard of again.
FallSilent == ~over /\ over' = TRUE /\ UNCHANGED <<client, SDO, od, waited>>

Next == Receive \/ Process \/ Tick \/ ProcessFull \/ ProcessStopped \/ FallSilent

Spec == Init /\ [][Next]_vars

---------------------------------------------------------------------------
(* Properties *)

\* CO_SDOserver_t; OD_size_t and the counters are unsigned.
CO_SDOserver_t(s) ==
    /\ s.state \in CO_SDO_state /\ s.mux \in Nat \X Nat
    /\ s.stream.dataOffset \in Nat /\ s.stream.dataLength \in Nat
    /\ s.sizeInd \in Nat /\ s.sizeTran \in Nat /\ s.bufOffsetRd \in Nat
    /\ {s.valid, s.rxNew, s.toggle, s.finished, s.block_crcEnabled} \subseteq BOOLEAN
    /\ s.timeoutTimer \in 0..SDOtimeoutTime
    /\ s.block_timeoutTimer \in 0..block_SDOtimeoutTime
    /\ s.block_seqno \in 0..127 /\ s.block_blksize \in 0..255 /\ s.block_noData \in 0..7

\* What CO_SDOserver.c says of its buffer: in a sub-block "condition should
\* always pass" (line 69) and "There is always enough space in buffer,
\* because block_blksize was calculated before" (line 81); at the end of a
\* block download the buffer has the last segment in it (line 912); a segment
\* request finds room for seven bytes and a terminator; and what was read is
\* never past what was written. No offset or counter of unsigned type is
\* driven below zero and no timer runs past its limit.
BufferInBounds ==
    /\ CO_SDOserver_t(SDO)
    /\ Len(SDO.buf) <= BUFFER_SIZE
    /\ SDO.bufOffsetRd \in 0..Len(SDO.buf)
    /\ SDO.state = "DOWNLOAD_BLK_SUBBLOCK_REQ" =>
          /\ Len(SDO.buf) <= BUFFER_SIZE - 9
          /\ SDO.block_seqno < SDO.block_blksize
          /\ Len(SDO.buf) + 7 * (SDO.block_blksize - SDO.block_seqno) <= BUFFER_SIZE - 2
    /\ SDO.state = "DOWNLOAD_BLK_END_REQ" => Len(SDO.buf) >= 7
    /\ SDO.state = "DOWNLOAD_SEGMENT_REQ" => Len(SDO.buf) + 9 <= BUFFER_SIZE

UploadStates ==
    {"UPLOAD_INITIATE_RSP", "UPLOAD_SEGMENT_REQ", "UPLOAD_SEGMENT_RSP",
     "UPLOAD_BLK_INITIATE_RSP", "UPLOAD_BLK_INITIATE_REQ2", "UPLOAD_BLK_SUBBLOCK_SREQ",
     "UPLOAD_BLK_SUBBLOCK_CRSP", "UPLOAD_BLK_END_SREQ", "UPLOAD_BLK_END_CRSP"}

\* What an upload of a variable has to deliver: a string ends before its
\* first zero byte, but is never empty.
content_length(mux) ==
    IF "STR" \in Entries[mux[1]].sub[mux[2]].attribute THEN string_length(od[mux])
    ELSE Len(od[mux])

\* At every moment of an upload, also after segments of a block were
\* rewound for retransmission, the unsent part of the buffer is the part of
\* the variable that follows the sizeTran bytes already sent; once reading is
\* finished the two together are the whole content. A string that does not
\* fit into the buffer may end with its terminator: readFromOd keeps at least
\* one byte of every piece that it reads, also when that is the terminator.
UploadWindow ==
    SDO.state \in UploadStates =>
        LET rest == SubSeq(SDO.buf, SDO.bufOffsetRd + 1, Len(SDO.buf))
            upto == SDO.sizeTran + Len(rest)
            length == content_length(SDO.mux)
        IN  /\ upto <= Len(od[SDO.mux])
            /\ rest = SubSeq(od[SDO.mux], SDO.sizeTran + 1, upto)
            /\ IF SDO.finished THEN upto \in length..(IF length < BUFFER_SIZE THEN length ELSE length + 1)
               ELSE SDO.stream.dataOffset = upto /\ upto <= length

\* In a download that has not ended, the bytes already written to the
\* variable and the bytes in the buffer are the bytes transferred: none is
\* written twice or skipped when the buffer is emptied on the way.
DownloadWindow ==
    (SDO.state \in {"DOWNLOAD_SEGMENT_REQ", "DOWNLOAD_SEGMENT_RSP",
                    "DOWNLOAD_BLK_SUBBLOCK_REQ", "DOWNLOAD_BLK_SUBBLOCK_RSP",
                    "DOWNLOAD_BLK_END_REQ"}
     /\ (SDO.state = "DOWNLOAD_SEGMENT_RSP" => ~SDO.finished)) =>
        SDO.stream.dataOffset + Len(SDO.buf) = SDO.sizeTran

\* Both: no byte of a transfer is lost, doubled or skipped inside the server.
BytesAreAccounted == UploadWindow /\ DownloadWindow

BlockStates == {"DOWNLOAD_BLK_SUBBLOCK_RSP", "DOWNLOAD_BLK_END_REQ"}

\* A variable that fits into the buffer is changed by an expedited or
\* segmented download only as a whole, in the step that acknowledges it.
\* (A block download writes every sub-block as it comes.)
SegmentedWritesAreWhole ==
    [][\A mux \in DOMAIN od :
         od'[mux] # od[mux] =>
            \/ SDO.state \in BlockStates \cup {"DOWNLOAD_BLK_SUBBLOCK_REQ"}
            \/ Len(od[mux]) > BUFFER_SIZE - 9
            \/ SDO'.finished /\ SDO'.state \in {"IDLE", "DOWNLOAD_INITIATE_RSP", "DOWNLOAD_SEGMENT_RSP"}
    ]_vars

\* When the client falls silent the server ends its transfer and is idle
\* again, in whatever state it was left, within Patience ticks: no state has
\* its timer stopped or restarted for ever.
RecoversInTime == waited = Patience => SDO.state = "IDLE" /\ ~SDO.rxNew
=============================================================================

---------------------------- MODULE CoSdoClient ----------------------------
(***************************************************************************)
(* The SDO client of CANopenNode, CO_SDOclient.c: expedited, segmented and *)
(* block transfers of both directions, and transfers with the node's own   *)
(* dictionary.                                                             *)
(*                                                                         *)
(* CO_SDOclient_receive runs in the context of the CAN driver and copies   *)
(* block segments straight into the buffer; the application calls          *)
(* CO_SDOclientDownload or CO_SDOclientUpload until the transfer ends, and *)
(* fills or empties the buffer in between.  As in CoSdoServer the          *)
(* operators take and return a structure k: the client c, the dictionary   *)
(* od of the own node, and the local variables abortCode (ab), ret and     *)
(* the frames sent (tx).                                                   *)
(*                                                                         *)
(* bufFifo is the sequence of the bytes in the buffer and alt the number   *)
(* of them that altReadPtr is ahead of readPtr: CoFifo shows that the ring *)
(* buffer is that queue.  A CRC is the sequence of the bytes fed to it.    *)
(***************************************************************************)
EXTENDS CoOD, CoSdoFrame

CONSTANTS
    OwnEntries,         \* the dictionary of the client's own node
    OwnOd,              \* the values of its variables
    CLI_BUFFER_SIZE,    \* CO_CONFIG_SDO_CLI_BUFFER_SIZE (1000), "7 or more"
    CLI_MAX_BLKSIZE,    \* the largest sub-block, 127 segments
    CLI_PST,            \* CO_CONFIG_SDO_CLI_PST (21)
    CliTimeoutTime,     \* SDOtimeoutTime_us, in ticks
    CliBlockTimeoutTime,\* block_SDOtimeoutTime_us, 7/10 of it
    Jobs,               \* the transfers that the application may ask for
    Chunk,              \* bytes that it gives or takes at once
    Responses,          \* "up", "down" -> the frames that CO_SDOclient_receive may be given
    UploadBound,        \* frames are received until an upload has this many bytes
    CliPatience         \* timed calls after which a client without a server is idle

VARIABLES
    SDO_C,      \* CO_SDOclient_t
    own,        \* the variables of the own node
    app,        \* the application: its job, the data to give, the data it got
    silent,     \* the transfer has ended, or the server is gone
    waited      \* timed calls since then

\* CO_SDOclient_init, CO_SDOclient_setup
InitClient ==
    [state |-> "IDLE", mux |-> <<0, 0>>, finished |-> FALSE, sizeInd |-> 0, sizeTran |-> 0,
     timeoutTimer |-> 0, bufFifo |-> <<>>, alt |-> 0, rxNew |-> FALSE, rx |-> Frame(0),
     toggle |-> FALSE, block_timeoutTimer |-> 0, block_seqno |-> 0, block_blksize |-> 0,
     block_noData |-> 0, block_crcEnabled |-> FALSE, dataUploadLast |-> NoBytes,
     block_crc |-> <<>>, io |-> FALSE,
     stream |-> [attribute |-> {}, dataLength |-> 0, dataOffset |-> 0]]

(* The buffer *)
getSpace(c) == CLI_BUFFER_SIZE - Len(c.bufFifo)
fifo_write(c, bytes) ==
    [c EXCEPT !.bufFifo = @ \o SubSeq(bytes, 1, Lowest(Len(bytes), getSpace(c)))]
fifo_read(c, count) == [c EXCEPT !.bufFifo = SubSeq(@, count + 1, Len(@))]
altBegin(c, offset) == [c EXCEPT !.alt = Lowest(offset, Len(c.bufFifo))]
altFinish(c) ==
    [c EXCEPT !.block_crc = @ \o SubSeq(c.bufFifo, 1, c.alt),
              !.bufFifo = SubSeq(@, c.alt + 1, Len(@)), !.alt = 0]

---------------------------------------------------------------------------
(* CO_SDOclient_receive *)

\* Block upload: the next segment is taken, the last one kept apart because
\* its length is not known yet; a repeated one, and any before the first, is
\* ignored; any other one ends the sub-block.
upload_segment(c, f) ==
    LET seqno == bits(f.cmd, 0, 7)
        t == [c EXCEPT !.timeoutTimer = 0, !.block_timeoutTimer = 0]
        n == [t EXCEPT !.block_seqno = seqno]
    IN  IF seqno <= c.block_blksize /\ seqno = c.block_seqno + 1
        THEN IF f.cmd >= 128
             THEN [n EXCEPT !.dataUploadLast = f.bytes, !.finished = TRUE,
                            !.state = "UPLOAD_BLK_SUBBLOCK_CRSP"]
             ELSE [fifo_write(n, f.bytes) EXCEPT
                     !.block_crc = @ \o f.bytes, !.sizeTran = @ + 7,
                     !.state = IF seqno = c.block_blksize
                               THEN "UPLOAD_BLK_SUBBLOCK_CRSP" ELSE @]
        ELSE IF seqno # c.block_seqno /\ c.block_seqno # 0
        THEN [t EXCEPT !.state = "UPLOAD_BLK_SUBBLOCK_CRSP"]
        ELSE t

CO_SDOclient_receive(c, f) ==
    CASE c.state = "IDLE" \/ (c.rxNew /\ f.cmd # 128) -> c
      [] c.state = "UPLOAD_BLK_SUBBLOCK_SREQ" /\ ~c.rxNew /\ f.cmd # 128 -> upload_segment(c, f)
      [] c.state = "UPLOAD_BLK_SUBBLOCK_CRSP" /\ ~c.rxNew /\ f.cmd # 128 -> c
      [] OTHER -> [c EXCEPT !.rx = f, !.rxNew = TRUE]

---------------------------------------------------------------------------
(* Parts that downloads and uploads have in common *)

Abort(k, code) == [k EXCEPT !.c.state = "ABORT", !.ab = code]
End(k) == [k EXCEPT !.c.state = "IDLE", !.ret = "ok_communicationEnd"]
EndLocal(k, ret, code) == [k EXCEPT !.c.state = "IDLE", !.ret = ret, !.ab = code]
Send(k, frame) == [k EXCEPT !.c.timeoutTimer = 0, !.tx = Append(@, frame)]
Waiting(k) == k.ret = "waitingResponse"
Call(c, od) == [c |-> c, od |-> od, ab |-> "NONE", ret |-> "waitingResponse", tx |-> <<>>]

\* DownloadInitiate and UploadInitiate start from this.
initiated(c, mux, size) ==
    [c EXCEPT !.mux = mux, !.sizeInd = size, !.sizeTran = 0, !.finished = FALSE,
              !.timeoutTimer = 0, !.bufFifo = <<>>, !.alt = 0, !.io = FALSE,
              !.rxNew = FALSE, !.rx = Frame(0)]

\* An abort by the server ends the transfer, also when the application
\* wants to abort itself.
on_frame(k, send_abort, handled) ==
    [(CASE k.c.rx.cmd = 128 -> [k EXCEPT !.c.state = "IDLE", !.ab = k.c.rx.code,
                                         !.ret = "endedWithServerAbort"]
        [] k.c.rx.cmd # 128 /\ send_abort -> Abort(k, "GENERAL")
        [] OTHER -> handled)
       EXCEPT !.c.timeoutTimer = 0, !.c.rxNew = FALSE, !.c.rx = Frame(0)]

\* Defect: the timer is not looked at once it has reached its end.
expire_once(k, dt, code) ==
    IF k.c.timeoutTimer < CliTimeoutTime - 1 THEN [k EXCEPT !.c.timeoutTimer = @ + dt] ELSE k

expire(k, dt, code) ==
    LET timer == IF k.c.timeoutTimer < CliTimeoutTime THEN k.c.timeoutTimer + dt
                 ELSE k.c.timeoutTimer
        j == [k EXCEPT !.c.timeoutTimer = timer]
    IN  IF timer >= CliTimeoutTime THEN Abort(j, code) ELSE j

full(k, bufferFull) == IF bufferFull THEN [k EXCEPT !.ret = "transmittBufferFull"] ELSE k

\* The abort frame; an abort code that was found while the transmit buffer
\* was full is lost by now.
send_abort_frame(k, inProgressState, inProgress) ==
    CASE Waiting(k) /\ k.c.state = "ABORT" ->
           [k EXCEPT !.tx = Append(@, [MuxFrame(128, k.c.mux) EXCEPT !.code = k.ab]),
                     !.c.state = "IDLE", !.ret = "endedWithClientAbort"]
      [] Waiting(k) /\ k.c.state = inProgressState -> [k EXCEPT !.ret = inProgress]
      [] OTHER -> k

---------------------------------------------------------------------------
(* Download *)

CO_SDOclientDownloadInitiate(c, mux, sizeIndicated, blockEnable, local) ==
    [initiated(c, mux, sizeIndicated) EXCEPT
       !.state = CASE local -> "DOWNLOAD_LOCAL_TRANSFER"
                   [] ~local /\ blockEnable /\ (sizeIndicated = 0 \/ sizeIndicated > CLI_PST) ->
                        "DOWNLOAD_BLK_INITIATE_REQ"
                   [] OTHER -> "DOWNLOAD_INITIATE_REQ"]

\* The size became known after the initiation: a short download is not a
\* block download.
CO_SDOclientDownloadInitSize(c, sizeIndicated) ==
    [c EXCEPT !.sizeInd = sizeIndicated,
              !.state = IF @ = "DOWNLOAD_BLK_INITIATE_REQ" /\ sizeIndicated \in 1..CLI_PST
                        THEN "DOWNLOAD_INITIATE_REQ" ELSE @]

\* The variable of the own node, opened in the first call.
opened(k, right, refused) ==
    LET odRet == OD_getSub(OwnEntries, k.c.mux[1], k.c.mux[2])
        stream == OD_stream(OwnEntries, k.c.mux[1], k.c.mux[2])
        rights == stream.attribute \cap {"SDO_R", "SDO_W"}
        j == [k EXCEPT !.c.io = TRUE, !.c.stream = stream]
    IN  IF k.c.io THEN k
        ELSE IF odRet # "OK"
        THEN [k EXCEPT !.ab = OD_getSDOabCode(odRet), !.ret = "endedWithClientAbort"]
        ELSE IF right \in rights THEN j
        ELSE [j EXCEPT !.ab = IF rights = {} THEN "UNSUPPORTED_ACCESS" ELSE refused,
                       !.ret = "endedWithClientAbort"]

\* One or two zero bytes end a string that is shorter than its variable.
local_terminators(c, sizeTran) ==
    LET sizeInOd == c.stream.dataLength IN
    CASE ~("STR" \in c.stream.attribute /\ (sizeInOd = 0 \/ sizeTran < sizeInOd)) -> 0
      [] sizeInOd # 0 /\ sizeTran + 1 >= sizeInOd -> 1
      [] OTHER -> 2

local_size_error(c, sizeTran, bufferPartial) ==
    CASE c.bufFifo = <<>> -> "DEVICE_INCOMPAT"
      [] c.sizeInd > 0 /\ sizeTran > c.sizeInd -> "DATA_LONG"
      [] ~bufferPartial /\ c.sizeInd > 0 /\ sizeTran < c.sizeInd -> "DATA_SHORT"
      [] ~bufferPartial /\ local_terminators(c, sizeTran) = 0
         /\ c.stream.dataLength \notin {0, sizeTran} ->
           IF sizeTran > c.stream.dataLength THEN "DATA_LONG" ELSE "DATA_SHORT"
      [] OTHER -> "NONE"

\* w is what OD_IO.write returned.
local_written(k, w, bufferPartial) ==
    LET j == [k EXCEPT !.od[k.c.mux] = w.data, !.c.stream = w.stream] IN
    CASE w.ret \notin {"OK", "PARTIAL"} ->
           EndLocal(j, "endedWithServerAbort", OD_getSDOabCode(w.ret))
      [] w.ret = "OK" /\ bufferPartial -> EndLocal(j, "endedWithClientAbort", "DATA_LONG")
      [] w.ret = "PARTIAL" /\ ~bufferPartial -> EndLocal(j, "endedWithClientAbort", "DATA_SHORT")
      [] w.ret = "OK" /\ ~bufferPartial -> End(j)
      [] OTHER -> [j EXCEPT !.ret = "waitingLocalTransfer"]

local_write(k, bytes, zeros, bufferPartial) ==
    local_written(k, OD_writeOriginal(k.od[k.c.mux], k.c.stream,
                                      bytes \o [i \in 1..zeros |-> 0]), bufferPartial)

\* The whole buffer is written to the variable, unless opening it or the
\* size check found an error.
download_local(k, bufferPartial) ==
    LET sizeTran == k.c.sizeTran + Len(k.c.bufFifo)
        error == local_size_error(k.c, sizeTran, bufferPartial)
        zeros == IF bufferPartial THEN 0 ELSE local_terminators(k.c, sizeTran)
        j == [k EXCEPT !.c.bufFifo = <<>>, !.c.sizeTran = sizeTran + zeros,
                       !.c.stream.dataLength =
                          IF ~bufferPartial /\ (zeros > 0 \/ @ = 0) THEN sizeTran + zeros ELSE @]
    IN  IF ~k.c.io THEN EndLocal(k, k.ret, k.ab)
        ELSE IF error # "NONE" THEN EndLocal([k EXCEPT !.c.bufFifo = <<>>],
                                             "endedWithClientAbort", error)
        ELSE IF k.ab # "NONE" THEN EndLocal(j, k.ret, k.ab)
        ELSE local_write(j, k.c.bufFifo, zeros, bufferPartial)

\* Defect: the answer to the initiation ends the download.
on_download_initiate_ends(k) ==
    CASE k.c.rx.cmd # 96 -> Abort(k, "CMD")
      [] k.c.rx.cmd = 96 /\ k.c.rx.mux # k.c.mux -> Abort(k, "PRAM_INCOMPAT")
      [] OTHER -> End(k)

on_download_initiate(k) ==
    CASE k.c.rx.cmd # 96 -> Abort(k, "CMD")
      [] k.c.rx.cmd = 96 /\ k.c.rx.mux # k.c.mux -> Abort(k, "PRAM_INCOMPAT")
      [] k.c.rx.cmd = 96 /\ k.c.rx.mux = k.c.mux /\ k.c.finished -> End(k)
      [] OTHER -> [k EXCEPT !.c.toggle = FALSE, !.c.state = "DOWNLOAD_SEGMENT_REQ"]

on_download_segment(k) ==
    LET toggle == bits(k.c.rx.cmd, 4, 1) = 1
        j == [k EXCEPT !.c.toggle = ~@]
    IN  IF k.c.rx.cmd \notin {32, 48} THEN Abort(k, "CMD")
        ELSE IF toggle # k.c.toggle THEN Abort(k, "TOGGLE_BIT")
        ELSE IF k.c.finished THEN End(j)
        ELSE [j EXCEPT !.c.state = "DOWNLOAD_SEGMENT_REQ"]

on_download_blk_initiate(k) ==
    IF k.c.rx.cmd \notin {160, 164} THEN Abort(k, "CMD")
    ELSE IF k.c.rx.mux # k.c.mux THEN Abort(k, "PRAM_INCOMPAT")
    ELSE [k EXCEPT !.c = [altBegin(@, 0) EXCEPT
            !.block_crc = <<>>, !.block_seqno = 0, !.state = "DOWNLOAD_BLK_SUBBLOCK_REQ",
            !.block_blksize = IF k.c.rx.blk \in 1..127 THEN k.c.rx.blk ELSE 127]]

\* Defect: the unused bytes of the last segment are not taken into account.
unsent_all_bytes(c, ackseq) ==
    IF ackseq < c.block_seqno
    THEN [altBegin(c, ackseq * 7) EXCEPT
            !.sizeTran = @ - ((c.block_seqno - ackseq) * 7), !.finished = FALSE]
    ELSE c

\* Defect: the transfer stays finished although its end is sent again.
unsent_still_finished(c, ackseq) ==
    IF ackseq < c.block_seqno
    THEN [altBegin(c, ackseq * 7) EXCEPT
            !.sizeTran = @ - ((c.block_seqno - ackseq) * 7 - c.block_noData)]
    ELSE c

\* Segments after the one that the server acknowledges are sent again.
unsent(c, ackseq) ==
    IF ackseq < c.block_seqno
    THEN [altBegin(c, ackseq * 7) EXCEPT
            !.sizeTran = @ - ((c.block_seqno - ackseq) * 7 - c.block_noData),
            !.finished = FALSE]
    ELSE c

\* Defect: the numbers of the segments go on in the next sub-block.
acknowledged_counts_on(c, blksize) ==
    IF c.finished THEN [altFinish(c) EXCEPT !.state = "DOWNLOAD_BLK_END_REQ"]
    ELSE [altBegin(altFinish(c), 0) EXCEPT
            !.block_blksize = blksize, !.state = "DOWNLOAD_BLK_SUBBLOCK_REQ"]

\* The acknowledged bytes leave the buffer. The size of the next sub-block is
\* taken as it comes.
acknowledged(c, blksize) ==
    IF c.finished THEN [altFinish(c) EXCEPT !.state = "DOWNLOAD_BLK_END_REQ"]
    ELSE [altBegin(altFinish(c), 0) EXCEPT
            !.block_blksize = blksize, !.block_seqno = 0, !.state = "DOWNLOAD_BLK_SUBBLOCK_REQ"]

on_download_blk_ack(k) ==
    IF k.c.rx.cmd # 162 \/ k.c.rx.seq > k.c.block_seqno THEN Abort(k, "CMD")
    ELSE [k EXCEPT !.c = acknowledged(unsent(@, k.c.rx.seq), k.c.rx.blk)]

on_download(k) ==
    CASE k.c.state = "DOWNLOAD_INITIATE_RSP" -> on_download_initiate(k)
      [] k.c.state = "DOWNLOAD_SEGMENT_RSP" -> on_download_segment(k)
      [] k.c.state = "DOWNLOAD_BLK_INITIATE_RSP" -> on_download_blk_initiate(k)
      [] k.c.state \in {"DOWNLOAD_BLK_SUBBLOCK_REQ", "DOWNLOAD_BLK_SUBBLOCK_RSP"} ->
           on_download_blk_ack(k)
      [] k.c.state = "DOWNLOAD_BLK_END_RSP" -> IF k.c.rx.cmd = 161 THEN End(k) ELSE Abort(k, "CMD")
      [] OTHER -> Abort(k, "CMD")

\* Up to four bytes are sent at once; they have to be as many as indicated.
send_download_initiate(k) ==
    LET count == Len(k.c.bufFifo)
        expedited == (k.c.sizeInd = 0 /\ count <= 4) \/ k.c.sizeInd \in 1..4
        cmd == 32 + (IF expedited THEN 2 ELSE 0)
                  + (IF k.c.sizeInd = 0 THEN 0 ELSE 1 + IF expedited THEN 4 * (4 - count) ELSE 0)
    IN  IF expedited /\ (count = 0 \/ k.c.sizeInd \notin {0, count})
        THEN EndLocal(k, "endedWithClientAbort", "TYPE_MISMATCH")
        ELSE Send([k EXCEPT !.c = [IF expedited THEN fifo_read(@, count) ELSE @ EXCEPT
                              !.sizeTran = IF expedited THEN count ELSE @,
                              !.finished = @ \/ expedited,
                              !.state = "DOWNLOAD_INITIATE_RSP"]],
                  [MuxFrame(cmd, k.c.mux) EXCEPT
                     !.bytes = IF expedited THEN Padded(k.c.bufFifo) ELSE @,
                     !.size = IF expedited THEN 0 ELSE k.c.sizeInd])

\* The size check of a segment: too long, or the end is too short.
segment_error(c, sizeTran, last) ==
    CASE c.sizeInd > 0 /\ sizeTran > c.sizeInd -> "DATA_LONG"
      [] c.sizeInd > 0 /\ last /\ sizeTran < c.sizeInd -> "DATA_SHORT"
      [] OTHER -> "NONE"

send_download_segment(k, bufferPartial) ==
    LET count == Lowest(7, Len(k.c.bufFifo))
        last == Len(k.c.bufFifo) = count /\ ~bufferPartial
        error == segment_error(k.c, k.c.sizeTran + count, last)
        j == [k EXCEPT !.c = [fifo_read(@, count) EXCEPT
                !.sizeTran = IF error = "DATA_LONG" THEN @ ELSE @ + count]]
    IN  IF error # "NONE" THEN Abort(j, error)
        ELSE Send([j EXCEPT !.c.finished = @ \/ last, !.c.state = "DOWNLOAD_SEGMENT_RSP"],
                  [Frame((IF k.c.toggle THEN 16 ELSE 0) + 2 * (7 - count) + (IF last THEN 1 ELSE 0))
                     EXCEPT !.bytes = Padded(SubSeq(k.c.bufFifo, 1, count))])

send_download_blk_initiate(k) ==
    Send([k EXCEPT !.c.state = "DOWNLOAD_BLK_INITIATE_RSP"],
         [MuxFrame(196 + IF k.c.sizeInd > 0 THEN 2 ELSE 0, k.c.mux) EXCEPT !.size = k.c.sizeInd])

\* A segment that is not full waits until the application has given the rest.
send_download_blk_segment(k, bufferPartial) ==
    LET occupied == Len(k.c.bufFifo) - k.c.alt
        count == Lowest(7, occupied)
        last == occupied = count /\ ~bufferPartial
        error == segment_error(k.c, k.c.sizeTran + count, last)
        seqno == k.c.block_seqno + 1
        j == [k EXCEPT !.c.block_seqno = seqno, !.c.alt = @ + count,
                       !.c.block_noData = 7 - count,
                       !.c.sizeTran = IF error = "DATA_LONG" THEN @ ELSE @ + count]
    IN  IF occupied < 7 /\ bufferPartial THEN k
        ELSE IF error # "NONE" THEN Abort(j, error)
        ELSE Send([j EXCEPT !.c.finished = @ \/ last,
                            !.c.state = IF last \/ seqno >= k.c.block_blksize
                                        THEN "DOWNLOAD_BLK_SUBBLOCK_RSP" ELSE @],
                  [Frame(seqno + IF last THEN 128 ELSE 0) EXCEPT
                     !.bytes = Padded(SubSeq(k.c.bufFifo, k.c.alt + 1, k.c.alt + count))])

send_download_blk_end(k) ==
    Send([k EXCEPT !.c.state = "DOWNLOAD_BLK_END_RSP"],
         [Frame(193 + 4 * k.c.block_noData) EXCEPT !.crc = k.c.block_crc])

download_transmit(k, bufferPartial) ==
    CASE k.c.state = "DOWNLOAD_INITIATE_REQ" -> send_download_initiate(k)
      [] k.c.state = "DOWNLOAD_SEGMENT_REQ" -> send_download_segment(k, bufferPartial)
      [] k.c.state = "DOWNLOAD_BLK_INITIATE_REQ" -> send_download_blk_initiate(k)
      [] k.c.state = "DOWNLOAD_BLK_SUBBLOCK_REQ" -> send_download_blk_segment(k, bufferPartial)
      [] k.c.state = "DOWNLOAD_BLK_END_REQ" -> send_download_blk_end(k)
      [] OTHER -> k

\* Received data, the timers, transmission, the end: the same four parts
\* make up a call of both functions.
download_received(k, send_abort, bufferPartial) ==
    CASE k.c.state = "IDLE" -> [k EXCEPT !.ret = "ok_communicationEnd"]
      [] k.c.state = "DOWNLOAD_LOCAL_TRANSFER" /\ ~send_abort ->
           download_local(opened(k, "SDO_W", "READONLY"), bufferPartial)
      [] k.c.state # "IDLE" /\ (k.c.state = "DOWNLOAD_LOCAL_TRANSFER" => send_abort) /\ k.c.rxNew ->
           on_frame(k, send_abort, on_download(k))
      [] k.c.state # "IDLE" /\ ~k.c.rxNew /\ send_abort -> Abort(k, "GENERAL")
      [] OTHER -> k

CO_SDOclientDownload(c, od, dt, send_abort, bufferPartial, bufferFull) ==
    LET timed(k) == IF Waiting(k) THEN full(expire(k, IF c.rxNew THEN 0 ELSE dt, "TIMEOUT"), bufferFull)
                    ELSE k
        transmitted(k) == IF Waiting(k) THEN download_transmit(k, bufferPartial) ELSE k
    IN  send_abort_frame(
            transmitted(timed(download_received(Call(c, od), send_abort, bufferPartial))),
            "DOWNLOAD_BLK_SUBBLOCK_REQ", "blockDownldInProgress")

---------------------------------------------------------------------------
(* Upload *)

CO_SDOclientUploadInitiate(c, mux, blockEnable, local) ==
    [initiated(c, mux, 0) EXCEPT
       !.state = CASE local -> "UPLOAD_LOCAL_TRANSFER"
                   [] ~local /\ blockEnable -> "UPLOAD_BLK_INITIATE_REQ"
                   [] OTHER -> "UPLOAD_INITIATE_REQ"]

\* A string ends at its first zero byte.
local_cut(c, r) ==
    IF "STR" \in c.stream.attribute /\ r.bytes # <<>> /\ string_length(r.bytes) < Len(r.bytes)
    THEN [ret |-> "OK", bytes |-> SubSeq(r.bytes, 1, string_length(r.bytes)),
          stream |-> [r.stream EXCEPT !.dataLength = c.sizeTran + string_length(r.bytes)]]
    ELSE r

\* r is what OD_IO.read returned. A transfer that was refused before is
\* overtaken by a successful read: ret is assigned again.
local_read(k, r) ==
    LET j == [k EXCEPT !.c = [fifo_write(@, r.bytes) EXCEPT
                !.sizeTran = @ + Len(r.bytes), !.stream = r.stream,
                !.sizeInd = r.stream.dataLength]]
        sizeInd == j.c.sizeInd
    IN  CASE r.ret \notin {"OK", "PARTIAL"} ->
               EndLocal(k, "endedWithServerAbort", OD_getSDOabCode(r.ret))
          [] r.ret \in {"OK", "PARTIAL"} /\ sizeInd > 0 /\ j.c.sizeTran > sizeInd ->
               EndLocal(j, "endedWithClientAbort", "DATA_LONG")
          [] r.ret = "OK" /\ sizeInd > 0 /\ j.c.sizeTran < sizeInd ->
               EndLocal(j, "endedWithClientAbort", "DATA_SHORT")
          [] r.ret = "OK" /\ (sizeInd = 0 \/ j.c.sizeTran = sizeInd) -> End(j)
          [] OTHER -> [j EXCEPT !.ret = "waitingLocalTransfer"]

upload_local(k) ==
    LET dataLength == k.c.stream.dataLength
        count == IF dataLength \in 1..getSpace(k.c) THEN dataLength ELSE getSpace(k.c)
    IN  IF getSpace(k.c) = 0 THEN [k EXCEPT !.ret = "uploadDataBufferFull"]
        ELSE IF ~k.c.io THEN EndLocal(k, k.ret, k.ab)
        ELSE local_read(k, local_cut(k.c, OD_readOriginal(k.od[k.c.mux], k.c.stream, count)))

\* The answer to an initiation, also when the server falls back from a
\* block transfer: all of the data, or the start of a segmented transfer.
on_upload_initiate(k) ==
    LET cmd == k.c.rx.cmd
        count == IF cmd % 2 = 1 THEN 4 - bits(cmd, 2, 2) ELSE 4
    IN  IF k.c.rx.mux # k.c.mux THEN Abort(k, "PRAM_INCOMPAT")
        ELSE IF bits(cmd, 1, 1) = 1
        THEN End([k EXCEPT !.c = [fifo_write(@, SubSeq(k.c.rx.bytes, 1, count)) EXCEPT
                                    !.sizeTran = count]])
        ELSE [k EXCEPT !.c.sizeInd = IF cmd % 2 = 1 THEN k.c.rx.size ELSE @,
                       !.c.toggle = FALSE, !.c.state = "UPLOAD_SEGMENT_REQ"]

on_upload_segment(k) ==
    LET cmd == k.c.rx.cmd
        count == 7 - bits(cmd, 1, 3)
        countWr == Lowest(count, getSpace(k.c))
        last == cmd % 2 = 1
        j == [k EXCEPT !.c = [fifo_write(@, SubSeq(k.c.rx.bytes, 1, count)) EXCEPT
                                !.toggle = ~@, !.sizeTran = @ + countWr]]
        error == segment_error(k.c, j.c.sizeTran, last)
    IN  IF bits(cmd, 5, 3) # 0 THEN Abort(k, "CMD")
        ELSE IF (bits(cmd, 4, 1) = 1) # k.c.toggle THEN Abort(k, "TOGGLE_BIT")
        ELSE IF countWr # count THEN Abort(j, "OUT_OF_MEM")
        ELSE IF error # "NONE" THEN Abort(j, error)
        ELSE IF last THEN End(j) ELSE [j EXCEPT !.c.state = "UPLOAD_SEGMENT_REQ"]

on_upload_blk_initiate(k) ==
    LET cmd == k.c.rx.cmd
        j == [k EXCEPT !.c.block_crcEnabled = bits(cmd, 2, 1) = 1,
                       !.c.sizeInd = IF bits(cmd, 1, 1) = 1 THEN k.c.rx.size ELSE @]
    IN  IF cmd \in {192, 194, 196, 198}
        THEN IF k.c.rx.mux # k.c.mux THEN Abort(j, "PRAM_INCOMPAT")
             ELSE [j EXCEPT !.c.state = "UPLOAD_BLK_INITIATE_REQ2"]
        ELSE IF bits(cmd, 4, 4) = 4 THEN on_upload_initiate(k)
        ELSE Abort(k, "CMD")

\* The end of a block upload tells how much of the last segment is data.
\* What the buffer did not take is counted all the same.
on_upload_blk_end(k) ==
    LET data == SubSeq(k.c.dataUploadLast, 1, 7 - bits(k.c.rx.cmd, 2, 3))
        j == [k EXCEPT !.c = [fifo_write(@, data) EXCEPT
                                !.block_crc = @ \o data, !.sizeTran = @ + Len(data)]]
    IN  IF bits(k.c.rx.cmd, 5, 3) # 6 \/ k.c.rx.cmd % 4 # 1 THEN Abort(k, "CMD")
        ELSE IF k.c.sizeInd > 0 /\ j.c.sizeTran # k.c.sizeInd
        THEN Abort(j, IF j.c.sizeTran > k.c.sizeInd THEN "DATA_LONG" ELSE "DATA_SHORT")
        ELSE IF k.c.block_crcEnabled /\ k.c.rx.crc # j.c.block_crc THEN Abort(j, "CRC")
        ELSE [j EXCEPT !.c.state = "UPLOAD_BLK_END_CRSP"]

on_upload(k) ==
    CASE k.c.state = "UPLOAD_INITIATE_RSP" ->
           IF bits(k.c.rx.cmd, 4, 4) = 4 THEN on_upload_initiate(k) ELSE Abort(k, "CMD")
      [] k.c.state = "UPLOAD_SEGMENT_RSP" -> on_upload_segment(k)
      [] k.c.state = "UPLOAD_BLK_INITIATE_RSP" -> on_upload_blk_initiate(k)
      [] k.c.state = "UPLOAD_BLK_SUBBLOCK_SREQ" -> k
      [] k.c.state = "UPLOAD_BLK_END_SREQ" -> on_upload_blk_end(k)
      [] OTHER -> Abort(k, "CMD")

upload_received(k, send_abort) ==
    CASE k.c.state = "IDLE" -> [k EXCEPT !.ret = "ok_communicationEnd"]
      [] k.c.state = "UPLOAD_LOCAL_TRANSFER" /\ ~send_abort ->
           upload_local(opened(k, "SDO_R", "WRITEONLY"))
      [] k.c.state # "IDLE" /\ (k.c.state = "UPLOAD_LOCAL_TRANSFER" => send_abort) /\ k.c.rxNew ->
           on_frame(k, send_abort, on_upload(k))
      [] k.c.state # "IDLE" /\ ~k.c.rxNew /\ send_abort -> Abort(k, "GENERAL")
      [] OTHER -> k

\* A pause within a sub-block ends it: what arrived is acknowledged.
expire_subblock(k, dt) ==
    LET timer == IF k.c.block_timeoutTimer < CliBlockTimeoutTime
                 THEN k.c.block_timeoutTimer + dt ELSE k.c.block_timeoutTimer
        j == [k EXCEPT !.c.block_timeoutTimer = timer]
    IN  IF k.c.state # "UPLOAD_BLK_SUBBLOCK_SREQ" THEN k
        ELSE IF timer >= CliBlockTimeoutTime
        THEN [j EXCEPT !.c.state = "UPLOAD_BLK_SUBBLOCK_CRSP", !.c.rxNew = FALSE,
                       !.c.rx = Frame(0)]
        ELSE j

\* The application was too slow in emptying the buffer, or the server in
\* answering.
timeout_code(state) ==
    IF state \in {"UPLOAD_SEGMENT_REQ", "UPLOAD_BLK_SUBBLOCK_CRSP"} THEN "GENERAL" ELSE "TIMEOUT"

send_upload_segment(k) ==
    IF getSpace(k.c) < 7 THEN [k EXCEPT !.ret = "uploadDataBufferFull"]
    ELSE Send([k EXCEPT !.c.state = "UPLOAD_SEGMENT_RSP"], Frame(IF k.c.toggle THEN 112 ELSE 96))

\* The segments for which there is room.
free_segments(c) == Lowest(CLI_MAX_BLKSIZE, getSpace(c) \div 7)

send_upload_blk_initiate(k) ==
    IF free_segments(k.c) = 0 THEN Abort(k, "OUT_OF_MEM")
    ELSE Send([k EXCEPT !.c.block_blksize = free_segments(k.c),
                        !.c.state = "UPLOAD_BLK_INITIATE_RSP"],
              [MuxFrame(164, k.c.mux) EXCEPT !.blk = free_segments(k.c), !.pst = CLI_PST])

send_upload_blk_initiate2(k) ==
    Send([k EXCEPT !.c.block_timeoutTimer = 0, !.c.block_seqno = 0, !.c.block_crc = <<>>,
                   !.c.state = "UPLOAD_BLK_SUBBLOCK_SREQ", !.c.rxNew = FALSE],
         Frame(163))

\* The next sub-block starts with room for 127 segments or an empty buffer.
subblock_ready(c) == getSpace(c) \div 7 >= CLI_MAX_BLKSIZE \/ c.bufFifo = <<>>

\* Acknowledge a sub-block; this does not restart the transfer's timer.
send_upload_blk_ack(k) ==
    LET size == IF subblock_ready(k.c) /\ ~k.c.finished THEN free_segments(k.c)
                ELSE k.c.block_blksize
        ack(j) == [j EXCEPT !.c.block_timeoutTimer = 0,
                            !.tx = Append(@, [Frame(162) EXCEPT !.seq = k.c.block_seqno,
                                                                !.blk = size])]
    IN  IF k.c.finished THEN ack([k EXCEPT !.c.state = "UPLOAD_BLK_END_SREQ"])
        ELSE IF k.c.sizeInd > 0 /\ k.c.sizeTran > k.c.sizeInd THEN Abort(k, "DATA_LONG")
        ELSE IF ~subblock_ready(k.c) THEN [k EXCEPT !.ret = "uploadDataBufferFull"]
        ELSE ack([k EXCEPT !.c.block_blksize = size, !.c.block_seqno = 0, !.c.rxNew = FALSE,
                           !.c.state = "UPLOAD_BLK_SUBBLOCK_SREQ"])

upload_transmit(k) ==
    CASE k.c.state = "UPLOAD_INITIATE_REQ" ->
           Send([k EXCEPT !.c.state = "UPLOAD_INITIATE_RSP"], MuxFrame(64, k.c.mux))
      [] k.c.state = "UPLOAD_SEGMENT_REQ" -> send_upload_segment(k)
      [] k.c.state = "UPLOAD_BLK_INITIATE_REQ" -> send_upload_blk_initiate(k)
      [] k.c.state = "UPLOAD_BLK_INITIATE_REQ2" -> send_upload_blk_initiate2(k)
      [] k.c.state = "UPLOAD_BLK_SUBBLOCK_CRSP" -> send_upload_blk_ack(k)
      [] k.c.state = "UPLOAD_BLK_END_CRSP" -> End([k EXCEPT !.tx = Append(@, Frame(161))])
      [] OTHER -> k

CO_SDOclientUpload(c, od, dt, send_abort, bufferFull) ==
    LET time == IF c.rxNew THEN 0 ELSE dt
        timed(k) == IF Waiting(k)
                    THEN full(expire_subblock(expire(k, time, timeout_code(k.c.state)), time), bufferFull)
                    ELSE k
        transmitted(k) == IF Waiting(k) THEN upload_transmit(k) ELSE k
    IN  send_abort_frame(transmitted(timed(upload_received(Call(c, od), send_abort))),
                         "UPLOAD_BLK_SUBBLOCK_SREQ", "blockUploadInProgress")

---------------------------------------------------------------------------
(* The client with an arbitrary server *)

vars == <<SDO_C, own, app, silent, waited>>

NoJob == [dir |-> "none", mux |-> <<0, 0>>, size |-> 0, data |-> <<>>, block |-> FALSE, local |-> FALSE]

Init ==
    /\ SDO_C = InitClient /\ own = OwnOd
    /\ app = [job |-> NoJob, input |-> <<>>, got |-> <<>>, ret |-> "none"]
    /\ silent = FALSE /\ waited = 0

Ends == silent' = (silent \/ (SDO_C.state # "IDLE" /\ SDO_C'.state = "IDLE"))

Initiate ==
    /\ app.job = NoJob /\ ~silent
    /\ \E job \in Jobs :
          /\ app' = [app EXCEPT !.job = job, !.input = job.data]
          /\ SDO_C' = IF job.dir = "down"
                      THEN CO_SDOclientDownloadInitiate(SDO_C, job.mux, job.size, job.block, job.local)
                      ELSE CO_SDOclientUploadInitiate(SDO_C, job.mux, job.block, job.local)
    /\ UNCHANGED <<own, silent, waited>>

\* The application learns the size only now (CO_gateway_ascii.c does this).
InitSize ==
    /\ app.job.dir = "down" /\ app.job.size = 0 /\ app.input = app.job.data
    /\ SDO_C.state \in {"DOWNLOAD_INITIATE_REQ", "DOWNLOAD_BLK_INITIATE_REQ"} /\ SDO_C.sizeInd = 0
    /\ SDO_C' = CO_SDOclientDownloadInitSize(SDO_C, Len(app.job.data))
    /\ UNCHANGED <<own, app, silent, waited>>

\* CO_SDOclientDownloadBufWrite: as much as there is room for.
CanGive == app.job.dir = "down" /\ app.input # <<>> /\ getSpace(SDO_C) > 0 /\ SDO_C.state # "IDLE"
GiveData ==
    /\ CanGive
    /\ LET n == Lowest(Lowest(Len(app.input), Chunk), getSpace(SDO_C)) IN
          /\ SDO_C' = fifo_write(SDO_C, SubSeq(app.input, 1, n))
          /\ app' = [app EXCEPT !.input = SubSeq(@, n + 1, Len(@))]

\* CO_SDOclientUploadBufRead: not while a sub-block is in progress.
CanTake == app.job.dir = "up" /\ SDO_C.bufFifo # <<>> /\ app.ret # "blockUploadInProgress"
TakeData ==
    /\ CanTake
    /\ LET n == Lowest(Len(SDO_C.bufFifo), Chunk) IN
          /\ SDO_C' = fifo_read(SDO_C, n)
          /\ app' = [app EXCEPT !.got = @ \o SubSeq(SDO_C.bufFifo, 1, n)]

BufWrite == GiveData /\ UNCHANGED <<own, silent, waited>>
BufRead == TakeData /\ UNCHANGED <<own, silent, waited>>

\* One call by the application, with the time that has passed.
CallClient(dt, send_abort, bufferFull) ==
    /\ app.job # NoJob
    /\ \E k \in {IF app.job.dir = "down"
                 THEN CO_SDOclientDownload(SDO_C, own, dt, send_abort, app.input # <<>>, bufferFull)
                 ELSE CO_SDOclientUpload(SDO_C, own, dt, send_abort, bufferFull)} :
          /\ SDO_C' = k.c /\ own' = k.od
          /\ app' = [app EXCEPT !.ret = IF SDO_C.state = "IDLE" THEN @ ELSE k.ret]
    /\ Ends

Process == CallClient(0, FALSE, FALSE) /\ UNCHANGED waited
Tick ==
    /\ CallClient(1, FALSE, FALSE)
    /\ waited' = IF silent THEN Lowest(waited + 1, CliPatience) ELSE 0
ProcessFull == CallClient(1, FALSE, TRUE) /\ UNCHANGED waited
AbortTransfer == CallClient(0, TRUE, FALSE) /\ UNCHANGED waited

\* CO_SDOclientClose
CO_SDOclientClose ==
    /\ SDO_C' = [SDO_C EXCEPT !.state = "IDLE"]
    /\ Ends /\ UNCHANGED <<own, app, waited>>

Receive ==
    /\ ~silent /\ app.job # NoJob /\ (app.job.dir = "up" => SDO_C.sizeTran <= UploadBound)
    /\ \E f \in Responses[app.job.dir] : SDO_C' = CO_SDOclient_receive(SDO_C, f)
    /\ UNCHANGED <<own, app, silent, waited>>

\* The server is not heard of again, and the application has given or taken
\* what it could.
FallSilent == ~silent /\ app.job # NoJob /\ silent' = TRUE /\ UNCHANGED <<SDO_C, own, app, waited>>

Next ==
    \/ Initiate \/ InitSize \/ BufWrite \/ BufRead \/ Process \/ Tick \/ ProcessFull
    \/ AbortTransfer \/ CO_SDOclientClose \/ Receive \/ FallSilent

Spec == Init /\ [][Next]_vars

---------------------------------------------------------------------------
(* Properties *)

\* CO_SDOclient_t; sizes and counters are unsigned.
CO_SDOclient_t(c) ==
    /\ c.state \in CO_SDO_state /\ c.mux \in Nat \X Nat
    /\ c.sizeInd \in Nat /\ c.sizeTran \in Nat
    /\ Len(c.bufFifo) \in 0..CLI_BUFFER_SIZE /\ c.alt \in 0..Len(c.bufFifo)
    /\ c.timeoutTimer \in 0..CliTimeoutTime /\ c.block_timeoutTimer \in 0..CliBlockTimeoutTime
    /\ c.block_seqno \in 0..127 /\ c.block_noData \in 0..7
    /\ {c.finished, c.rxNew, c.toggle, c.block_crcEnabled, c.io} \subseteq BOOLEAN

Active == SDO_C.state \notin {"IDLE", "ABORT"}

\* Every byte that an upload counts as transferred is in the buffer or with
\* the application: CO_fifo_write's result is ignored for block segments
\* (CO_SDOclient.c:103 and 1401), which is right only if the sub-block was
\* made to fit. In a block upload these are also the bytes under the CRC.
UploadAccounts ==
    (app.job.dir = "up" /\ Active) =>
        /\ Len(app.got) + Len(SDO_C.bufFifo) = SDO_C.sizeTran
        /\ SDO_C.state \in {"UPLOAD_BLK_SUBBLOCK_SREQ", "UPLOAD_BLK_SUBBLOCK_CRSP",
                            "UPLOAD_BLK_END_SREQ"} =>
              app.got \o SDO_C.bufFifo = SDO_C.block_crc

\* In a download every byte that the application gave is transferred or
\* still in the buffer, also after segments were taken back for
\* retransmission; in a block download the bytes that left the buffer are
\* the ones under the CRC.
DownloadAccounts ==
    (app.job.dir = "down" /\ Active /\ ~app.job.local) =>
        LET given == Len(app.job.data) - Len(app.input)
            blk == SDO_C.state \in {"DOWNLOAD_BLK_SUBBLOCK_REQ", "DOWNLOAD_BLK_SUBBLOCK_RSP",
                                    "DOWNLOAD_BLK_END_REQ", "DOWNLOAD_BLK_END_RSP"}
        IN  /\ SDO_C.sizeTran + Len(SDO_C.bufFifo) - SDO_C.alt = given
            /\ blk => SDO_C.block_crc \o SDO_C.bufFifo = SubSeq(app.job.data, 1, given)

\* Both: the client's buffer loses, doubles or reorders no byte, whatever the
\* server sends, and no rewinding drives sizeTran below zero.
BytesAreAccounted == CO_SDOclient_t(SDO_C) /\ UploadAccounts /\ DownloadAccounts

\* A download is reported as done only when all of its data was sent, and it
\* had the size that was indicated.
DoneIsComplete ==
    (app.job.dir = "down" /\ app.ret = "ok_communicationEnd") =>
        /\ app.input = <<>> /\ SDO_C.bufFifo = <<>>
        /\ app.job.size \in {0, Len(app.job.data)}

\* When the server falls silent the transfer ends within CliPatience ticks.
\* (A transfer with the own node is as fast as the application that reads.)
EndsInTime ==
    waited = CliPatience => SDO_C.state = "IDLE" \/ (app.job.local /\ app.ret = "uploadDataBufferFull")
=============================================================================

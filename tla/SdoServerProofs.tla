-------------------------- MODULE SdoServerProofs --------------------------
(***************************************************************************)
(* The server's invariants, for every node id, timeout, buffer size,       *)
(* dictionary and set of requests.                                         *)
(*                                                                         *)
(* The bounds of a transfer and the timer are inductive together with the  *)
(* types.  Every handler ends in one of five ways, and there is one lemma  *)
(* for each: it aborts, it resets, it queues the last response, it goes on *)
(* with an upload, or it goes on with a download.                          *)
(***************************************************************************)
EXTENDS SdoServer, SdoWireProofs

IInv == TypeOK /\ TimerMatchesTransfer /\ TransferInBounds

\* What a handler leaves to the dictionary and to the clock.
EnvOK == od \in [Objects -> Seq(Byte)] /\ now \in Nat

UpState == [kind : {"Uploading"}, mux : Mux, buf : Seq(Byte), sent : Nat,
            toggle : BOOLEAN]
DownState == [kind : {"Downloading"}, mux : Mux, buf : Seq(Byte),
              expected : Nat \cup {None}, toggle : BOOLEAN]

\* The three kinds of State are told apart by their kind.
LEMMA StateSplit ==
    ASSUME state \in State
    PROVE  /\ state.kind \in {"Idle", "Uploading", "Downloading"}
           /\ state.kind = "Idle" => state = Idle
           /\ state.kind = "Uploading" => state \in UpState
           /\ state.kind = "Downloading" => state \in DownState
  BY DEF State, Idle, UpState, DownState

\* A slot with one frame is an Option<SdoFrame>.
LEMMA OneFrame ==
    ASSUME NEW f \in SdoFrame
    PROVE  <<f>> \in Seq(SdoFrame) /\ Len(<<f>>) <= 1
  OBVIOUS

\* Any way to end in Idle with no deadline.
LEMMA IdleInv ==
    ASSUME state' = Idle, deadline' = None, EnvOK',
           pending_tx' \in Seq(SdoFrame), Len(pending_tx') <= 1,
           ret' \in SdoAbortCode \cup {Ok}
    PROVE  IInv'
  BY DEF IInv, TypeOK, EnvOK, TimerMatchesTransfer, TransferInBounds,
         UploadInBounds, DownloadInBounds, is_idle, State, Idle, None

\* abort() ends the transfer and disarms the timer.
LEMMA AbortInv ==
    ASSUME NEW mux \in Mux, NEW code \in SdoAbortCode, abort(mux, code), EnvOK'
    PROVE  IInv'
  <1>1. AbortFrame(tsdo_id(NodeId), mux, code) \in SdoFrame
    BY NodeAssumption, CobIdType, AbortFrameType
  <1>2. pending_tx' \in Seq(SdoFrame) /\ Len(pending_tx') <= 1
    BY <1>1, OneFrame DEF abort
  <1> QED  BY <1>2, IdleInv DEF abort

\* reset() ends the transfer and disarms the timer.
LEMMA ResetInv ==
    ASSUME reset, EnvOK'
    PROVE  IInv'
  <1>1. pending_tx' \in Seq(SdoFrame) /\ Len(pending_tx') <= 1
    BY DEF reset
  <1> QED  BY <1>1, IdleInv DEF reset

\* The last response of a transfer disarms its timer.
LEMMA LastResponseInv ==
    ASSUME NEW f \in SdoFrame, reset_and_queue(f), EnvOK'
    PROVE  IInv'
  <1>1. pending_tx' \in Seq(SdoFrame) /\ Len(pending_tx') <= 1
    BY OneFrame DEF reset_and_queue, queue
  <1> QED  BY <1>1, IdleInv DEF reset_and_queue, queue

\* A transfer that goes on has its timer armed.
LEMMA TransferInv ==
    ASSUME NEW f \in SdoFrame, now \in Nat, queue_with_deadline(f), EnvOK',
           ret' = Ok, state' \in UpState \cup DownState, TransferInBounds'
    PROVE  IInv'
  <1>1. pending_tx' \in Seq(SdoFrame) /\ Len(pending_tx') <= 1
    BY OneFrame DEF queue_with_deadline
  <1>2. deadline' \in Nat \cup {None} /\ (deadline' = None <=> Timeout = 0)
    BY TimeoutAssumption DEF queue_with_deadline, None
  <1>3. state' \in State /\ state'.kind # "Idle"
    BY DEF State, UpState, DownState
  <1> QED
    BY <1>1, <1>2, <1>3
    DEF IInv, TypeOK, EnvOK, TimerMatchesTransfer, is_idle

---------------------------------------------------------------------------
(* The handlers *)

\* on_init_upload: the value read fits the buffer or the upload is aborted.
LEMMA InitUploadInv ==
    ASSUME IInv, NEW f \in Requests, on_init_upload(f), now' = now
    PROVE  IInv'
  <1>0. EnvOK' /\ f.mux \in Mux /\ now \in Nat
    BY RequestsAssumption DEF IInv, TypeOK, EnvOK, on_init_upload, SdoFrame
  <1>1. CASE read_error(f.mux) # NoCode /\ abort(f.mux, read_error(f.mux))
    <2>1. read_error(f.mux) \in SdoAbortCode
      BY <1>1 DEF read_error, SdoAbortCode
    <2> QED  BY <1>0, <1>1, <2>1, AbortInv
  <1>2. CASE abort(f.mux, "OutOfMemory")
    BY <1>0, <1>2, AbortInv DEF SdoAbortCode
  <1>3. CASE /\ read_error(f.mux) = NoCode
             /\ Len(od[f.mux]) \in 1..4
             /\ reset_and_queue(init_upload_expedited(NodeId, f.mux, od[f.mux]))
    <2>1. od[f.mux] \in Seq(Byte)
      BY <1>3 DEF IInv, TypeOK, read_error, NoCode
    <2>2. init_upload_expedited(NodeId, f.mux, od[f.mux]) \in SdoFrame
      BY <1>0, <1>3, <2>1, NodeAssumption, ServerFrameTypes
    <2> QED  BY <1>0, <1>3, <2>2, LastResponseInv
  <1>4. CASE /\ read_error(f.mux) = NoCode
             /\ Len(od[f.mux]) <= N
             /\ Len(od[f.mux]) \notin 1..4
             /\ state' = Uploading(f.mux, od[f.mux], 0, FALSE)
             /\ queue_with_deadline(
                   init_upload_segmented(NodeId, f.mux, Len(od[f.mux])))
             /\ ret' = Ok
    <2>1. od[f.mux] \in Seq(Byte) /\ Len(od[f.mux]) \in Nat
      BY <1>4, LenProperties DEF IInv, TypeOK, read_error, NoCode
    <2>2. init_upload_segmented(NodeId, f.mux, Len(od[f.mux])) \in SdoFrame
      BY <1>0, <2>1, NodeAssumption, ServerFrameTypes
    <2>3. state' \in UpState
      BY <1>0, <1>4, <2>1 DEF Uploading, UpState
    <2>4. od[f.mux] = <<>> \/ 0 < Len(od[f.mux])
      BY <2>1, EmptySeq
    <2>5. /\ state'.kind = "Uploading" /\ state'.buf = od[f.mux]
          /\ state'.sent = 0 /\ state'.toggle = FALSE
      BY <1>4 DEF Uploading
    <2>6. 0 % 7 = 0 /\ ((0 \div 7) % 2 = 1) = FALSE
      OBVIOUS
    <2>7. TransferInBounds'
      BY <1>4, <2>1, <2>4, <2>5, <2>6
      DEF TransferInBounds, UploadInBounds, DownloadInBounds
    <2> QED  BY <1>0, <1>4, <2>2, <2>3, <2>7, TransferInv
  <1> QED  BY <1>1, <1>2, <1>3, <1>4 DEF on_init_upload

\* on_upload_segment keeps the position and the parity of the toggle.
LEMMA UploadSegmentInv ==
    ASSUME IInv, NEW f \in Requests, on_upload_segment(f), now' = now
    PROVE  IInv'
  <1>0. EnvOK' /\ now \in Nat
    BY DEF IInv, TypeOK, EnvOK, on_upload_segment
  <1>1. CASE abort(ZeroMux, "InvalidCommandSpecifier")
    BY <1>0, <1>1, AbortInv DEF SdoAbortCode, ZeroMux, Mux
  <1>2. CASE state.kind = "Uploading"
    <2> DEFINE remaining == Len(state.buf) - state.sent
               last      == remaining <= 7
               chunk     == IF last THEN remaining ELSE 7
               payload   == SubSeq(state.buf, state.sent + 1,
                                   state.sent + chunk)
               out       == upload_segment(NodeId, state.toggle, payload, last)
    <2>1. state \in UpState
      BY <1>2, StateSplit DEF IInv, TypeOK
    <2>2. /\ state.mux \in Mux /\ state.buf \in Seq(Byte)
          /\ state.sent \in Nat /\ state.toggle \in BOOLEAN
          /\ Len(state.buf) \in Nat
      BY <2>1, LenProperties DEF UpState
    <2>3. /\ Len(state.buf) <= N
          /\ state.sent % 7 = 0
          /\ state.sent <= Len(state.buf)
          /\ state.toggle = ((state.sent \div 7) % 2 = 1)
      BY <1>2, <2>2, EmptySeq DEF IInv, TransferInBounds, UploadInBounds
    <2>4. chunk \in 0..7 /\ state.sent + chunk <= Len(state.buf)
      BY <2>2, <2>3
    <2>5. payload \in Seq(Byte) /\ Len(payload) = chunk
      <3> DEFINE pos == state.sent
                 end == pos + chunk
      <3>1. /\ pos \in Nat /\ end \in Nat /\ pos <= end
            /\ end <= Len(state.buf) /\ end - pos = chunk
        <4> HIDE DEF chunk
        <4> QED  BY <2>2, <2>4
      <3>2. payload = SubSeq(state.buf, pos + 1, end)
        OBVIOUS
      <3> HIDE DEF chunk, payload, pos, end
      <3>3. /\ SubSeq(state.buf, pos + 1, end) \in Seq(Byte)
            /\ Len(SubSeq(state.buf, pos + 1, end)) = end - pos
        BY <2>2, <3>1, SliceType
      <3> QED  BY <3>1, <3>2, <3>3
    <2>6. out \in SdoFrame
      <3> HIDE DEF chunk, payload, last
      <3>1. Len(payload) <= 7 /\ ZeroMux \in Mux
        BY <2>4, <2>5 DEF ZeroMux, Mux
      <3>2. last \in BOOLEAN
        BY DEF last
      <3> QED  BY <2>2, <2>5, <3>1, <3>2, NodeAssumption, ServerFrameTypes
    <2>7. CASE abort(state.mux, "ToggleBitNotAlternated")
      BY <1>0, <2>2, <2>7, AbortInv DEF SdoAbortCode
    <2>8. CASE reset_and_queue(out)
      BY <1>0, <2>6, <2>8, LastResponseInv
    <2>9. CASE /\ ~last
               /\ state' = [state EXCEPT !.sent = @ + chunk, !.toggle = ~@]
               /\ queue_with_deadline(out)
               /\ ret' = Ok
      <3>1. chunk = 7 /\ state.sent + 7 < Len(state.buf)
        BY <2>2, <2>9
      <3>2. state' = [state EXCEPT !.sent = @ + 7, !.toggle = ~@]
        BY <2>9, <3>1
      <3>3. /\ state' \in UpState
            /\ state'.buf = state.buf
            /\ state'.sent = state.sent + 7
            /\ state'.toggle = ~state.toggle
            /\ state'.kind = "Uploading"
        <4>1. state.sent + 7 \in Nat /\ (~state.toggle) \in BOOLEAN
          BY <2>2
        <4> QED  BY <2>1, <3>2, <4>1, Zenon DEF UpState
      <3>4. /\ (state.sent + 7) % 7 = 0
            /\ (~state.toggle) = (((state.sent + 7) \div 7) % 2 = 1)
        BY <2>2, <2>3, NextSegment
      <3>5. TransferInBounds'
        BY <2>3, <3>1, <3>3, <3>4
        DEF TransferInBounds, UploadInBounds, DownloadInBounds
      <3> HIDE DEF out, chunk, last
      <3> QED  BY <1>0, <2>6, <2>9, <3>3, <3>5, TransferInv
    <2> QED
      BY <1>1, <1>2, <2>7, <2>8, <2>9 DEF on_upload_segment
  <1> QED  BY <1>1, <1>2 DEF on_upload_segment

\* The dictionary stays well typed whatever bytes are written to an object.
LEMMA WriteType ==
    ASSUME TypeOK, NEW mux \in Objects, NEW val \in Seq(Byte),
           write(mux, val), now' = now
    PROVE  EnvOK'
  BY DEF TypeOK, EnvOK, write

\* A refused write has an abort code, an accepted one an object.
LEMMA WriteErrorType ==
    ASSUME NEW mux
    PROVE  /\ write_error(mux) # NoCode => write_error(mux) \in SdoAbortCode
           /\ write_error(mux) = NoCode => mux \in Objects
  BY DEF write_error, SdoAbortCode, NoCode

\* on_init_download: the announced size fits the buffer or is refused.
LEMMA InitDownloadInv ==
    ASSUME IInv, NEW f \in Requests, cs_of(f.cmd) = CCS_INIT_DOWNLOAD,
           on_init_download(f), now' = now
    PROVE  IInv'
  <1> DEFINE expected == IF size_indicated(f.cmd) THEN f.size ELSE None
             val == SubSeq(f.bytes, 1, expedited_len(f.cmd))
  <1>0. /\ f.mux \in Mux /\ f.cmd \in Byte /\ f.size \in Nat
        /\ f.bytes \in Seq(Byte) /\ Len(f.bytes) = 4
        /\ now \in Nat /\ TypeOK
    BY RequestsAssumption DEF IInv, TypeOK, SdoFrame
  <1>a. UNCHANGED od => EnvOK'
    BY DEF IInv, TypeOK, EnvOK
  <1>b. init_download_ack(NodeId, f.mux) \in SdoFrame
    BY <1>0, NodeAssumption, ServerFrameTypes
  <1>1. CASE /\ write_error(f.mux) # NoCode
             /\ abort(f.mux, write_error(f.mux))
             /\ UNCHANGED od
    BY <1>0, <1>1, <1>a, WriteErrorType, AbortInv
  <1>2. CASE /\ write_error(f.mux) = NoCode
             /\ write(f.mux, val)
             /\ reset_and_queue(init_download_ack(NodeId, f.mux))
    <2>1. val \in Seq(Byte)
      <3>1. expedited_len(f.cmd) \in Nat /\ expedited_len(f.cmd) <= 4
        BY <1>0, CmdDecode
      <3> QED  BY <1>0, <3>1, SliceType, 0 + 1 = 1
    <2>2. EnvOK'
      BY <1>0, <1>2, <2>1, WriteErrorType, WriteType
    <2> QED  BY <1>2, <1>b, <2>2, LastResponseInv
  <1>3. CASE abort(f.mux, "OutOfMemory") /\ UNCHANGED od
    BY <1>0, <1>3, <1>a, AbortInv DEF SdoAbortCode
  <1>4. CASE /\ expected <= N
             /\ state' = Downloading(f.mux, <<>>, expected, FALSE)
             /\ queue_with_deadline(init_download_ack(NodeId, f.mux))
             /\ ret' = Ok
             /\ UNCHANGED od
    <2>1. expected \in Nat \cup {None}
      BY <1>0 DEF None
    <2>2. /\ state' \in DownState
          /\ state'.kind = "Downloading" /\ state'.buf = <<>>
          /\ state'.expected = expected
      BY <1>0, <1>4, <2>1, EmptyBytes DEF Downloading, DownState
    <2>3. TransferInBounds'
      BY <1>4, <2>2, EmptyBytes, NAssumption, 0 <= N
      DEF TransferInBounds, UploadInBounds, DownloadInBounds
    <2> QED  BY <1>0, <1>4, <1>a, <1>b, <2>2, <2>3, TransferInv
  <1> QED  BY <1>1, <1>2, <1>3, <1>4 DEF on_init_download

\* A download segment that fits the buffer.
LEMMA AcceptSegmentInv ==
    ASSUME IInv, NEW f \in Requests, cs_of(f.cmd) = CCS_DOWNLOAD_SEGMENT,
           state.kind = "Downloading",
           Len(state.buf) + decode_segment(f.cmd).len <= N,
           accept_download_segment(f), now' = now
    PROVE  IInv'
  <1> DEFINE seg == decode_segment(f.cmd)
             buf == state.buf \o SubSeq(f.bytes, 1, seg.len)
             ack == download_segment_ack(NodeId, state.toggle)
  <1>0. /\ f.cmd \in Byte /\ f.bytes \in Seq(Byte) /\ Len(f.bytes) = 7
        /\ now \in Nat /\ TypeOK
    BY RequestsAssumption DEF IInv, TypeOK, SdoFrame
  <1>1. state \in DownState
    BY StateSplit DEF IInv, TypeOK
  <1>2. /\ state.mux \in Mux /\ state.buf \in Seq(Byte)
        /\ Len(state.buf) \in Nat /\ state.toggle \in BOOLEAN
    BY <1>1, LenProperties DEF DownState
  <1>3. buf \in Seq(Byte) /\ Len(buf) <= N
    <2>1. seg.len \in Nat /\ seg.len <= 7
      BY <1>0, CmdDecode
    <2>2. /\ SubSeq(f.bytes, 1, seg.len) \in Seq(Byte)
          /\ Len(SubSeq(f.bytes, 1, seg.len)) = seg.len
      BY <1>0, <2>1, SliceType, 0 + 1 = 1, seg.len - 0 = seg.len
    <2> HIDE DEF seg
    <2>3. buf \in Seq(Byte) /\ Len(buf) = Len(state.buf) + seg.len
      BY <1>2, <2>2, ConcatProperties
    <2> QED  BY <2>3 DEF seg
  <1>4. ack \in SdoFrame
    <2>1. ZeroMux \in Mux
      BY DEF ZeroMux, Mux
    <2> QED  BY <1>2, <2>1, NodeAssumption, ServerFrameTypes
  <1>a. UNCHANGED od => EnvOK'
    BY DEF IInv, TypeOK, EnvOK
  <1>5. CASE abort(state.mux, "DataTypeLengthMismatch") /\ UNCHANGED od
    BY <1>2, <1>5, <1>a, AbortInv DEF SdoAbortCode
  <1>6. CASE /\ write_error(state.mux) # NoCode
             /\ abort(state.mux, write_error(state.mux))
             /\ UNCHANGED od
    BY <1>2, <1>6, <1>a, WriteErrorType, AbortInv
  <1>7. CASE /\ write_error(state.mux) = NoCode
             /\ write(state.mux, buf)
             /\ reset_and_queue(ack)
    <2> HIDE DEF buf, ack
    <2>1. EnvOK'
      BY <1>0, <1>3, <1>7, WriteErrorType, WriteType
    <2> QED  BY <1>4, <1>7, <2>1, LastResponseInv
  <1>8. CASE /\ state' = [state EXCEPT !.buf = buf, !.toggle = ~@]
             /\ queue_with_deadline(ack)
             /\ ret' = Ok
             /\ UNCHANGED od
    <2> HIDE DEF buf, ack
    <2>1. (~state.toggle) \in BOOLEAN
      OBVIOUS
    <2>2. /\ state' \in DownState
          /\ state'.kind = "Downloading" /\ state'.buf = buf
          /\ state'.expected = state.expected
      BY <1>1, <1>3, <1>8, <2>1, Zenon DEF DownState
    <2>3. state.expected <= N
      BY DEF IInv, TransferInBounds, DownloadInBounds
    <2>4. TransferInBounds'
      BY <1>3, <2>2, <2>3
      DEF TransferInBounds, UploadInBounds, DownloadInBounds
    <2> QED  BY <1>0, <1>4, <1>8, <1>a, <2>2, <2>4, TransferInv
  <1> QED  BY <1>5, <1>6, <1>7, <1>8 DEF accept_download_segment

\* on_download_segment, whatever the segment.
LEMMA DownloadSegmentInv ==
    ASSUME IInv, NEW f \in Requests, cs_of(f.cmd) = CCS_DOWNLOAD_SEGMENT,
           on_download_segment(f), now' = now
    PROVE  IInv'
  <1>a. UNCHANGED od => EnvOK'
    BY DEF IInv, TypeOK, EnvOK
  <1>1. CASE abort(ZeroMux, "InvalidCommandSpecifier") /\ UNCHANGED od
    BY <1>1, <1>a, AbortInv DEF SdoAbortCode, ZeroMux, Mux
  <1>2. CASE state.kind = "Downloading"
    <2>1. state.mux \in Mux
      BY <1>2, StateSplit DEF IInv, TypeOK, DownState
    <2>2. CASE abort(state.mux, "ToggleBitNotAlternated") /\ UNCHANGED od
      BY <1>a, <2>1, <2>2, AbortInv DEF SdoAbortCode
    <2>3. CASE abort(state.mux, "OutOfMemory") /\ UNCHANGED od
      BY <1>a, <2>1, <2>3, AbortInv DEF SdoAbortCode
    <2>4. CASE /\ Len(state.buf) + decode_segment(f.cmd).len <= N
               /\ accept_download_segment(f)
      BY <1>2, <2>4, AcceptSegmentInv
    <2> QED  BY <1>2, <2>2, <2>3, <2>4 DEF on_download_segment
  <1> QED  BY <1>1, <1>2 DEF on_download_segment

\* handle_frame, whatever the frame.
LEMMA HandleFrameInv ==
    ASSUME IInv, NEW f \in Requests, handle_frame(f), now' = now
    PROVE  IInv'
  <1>a. UNCHANGED od => EnvOK'
    BY DEF IInv, TypeOK, EnvOK
  <1>1. CASE not_addressed(f)
    BY <1>1
    DEF IInv, TypeOK, TimerMatchesTransfer, TransferInBounds, UploadInBounds,
        DownloadInBounds, is_idle, not_addressed
  <1>2. CASE reset /\ UNCHANGED od
    BY <1>2, <1>a, ResetInv
  <1>3. CASE abort(f.mux, "InvalidCommandSpecifier") /\ UNCHANGED od
    <2>1. f.mux \in Mux
      BY RequestsAssumption DEF SdoFrame
    <2> QED  BY <1>3, <1>a, <2>1, AbortInv DEF SdoAbortCode
  <1> QED
    BY <1>1, <1>2, <1>3, InitUploadInv, UploadSegmentInv, InitDownloadInv,
       DownloadSegmentInv
    DEF handle_frame

\* handle_timeout, expired or not.
LEMMA HandleTimeoutInv ==
    ASSUME IInv, handle_timeout, now' = now
    PROVE  IInv'
  <1>a. EnvOK'
    BY DEF IInv, TypeOK, EnvOK, handle_timeout
  <1>1. CASE ret' = Ok /\ UNCHANGED <<state, pending_tx, deadline, od>>
    BY <1>1
    DEF IInv, TypeOK, TimerMatchesTransfer, TransferInBounds, UploadInBounds,
        DownloadInBounds, is_idle
  <1>2. CASE deadline # None /\ ~is_idle /\ abort(state.mux, "ProtocolTimeout")
    <2>1. state.mux \in Mux
      BY <1>2, StateSplit DEF IInv, TypeOK, UpState, DownState, is_idle
    <2> QED  BY <1>2, <1>a, <2>1, AbortInv DEF SdoAbortCode
  <1>3. deadline # None => ~is_idle
    BY DEF IInv, TimerMatchesTransfer
  <1> QED  BY <1>1, <1>2, <1>3 DEF handle_timeout

\* poll_transmit only empties the slot.
LEMMA PollTransmitInv ==
    ASSUME IInv, poll_transmit, now' = now
    PROVE  IInv'
  BY DEF IInv, TypeOK, TimerMatchesTransfer, TransferInBounds, UploadInBounds,
         DownloadInBounds, is_idle, poll_transmit

\* The application and the clock do not touch the transfer.
LEMMA EnvironmentInv ==
    ASSUME IInv, AppUpdate \/ Tick \/ UNCHANGED vars
    PROVE  IInv'
  <1>1. EnvOK'
    BY ValuesAssumption DEF IInv, TypeOK, EnvOK, AppUpdate, Tick, vars
  <1>2. UNCHANGED <<state, pending_tx, deadline, ret>>
    BY DEF AppUpdate, Tick, vars
  <1> QED
    BY <1>1, <1>2
    DEF IInv, TypeOK, EnvOK, TimerMatchesTransfer, TransferInBounds,
        UploadInBounds, DownloadInBounds, is_idle

\* SdoServer::new establishes the invariant.
LEMMA InitInv == Init => IInv
  <1> SUFFICES ASSUME Init PROVE IInv
    OBVIOUS
  <1>1. od \in [Objects -> Seq(Byte)]
    BY ValuesAssumption DEF Init
  <1> QED
    BY <1>1
    DEF Init, IInv, TypeOK, TimerMatchesTransfer, TransferInBounds,
        UploadInBounds, DownloadInBounds, is_idle, State, Idle, None

\* Every step preserves the invariant.
LEMMA NextInv == IInv /\ [Next]_vars => IInv'
  <1> SUFFICES ASSUME IInv, [Next]_vars PROVE IInv'
    OBVIOUS
  <1>1. ASSUME NEW f \in Requests, handle_frame(f) /\ UNCHANGED now
        PROVE  IInv'
    BY <1>1, HandleFrameInv
  <1>2. CASE handle_timeout /\ UNCHANGED now
    BY <1>2, HandleTimeoutInv
  <1>3. CASE poll_transmit /\ UNCHANGED now
    BY <1>3, PollTransmitInv
  <1>4. CASE AppUpdate \/ Tick \/ UNCHANGED vars
    BY <1>4, EnvironmentInv
  <1> QED  BY <1>1, <1>2, <1>3, <1>4 DEF Next

---------------------------------------------------------------------------
(* The theorems *)

\* The invariant holds in every reachable state.
LEMMA Inductive == Spec => []IInv
  BY InitInv, NextInv, PTL DEF Spec

\* struct SdoServer and the dictionary keep their types.
THEOREM ServerTypeOK == Spec => []TypeOK
  <1>1. IInv => TypeOK
    BY DEF IInv
  <1> QED  BY <1>1, Inductive, PTL

\* The timer runs exactly while a segmented transfer does, so the Idle branch
\* of handle_timeout is dead code.
THEOREM ServerTimer == Spec => []TimerMatchesTransfer
  <1>1. IInv => TimerMatchesTransfer
    BY DEF IInv
  <1> QED  BY <1>1, Inductive, PTL

\* For every buffer size N and every sequence of requests, on_upload_segment
\* and on_download_segment stay inside the [u8; N] buffer.
THEOREM ServerBounds == Spec => []TransferInBounds
  <1>1. IInv => TransferInBounds
    BY DEF IInv
  <1> QED  BY <1>1, Inductive, PTL

---------------------------------------------------------------------------
(* What a master may write *)

\* What WritesAreWholeTransfers says of one step.
ExpeditedWrite(m) ==
    /\ cs_of(pending_tx'[1].cmd) = SCS_INIT_DOWNLOAD
    /\ pending_tx'[1].mux = m /\ Len(od'[m]) \in 1..4
SegmentedWrite(m) ==
    /\ cs_of(pending_tx'[1].cmd) = SCS_DOWNLOAD_SEGMENT
    /\ state.kind = "Downloading" /\ state.mux = m
    /\ state.expected \in {None, Len(od'[m])}
    /\ SubSeq(od'[m], 1, Len(state.buf)) = state.buf
WholeWrite ==
    od' # od =>
       \/ AppUpdate
       \/ /\ state' = Idle
          /\ \A m \in Objects : od'[m] # od[m] =>
                /\ m \in Writable
                /\ \/ ExpeditedWrite(m)
                   \/ SegmentedWrite(m)

\* write changes one object, which must be writable.
LEMMA WriteOne ==
    ASSUME TypeOK, NEW mux, NEW val, write_error(mux) = NoCode, write(mux, val)
    PROVE  /\ mux \in Writable
           /\ \A m \in Objects : od'[m] # od[m] => m = mux /\ od'[m] = val
  <1>1. mux \in Objects /\ mux \in Writable
    BY DEF write_error, NoCode
  <1> QED  BY <1>1 DEF TypeOK, write

\* An expedited download writes its one to four bytes at once.
LEMMA InitDownloadWrites ==
    ASSUME IInv, NEW f \in Requests, cs_of(f.cmd) = CCS_INIT_DOWNLOAD,
           on_init_download(f)
    PROVE  WholeWrite
  <1> DEFINE n   == expedited_len(f.cmd)
             val == SubSeq(f.bytes, 1, n)
             ack == init_download_ack(NodeId, f.mux)
  <1>1. CASE UNCHANGED od
    BY <1>1 DEF WholeWrite
  <1>2. CASE /\ write_error(f.mux) = NoCode
             /\ write(f.mux, val)
             /\ reset_and_queue(ack)
    <2>1. /\ f.cmd \in Byte /\ f.bytes \in Seq(Byte) /\ Len(f.bytes) = 4
          /\ n \in 1..4
      BY RequestsAssumption, CmdDecode DEF SdoFrame
    <2>2. Len(val) \in 1..4
      <3> HIDE DEF n
      <3>1. n \in Nat /\ n <= Len(f.bytes) /\ 0 <= n
        BY <2>1
      <3>2. Len(val) = n - 0
        BY <2>1, <3>1, SliceType, 0 \in Nat, 0 + 1 = 1
      <3> QED  BY <2>1, <3>2
    <2>3. /\ state' = Idle /\ pending_tx' = <<ack>>
      BY <1>2 DEF reset_and_queue, queue
    <2>4. ack.mux = f.mux /\ cs_of(ack.cmd) = SCS_INIT_DOWNLOAD
      BY DEF init_download_ack, InitFrame, cs_of, SCS_INIT_DOWNLOAD
    <2> HIDE DEF val, ack
    <2>5. /\ f.mux \in Writable
          /\ \A m \in Objects : od'[m] # od[m] => m = f.mux /\ od'[m] = val
      BY <1>2, WriteOne DEF IInv
    <2> QED  BY <2>2, <2>3, <2>4, <2>5 DEF WholeWrite, ExpeditedWrite
  <1> QED  BY <1>1, <1>2 DEF on_init_download

\* The last segment writes everything that was collected before it.
LEMMA SegmentWrites ==
    ASSUME IInv, NEW f \in Requests, cs_of(f.cmd) = CCS_DOWNLOAD_SEGMENT,
           on_download_segment(f)
    PROVE  WholeWrite
  <1> DEFINE seg  == decode_segment(f.cmd)
             tail == SubSeq(f.bytes, 1, seg.len)
             buf  == state.buf \o tail
             ack  == download_segment_ack(NodeId, state.toggle)
  <1>1. CASE UNCHANGED od
    BY <1>1 DEF WholeWrite
  <1>2. CASE /\ state.kind = "Downloading"
             /\ state.expected \in {None, Len(buf)}
             /\ write_error(state.mux) = NoCode
             /\ write(state.mux, buf)
             /\ reset_and_queue(ack)
    <2>1. /\ f.cmd \in Byte /\ f.bytes \in Seq(Byte) /\ Len(f.bytes) = 7
          /\ seg.len \in Nat /\ seg.len <= 7
      BY RequestsAssumption, CmdDecode DEF SdoFrame
    <2>2. state.buf \in Seq(Byte)
      BY <1>2, StateSplit DEF IInv, TypeOK, DownState
    <2>3. SubSeq(buf, 1, Len(state.buf)) = state.buf
      <3> HIDE DEF seg
      <3>1. tail \in Seq(Byte)
        BY <2>1, SliceType, 0 \in Nat, 0 + 1 = 1, 0 <= seg.len
      <3> HIDE DEF tail
      <3> QED  BY <2>2, <3>1, PrefixOfConcat
    <2>4. state' = Idle /\ pending_tx' = <<ack>>
      BY <1>2 DEF reset_and_queue, queue
    <2>5. cs_of(ack.cmd) = SCS_DOWNLOAD_SEGMENT
      BY DEF download_segment_ack, SegmentFrame, toggle_bit, TOGGLE_BIT, cs_of,
             SCS_DOWNLOAD_SEGMENT
    <2> HIDE DEF buf, ack
    <2>6. /\ state.mux \in Writable
          /\ \A m \in Objects : od'[m] # od[m] => m = state.mux /\ od'[m] = buf
      BY <1>2, WriteOne DEF IInv
    <2> QED  BY <1>2, <2>3, <2>4, <2>5, <2>6 DEF WholeWrite, SegmentedWrite
  <1> QED  BY <1>1, <1>2 DEF on_download_segment, accept_download_segment

\* A master changes the dictionary only by a whole transfer: for every
\* dictionary, buffer size and sequence of requests, an aborted, mismatched
\* or half-received download leaves every object as it was.
THEOREM ServerWrites == Spec => WritesAreWholeTransfers
  <1>1. IInv /\ [Next]_vars => [WholeWrite]_vars
    <2> SUFFICES ASSUME IInv, Next
                 PROVE  WholeWrite
      OBVIOUS
    <2>1. ASSUME UNCHANGED od
          PROVE  WholeWrite
      BY <2>1 DEF WholeWrite
    <2>2. ASSUME NEW f \in Requests, handle_frame(f)
          PROVE  WholeWrite
      BY <2>1, <2>2, InitDownloadWrites, SegmentWrites
      DEF handle_frame, not_addressed, on_init_upload, on_upload_segment
    <2>3. CASE handle_timeout \/ poll_transmit \/ Tick
      BY <2>1, <2>3 DEF handle_timeout, poll_transmit, Tick
    <2>4. CASE AppUpdate
      BY <2>4 DEF WholeWrite
    <2> QED  BY <2>2, <2>3, <2>4 DEF Next
  <1>2. Spec => [][WholeWrite]_vars
    BY <1>1, Inductive, PTL DEF Spec
  <1> QED
    BY <1>2, PTL
    DEF WritesAreWholeTransfers, WholeWrite, ExpeditedWrite, SegmentedWrite

=============================================================================

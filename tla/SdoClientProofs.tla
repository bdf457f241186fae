-------------------------- MODULE SdoClientProofs --------------------------
(***************************************************************************)
(* The client's invariants, for every timeout, caller and set of           *)
(* responses.                                                              *)
(*                                                                         *)
(* The position of a download and the timer are inductive together with    *)
(* the types.  Every call ends in one of four ways, and there is a lemma   *)
(* for each: it changes nothing but the result, it ends the transfer, it   *)
(* queues an abort, or it queues a request and awaits the answer.          *)
(***************************************************************************)
EXTENDS SdoClient, SdoWireProofs

IInv == TypeOK /\ TimerMatchesTransfer /\ DownloadInBounds

RetType == [kind : {"None", "Busy", "InvalidArgument", "UploadCompleted",
                    "DownloadCompleted", "ServerAborted", "ClientAborted"},
            code : SdoAbortCode \cup {NoCode}, bytes : Seq(Byte)]

UpState == [kind : {"Uploading"}, node_id : Byte, mux : Mux,
            received : Seq(Byte), expected_len : Nat \cup {None},
            next_toggle : BOOLEAN, phase : {"AwaitingInit", "AwaitingSegment"}]
DownState == [kind : {"Downloading"}, node_id : Byte, mux : Mux,
              data : Seq(Byte), sent_pos : Nat, next_toggle : BOOLEAN,
              phase : {"AwaitingInit", "AwaitingSegmentAck"}, flag : BOOLEAN]

\* The three kinds of State are told apart by their kind.
LEMMA StateSplit ==
    ASSUME state \in State
    PROVE  /\ state.kind \in {"Idle", "Uploading", "Downloading"}
           /\ state.kind = "Idle" => state = Idle
           /\ state.kind = "Uploading" => state \in UpState
           /\ state.kind = "Downloading" => state \in DownState
  BY DEF State, Idle, UpState, DownState

\* A slot with one frame is an Option<SdoFrame>.
LEMMA OneFrame ==
    ASSUME NEW f \in SdoFrame
    PROVE  <<f>> \in Seq(SdoFrame) /\ Len(<<f>>) <= 1
  OBVIOUS

\* Every Result that a call returns is well formed.
LEMMA RetTypes ==
    /\ OkNone \in RetType /\ Busy \in RetType /\ InvalidArgument \in RetType
    /\ DownloadCompleted \in RetType
    /\ \A v \in Seq(Byte) : UploadCompleted(v) \in RetType
    /\ \A c \in SdoAbortCode : /\ ServerAborted(c) \in RetType
                               /\ ClientAborted(c) \in RetType
  BY EmptyBytes
  DEF RetType, Ret, OkNone, Busy, InvalidArgument, DownloadCompleted,
      UploadCompleted, ServerAborted, ClientAborted

\* A call that touches neither the transfer nor its timer.
LEMMA SameInv ==
    ASSUME IInv, UNCHANGED <<state, deadline>>, ret' \in RetType, now' \in Nat,
           pending_tx' \in Seq(SdoFrame), Len(pending_tx') <= 1
    PROVE  IInv'
  BY DEF IInv, TypeOK, TimerMatchesTransfer, DownloadInBounds, is_idle, RetType

\* Any way to end in Idle with no deadline.
LEMMA IdleInv ==
    ASSUME state' = Idle, deadline' = None, ret' \in RetType, now' \in Nat,
           pending_tx' \in Seq(SdoFrame), Len(pending_tx') <= 1
    PROVE  IInv'
  BY DEF IInv, TypeOK, TimerMatchesTransfer, DownloadInBounds, is_idle, RetType,
         State, Idle, None

\* A frame that is ignored changes nothing.
LEMMA IgnoreInv ==
    ASSUME IInv, ignore, now' \in Nat
    PROVE  IInv'
  <1>1. pending_tx' \in Seq(SdoFrame) /\ Len(pending_tx') <= 1
    BY DEF IInv, TypeOK, ignore
  <1> QED  BY <1>1, RetTypes, SameInv DEF ignore

\* clear_transfer ends the transfer and disarms the timer.
LEMMA ClearInv ==
    ASSUME NEW r \in RetType, clear_transfer(r), now' \in Nat
    PROVE  IInv'
  <1>1. pending_tx' \in Seq(SdoFrame) /\ Len(pending_tx') <= 1
    BY DEF clear_transfer
  <1> QED  BY <1>1, IdleInv DEF clear_transfer

\* queue_abort ends the transfer and disarms the timer.
LEMMA AbortInv ==
    ASSUME IInv, ~is_idle, NEW c \in SdoAbortCode, queue_abort(c),
           ret' \in RetType, now' \in Nat
    PROVE  IInv'
  <1>1. state.node_id \in Byte /\ state.mux \in Mux
    BY StateSplit DEF IInv, TypeOK, UpState, DownState, is_idle
  <1>2. AbortFrame(rsdo_id(state.node_id), state.mux, c) \in SdoFrame
    BY <1>1, CobIdType, AbortFrameType
  <1>3. pending_tx' \in Seq(SdoFrame) /\ Len(pending_tx') <= 1
    BY <1>2, OneFrame DEF queue_abort
  <1> QED  BY <1>3, IdleInv DEF queue_abort

\* queue_request arms the timer of the transfer that goes on.
LEMMA RequestInv ==
    ASSUME NEW f \in SdoFrame, queue_request(f), now \in Nat, now' \in Nat,
           ret' = OkNone, state' \in UpState \cup DownState, DownloadInBounds'
    PROVE  IInv'
  <1>1. pending_tx' \in Seq(SdoFrame) /\ Len(pending_tx') <= 1
    BY OneFrame DEF queue_request
  <1>2. deadline' \in Nat /\ deadline' # None
    BY TimeoutAssumption DEF queue_request, None
  <1>3. state' \in State /\ state'.kind # "Idle"
    BY DEF State, UpState, DownState
  <1>4. ret' \in RetType
    BY RetTypes
  <1> QED
    BY <1>1, <1>2, <1>3, <1>4
    DEF IInv, TypeOK, TimerMatchesTransfer, is_idle, RetType

---------------------------------------------------------------------------
(* Starting a transfer *)

\* begin_upload, accepted or refused.
LEMMA BeginUploadInv ==
    ASSUME IInv, NEW n \in NodeArgs, NEW m \in Muxes, begin_upload(n, m),
           now' = now
    PROVE  IInv'
  <1>0. n \in Byte /\ m \in Mux /\ now \in Nat /\ now' \in Nat
    BY NodeArgsAssumption, MuxesAssumption DEF IInv, TypeOK
  <1>1. CASE /\ ret' \in {InvalidArgument, Busy}
             /\ UNCHANGED <<state, pending_tx, deadline>>
    BY <1>0, <1>1, RetTypes, SameInv DEF IInv, TypeOK
  <1>2. CASE /\ queue_request(init_upload(n, m))
             /\ state' = UploadCtx(n, m)
             /\ ret' = OkNone
    <2>1. init_upload(n, m) \in SdoFrame
      BY <1>0, ClientFrameTypes
    <2>2. state' \in UpState /\ state'.kind = "Uploading"
      BY <1>0, <1>2, EmptyBytes DEF UploadCtx, UpState
    <2>3. DownloadInBounds'
      BY <2>2 DEF DownloadInBounds
    <2> QED  BY <1>0, <1>2, <2>1, <2>2, <2>3, RequestInv
  <1> QED  BY <1>1, <1>2 DEF begin_upload

\* begin_download, accepted or refused: the data is not empty.
LEMMA BeginDownloadInv ==
    ASSUME IInv, NEW n \in NodeArgs, NEW m \in Muxes, NEW d \in Payloads,
           begin_download(n, m, d), now' = now
    PROVE  IInv'
  <1>0. n \in Byte /\ m \in Mux /\ d \in Seq(Byte) /\ now \in Nat /\ now' \in Nat
    BY NodeArgsAssumption, MuxesAssumption, PayloadsAssumption DEF IInv, TypeOK
  <1>1. CASE /\ ret' \in {InvalidArgument, Busy}
             /\ UNCHANGED <<state, pending_tx, deadline>>
    BY <1>0, <1>1, RetTypes, SameInv DEF IInv, TypeOK
  <1>2. CASE /\ d # <<>>
             /\ queue_request(IF Len(d) <= 4
                                THEN init_download_expedited(n, m, d)
                                ELSE init_download_segmented(n, m, Len(d)))
             /\ state' = DownloadCtx(n, m, d)
             /\ ret' = OkNone
    <2>1. Len(d) \in Nat /\ Len(d) # 0
      BY <1>0, <1>2, EmptySeq, LenProperties
    <2>2. Len(d) <= 4 => init_download_expedited(n, m, d) \in SdoFrame
      <3>1. \A k \in Nat : k # 0 /\ k <= 4 => k \in 1..4
        OBVIOUS
      <3>2. Len(d) <= 4 => Len(d) \in 1..4
        BY <2>1, <3>1
      <3> QED  BY <1>0, <3>2, ClientFrameTypes
    <2>3. init_download_segmented(n, m, Len(d)) \in SdoFrame
      BY <1>0, <2>1, ClientFrameTypes
    <2>4. PICK f \in SdoFrame : queue_request(f)
      BY <1>2, <2>2, <2>3
    <2>5. (Len(d) <= 4) \in BOOLEAN
      OBVIOUS
    <2>6. /\ state' \in DownState /\ state'.kind = "Downloading"
          /\ state'.data = d /\ state'.sent_pos = 0
          /\ state'.next_toggle = FALSE /\ state'.phase = "AwaitingInit"
          /\ state'.flag = (Len(d) <= 4)
      BY <1>0, <1>2, <2>5 DEF DownloadCtx, DownState
    <2>7. DownloadInBounds'
      BY <1>2, <2>6 DEF DownloadInBounds
    <2> QED  BY <1>0, <1>2, <2>4, <2>6, <2>7, RequestInv
  <1> QED  BY <1>1, <1>2 DEF begin_download

---------------------------------------------------------------------------
(* advance_upload *)

\* The initiate response of an upload.
LEMMA UploadInitInv ==
    ASSUME IInv, NEW f \in Responses, upload_init_response(f), now' = now
    PROVE  IInv'
  <1>0. f \in SdoFrame /\ now \in Nat /\ now' \in Nat
    BY ResponsesAssumption DEF IInv, TypeOK
  <1>1. state \in UpState /\ state.kind = "Uploading"
    BY StateSplit DEF IInv, TypeOK, upload_init_response
  <1>2. CASE clear_transfer(
               UploadCompleted(SubSeq(f.bytes, 1, expedited_len(f.cmd))))
    <2>1. f.bytes \in Seq(Byte) /\ Len(f.bytes) = 4
      BY <1>0, ResponsesAssumption DEF SdoFrame, upload_init_response
    <2>2. expedited_len(f.cmd) \in Nat /\ expedited_len(f.cmd) <= 4
      BY <1>0, CmdDecode DEF SdoFrame
    <2>3. SubSeq(f.bytes, 1, expedited_len(f.cmd)) \in Seq(Byte)
      BY <2>1, <2>2, SliceType, 0 \in Nat, 0 + 1 = 1, 0 <= expedited_len(f.cmd)
    <2> QED  BY <1>0, <1>2, <2>3, RetTypes, ClearInv
  <1>3. CASE /\ queue_request(
                  upload_segment_request(state.node_id, state.next_toggle))
             /\ state' = [state EXCEPT
                            !.expected_len = IF size_indicated(f.cmd)
                                               THEN f.size ELSE None,
                            !.phase = "AwaitingSegment"]
             /\ ret' = OkNone
    <2>1. upload_segment_request(state.node_id, state.next_toggle) \in SdoFrame
      BY <1>1, ClientFrameTypes DEF UpState
    <2>2. (IF size_indicated(f.cmd) THEN f.size ELSE None) \in Nat \cup {None}
      BY <1>0 DEF SdoFrame
    <2>3. state' \in UpState /\ state'.kind = "Uploading"
      BY <1>1, <1>3, <2>2 DEF UpState
    <2>4. DownloadInBounds'
      BY <2>3 DEF DownloadInBounds
    <2> QED  BY <1>0, <1>3, <2>1, <2>3, <2>4, RequestInv
  <1> QED  BY <1>2, <1>3 DEF upload_init_response

\* A segment of an upload: toggle or length error, end, or next request.
LEMMA UploadSegmentInv ==
    ASSUME IInv, NEW f \in Responses, upload_segment_response(f), now' = now
    PROVE  IInv'
  <1> DEFINE seg      == decode_segment(f.cmd)
             received == state.received \o SubSeq(f.bytes, 1, seg.len)
  <1>0. f \in SdoFrame /\ now \in Nat /\ now' \in Nat
    BY ResponsesAssumption DEF IInv, TypeOK
  <1>1. state \in UpState /\ state.kind = "Uploading" /\ ~is_idle
    BY StateSplit DEF IInv, TypeOK, upload_segment_response, is_idle
  <1>2. received \in Seq(Byte)
    <2>1. f.bytes \in Seq(Byte) /\ Len(f.bytes) = 7
      BY <1>0, ResponsesAssumption DEF SdoFrame, upload_segment_response
    <2>2. seg.len \in Nat /\ seg.len <= 7
      BY <1>0, CmdDecode DEF SdoFrame
    <2> HIDE DEF seg
    <2>3. SubSeq(f.bytes, 1, seg.len) \in Seq(Byte)
      BY <2>1, <2>2, SliceType, 0 \in Nat, 0 + 1 = 1, 0 <= seg.len
    <2>4. state.received \in Seq(Byte)
      BY <1>1 DEF UpState
    <2> QED  BY <2>3, <2>4, ConcatProperties
  <1>3. ASSUME NEW c \in SdoAbortCode, fail_with(c)
        PROVE  IInv'
    BY <1>0, <1>1, <1>3, RetTypes, AbortInv DEF fail_with
  <1>4. {"ToggleBitNotAlternated", "DataTypeLengthMismatch"}
          \subseteq SdoAbortCode
    BY DEF SdoAbortCode
  <1>5. CASE clear_transfer(UploadCompleted(received))
    <2> HIDE DEF received
    <2> QED  BY <1>0, <1>2, <1>5, RetTypes, ClearInv
  <1>6. CASE /\ queue_request(
                  upload_segment_request(state.node_id, ~state.next_toggle))
             /\ state' = [state EXCEPT !.received = received,
                                       !.next_toggle = ~@]
             /\ ret' = OkNone
    <2>1. state.next_toggle \in BOOLEAN /\ (~state.next_toggle) \in BOOLEAN
      BY <1>1, Zenon DEF UpState
    <2>2. upload_segment_request(state.node_id, ~state.next_toggle) \in SdoFrame
      <3>1. state.node_id \in Byte /\ state.mux \in Mux
        BY <1>1 DEF UpState
      <3> QED  BY <2>1, <3>1, ClientFrameTypes, Zenon
    <2> HIDE DEF received
    <2>3. state' \in UpState
      BY <1>1, <1>2, <1>6, <2>1, Zenon DEF UpState
    <2>4. state'.kind = "Uploading"
      BY <2>3 DEF UpState
    <2>5. DownloadInBounds'
      BY <2>4 DEF DownloadInBounds
    <2> QED  BY <1>0, <1>6, <2>2, <2>3, <2>5, RequestInv
  <1> QED  BY <1>3, <1>4, <1>5, <1>6 DEF upload_segment_response

---------------------------------------------------------------------------
(* advance_download *)

\* One more segment of c bytes flips the parity of the segments sent.
LEMMA OneMoreSegment ==
    ASSUME NEW n \in Nat, n % 7 = 0, NEW c \in 1..7
    PROVE  (((n + c + 6) \div 7) % 2 = 1) <=> ~(((n + 6) \div 7) % 2 = 1)
  <1>1. (n + 6) \div 7 = n \div 7
    OBVIOUS
  <1>2. (n + c + 6) \div 7 = n \div 7 + 1
    OBVIOUS
  <1> QED  BY <1>1, <1>2

\* chunk_len of queue_next_download_segment, when n of len bytes were sent.
Chunk(n, len) == IF len - n <= 7 THEN len - n ELSE 7

\* The chunk is never empty, never too long, and reaches the end exactly when
\* it is the last.
LEMMA ChunkArith ==
    ASSUME NEW len \in Nat, NEW n \in Nat, n < len
    PROVE  /\ Chunk(n, len) \in 1..7
           /\ n + Chunk(n, len) \in 1..len /\ n + Chunk(n, len) \in Nat
           /\ (len - n <= 7) = (n + Chunk(n, len) = len)
           /\ ~(len - n <= 7) => Chunk(n, len) = 7
  <1>1. CASE len - n <= 7
    BY <1>1 DEF Chunk
  <1>2. CASE ~(len - n <= 7)
    BY <1>2 DEF Chunk
  <1> QED  BY <1>1, <1>2

\* The next segment keeps the position and the parity of the toggle.
LEMMA NextSegmentInv ==
    ASSUME IInv, state \in DownState, queue_next_download_segment, now' = now,
           state.sent_pos < Len(state.data), state.sent_pos % 7 = 0,
           state.next_toggle = (((state.sent_pos + 6) \div 7) % 2 = 1)
    PROVE  IInv'
  <1> DEFINE pos       == state.sent_pos
             remaining == Len(state.data) - pos
             last      == remaining <= 7
             chunk     == IF last THEN remaining ELSE 7
             payload   == SubSeq(state.data, pos + 1, pos + chunk)
  <1>0. /\ now \in Nat /\ now' \in Nat /\ pos \in Nat
        /\ state.data \in Seq(Byte) /\ Len(state.data) \in Nat
        /\ state.node_id \in Byte /\ state.mux \in Mux /\ pos % 7 = 0
    BY LenProperties DEF IInv, TypeOK, DownState
  <1>1. /\ chunk \in 1..7 /\ pos + chunk \in 1..Len(state.data)
        /\ pos + chunk \in Nat
        /\ last \in BOOLEAN /\ last = (pos + chunk = Len(state.data))
        /\ ~last => chunk = 7
    <2>1. /\ pos < Len(state.data)
          /\ last = (Len(state.data) - pos <= 7)
      OBVIOUS
    <2>2. chunk = Chunk(pos, Len(state.data))
      BY DEF Chunk
    <2>3. (Len(state.data) - pos <= 7) \in BOOLEAN
      OBVIOUS
    <2> HIDE DEF pos, chunk, last
    <2> QED  BY <1>0, <2>1, <2>2, <2>3, ChunkArith
  <1>2. payload \in Seq(Byte) /\ Len(payload) <= 7
    <2> DEFINE end == pos + chunk
    <2>1. end \in Nat /\ end <= Len(state.data) /\ pos <= end /\ end - pos <= 7
      <3> HIDE DEF pos, chunk
      <3> QED  BY <1>0, <1>1
    <2>2. payload = SubSeq(state.data, pos + 1, end)
      OBVIOUS
    <2> HIDE DEF pos, payload, end
    <2> QED  BY <1>0, <2>1, <2>2, SliceType
  <1>3. state.next_toggle \in BOOLEAN /\ (~state.next_toggle) \in BOOLEAN
    BY Zenon DEF DownState
  <1>4. download_segment(state.node_id, state.next_toggle, payload, last)
          \in SdoFrame
    <2> HIDE DEF payload, last
    <2> QED  BY <1>0, <1>1, <1>2, <1>3, ClientFrameTypes
  <1>5. /\ queue_request(
             download_segment(state.node_id, state.next_toggle, payload, last))
        /\ state' = [state EXCEPT !.sent_pos = pos + chunk,
                                  !.next_toggle = ~state.next_toggle,
                                  !.phase = "AwaitingSegmentAck",
                                  !.flag = last]
        /\ ret' = OkNone
    BY DEF queue_next_download_segment
  <1>6. ~last => (pos + chunk) % 7 = 0
    <2> HIDE DEF pos, chunk, last
    <2> QED  BY <1>0, <1>1, NextSegment
  <1>7. (((pos + chunk + 6) \div 7) % 2 = 1) <=> ~(((pos + 6) \div 7) % 2 = 1)
    <2> HIDE DEF chunk, pos
    <2> QED  BY <1>0, <1>1, OneMoreSegment
  <1> HIDE DEF chunk, last, payload
  <1>8. /\ state' \in DownState
        /\ state'.kind = "Downloading" /\ state'.phase = "AwaitingSegmentAck"
        /\ state'.data = state.data /\ state'.sent_pos = pos + chunk
        /\ state'.flag = last /\ state'.next_toggle = ~state.next_toggle
    BY <1>0, <1>1, <1>3, <1>5, Zenon DEF DownState
  <1>9. state'.next_toggle = (((state'.sent_pos + 6) \div 7) % 2 = 1)
    BY <1>7, <1>8
  <1>10. state'.data # <<>>
    BY <1>0, <1>8, EmptySeq
  <1>11. DownloadInBounds'
    BY <1>0, <1>1, <1>6, <1>8, <1>9, <1>10 DEF DownloadInBounds
  <1> QED  BY <1>0, <1>4, <1>5, <1>8, <1>11, RequestInv

\* The initiate response of a download sends the first segment.
LEMMA DownloadInitInv ==
    ASSUME IInv, NEW f \in Responses, download_init_response(f), now' = now
    PROVE  IInv'
  <1>0. now \in Nat /\ now' \in Nat
    BY DEF IInv, TypeOK
  <1>1. CASE clear_transfer(DownloadCompleted)
    BY <1>0, <1>1, RetTypes, ClearInv
  <1>2. CASE ~state.flag /\ queue_next_download_segment
    <2>1. /\ state.kind = "Downloading" /\ state.phase = "AwaitingInit"
          /\ state \in DownState
      BY StateSplit DEF IInv, TypeOK, download_init_response
    <2>2. /\ state.sent_pos = 0 /\ state.next_toggle = FALSE
          /\ ~(Len(state.data) <= 4) /\ Len(state.data) \in Nat
      BY <1>2, <2>1, LenProperties DEF IInv, DownloadInBounds, DownState
    <2>3. /\ state.sent_pos < Len(state.data) /\ state.sent_pos % 7 = 0
          /\ state.next_toggle = (((state.sent_pos + 6) \div 7) % 2 = 1)
      <3>1. 0 % 7 = 0 /\ (((0 + 6) \div 7) % 2 = 1) = FALSE
        OBVIOUS
      <3>2. state.sent_pos < Len(state.data)
        BY <2>2
      <3> QED  BY <2>2, <3>1, <3>2
    <2> QED  BY <1>2, <2>1, <2>3, NextSegmentInv
  <1> QED  BY <1>1, <1>2 DEF download_init_response

\* The acknowledgement of a segment sends the next or ends the transfer.
LEMMA DownloadSegmentInv ==
    ASSUME IInv, NEW f \in Responses, download_segment_response(f), now' = now
    PROVE  IInv'
  <1>0. now \in Nat /\ now' \in Nat
    BY DEF IInv, TypeOK
  <1>1. /\ state.kind = "Downloading" /\ state.phase = "AwaitingSegmentAck"
        /\ state \in DownState /\ ~is_idle
    BY StateSplit DEF IInv, TypeOK, download_segment_response, is_idle
  <1>2. CASE fail_with("ToggleBitNotAlternated")
    <2>1. "ToggleBitNotAlternated" \in SdoAbortCode
      BY DEF SdoAbortCode
    <2> QED  BY <1>0, <1>1, <1>2, <2>1, RetTypes, AbortInv DEF fail_with
  <1>3. CASE clear_transfer(DownloadCompleted)
    BY <1>0, <1>3, RetTypes, ClearInv
  <1>4. CASE ~state.flag /\ queue_next_download_segment
    <2>1. /\ state.sent_pos \in 1..Len(state.data) /\ Len(state.data) \in Nat
          /\ state.sent_pos # Len(state.data) /\ state.sent_pos % 7 = 0
          /\ state.next_toggle = (((state.sent_pos + 6) \div 7) % 2 = 1)
      BY <1>1, <1>4, LenProperties DEF IInv, DownloadInBounds, DownState
    <2>2. state.sent_pos < Len(state.data)
      BY <2>1
    <2> QED  BY <1>1, <1>4, <2>1, <2>2, NextSegmentInv
  <1> QED  BY <1>2, <1>3, <1>4 DEF download_segment_response

---------------------------------------------------------------------------
(* Every step *)

\* handle_frame, whatever the frame.
LEMMA HandleFrameInv ==
    ASSUME IInv, NEW f \in Responses, handle_frame(f), now' = now
    PROVE  IInv'
  <1>0. now' \in Nat
    BY DEF IInv, TypeOK
  <1>1. CASE ignore
    BY <1>0, <1>1, IgnoreInv
  <1>2. CASE server_abort(f)
    <2>1. f.code \in SdoAbortCode
      BY <1>2, ResponsesAssumption DEF server_abort
    <2> QED  BY <1>0, <1>2, <2>1, RetTypes, ClearInv DEF server_abort
  <1>3. CASE upload_init_response(f)
    BY <1>3, UploadInitInv
  <1>4. CASE upload_segment_response(f)
    BY <1>4, UploadSegmentInv
  <1>5. CASE download_init_response(f)
    BY <1>5, DownloadInitInv
  <1>6. CASE download_segment_response(f)
    BY <1>6, DownloadSegmentInv
  <1> QED  BY <1>1, <1>2, <1>3, <1>4, <1>5, <1>6 DEF handle_frame

\* handle_timeout and abort().
LEMMA GiveUpInv ==
    ASSUME IInv, now' = now, handle_timeout \/ \E c \in AbortArgs : abort(c)
    PROVE  IInv'
  <1>0. /\ now' \in Nat /\ pending_tx \in Seq(SdoFrame)
        /\ Len(pending_tx) <= 1 /\ "ProtocolTimeout" \in SdoAbortCode
    BY DEF IInv, TypeOK, SdoAbortCode
  <1>1. CASE ignore
    BY <1>0, <1>1, IgnoreInv
  <1>2. ASSUME NEW c \in SdoAbortCode, ret' \in RetType,
               IF is_idle THEN UNCHANGED <<state, pending_tx, deadline>>
                          ELSE queue_abort(c)
        PROVE  IInv'
    BY <1>0, <1>2, SameInv, AbortInv
  <1>3. CASE handle_timeout
    BY <1>0, <1>1, <1>2, <1>3, RetTypes DEF handle_timeout
  <1>4. CASE \E c \in AbortArgs : abort(c)
    BY <1>2, <1>4, RetTypes, AbortAssumption DEF abort
  <1> QED  BY <1>3, <1>4

\* Every step preserves the invariant.
LEMMA Inductive == IInv /\ [Next]_vars => IInv'
  <1> SUFFICES ASSUME IInv, [Next]_vars
               PROVE  IInv'
    OBVIOUS
  <1>0. now \in Nat /\ ret \in RetType
    BY DEF IInv, TypeOK, RetType
  <1>1. ASSUME NEW n \in NodeArgs, NEW m \in Muxes,
               begin_upload(n, m) /\ UNCHANGED now
        PROVE  IInv'
    BY <1>1, BeginUploadInv
  <1>2. ASSUME NEW n \in NodeArgs, NEW m \in Muxes, NEW d \in Payloads,
               begin_download(n, m, d) /\ UNCHANGED now
        PROVE  IInv'
    BY <1>2, BeginDownloadInv
  <1>3. ASSUME NEW f \in Responses, handle_frame(f) /\ UNCHANGED now
        PROVE  IInv'
    BY <1>3, HandleFrameInv
  <1>4. CASE handle_timeout /\ UNCHANGED now
    BY <1>4, GiveUpInv
  <1>5. CASE \E c \in AbortArgs : abort(c) /\ UNCHANGED now
    BY <1>5, GiveUpInv
  <1>6. CASE poll_transmit /\ UNCHANGED now
    <2>1. pending_tx' \in Seq(SdoFrame) /\ Len(pending_tx') <= 1
      BY <1>6 DEF poll_transmit
    <2> QED  BY <1>0, <1>6, <2>1, RetTypes, SameInv DEF poll_transmit
  <1>7. CASE Tick
    BY <1>0, <1>7, SameInv DEF Tick, IInv, TypeOK
  <1>8. CASE UNCHANGED vars
    BY <1>0, <1>8, SameInv DEF vars, IInv, TypeOK
  <1> QED  BY <1>1, <1>2, <1>3, <1>4, <1>5, <1>6, <1>7, <1>8 DEF Next

\* SdoClient::new establishes the invariant.
LEMMA InitInv == Init => IInv
  <1> SUFFICES ASSUME Init
               PROVE  IInv
    OBVIOUS
  <1>1. pending_tx \in Seq(SdoFrame) /\ Len(pending_tx) <= 1
    BY DEF Init
  <1> QED
    BY <1>1, RetTypes
    DEF Init, IInv, TypeOK, TimerMatchesTransfer, DownloadInBounds, is_idle,
        RetType, State, Idle, None

\* The invariant holds in every reachable state.
LEMMA ClientInvariant == Spec => []IInv
  BY InitInv, Inductive, PTL DEF Spec

\* The client's state keeps its types: no call of begin_upload,
\* begin_download, handle_frame, handle_timeout or abort leaves SdoClient
\* with more than one frame to send or a malformed transfer.
THEOREM ClientTypeOK == Spec => []TypeOK
  <1>1. IInv => TypeOK
    BY DEF IInv
  <1> QED  BY <1>1, ClientInvariant, PTL

\* next_deadline() is Some exactly while a transfer is in flight, whatever
\* the timeout, the caller and the responses.
THEOREM ClientTimer == Spec => []TimerMatchesTransfer
  <1>1. IInv => TimerMatchesTransfer
    BY DEF IInv
  <1> QED  BY <1>1, ClientInvariant, PTL

\* queue_next_download_segment never slices out of bounds, sends an empty
\* segment or loses the toggle's parity, for data of every length.
THEOREM ClientDownloadBounds == Spec => []DownloadInBounds
  <1>1. IInv => DownloadInBounds
    BY DEF IInv
  <1> QED  BY <1>1, ClientInvariant, PTL

---------------------------------------------------------------------------
(* The transmit slot *)

\* A request stays current as long as its transfer does, sent or not.
LEMMA SlotKept ==
    ASSUME PendingIsCurrent, state' = state, pending_tx' \in {pending_tx, <<>>}
    PROVE  PendingIsCurrent'
  <1>1. is_idle' = is_idle /\ RequestInFlight' = RequestInFlight
    BY DEF is_idle, RequestInFlight
  <1>2. CASE pending_tx' = pending_tx
    BY <1>1, <1>2 DEF PendingIsCurrent
  <1>3. CASE pending_tx' = <<>>
    BY <1>3 DEF PendingIsCurrent
  <1> QED  BY <1>2, <1>3

\* clear_transfer leaves nothing to send.
LEMMA SlotCleared ==
    ASSUME NEW r, clear_transfer(r)
    PROVE  PendingIsCurrent'
  BY DEF PendingIsCurrent, clear_transfer

\* queue_abort replaces whatever was to be sent by an abort.
LEMMA SlotAborted ==
    ASSUME NEW c, queue_abort(c)
    PROVE  PendingIsCurrent'
  <1> DEFINE f == AbortFrame(rsdo_id(state.node_id), state.mux, c)
  <1>1. is_idle' /\ pending_tx' = <<f>>
    BY DEF queue_abort, is_idle, Idle
  <1>2. cs_of(f.cmd) = CS_ABORT
    BY DEF AbortFrame, CS_ABORT, cs_of
  <1> HIDE DEF f
  <1> QED  BY <1>1, <1>2 DEF PendingIsCurrent

\* queue_request replaces it by the request of the step that follows.
LEMMA SlotRequested ==
    ASSUME NEW f, queue_request(f), ~is_idle', f = RequestInFlight'
    PROVE  PendingIsCurrent'
  BY DEF queue_request, PendingIsCurrent

\* The segment that ends at position n + c starts at n + 1.
LEMMA SegmentStart ==
    ASSUME NEW n \in Nat, n % 7 = 0, NEW c \in 1..7
    PROVE  ((n + c - 1) \div 7) * 7 + 1 = n + 1
  OBVIOUS

\* The first request of either kind of transfer.
LEMMA BeginSlot ==
    ASSUME PendingIsCurrent, NEW n, NEW m, NEW d,
           begin_upload(n, m) \/ begin_download(n, m, d)
    PROVE  PendingIsCurrent'
  <1>1. CASE UNCHANGED <<state, pending_tx>>
    BY <1>1, SlotKept
  <1>2. CASE /\ queue_request(init_upload(n, m))
             /\ state' = UploadCtx(n, m)
    <2>1. /\ state'.kind = "Uploading" /\ state'.phase = "AwaitingInit"
          /\ state'.node_id = n /\ state'.mux = m
      BY <1>2 DEF UploadCtx
    <2>2. ~is_idle' /\ init_upload(n, m) = RequestInFlight'
      BY <2>1 DEF is_idle, RequestInFlight
    <2> QED  BY <1>2, <2>2, SlotRequested
  <1>3. CASE /\ queue_request(IF Len(d) <= 4
                                THEN init_download_expedited(n, m, d)
                                ELSE init_download_segmented(n, m, Len(d)))
             /\ state' = DownloadCtx(n, m, d)
    <2>1. /\ state'.kind = "Downloading" /\ state'.phase = "AwaitingInit"
          /\ state'.node_id = n /\ state'.mux = m /\ state'.data = d
      BY <1>3 DEF DownloadCtx
    <2>2. /\ ~is_idle'
          /\ (IF Len(d) <= 4
                THEN init_download_expedited(n, m, d)
                ELSE init_download_segmented(n, m, Len(d))) = RequestInFlight'
      BY <2>1 DEF is_idle, RequestInFlight
    <2> QED  BY <1>3, <2>2, SlotRequested
  <1> QED  BY <1>1, <1>2, <1>3 DEF begin_upload, begin_download

\* The responses of an upload: every next request carries the toggle that
\* its answer is compared with.
LEMMA UploadSlot ==
    ASSUME IInv, NEW f, upload_init_response(f) \/ upload_segment_response(f)
    PROVE  PendingIsCurrent'
  <1>1. state \in UpState /\ state.kind = "Uploading"
    BY StateSplit
    DEF IInv, TypeOK, upload_init_response, upload_segment_response
  <1>2. CASE \E r : clear_transfer(r)
    BY <1>2, SlotCleared
  <1>3. CASE \E c : fail_with(c)
    BY <1>3, SlotAborted DEF fail_with
  <1>4. ASSUME NEW e,
               queue_request(
                  upload_segment_request(state.node_id, state.next_toggle)),
               state' = [state EXCEPT !.expected_len = e,
                                      !.phase = "AwaitingSegment"]
        PROVE  PendingIsCurrent'
    <2>1. /\ state'.kind = "Uploading" /\ state'.phase = "AwaitingSegment"
          /\ state'.node_id = state.node_id
          /\ state'.next_toggle = state.next_toggle
      BY <1>1, <1>4, Zenon DEF UpState
    <2>2. ~is_idle'
      BY <2>1 DEF is_idle
    <2>3. upload_segment_request(state.node_id, state.next_toggle)
            = RequestInFlight'
      BY <2>1 DEF RequestInFlight
    <2> QED  BY <1>4, <2>2, <2>3, SlotRequested
  <1>5. ASSUME NEW received,
               state.phase = "AwaitingSegment",
               queue_request(
                  upload_segment_request(state.node_id, ~state.next_toggle)),
               state' = [state EXCEPT !.received = received,
                                      !.next_toggle = ~@]
        PROVE  PendingIsCurrent'
    <2>1. /\ state'.kind = "Uploading" /\ state'.phase = "AwaitingSegment"
          /\ state'.node_id = state.node_id
          /\ state'.next_toggle = ~state.next_toggle
      BY <1>1, <1>5, Zenon DEF UpState
    <2>2. ~is_idle'
      BY <2>1 DEF is_idle
    <2>3. upload_segment_request(state.node_id, ~state.next_toggle)
            = RequestInFlight'
      BY <2>1 DEF RequestInFlight
    <2> QED  BY <1>5, <2>2, <2>3, SlotRequested
  <1>6. CASE upload_init_response(f)
    BY <1>2, <1>4, <1>6 DEF upload_init_response
  <1>7. CASE upload_segment_response(f)
    BY <1>2, <1>3, <1>5, <1>7 DEF upload_segment_response
  <1> QED  BY <1>6, <1>7

\* The next segment is sliced where the previous one ended, whatever the
\* length of the data, and its toggle is the one before the flip.
LEMMA NextSegmentSlot ==
    ASSUME IInv, state \in DownState, queue_next_download_segment,
           state.sent_pos < Len(state.data), state.sent_pos % 7 = 0
    PROVE  PendingIsCurrent'
  <1> DEFINE pos     == state.sent_pos
             len     == Len(state.data)
             last    == len - pos <= 7
             chunk   == IF last THEN len - pos ELSE 7
             payload == SubSeq(state.data, pos + 1, pos + chunk)
             f       == download_segment(state.node_id, state.next_toggle,
                                         payload, last)
  <1>0. pos \in Nat /\ len \in Nat /\ pos < len /\ pos % 7 = 0
    BY LenProperties DEF DownState
  <1>1. /\ queue_request(f)
        /\ state' = [state EXCEPT !.sent_pos = pos + chunk,
                                  !.next_toggle = ~state.next_toggle,
                                  !.phase = "AwaitingSegmentAck",
                                  !.flag = last]
    BY DEF queue_next_download_segment
  <1>2. /\ chunk \in 1..7 /\ last \in BOOLEAN
        /\ last = (pos + chunk = len)
    <2>1. chunk = Chunk(pos, len) /\ last = (len - pos <= 7)
      BY DEF Chunk
    <2>2. (len - pos <= 7) \in BOOLEAN
      OBVIOUS
    <2> HIDE DEF pos, len, chunk, last
    <2> QED  BY <1>0, <2>1, <2>2, ChunkArith
  <1>3. ((pos + chunk - 1) \div 7) * 7 + 1 = pos + 1
    <2> HIDE DEF pos, chunk
    <2> QED  BY <1>0, <1>2, SegmentStart
  <1>4. state.next_toggle \in BOOLEAN
    BY Zenon DEF DownState
  <1> HIDE DEF chunk, last, payload
  <1>5. /\ state'.kind = "Downloading" /\ state'.phase = "AwaitingSegmentAck"
        /\ state'.node_id = state.node_id /\ state'.data = state.data
        /\ state'.sent_pos = pos + chunk
        /\ state'.next_toggle = ~state.next_toggle
    BY <1>1, Zenon DEF DownState
  <1>6. (~state'.next_toggle) = state.next_toggle
    BY <1>4, <1>5, Zenon
  <1>7. (state'.sent_pos = Len(state'.data)) = last
    BY <1>2, <1>5
  <1>8. SubSeq(state'.data, ((state'.sent_pos - 1) \div 7) * 7 + 1,
               state'.sent_pos) = payload
    <2>1. payload = SubSeq(state.data, pos + 1, pos + chunk)
      BY DEF payload
    <2>2. ((state'.sent_pos - 1) \div 7) * 7 + 1 = pos + 1
      <3>1. state'.sent_pos = pos + chunk
        BY <1>5
      <3> HIDE DEF pos
      <3> QED  BY <1>0, <1>2, <1>3, <3>1
    <2> QED  BY <1>5, <2>1, <2>2
  <1>9. RequestInFlight' =
          download_segment(state'.node_id, ~state'.next_toggle,
             SubSeq(state'.data, ((state'.sent_pos - 1) \div 7) * 7 + 1,
                    state'.sent_pos),
             state'.sent_pos = Len(state'.data))
    BY <1>5 DEF RequestInFlight
  <1>10. RequestInFlight' = f
    BY <1>5, <1>6, <1>7, <1>8, <1>9, Zenon
  <1>11. ~is_idle'
    BY <1>5 DEF is_idle
  <1> HIDE DEF f
  <1> QED  BY <1>1, <1>10, <1>11, SlotRequested

\* The responses of a download.
LEMMA DownloadSlot ==
    ASSUME IInv, NEW f,
           download_init_response(f) \/ download_segment_response(f)
    PROVE  PendingIsCurrent'
  <1>1. state \in DownState /\ state.kind = "Downloading"
    BY StateSplit
    DEF IInv, TypeOK, download_init_response, download_segment_response
  <1>2. CASE \E r : clear_transfer(r)
    BY <1>2, SlotCleared
  <1>3. CASE \E c : fail_with(c)
    BY <1>3, SlotAborted DEF fail_with
  <1>4. CASE /\ state.phase = "AwaitingInit" /\ ~state.flag
             /\ queue_next_download_segment
    <2>1. state.sent_pos = 0 /\ ~(Len(state.data) <= 4) /\ Len(state.data) \in Nat
      BY <1>1, <1>4, LenProperties DEF IInv, DownloadInBounds, DownState
    <2>2. state.sent_pos < Len(state.data) /\ state.sent_pos % 7 = 0
      <3>1. 0 % 7 = 0
        OBVIOUS
      <3> QED  BY <2>1, <3>1
    <2> QED  BY <1>1, <1>4, <2>2, NextSegmentSlot
  <1>5. CASE /\ state.phase = "AwaitingSegmentAck" /\ ~state.flag
             /\ queue_next_download_segment
    <2>1. /\ state.sent_pos \in 1..Len(state.data) /\ Len(state.data) \in Nat
          /\ state.sent_pos # Len(state.data) /\ state.sent_pos % 7 = 0
      BY <1>1, <1>5, LenProperties DEF IInv, DownloadInBounds, DownState
    <2>2. state.sent_pos < Len(state.data)
      BY <2>1
    <2> QED  BY <1>1, <1>5, <2>1, <2>2, NextSegmentSlot
  <1>6. CASE download_init_response(f)
    BY <1>2, <1>4, <1>6 DEF download_init_response
  <1>7. CASE download_segment_response(f)
    BY <1>2, <1>3, <1>5, <1>7 DEF download_segment_response
  <1> QED  BY <1>6, <1>7

\* Every step keeps the slot current.
LEMMA SlotStep ==
    ASSUME IInv, PendingIsCurrent, [Next]_vars
    PROVE  PendingIsCurrent'
  <1>1. ASSUME NEW n, NEW m, NEW d,
               begin_upload(n, m) \/ begin_download(n, m, d)
        PROVE  PendingIsCurrent'
    BY <1>1, BeginSlot
  <1>2. CASE ignore
    BY <1>2, SlotKept DEF ignore
  <1>3. ASSUME NEW c,
               IF is_idle THEN UNCHANGED <<state, pending_tx, deadline>>
                          ELSE queue_abort(c)
        PROVE  PendingIsCurrent'
    BY <1>3, SlotKept, SlotAborted
  <1>4. ASSUME NEW f \in Responses, handle_frame(f)
        PROVE  PendingIsCurrent'
    <2>1. CASE server_abort(f)
      BY <2>1, SlotCleared DEF server_abort
    <2>2. CASE upload_init_response(f) \/ upload_segment_response(f)
      BY <2>2, UploadSlot
    <2>3. CASE download_init_response(f) \/ download_segment_response(f)
      BY <2>3, DownloadSlot
    <2> QED  BY <1>2, <1>4, <2>1, <2>2, <2>3 DEF handle_frame
  <1>5. CASE handle_timeout
    BY <1>2, <1>3, <1>5 DEF handle_timeout
  <1>6. CASE \E c \in AbortArgs : abort(c)
    BY <1>3, <1>6 DEF abort
  <1>7. CASE poll_transmit
    BY <1>7, SlotKept DEF poll_transmit
  <1>8. CASE Tick \/ UNCHANGED vars
    BY <1>8, SlotKept DEF Tick, vars
  <1> QED
    BY <1>1, <1>4, <1>5, <1>6, <1>7, <1>8 DEF Next

\* The single transmit slot of SdoClient never holds a stale frame: during a
\* transfer it is that transfer's current request, with the slice, the
\* toggle and the last bit of this very step, and in Idle only an abort, for
\* data of every length and every order of begin, frame, timeout, abort and
\* poll.
THEOREM ClientSlot == Spec => []PendingIsCurrent
  <1>1. Init => PendingIsCurrent
    BY DEF Init, PendingIsCurrent
  <1>2. IInv /\ PendingIsCurrent /\ [Next]_vars => PendingIsCurrent'
    BY SlotStep
  <1> QED  BY <1>1, <1>2, ClientInvariant, PTL DEF Spec

---------------------------------------------------------------------------
(* The bytes that were received *)

AllSentBy(node, bytes) == \A i \in 1..Len(bytes) : SentBy(node, bytes[i])

\* An upload in flight holds bytes of its own node only.
Received ==
    state.kind = "Uploading" => AllSentBy(state.node_id, state.received)

\* A slice of a frame that was taken holds bytes that its node sent.
LEMMA SliceSentBy ==
    ASSUME NEW f \in Responses, from_peer(f), f.bytes \in Seq(Byte),
           NEW n \in Nat, n <= Len(f.bytes)
    PROVE  AllSentBy(state.node_id, SubSeq(f.bytes, 1, n))
  <1> DEFINE v == SubSeq(f.bytes, 1, n)
  <1>1. Len(v) = n /\ \A i \in 1..n : v[i] = f.bytes[i]
    <2>1. \A i \in 1..n : f.bytes[i] \in Byte
      BY ElementOfSeq, LenProperties
    <2>2. /\ Len(v) = IF 1 <= n THEN n - 1 + 1 ELSE 0
          /\ \A i \in 1..(n - 1 + 1) : v[i] = f.bytes[1 + i - 1]
      BY <2>1, SubSeqProperties, 1 \in Int, n \in Int
    <2> HIDE DEF v
    <2> QED  BY <2>2
  <1> HIDE DEF v
  <1>2. \A i \in 1..n : SentBy(state.node_id, f.bytes[i])
    <2>1. 1..n \subseteq 1..Len(f.bytes)
      BY LenProperties
    <2> QED  BY <2>1 DEF SentBy, from_peer
  <1> QED  BY <1>1, <1>2 DEF AllSentBy, v

\* What is appended to bytes of a node comes from it as well.
LEMMA ConcatSentBy ==
    ASSUME NEW node, NEW u \in Seq(Byte), NEW v \in Seq(Byte),
           AllSentBy(node, u), AllSentBy(node, v)
    PROVE  AllSentBy(node, u \o v)
  <1>1. /\ Len(u) \in Nat /\ Len(v) \in Nat /\ Len(u \o v) = Len(u) + Len(v)
        /\ \A i \in 1..(Len(u) + Len(v)) :
              (u \o v)[i] = IF i <= Len(u) THEN u[i] ELSE v[i - Len(u)]
    BY ConcatProperties, LenProperties
  <1>2. ASSUME NEW i \in 1..Len(u \o v)
        PROVE  SentBy(node, (u \o v)[i])
    <2>1. CASE i <= Len(u)
      <3>1. i \in 1..Len(u) /\ (u \o v)[i] = u[i]
        BY <1>1, <1>2, <2>1
      <3> QED  BY <3>1 DEF AllSentBy
    <2>2. CASE ~(i <= Len(u))
      <3>1. i - Len(u) \in 1..Len(v) /\ (u \o v)[i] = v[i - Len(u)]
        BY <1>1, <1>2, <2>2
      <3> QED  BY <3>1 DEF AllSentBy
    <2> QED  BY <2>1, <2>2
  <1> QED  BY <1>2 DEF AllSentBy

\* The bytes that a segment adds come from the transfer's node.
LEMMA SegmentReceived ==
    ASSUME IInv, Received, NEW f \in Responses, from_peer(f),
           state.kind = "Uploading", cs_of(f.cmd) = SCS_UPLOAD_SEGMENT
    PROVE  AllSentBy(state.node_id,
              state.received \o SubSeq(f.bytes, 1, decode_segment(f.cmd).len))
  <1> DEFINE n == decode_segment(f.cmd).len
             v == SubSeq(f.bytes, 1, n)
  <1>1. /\ state \in UpState /\ f \in SdoFrame
        /\ f.bytes \in Seq(Byte) /\ f.cmd \in Byte /\ Len(f.bytes) = 7
    BY StateSplit, ResponsesAssumption DEF IInv, TypeOK, SdoFrame
  <1>2. n \in Nat /\ n <= 7 /\ 0 <= n
    BY <1>1, CmdDecode
  <1> HIDE DEF n
  <1>3. AllSentBy(state.node_id, v)
    BY <1>1, <1>2, SliceSentBy
  <1>4. v \in Seq(Byte)
    BY <1>1, <1>2, SliceType, 0 \in Nat, 0 + 1 = 1
  <1>5. state.received \in Seq(Byte) /\ AllSentBy(state.node_id, state.received)
    BY <1>1 DEF UpState, Received
  <1> HIDE DEF v
  <1>6. AllSentBy(state.node_id, state.received \o v)
    BY <1>3, <1>4, <1>5, ConcatSentBy
  <1> QED  BY <1>6 DEF v, n

\* Every step keeps the received bytes those of the node.
LEMMA ReceivedStep ==
    ASSUME IInv, Received, [Next]_vars
    PROVE  Received'
  <1>0. ASSUME UNCHANGED state
        PROVE  Received'
    BY <1>0 DEF Received, AllSentBy, SentBy
  <1>1. ASSUME state'.kind # "Uploading"
        PROVE  Received'
    BY <1>1 DEF Received
  <1>2. CASE state' = Idle
    BY <1>1, <1>2 DEF Idle
  <1>3. ASSUME NEW n, NEW m, NEW d,
               begin_upload(n, m) \/ begin_download(n, m, d)
        PROVE  Received'
    <2>1. CASE state' = UploadCtx(n, m)
      <3>1. state'.received = <<>>
        BY <2>1 DEF UploadCtx
      <3>2. Len(state'.received) = 0
        BY <3>1, EmptyBytes
      <3> QED  BY <3>2 DEF Received, AllSentBy
    <2>2. CASE state' = DownloadCtx(n, m, d)
      BY <1>1, <2>2 DEF DownloadCtx
    <2> QED  BY <1>0, <1>3, <2>1, <2>2 DEF begin_upload, begin_download
  <1>4. ASSUME NEW f \in Responses, handle_frame(f)
        PROVE  Received'
    <2>1. CASE \E r : clear_transfer(r)
      BY <1>2, <2>1 DEF clear_transfer
    <2>2. CASE \E c : fail_with(c)
      BY <1>2, <2>2 DEF fail_with, queue_abort
    <2>3. CASE upload_init_response(f)
      <3>1. state \in UpState /\ state.kind = "Uploading"
        BY <2>3, StateSplit DEF IInv, TypeOK, upload_init_response
      <3>2. CASE state' = [state EXCEPT
                             !.expected_len = IF size_indicated(f.cmd)
                                                THEN f.size ELSE None,
                             !.phase = "AwaitingSegment"]
        <4>1. /\ state'.received = state.received
              /\ state'.node_id = state.node_id
          BY <3>1, <3>2 DEF UpState
        <4> QED  BY <3>1, <4>1 DEF Received, AllSentBy, SentBy
      <3> QED  BY <2>1, <2>3, <3>2 DEF upload_init_response
    <2>4. CASE upload_segment_response(f)
      <3>1. /\ state \in UpState /\ state.kind = "Uploading"
            /\ cs_of(f.cmd) = SCS_UPLOAD_SEGMENT
        BY <2>4, StateSplit DEF IInv, TypeOK, upload_segment_response
      <3> DEFINE received == state.received
                               \o SubSeq(f.bytes, 1, decode_segment(f.cmd).len)
      <3>2. CASE from_peer(f) /\ state' = [state EXCEPT !.received = received,
                                                        !.next_toggle = ~@]
        <4>1. AllSentBy(state.node_id, received)
          BY <3>1, <3>2, SegmentReceived
        <4> HIDE DEF received
        <4>2. state'.received = received /\ state'.node_id = state.node_id
          BY <3>1, <3>2, Zenon DEF UpState
        <4> QED  BY <4>1, <4>2 DEF Received, AllSentBy, SentBy
      <3>3. CASE ~from_peer(f)
        BY <1>0, <1>4, <3>3 DEF handle_frame, ignore
      <3> QED  BY <2>1, <2>2, <2>4, <3>2, <3>3 DEF upload_segment_response
    <2>5. CASE download_init_response(f) \/ download_segment_response(f)
      <3>1. state \in DownState /\ state.kind = "Downloading"
        BY <2>5, StateSplit
        DEF IInv, TypeOK, download_init_response, download_segment_response
      <3>2. CASE queue_next_download_segment
        <4>1. state'.kind = state.kind
          BY <3>1, <3>2, Zenon DEF queue_next_download_segment, DownState
        <4> QED  BY <1>1, <3>1, <4>1
      <3> QED
        BY <2>1, <2>2, <2>5, <3>2
        DEF download_init_response, download_segment_response
    <2> QED
      BY <1>0, <1>4, <2>1, <2>3, <2>4, <2>5
      DEF handle_frame, ignore, server_abort
  <1>5. CASE handle_timeout \/ \E c \in AbortArgs : abort(c)
    BY <1>0, <1>2, <1>5 DEF handle_timeout, abort, ignore, queue_abort
  <1>6. CASE poll_transmit \/ Tick \/ UNCHANGED vars
    BY <1>0, <1>6 DEF poll_transmit, Tick, vars
  <1> QED
    BY <1>3, <1>4, <1>5, <1>6 DEF Next

\* An upload never holds a byte of another node.
LEMMA ReceivedInvariant == Spec => [](IInv /\ Received)
  <1>1. Init => Received
    BY DEF Init, Idle, Received
  <1>2. IInv /\ Received /\ [Next]_vars => Received'
    BY ReceivedStep
  <1> QED  BY <1>1, <1>2, ClientInvariant, PTL DEF Spec

---------------------------------------------------------------------------
(* How a transfer ends *)

\* The four ends that EndsAreAccounted allows.
UploadEnd ==
    /\ state.kind = "Uploading" /\ ret'.kind = "UploadCompleted"
    /\ \/ state.expected_len \in {None, Len(ret'.bytes)}
       \/ state.phase = "AwaitingInit" /\ Len(ret'.bytes) \in 1..4
    /\ \A i \in 1..Len(ret'.bytes) : SentBy(state.node_id, ret'.bytes[i])
    /\ pending_tx' = <<>>
DownloadEnd ==
    /\ state.kind = "Downloading" /\ ret' = DownloadCompleted
    /\ state.sent_pos = Len(state.data) \/ Len(state.data) <= 4
    /\ \E f \in Responses : from_peer(f) /\ awaited(f)
    /\ pending_tx' = <<>>
ServerAbortEnd ==
    /\ \E f \in Responses :
          /\ from_peer(f) /\ cs_of(f.cmd) = CS_ABORT
          /\ f.mux = state.mux /\ ret' = ServerAborted(f.code)
    /\ pending_tx' = <<>>
GaveUp(c) ==
    /\ ret' = ClientAborted(c) \/ (ret' = OkNone /\ c \in AbortArgs)
    /\ pending_tx' = <<AbortFrame(rsdo_id(state.node_id), state.mux, c)>>

EndAccounted ==
    ~is_idle /\ is_idle' =>
        \/ UploadEnd
        \/ DownloadEnd
        \/ ServerAbortEnd
        \/ \E c \in SdoAbortCode : GaveUp(c)

\* fail_with(code) gives up with that code.
LEMMA FailGivesUp ==
    ASSUME NEW c \in SdoAbortCode, fail_with(c)
    PROVE  EndAccounted
  BY DEF fail_with, queue_abort, EndAccounted, GaveUp

\* An upload ends with the bytes it announced: one to four in an expedited
\* response, else what expected_len was compared with; its node sent them.
LEMMA UploadEnds ==
    ASSUME IInv, Received, NEW f \in Responses, from_peer(f),
           upload_init_response(f) \/ upload_segment_response(f)
    PROVE  EndAccounted
  <1>1. /\ state \in UpState /\ state.kind = "Uploading"
        /\ f \in SdoFrame /\ f.bytes \in Seq(Byte) /\ f.cmd \in Byte
    BY StateSplit, ResponsesAssumption
    DEF IInv, TypeOK, upload_init_response, upload_segment_response, SdoFrame
  <1>2. CASE upload_init_response(f)
    <2> DEFINE n == expedited_len(f.cmd)
               v == SubSeq(f.bytes, 1, n)
    <2>1. CASE clear_transfer(UploadCompleted(v))
      <3>1. n \in 1..4 /\ Len(f.bytes) = 4 /\ state.phase = "AwaitingInit"
        BY <1>1, <1>2, CmdDecode, ResponsesAssumption DEF upload_init_response
      <3> HIDE DEF n
      <3>2. n \in Nat /\ n <= Len(f.bytes) /\ 0 <= n
        BY <3>1
      <3>3. Len(v) = n - 0
        BY <1>1, <3>2, SliceType, 0 \in Nat, 0 + 1 = 1
      <3>4. Len(v) \in 1..4
        BY <3>1, <3>3
      <3>6. AllSentBy(state.node_id, v)
        BY <1>1, <3>2, SliceSentBy
      <3> HIDE DEF v
      <3>5. ret'.kind = "UploadCompleted" /\ ret'.bytes = v /\ pending_tx' = <<>>
        BY <2>1 DEF clear_transfer, UploadCompleted, Ret
      <3> QED
        BY <1>1, <3>1, <3>4, <3>5, <3>6 DEF EndAccounted, UploadEnd, AllSentBy
    <2>2. CASE state' = [state EXCEPT
                           !.expected_len = IF size_indicated(f.cmd)
                                              THEN f.size ELSE None,
                           !.phase = "AwaitingSegment"]
      <3>1. state'.kind = "Uploading"
        BY <1>1, <2>2 DEF UpState
      <3> QED  BY <3>1 DEF EndAccounted, is_idle
    <2> QED  BY <1>2, <2>1, <2>2 DEF upload_init_response
  <1>3. CASE upload_segment_response(f)
    <2> DEFINE received == state.received
                             \o SubSeq(f.bytes, 1, decode_segment(f.cmd).len)
    <2>1. CASE /\ state.expected_len \in {None, Len(received)}
               /\ clear_transfer(UploadCompleted(received))
      <3>2. AllSentBy(state.node_id, received)
        BY <1>1, <1>3, SegmentReceived DEF upload_segment_response
      <3> HIDE DEF received
      <3>1. /\ ret'.kind = "UploadCompleted" /\ ret'.bytes = received
            /\ pending_tx' = <<>>
        BY <2>1 DEF clear_transfer, UploadCompleted, Ret
      <3> QED
        BY <1>1, <2>1, <3>1, <3>2 DEF EndAccounted, UploadEnd, AllSentBy
    <2>2. CASE state' = [state EXCEPT !.received = received,
                                      !.next_toggle = ~@]
      <3> HIDE DEF received
      <3>1. state'.kind = "Uploading"
        BY <1>1, <2>2, Zenon DEF UpState
      <3> QED  BY <3>1 DEF EndAccounted, is_idle
    <2>3. ASSUME NEW c \in {"ToggleBitNotAlternated", "DataTypeLengthMismatch"},
                 fail_with(c)
          PROVE  EndAccounted
      <3>1. c \in SdoAbortCode
        BY DEF SdoAbortCode
      <3> QED  BY <2>3, <3>1, FailGivesUp
    <2> QED  BY <1>3, <2>1, <2>2, <2>3 DEF upload_segment_response
  <1> QED  BY <1>2, <1>3

\* A download ends only when its last byte is out and acknowledged.
LEMMA DownloadEnds ==
    ASSUME IInv, NEW f \in Responses, from_peer(f),
           download_init_response(f) \/ download_segment_response(f)
    PROVE  EndAccounted
  <1>1. state \in DownState /\ state.kind = "Downloading"
    BY StateSplit
    DEF IInv, TypeOK, download_init_response, download_segment_response
  <1>2. CASE state.flag /\ clear_transfer(DownloadCompleted)
    <2>1. state.sent_pos = Len(state.data) \/ Len(state.data) <= 4
      BY <1>1, <1>2 DEF IInv, DownloadInBounds, DownState
    <2>2. awaited(f)
      BY DEF awaited, download_init_response, download_segment_response
    <2> QED
      BY <1>1, <1>2, <2>1, <2>2 DEF clear_transfer, EndAccounted, DownloadEnd
  <1>3. CASE queue_next_download_segment
    <2>1. state'.kind = state.kind
      BY <1>1, <1>3, Zenon DEF queue_next_download_segment, DownState
    <2> QED  BY <2>1 DEF EndAccounted, is_idle
  <1>4. CASE fail_with("ToggleBitNotAlternated")
    <2>1. "ToggleBitNotAlternated" \in SdoAbortCode
      BY DEF SdoAbortCode
    <2> QED  BY <1>4, <2>1, FailGivesUp
  <1> QED
    BY <1>2, <1>3, <1>4
    DEF download_init_response, download_segment_response

\* Every step accounts for the transfer it ends.
LEMMA EndStep ==
    ASSUME IInv, Received, [Next]_vars
    PROVE  [EndAccounted]_vars
  <1>0. ASSUME UNCHANGED state
        PROVE  EndAccounted
    BY <1>0 DEF EndAccounted, is_idle
  <1>1. ASSUME NEW n, NEW m, NEW d,
               begin_upload(n, m) \/ begin_download(n, m, d)
        PROVE  EndAccounted
    <2>1. CASE is_idle
      BY <2>1 DEF EndAccounted
    <2> QED  BY <1>0, <1>1, <2>1 DEF begin_upload, begin_download
  <1>2. ASSUME NEW c \in SdoAbortCode,
               ret' = ClientAborted(c) \/ (ret' = OkNone /\ c \in AbortArgs),
               IF is_idle THEN UNCHANGED <<state, pending_tx, deadline>>
                          ELSE queue_abort(c)
        PROVE  EndAccounted
    BY <1>0, <1>2 DEF queue_abort, EndAccounted, GaveUp
  <1>3. ASSUME NEW f \in Responses, handle_frame(f)
        PROVE  EndAccounted
    <2>1. CASE from_peer(f) /\ server_abort(f)
      BY <2>1
      DEF server_abort, clear_transfer, EndAccounted, ServerAbortEnd
    <2>2. CASE /\ from_peer(f)
               /\ upload_init_response(f) \/ upload_segment_response(f)
      BY <2>2, UploadEnds
    <2>3. CASE /\ from_peer(f)
               /\ download_init_response(f) \/ download_segment_response(f)
      BY <2>3, DownloadEnds
    <2>4. CASE ignore
      BY <1>0, <2>4 DEF ignore
    <2> QED  BY <1>3, <2>1, <2>2, <2>3, <2>4 DEF handle_frame
  <1>4. CASE handle_timeout
    <2>1. "ProtocolTimeout" \in SdoAbortCode
      BY DEF SdoAbortCode
    <2> QED  BY <1>0, <1>2, <1>4, <2>1 DEF handle_timeout, ignore
  <1>5. CASE \E c \in AbortArgs : abort(c)
    BY <1>2, <1>5, AbortAssumption DEF abort
  <1>6. CASE poll_transmit \/ Tick \/ UNCHANGED vars
    BY <1>0, <1>6 DEF poll_transmit, Tick, vars
  <1> QED
    BY <1>1, <1>3, <1>4, <1>5, <1>6 DEF Next

\* No call ends a transfer unnoticed: drive()'s two unreachable!() are never
\* reached, an upload is handed over only with the announced length and with
\* bytes of the node that was asked, a download only when its last byte was
\* sent and this node acknowledged, and every time this side gives up the
\* abort frame of exactly this transfer waits in the slot.
THEOREM ClientEnds == Spec => EndsAreAccounted
  <1>1. IInv /\ Received /\ [Next]_vars => [EndAccounted]_vars
    BY EndStep
  <1>2. Spec => [][EndAccounted]_vars
    BY <1>1, ReceivedInvariant, PTL DEF Spec
  <1> QED
    BY <1>2, PTL
    DEF EndsAreAccounted, EndAccounted, UploadEnd, DownloadEnd,
        ServerAbortEnd, GaveUp

=============================================================================

----------------------------- MODULE SdoClient -----------------------------
(***************************************************************************)
(* The SDO client state machine, SdoClient of src/client.rs.               *)
(*                                                                         *)
(* Its caller is unconstrained: transfers are begun at any time, any frame *)
(* of Responses may be fed in any order, whether or not the pending        *)
(* request was taken, and time passes between any two calls.               *)
(*                                                                         *)
(* Option<SdoFrame> is a sequence of at most one frame; a call's           *)
(* Result<Option<SdoOutcome>, SdoError> is the record ret.                 *)
(***************************************************************************)
EXTENDS SdoWire

CONSTANTS
    Timeout,     \* cfg.timeout
    NodeArgs,    \* the node ids a caller passes, valid or not
    Muxes,       \* the objects a caller names
    Payloads,    \* the byte strings a caller downloads
    AbortArgs,   \* the codes a caller passes to abort()
    Responses,   \* the frames a caller may feed
    MaxNow,      \* bound on the clock
    MaxReceived  \* bound on the bytes of one upload (a server may never
                 \* set the "complete" bit)

ASSUME TimeoutAssumption  == Timeout \in Nat
ASSUME NodeArgsAssumption == NodeArgs \subseteq Byte
ASSUME MuxesAssumption    == Muxes \subseteq Mux
ASSUME PayloadsAssumption == Payloads \subseteq Seq(Byte)
ASSUME AbortAssumption    == AbortArgs \subseteq SdoAbortCode
ASSUME BoundsAssumption   == MaxNow \in Nat /\ MaxReceived \in Nat
\* Every initiate frame has four data bytes, every segment seven, and every
\* abort a code.
ASSUME ResponsesAssumption ==
    /\ Responses \subseteq SdoFrame
    /\ \A f \in Responses :
          /\ cs_of(f.cmd) = SCS_INIT_UPLOAD => Len(f.bytes) = 4
          /\ cs_of(f.cmd) = SCS_UPLOAD_SEGMENT => Len(f.bytes) = 7
          /\ cs_of(f.cmd) = CS_ABORT => f.code \in SdoAbortCode

VARIABLES
    state,       \* State
    pending_tx,  \* Option<SdoFrame>
    deadline,    \* Option<u64>
    ret,         \* what the last call returned
    now          \* the caller's monotonic clock

vars == <<state, pending_tx, deadline, ret, now>>

---------------------------------------------------------------------------
(* Return values *)

Ret(kind, code, bytes) == [kind |-> kind, code |-> code, bytes |-> bytes]

OkNone            == Ret("None", NoCode, <<>>)
Busy              == Ret("Busy", NoCode, <<>>)
InvalidArgument   == Ret("InvalidArgument", NoCode, <<>>)
UploadCompleted(bytes) == Ret("UploadCompleted", NoCode, bytes)
DownloadCompleted == Ret("DownloadCompleted", NoCode, <<>>)
ServerAborted(code) == Ret("ServerAborted", code, <<>>)
ClientAborted(code) == Ret("ClientAborted", code, <<>>)

(* States *)

Idle == [kind |-> "Idle"]

UploadCtx(node, mux) ==
    [kind |-> "Uploading", node_id |-> node, mux |-> mux, received |-> <<>>,
     expected_len |-> None, next_toggle |-> FALSE, phase |-> "AwaitingInit"]

\* flag is `expedited` in AwaitingInit and `last` in AwaitingSegmentAck.
DownloadCtx(node, mux, data) ==
    [kind |-> "Downloading", node_id |-> node, mux |-> mux, data |-> data,
     sent_pos |-> 0, next_toggle |-> FALSE, phase |-> "AwaitingInit",
     flag |-> Len(data) <= 4]

is_idle == state.kind = "Idle"

Init ==
    /\ state = Idle
    /\ pending_tx = <<>>
    /\ deadline = None
    /\ ret = OkNone
    /\ now = 0

---------------------------------------------------------------------------
(* Helpers *)

\* Defects: the slot is a queue; only the first request arms the timer.
queue_request_appends(frame) ==
    /\ pending_tx' = Append(pending_tx, frame)
    /\ deadline' = now + Timeout
queue_request_once(frame) ==
    /\ pending_tx' = <<frame>>
    /\ deadline' = IF is_idle THEN now + Timeout ELSE None

queue_request(frame) ==
    /\ pending_tx' = <<frame>>
    /\ deadline' = now + Timeout

\* Defect: a request that was not sent yet outlives its transfer.
clear_transfer_keeps_request(result) ==
    /\ state' = Idle
    /\ deadline' = None
    /\ ret' = result
    /\ UNCHANGED pending_tx

clear_transfer(result) ==
    /\ state' = Idle
    /\ pending_tx' = <<>>
    /\ deadline' = None
    /\ ret' = result

\* Defect: the timer of the aborted transfer stays armed.
queue_abort_keeps_timer(code) ==
    /\ pending_tx' = <<AbortFrame(rsdo_id(state.node_id), state.mux, code)>>
    /\ state' = Idle
    /\ UNCHANGED deadline

queue_abort(code) ==
    /\ pending_tx' = <<AbortFrame(rsdo_id(state.node_id), state.mux, code)>>
    /\ deadline' = None
    /\ state' = Idle

\* queue_abort followed by return Err(ClientAborted(code))
fail_with(code) ==
    /\ queue_abort(code)
    /\ ret' = ClientAborted(code)

\* The frame is not for this transfer: the state is put back, Ok(None).
ignore ==
    /\ ret' = OkNone
    /\ UNCHANGED <<state, pending_tx, deadline>>

valid_node_id(node) == node \in 1..127

---------------------------------------------------------------------------
(* Starting a transfer *)

begin_upload(node, mux) ==
    \/ /\ ~valid_node_id(node)
       /\ ret' = InvalidArgument
       /\ UNCHANGED <<state, pending_tx, deadline>>
    \/ /\ valid_node_id(node)
       /\ ~is_idle
       /\ ret' = Busy
       /\ UNCHANGED <<state, pending_tx, deadline>>
    \/ /\ valid_node_id(node)
       /\ is_idle
       /\ queue_request(init_upload(node, mux))
       /\ state' = UploadCtx(node, mux)
       /\ ret' = OkNone

begin_download(node, mux, data) ==
    \/ /\ ~valid_node_id(node) \/ data = <<>>
       /\ ret' = InvalidArgument
       /\ UNCHANGED <<state, pending_tx, deadline>>
    \/ /\ valid_node_id(node) /\ data # <<>>
       /\ ~is_idle
       /\ ret' = Busy
       /\ UNCHANGED <<state, pending_tx, deadline>>
    \/ /\ valid_node_id(node) /\ data # <<>>
       /\ is_idle
       /\ queue_request(IF Len(data) <= 4
                          THEN init_download_expedited(node, mux, data)
                          ELSE init_download_segmented(node, mux, Len(data)))
       /\ state' = DownloadCtx(node, mux, data)
       /\ ret' = OkNone

---------------------------------------------------------------------------
(* advance_upload *)

\* Defect: the answer for another object is taken.
upload_init_response_any_object(f) ==
    /\ state.kind = "Uploading" /\ state.phase = "AwaitingInit"
    /\ cs_of(f.cmd) = SCS_INIT_UPLOAD
    /\ \/ /\ is_expedited(f.cmd)
          /\ clear_transfer(
                UploadCompleted(SubSeq(f.bytes, 1, expedited_len(f.cmd))))
       \/ /\ ~is_expedited(f.cmd)
          /\ queue_request(
                upload_segment_request(state.node_id, state.next_toggle))
          /\ state' = [state EXCEPT !.expected_len = f.size,
                                    !.phase = "AwaitingSegment"]
          /\ ret' = OkNone

upload_init_response(f) ==
    /\ state.kind = "Uploading" /\ state.phase = "AwaitingInit"
    /\ cs_of(f.cmd) = SCS_INIT_UPLOAD
    /\ f.mux = state.mux
    /\ \/ /\ is_expedited(f.cmd)
          /\ clear_transfer(
                UploadCompleted(SubSeq(f.bytes, 1, expedited_len(f.cmd))))
       \/ /\ ~is_expedited(f.cmd)
          /\ queue_request(
                upload_segment_request(state.node_id, state.next_toggle))
          /\ state' = [state EXCEPT
                         !.expected_len = IF size_indicated(f.cmd)
                                            THEN f.size ELSE None,
                         !.phase = "AwaitingSegment"]
          /\ ret' = OkNone

upload_segment_response(f) ==
    LET seg      == decode_segment(f.cmd)
        received == state.received \o SubSeq(f.bytes, 1, seg.len)
    IN
    /\ state.kind = "Uploading" /\ state.phase = "AwaitingSegment"
    /\ cs_of(f.cmd) = SCS_UPLOAD_SEGMENT
    /\ \/ /\ toggle_of(f.cmd) # state.next_toggle
          /\ fail_with("ToggleBitNotAlternated")
       \/ /\ toggle_of(f.cmd) = state.next_toggle
          /\ seg.complete
          /\ state.expected_len \notin {None, Len(received)}
          /\ fail_with("DataTypeLengthMismatch")
       \/ /\ toggle_of(f.cmd) = state.next_toggle
          /\ seg.complete
          /\ state.expected_len \in {None, Len(received)}
          /\ clear_transfer(UploadCompleted(received))
       \/ /\ toggle_of(f.cmd) = state.next_toggle
          /\ ~seg.complete
          /\ queue_request(
                upload_segment_request(state.node_id, ~state.next_toggle))
          /\ state' = [state EXCEPT !.received = received,
                                    !.next_toggle = ~@]
          /\ ret' = OkNone

---------------------------------------------------------------------------
(* advance_download *)

\* Defects: seven bytes left are not the last segment; every segment starts
\* at the beginning of the data.
queue_next_download_segment_off_by_one ==
    LET remaining == Len(state.data) - state.sent_pos
        last      == remaining < 7
        chunk_len == IF last THEN remaining ELSE 7
        payload   == SubSeq(state.data, state.sent_pos + 1,
                            state.sent_pos + chunk_len)
    IN
    /\ queue_request(
          download_segment(state.node_id, state.next_toggle, payload, last))
    /\ state' = [state EXCEPT !.sent_pos = @ + chunk_len,
                              !.next_toggle = ~@,
                              !.phase = "AwaitingSegmentAck",
                              !.flag = last]
    /\ ret' = OkNone
queue_next_download_segment_from_start ==
    LET remaining == Len(state.data) - state.sent_pos
        last      == remaining <= 7
        chunk_len == IF last THEN remaining ELSE 7
        payload   == SubSeq(state.data, 1, chunk_len)
    IN
    /\ queue_request(
          download_segment(state.node_id, state.next_toggle, payload, last))
    /\ state' = [state EXCEPT !.sent_pos = @ + chunk_len,
                              !.next_toggle = ~@,
                              !.phase = "AwaitingSegmentAck",
                              !.flag = last]
    /\ ret' = OkNone

queue_next_download_segment ==
    LET remaining == Len(state.data) - state.sent_pos
        last      == remaining <= 7
        chunk_len == IF last THEN remaining ELSE 7
        payload   == SubSeq(state.data, state.sent_pos + 1,
                            state.sent_pos + chunk_len)
    IN
    /\ queue_request(
          download_segment(state.node_id, state.next_toggle, payload, last))
    /\ state' = [state EXCEPT !.sent_pos = @ + chunk_len,
                              !.next_toggle = ~@,
                              !.phase = "AwaitingSegmentAck",
                              !.flag = last]
    /\ ret' = OkNone

download_init_response(f) ==
    /\ state.kind = "Downloading" /\ state.phase = "AwaitingInit"
    /\ cs_of(f.cmd) = SCS_INIT_DOWNLOAD
    /\ f.mux = state.mux
    /\ \/ /\ state.flag
          /\ clear_transfer(DownloadCompleted)
       \/ /\ ~state.flag
          /\ queue_next_download_segment

\* Defect: the first acknowledgement completes the transfer.
download_segment_response_early(f) ==
    /\ state.kind = "Downloading" /\ state.phase = "AwaitingSegmentAck"
    /\ cs_of(f.cmd) = SCS_DOWNLOAD_SEGMENT
    /\ clear_transfer(DownloadCompleted)

\* The ack echoes the toggle of the segment just sent, the previous value of
\* next_toggle.
download_segment_response(f) ==
    /\ state.kind = "Downloading" /\ state.phase = "AwaitingSegmentAck"
    /\ cs_of(f.cmd) = SCS_DOWNLOAD_SEGMENT
    /\ \/ /\ toggle_of(f.cmd) = state.next_toggle
          /\ fail_with("ToggleBitNotAlternated")
       \/ /\ toggle_of(f.cmd) # state.next_toggle
          /\ state.flag
          /\ clear_transfer(DownloadCompleted)
       \/ /\ toggle_of(f.cmd) # state.next_toggle
          /\ ~state.flag
          /\ queue_next_download_segment

---------------------------------------------------------------------------
(* The driving operations *)

server_abort(f) ==
    /\ cs_of(f.cmd) = CS_ABORT
    /\ f.mux = state.mux
    /\ clear_transfer(ServerAborted(f.code))

\* The response the transfer in flight is waiting for.
awaited(f) ==
    \/ cs_of(f.cmd) = CS_ABORT /\ f.mux = state.mux
    \/ /\ state.kind = "Uploading" /\ state.phase = "AwaitingInit"
       /\ cs_of(f.cmd) = SCS_INIT_UPLOAD /\ f.mux = state.mux
    \/ /\ state.kind = "Uploading" /\ state.phase = "AwaitingSegment"
       /\ cs_of(f.cmd) = SCS_UPLOAD_SEGMENT
    \/ /\ state.kind = "Downloading" /\ state.phase = "AwaitingInit"
       /\ cs_of(f.cmd) = SCS_INIT_DOWNLOAD /\ f.mux = state.mux
    \/ /\ state.kind = "Downloading" /\ state.phase = "AwaitingSegmentAck"
       /\ cs_of(f.cmd) = SCS_DOWNLOAD_SEGMENT

\* Defect: the frame's node is not compared with the transfer's.
from_peer_any_node(f) == ~is_idle /\ node_of_tsdo(f.cob_id) # None

\* A transfer is in flight and the frame is from its node.
from_peer(f) == ~is_idle /\ node_of_tsdo(f.cob_id) = state.node_id

handle_frame(f) ==
    \/ ~from_peer(f) /\ ignore
    \/ /\ from_peer(f)
       /\ \/ ~awaited(f) /\ ignore
          \/ server_abort(f)
          \/ upload_init_response(f)
          \/ upload_segment_response(f)
          \/ download_init_response(f)
          \/ download_segment_response(f)

\* abort_with queues nothing in Idle, but ClientAborted is returned all the
\* same; TimerMatchesTransfer says that this never happens.
handle_timeout ==
    \/ /\ deadline = None \/ now < deadline
       /\ ignore
    \/ /\ deadline # None /\ now >= deadline
       /\ ret' = ClientAborted("ProtocolTimeout")
       /\ IF is_idle THEN UNCHANGED <<state, pending_tx, deadline>>
                     ELSE queue_abort("ProtocolTimeout")

abort(code) ==
    /\ ret' = OkNone
    /\ IF is_idle THEN UNCHANGED <<state, pending_tx, deadline>>
                  ELSE queue_abort(code)

poll_transmit ==
    /\ pending_tx # <<>>
    /\ pending_tx' = <<>>
    /\ ret' = OkNone
    /\ UNCHANGED <<state, deadline>>

---------------------------------------------------------------------------
(* The caller *)

Tick ==
    /\ now < MaxNow
    /\ now' = now + 1
    /\ UNCHANGED <<state, pending_tx, deadline, ret>>

WithinBounds(f) ==
    state.kind = "Uploading" /\ cs_of(f.cmd) = SCS_UPLOAD_SEGMENT =>
        Len(state.received) + 7 <= MaxReceived

Next ==
    \/ \E n \in NodeArgs, m \in Muxes : begin_upload(n, m) /\ UNCHANGED now
    \/ \E n \in NodeArgs, m \in Muxes, d \in Payloads :
          begin_download(n, m, d) /\ UNCHANGED now
    \/ \E f \in Responses :
          WithinBounds(f) /\ handle_frame(f) /\ UNCHANGED now
    \/ handle_timeout /\ UNCHANGED now
    \/ \E c \in AbortArgs : abort(c) /\ UNCHANGED now
    \/ poll_transmit /\ UNCHANGED now
    \/ Tick

Spec == Init /\ [][Next]_vars

---------------------------------------------------------------------------
(* Properties *)

State ==
    {Idle}
    \cup [kind : {"Uploading"}, node_id : Byte, mux : Mux,
          received : Seq(Byte), expected_len : Nat \cup {None},
          next_toggle : BOOLEAN, phase : {"AwaitingInit", "AwaitingSegment"}]
    \cup [kind : {"Downloading"}, node_id : Byte, mux : Mux, data : Seq(Byte),
          sent_pos : Nat, next_toggle : BOOLEAN,
          phase : {"AwaitingInit", "AwaitingSegmentAck"}, flag : BOOLEAN]

\* The type invariant of struct SdoClient.
TypeOK ==
    /\ state \in State
    /\ pending_tx \in Seq(SdoFrame) /\ Len(pending_tx) <= 1
    /\ deadline \in Nat \cup {None}
    /\ ret \in [kind : {"None", "Busy", "InvalidArgument", "UploadCompleted",
                        "DownloadCompleted", "ServerAborted", "ClientAborted"},
                code : SdoAbortCode \cup {NoCode}, bytes : Seq(Byte)]
    /\ now \in Nat

\* A deadline is armed exactly while a transfer is in flight, whatever frames
\* were ignored, answered or aborted on the way: drive() never waits without
\* a deadline for an answer that may not come, and handle_timeout never
\* reports a timeout of a transfer that is already over.
TimerMatchesTransfer == is_idle <=> deadline = None

\* What queue_next_download_segment relies on to subtract and slice without a
\* panic and never to send an empty segment: until the last segment is out
\* only whole ones of seven bytes were sent and something is left, and the
\* toggle is the parity of the segments sent.
DownloadInBounds ==
    state.kind = "Downloading" =>
        /\ state.data # <<>>
        /\ state.phase = "AwaitingInit" =>
              /\ state.sent_pos = 0 /\ ~state.next_toggle
              /\ state.flag = (Len(state.data) <= 4)
        /\ state.phase = "AwaitingSegmentAck" =>
              /\ state.sent_pos \in 1..Len(state.data)
              /\ state.flag = (state.sent_pos = Len(state.data))
              /\ ~state.flag => state.sent_pos % 7 = 0
              /\ state.next_toggle = (((state.sent_pos + 6) \div 7) % 2 = 1)

\* The request whose answer the state is waiting for.
RequestInFlight ==
    CASE state.kind = "Uploading" /\ state.phase = "AwaitingInit" ->
           init_upload(state.node_id, state.mux)
      [] state.kind = "Uploading" /\ state.phase = "AwaitingSegment" ->
           upload_segment_request(state.node_id, state.next_toggle)
      [] state.kind = "Downloading" /\ state.phase = "AwaitingInit" ->
           IF Len(state.data) <= 4
             THEN init_download_expedited(state.node_id, state.mux, state.data)
             ELSE init_download_segmented(state.node_id, state.mux,
                                          Len(state.data))
      [] state.kind = "Downloading" /\ state.phase = "AwaitingSegmentAck" ->
           download_segment(state.node_id, ~state.next_toggle,
              SubSeq(state.data, ((state.sent_pos - 1) \div 7) * 7 + 1,
                     state.sent_pos),
              state.sent_pos = Len(state.data))

\* The single transmit slot never holds a frame of another transfer or of an
\* earlier step: while a transfer is in flight it holds that transfer's
\* current request, with the right slice, toggle and c bit, and in Idle only
\* an abort.
PendingIsCurrent ==
    \A f \in {pending_tx[i] : i \in 1..Len(pending_tx)} :
        IF is_idle THEN cs_of(f.cmd) = CS_ABORT ELSE f = RequestInFlight

\* The byte is in a frame that this node may send.
SentBy(node, byte) ==
    \E f \in Responses :
        /\ node_of_tsdo(f.cob_id) = node
        /\ \E i \in 1..Len(f.bytes) : f.bytes[i] = byte

\* A transfer never ends unnoticed or with the wrong outcome (drive() relies
\* on both, see its two unreachable!()), and frames of other nodes on the bus
\* take no part in it: an upload ends with the announced number of bytes, all
\* of them from the node that was asked, a download only after its last byte
\* was sent and this node acknowledged, a server abort is this node's, about
\* this object, and leaves nothing to send, and whenever this side gives up,
\* the abort frame of exactly this transfer is queued.
EndsAreAccounted ==
    [][~is_idle /\ is_idle' =>
          \/ /\ state.kind = "Uploading" /\ ret'.kind = "UploadCompleted"
             /\ \/ state.expected_len \in {None, Len(ret'.bytes)}
                \/ state.phase = "AwaitingInit" /\ Len(ret'.bytes) \in 1..4
             /\ \A i \in 1..Len(ret'.bytes) :
                   SentBy(state.node_id, ret'.bytes[i])
             /\ pending_tx' = <<>>
          \/ /\ state.kind = "Downloading" /\ ret' = DownloadCompleted
             /\ state.sent_pos = Len(state.data) \/ Len(state.data) <= 4
             /\ \E f \in Responses : from_peer(f) /\ awaited(f)
             /\ pending_tx' = <<>>
          \/ /\ \E f \in Responses :
                   /\ from_peer(f) /\ cs_of(f.cmd) = CS_ABORT
                   /\ f.mux = state.mux /\ ret' = ServerAborted(f.code)
             /\ pending_tx' = <<>>
          \/ \E c \in SdoAbortCode :
                /\ ret' = ClientAborted(c) \/ (ret' = OkNone /\ c \in AbortArgs)
                /\ pending_tx' =
                      <<AbortFrame(rsdo_id(state.node_id), state.mux, c)>>
      ]_vars

=============================================================================

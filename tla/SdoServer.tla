----------------------------- MODULE SdoServer -----------------------------
(***************************************************************************)
(* The SDO server state machine, SdoServer<N> of src/server.rs, against an *)
(* object dictionary supplied by the application.                          *)
(*                                                                         *)
(* Its caller is unconstrained: any request of Requests may be fed at any  *)
(* time, in any order, addressed to this node or not, whether or not the   *)
(* pending response was taken; time passes and handle_timeout is called    *)
(* whenever the caller likes; the application changes its own objects.     *)
(*                                                                         *)
(* buf[..len] of the code is the sequence state.buf, so len is Len(buf).   *)
(* Option<SdoFrame> is a sequence of at most one frame.                    *)
(***************************************************************************)
EXTENDS SdoWire

CONSTANTS
    NodeId,     \* cfg.node_id
    Timeout,    \* cfg.timeout; 0 disables the timeout
    N,          \* capacity of the transfer buffer in bytes
    Objects,    \* the muxes that exist in the dictionary
    Readable,   \* ... that may be read
    Writable,   \* ... that may be written
    Honest,     \* ... whose read() refuses a value larger than the buffer
    Values,     \* the values the application gives its objects
    Requests,   \* the frames a caller may feed
    MaxNow      \* bound on the clock

ASSUME NodeAssumption    == NodeId \in Byte
ASSUME TimeoutAssumption == Timeout \in Nat
ASSUME NAssumption       == N \in Nat
ASSUME ObjectsAssumption == Objects \subseteq Mux
ASSUME ValuesAssumption  == Values \subseteq Seq(Byte)
ASSUME MaxNowAssumption  == MaxNow \in Nat
\* Every initiate frame has four data bytes and every segment seven.
ASSUME RequestsAssumption ==
    /\ Requests \subseteq SdoFrame
    /\ \A f \in Requests :
          /\ cs_of(f.cmd) = CCS_INIT_DOWNLOAD => Len(f.bytes) = 4
          /\ cs_of(f.cmd) = CCS_DOWNLOAD_SEGMENT => Len(f.bytes) = 7

VARIABLES
    state,       \* State<N>
    pending_tx,  \* Option<SdoFrame>
    deadline,    \* Option<u64>
    od,          \* the values of the objects
    ret,         \* what the last call returned: Ok or ClientAborted(code)
    now          \* the caller's monotonic clock

vars == <<state, pending_tx, deadline, od, ret, now>>

Ok   == "Ok"
Idle == [kind |-> "Idle"]

Uploading(mux, buf, sent, toggle) ==
    [kind |-> "Uploading", mux |-> mux, buf |-> buf, sent |-> sent,
     toggle |-> toggle]

Downloading(mux, buf, expected, toggle) ==
    [kind |-> "Downloading", mux |-> mux, buf |-> buf,
     expected |-> expected, toggle |-> toggle]

is_idle == state.kind = "Idle"

Init ==
    /\ state = Idle
    /\ pending_tx = <<>>
    /\ deadline = None
    /\ od \in [Objects -> Values]
    /\ ret = Ok
    /\ now = 0

---------------------------------------------------------------------------
(* Helpers *)

\* Defects: the slot is a queue; the timer of the finished transfer stays.
queue_appends(frame) ==
    /\ pending_tx' = Append(pending_tx, frame)
    /\ deadline' = None
queue_keeps_timer(frame) ==
    /\ pending_tx' = <<frame>>
    /\ UNCHANGED deadline

queue(frame) ==
    /\ pending_tx' = <<frame>>
    /\ deadline' = None

\* Defect: only the first frame of a transfer arms the timer.
queue_with_deadline_once(frame) ==
    /\ pending_tx' = <<frame>>
    /\ deadline' = IF is_idle THEN now + Timeout ELSE None

queue_with_deadline(frame) ==
    /\ pending_tx' = <<frame>>
    /\ deadline' = IF Timeout > 0 THEN now + Timeout ELSE None

\* reset() followed by queue(frame): the transfer is over.
reset_and_queue(frame) ==
    /\ state' = Idle
    /\ queue(frame)
    /\ ret' = Ok

reset ==
    /\ state' = Idle
    /\ deadline' = None
    /\ pending_tx' = <<>>
    /\ ret' = Ok

abort(mux, code) ==
    /\ state' = Idle
    /\ deadline' = None
    /\ pending_tx' = <<AbortFrame(tsdo_id(NodeId), mux, code)>>
    /\ ret' = code

(* The dictionary: the abort code of a failing access, or NoCode. *)

read_error(mux) ==
    IF mux \notin Objects THEN "ObjectDoesNotExist"
    ELSE IF mux \notin Readable THEN "ReadWriteOnly"
    ELSE IF mux \in Honest /\ Len(od[mux]) > N THEN "OutOfMemory"
    ELSE NoCode

write_error(mux) ==
    IF mux \notin Objects THEN "ObjectDoesNotExist"
    ELSE IF mux \notin Writable THEN "WriteReadOnly"
    ELSE NoCode

write(mux, val) == od' = [od EXCEPT ![mux] = val]

---------------------------------------------------------------------------
(* Request handlers *)

on_init_upload(f) ==
    /\ UNCHANGED od
    /\ \/ /\ read_error(f.mux) # NoCode
          /\ abort(f.mux, read_error(f.mux))
       \/ /\ read_error(f.mux) = NoCode
          /\ Len(od[f.mux]) > N
          /\ abort(f.mux, "OutOfMemory")
       \/ /\ read_error(f.mux) = NoCode
          /\ Len(od[f.mux]) <= N
          /\ Len(od[f.mux]) \in 1..4
          /\ reset_and_queue(init_upload_expedited(NodeId, f.mux, od[f.mux]))
       \/ /\ read_error(f.mux) = NoCode
          /\ Len(od[f.mux]) <= N
          /\ Len(od[f.mux]) \notin 1..4
          /\ state' = Uploading(f.mux, od[f.mux], 0, FALSE)
          /\ queue_with_deadline(
                init_upload_segmented(NodeId, f.mux, Len(od[f.mux])))
          /\ ret' = Ok

\* Defect: a segment is read from the dictionary and not from the value
\* buffered at the start.
on_upload_segment_rereads(f) ==
    LET val   == od[state.mux]
        last  == Len(val) - state.sent <= 7
        chunk == IF last THEN Len(val) - state.sent ELSE 7
        out   == upload_segment(NodeId, state.toggle,
                    SubSeq(val, state.sent + 1, state.sent + chunk), last)
    IN  /\ state.kind = "Uploading"
        /\ toggle_of(f.cmd) = state.toggle
        /\ UNCHANGED od
        /\ IF last THEN reset_and_queue(out)
           ELSE /\ state' = [state EXCEPT !.sent = @ + chunk, !.toggle = ~@]
                /\ queue_with_deadline(out)
                /\ ret' = Ok

on_upload_segment(f) ==
    /\ UNCHANGED od
    /\ \/ /\ state.kind # "Uploading"
          /\ abort(ZeroMux, "InvalidCommandSpecifier")
       \/ /\ state.kind = "Uploading"
          /\ toggle_of(f.cmd) # state.toggle
          /\ abort(state.mux, "ToggleBitNotAlternated")
       \/ /\ state.kind = "Uploading"
          /\ toggle_of(f.cmd) = state.toggle
          /\ LET remaining == Len(state.buf) - state.sent
                 last      == remaining <= 7
                 chunk     == IF last THEN remaining ELSE 7
                 payload   == SubSeq(state.buf, state.sent + 1,
                                     state.sent + chunk)
                 out       == upload_segment(NodeId, state.toggle, payload, last)
             IN  \/ /\ last
                    /\ reset_and_queue(out)
                 \/ /\ ~last
                    /\ state' = [state EXCEPT !.sent = @ + chunk,
                                              !.toggle = ~@]
                    /\ queue_with_deadline(out)
                    /\ ret' = Ok

on_init_download(f) ==
    LET expected == IF size_indicated(f.cmd) THEN f.size ELSE None
    IN  \/ /\ is_expedited(f.cmd)
           /\ write_error(f.mux) # NoCode
           /\ abort(f.mux, write_error(f.mux))
           /\ UNCHANGED od
        \/ /\ is_expedited(f.cmd)
           /\ write_error(f.mux) = NoCode
           /\ write(f.mux, SubSeq(f.bytes, 1, expedited_len(f.cmd)))
           /\ reset_and_queue(init_download_ack(NodeId, f.mux))
        \/ /\ ~is_expedited(f.cmd)
           /\ expected > N
           /\ abort(f.mux, "OutOfMemory")
           /\ UNCHANGED od
        \/ /\ ~is_expedited(f.cmd)
           /\ expected <= N
           /\ state' = Downloading(f.mux, <<>>, expected, FALSE)
           /\ queue_with_deadline(init_download_ack(NodeId, f.mux))
           /\ ret' = Ok
           /\ UNCHANGED od

\* Defect: the announced size is not compared with what arrived.
accept_download_segment_any_length(f) ==
    LET seg == decode_segment(f.cmd)
        buf == state.buf \o SubSeq(f.bytes, 1, seg.len)
        ack == download_segment_ack(NodeId, state.toggle)
    IN  IF seg.complete /\ write_error(state.mux) = NoCode
          THEN write(state.mux, buf) /\ reset_and_queue(ack)
          ELSE /\ state' = [state EXCEPT !.buf = buf, !.toggle = ~@]
               /\ queue_with_deadline(ack)
               /\ ret' = Ok
               /\ UNCHANGED od

\* A segment whose toggle is right and whose payload fits the buffer.
accept_download_segment(f) ==
    LET seg == decode_segment(f.cmd)
        buf == state.buf \o SubSeq(f.bytes, 1, seg.len)
        ack == download_segment_ack(NodeId, state.toggle)
    IN  \/ /\ seg.complete
           /\ state.expected \notin {None, Len(buf)}
           /\ abort(state.mux, "DataTypeLengthMismatch")
           /\ UNCHANGED od
        \/ /\ seg.complete
           /\ state.expected \in {None, Len(buf)}
           /\ write_error(state.mux) # NoCode
           /\ abort(state.mux, write_error(state.mux))
           /\ UNCHANGED od
        \/ /\ seg.complete
           /\ state.expected \in {None, Len(buf)}
           /\ write_error(state.mux) = NoCode
           /\ write(state.mux, buf)
           /\ reset_and_queue(ack)
        \/ /\ ~seg.complete
           /\ state' = [state EXCEPT !.buf = buf, !.toggle = ~@]
           /\ queue_with_deadline(ack)
           /\ ret' = Ok
           /\ UNCHANGED od

\* Defect: the room left in the buffer is not checked.
on_download_segment_unchecked(f) ==
    /\ state.kind = "Downloading"
    /\ toggle_of(f.cmd) = state.toggle
    /\ accept_download_segment(f)

on_download_segment(f) ==
    \/ /\ state.kind # "Downloading"
       /\ abort(ZeroMux, "InvalidCommandSpecifier")
       /\ UNCHANGED od
    \/ /\ state.kind = "Downloading"
       /\ toggle_of(f.cmd) # state.toggle
       /\ abort(state.mux, "ToggleBitNotAlternated")
       /\ UNCHANGED od
    \/ /\ state.kind = "Downloading"
       /\ toggle_of(f.cmd) = state.toggle
       /\ Len(state.buf) + decode_segment(f.cmd).len > N
       /\ abort(state.mux, "OutOfMemory")
       /\ UNCHANGED od
    \/ /\ state.kind = "Downloading"
       /\ toggle_of(f.cmd) = state.toggle
       /\ Len(state.buf) + decode_segment(f.cmd).len <= N
       /\ accept_download_segment(f)

---------------------------------------------------------------------------
(* The public operations *)

\* A frame for another node, or no request at all.
not_addressed(f) ==
    /\ node_of_rsdo(f.cob_id) # NodeId
    /\ ret' = Ok
    /\ UNCHANGED <<state, pending_tx, deadline, od>>

handle_frame(f) ==
    \/ not_addressed(f)
    \/ /\ node_of_rsdo(f.cob_id) = NodeId
       /\ \/ /\ cs_of(f.cmd) = CS_ABORT
             /\ reset
             /\ UNCHANGED od
          \/ /\ cs_of(f.cmd) = CCS_INIT_UPLOAD
             /\ on_init_upload(f)
          \/ /\ cs_of(f.cmd) = CCS_UPLOAD_SEGMENT
             /\ on_upload_segment(f)
          \/ /\ cs_of(f.cmd) = CCS_INIT_DOWNLOAD
             /\ on_init_download(f)
          \/ /\ cs_of(f.cmd) = CCS_DOWNLOAD_SEGMENT
             /\ on_download_segment(f)
          \/ /\ cs_of(f.cmd) > CS_ABORT
             /\ abort(f.mux, "InvalidCommandSpecifier")
             /\ UNCHANGED od

\* The code's third return, a deadline in Idle, is kept although
\* TimerMatchesTransfer says that it is never taken.
handle_timeout ==
    /\ UNCHANGED od
    /\ \/ /\ deadline = None \/ now < deadline
          /\ ret' = Ok
          /\ UNCHANGED <<state, pending_tx, deadline>>
       \/ /\ deadline # None /\ now >= deadline
          /\ IF is_idle
               THEN /\ deadline' = None
                    /\ ret' = Ok
                    /\ UNCHANGED <<state, pending_tx>>
               ELSE abort(state.mux, "ProtocolTimeout")

poll_transmit ==
    /\ pending_tx # <<>>
    /\ pending_tx' = <<>>
    /\ ret' = Ok
    /\ UNCHANGED <<state, deadline, od>>

---------------------------------------------------------------------------
(* The caller *)

\* The application changes one of its objects between two calls.
AppUpdate ==
    /\ \E m \in Objects, v \in Values : od' = [od EXCEPT ![m] = v]
    /\ UNCHANGED <<state, pending_tx, deadline, ret, now>>

Tick ==
    /\ now < MaxNow
    /\ now' = now + 1
    /\ UNCHANGED <<state, pending_tx, deadline, od, ret>>

Next ==
    \/ \E f \in Requests : handle_frame(f) /\ UNCHANGED now
    \/ handle_timeout /\ UNCHANGED now
    \/ poll_transmit /\ UNCHANGED now
    \/ AppUpdate
    \/ Tick

Spec == Init /\ [][Next]_vars

---------------------------------------------------------------------------
(* Properties *)

State ==
    {Idle}
    \cup [kind : {"Uploading"}, mux : Mux, buf : Seq(Byte), sent : Nat,
          toggle : BOOLEAN]
    \cup [kind : {"Downloading"}, mux : Mux, buf : Seq(Byte),
          expected : Nat \cup {None}, toggle : BOOLEAN]

\* The type invariant of struct SdoServer and of the dictionary it serves.
TypeOK ==
    /\ state \in State
    /\ pending_tx \in Seq(SdoFrame) /\ Len(pending_tx) <= 1
    /\ deadline \in Nat \cup {None}
    /\ od \in [Objects -> Seq(Byte)]
    /\ ret \in SdoAbortCode \cup {Ok}
    /\ now \in Nat

\* A deadline is armed exactly while a segmented transfer is in progress (and
\* never when the timeout is disabled): a stalled transfer cannot hold the
\* server for ever, and no timer outlives its transfer, whichever of the
\* handlers ended it.  The Idle return of handle_timeout is never taken.
TimerMatchesTransfer ==
    /\ is_idle => deadline = None
    /\ ~is_idle => (deadline = None <=> Timeout = 0)

\* What on_upload_segment relies on to subtract and slice without a panic:
\* only whole segments of seven bytes were sent, something is left to send
\* (or the object is empty), and the toggle is the parity of the segments.
UploadInBounds ==
    state.kind = "Uploading" =>
        /\ Len(state.buf) <= N
        /\ state.sent % 7 = 0
        /\ state.sent < Len(state.buf) \/ (state.sent = 0 /\ state.buf = <<>>)
        /\ state.toggle = ((state.sent \div 7) % 2 = 1)

\* What on_download_segment relies on: neither the bytes collected nor the
\* size announced ever exceed the fixed buffer.
DownloadInBounds ==
    state.kind = "Downloading" => Len(state.buf) <= N /\ state.expected <= N

\* Whatever a master sends, in whatever order, the fixed [u8; N] buffer is
\* never indexed out of bounds.
TransferInBounds == UploadInBounds /\ DownloadInBounds

\* A master changes the dictionary only by a transfer that ends with a
\* positive acknowledgement, and then by all of it: an aborted, mismatched or
\* half-received download leaves every object as it was, and a segmented one
\* whose size was announced writes exactly that many bytes.
WritesAreWholeTransfers ==
    [][od' # od =>
          \/ AppUpdate
          \/ /\ state' = Idle
             /\ \A m \in Objects : od'[m] # od[m] =>
                   /\ m \in Writable
                   /\ \/ /\ cs_of(pending_tx'[1].cmd) = SCS_INIT_DOWNLOAD
                         /\ pending_tx'[1].mux = m /\ Len(od'[m]) \in 1..4
                      \/ /\ cs_of(pending_tx'[1].cmd) = SCS_DOWNLOAD_SEGMENT
                         /\ state.kind = "Downloading" /\ state.mux = m
                         /\ state.expected \in {None, Len(od'[m])}
                         /\ SubSeq(od'[m], 1, Len(state.buf)) = state.buf
      ]_vars

=============================================================================

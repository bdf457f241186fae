------------------------------- MODULE SdoBus -------------------------------
(***************************************************************************)
(* One SDO client and one SDO server on a CAN bus.  The client is driven   *)
(* by drive() and the retry loops of src/asynch.rs, the server by the loop *)
(* of examples/server_demo.rs; the state machines are the modules          *)
(* SdoClient and SdoServer themselves.                                     *)
(*                                                                         *)
(* Time is relative: a deadline is the time that is left, `now` is always  *)
(* 0 and Tick shortens the deadlines.  A deadline of 0 has expired.        *)
(*                                                                         *)
(* The two directions of the bus are queues: CAN keeps the order of the    *)
(* frames of one sender.  A queue holds what is on the bus and what is in  *)
(* the receiver's subscription; the bus may lose or repeat a frame, an     *)
(* access to it may fail, and it may be slow, each within a budget.        *)
(***************************************************************************)
EXTENDS SdoWire

CONSTANTS
    NodeId,         \* the server's node id
    N,              \* the server's buffer
    ClientTimeout,  \* SdoConfig.timeout
    ServerTimeout,  \* ServerConfig.timeout
    Objects, Readable, Writable,
    ValuesOf,       \* what the application stores in each of its objects
    Calls,          \* the calls the client's application makes
    Scenarios       \* combinations of the argument `retries` of the *_retry
                    \* functions and the bounds on the calls made, on the
                    \* application's updates of its objects, on the frames
                    \* lost and repeated, on the failing accesses to the bus
                    \* (io) and on the ticks while a frame is on its way (late)

VARIABLES
    c_state, c_pending, c_deadline, c_ret,         \* the SdoClient
    s_state, s_pending, s_deadline, s_od, s_ret,   \* the SdoServer
    req, rsp,      \* the frames on their way to the server, to the client
    task,          \* "none", "drive", "returned" (from drive) or "retry"
    call,          \* the call being made, or the last one
    attempt,       \* its attempts so far
    result,        \* what it returned
    scenario,      \* the one of Scenarios that this behaviour is in
    used,          \* how much of each of its bounds was used
    held           \* history: the values the call's object had during it

client_vars == <<c_state, c_pending, c_deadline, c_ret>>
server_vars == <<s_state, s_pending, s_deadline, s_od, s_ret>>
task_vars   == <<task, call, attempt, result>>
budget == <<scenario, used>>
vars == <<client_vars, server_vars, req, rsp, task_vars, budget, held>>

client == INSTANCE SdoClient WITH
    Timeout <- ClientTimeout, NodeArgs <- {NodeId}, Muxes <- Objects,
    Payloads <- {}, AbortArgs <- {}, Responses <- {}, MaxNow <- 0,
    MaxReceived <- 0, state <- c_state, pending_tx <- c_pending,
    deadline <- c_deadline, ret <- c_ret, now <- 0

server == INSTANCE SdoServer WITH
    Timeout <- ServerTimeout, Honest <- Objects, Requests <- {}, MaxNow <- 0,
    Values <- UNION {ValuesOf[m] : m \in Objects},
    state <- s_state, pending_tx <- s_pending, deadline <- s_deadline,
    od <- s_od, ret <- s_ret, now <- 0

Upload(mux)         == [kind |-> "upload", mux |-> mux, data |-> <<>>]
Download(mux, data) == [kind |-> "download", mux |-> mux, data |-> data]
NoCall              == [kind |-> "none", mux |-> ZeroMux, data |-> <<>>]

Io == client!Ret("Io", NoCode, <<>>)

Bounds == {"calls", "updates", "lost", "repeated", "io", "late"}

Spend(what) ==
    /\ used[what] < scenario[what]
    /\ used' = [used EXCEPT ![what] = @ + 1]
    /\ UNCHANGED scenario

Init ==
    /\ client!Init
    /\ server!Init /\ \A m \in Objects : s_od[m] \in ValuesOf[m]
    /\ req = <<>> /\ rsp = <<>>
    /\ task = "none" /\ call = NoCall /\ attempt = 0 /\ result = client!OkNone
    /\ scenario \in Scenarios /\ used = [what \in Bounds |-> 0]
    /\ held = {}

---------------------------------------------------------------------------
(* The client task: upload_bytes, download_bytes and their retry loops *)

\* upload_bytes / download_bytes: subscribe and begin the transfer with a new
\* client.  The subscription sees the frames that are still on the bus, see
\* Unheard.  An error of begin_* is returned at once.
begin(c) ==
    /\ UNCHANGED rsp
    /\ IF c.kind = "upload"
         THEN client!begin_upload(NodeId, c.mux)
         ELSE client!begin_download(NodeId, c.mux, c.data)
    /\ task' = IF c_ret' = client!OkNone THEN "drive" ELSE "returned"

Call ==
    /\ task = "none"
    /\ Spend("calls")
    /\ \E c \in Calls :
          /\ begin(c)
          /\ call' = c
          /\ held' = IF c.mux \in Objects THEN {s_od[c.mux]} ELSE {}
    /\ attempt' = 1
    /\ UNCHANGED <<server_vars, req, result>>

\* SdoClient::new of the next attempt: the old client, and whatever it still
\* wanted to send, is dropped.
drop_client ==
    /\ c_state' = client!Idle
    /\ c_pending' = <<>>
    /\ c_deadline' = None

\* Defect: a timeout is not retried.
is_transient_io_only(r) == r = Io

is_transient(r) == r = client!ClientAborted("ProtocolTimeout") \/ r = Io

is_ok(r) == r.kind \in {"UploadCompleted", "DownloadCompleted"}

max_attempts == IF scenario.retries = 0 THEN 1 ELSE scenario.retries

gives_up == is_ok(c_ret) \/ attempt >= max_attempts \/ ~is_transient(c_ret)

Return ==
    /\ task = "returned"
    /\ gives_up
    /\ drop_client
    /\ task' = "none"
    /\ result' = c_ret
    /\ UNCHANGED <<c_ret, server_vars, req, rsp, call, attempt, budget, held>>

\* The retry loop calls *_bytes again, which may begin only in Idle: the
\* client of the failed attempt is dropped and a new one begins.
Retry ==
    /\ task = "returned"
    /\ ~gives_up
    /\ drop_client
    /\ task' = "retry"
    /\ attempt' = attempt + 1
    /\ UNCHANGED <<c_ret, server_vars, req, rsp, call, result, budget, held>>

BeginAgain ==
    /\ task = "retry"
    /\ begin(call)
    /\ UNCHANGED <<server_vars, req, call, attempt, result, budget, held>>

---------------------------------------------------------------------------
(* drive() *)

drive_unchanged == UNCHANGED <<server_vars, call, attempt, result, held>>

\* 1) Drain anything the state machine wants to send.
DriveSend ==
    /\ task = "drive"
    /\ client!poll_transmit
    /\ req' = Append(req, c_pending[1])
    /\ UNCHANGED <<rsp, task, budget>>
    /\ drive_unchanged

\* 2) Wait for an incoming frame or the deadline.  drive() returns on an
\* outcome and, by `?`, on an error.
DriveRecv ==
    /\ task = "drive" /\ c_pending = <<>>
    /\ rsp # <<>>
    /\ client!handle_frame(Head(rsp))
    /\ rsp' = Tail(rsp)
    /\ task' = IF c_ret' = client!OkNone THEN "drive" ELSE "returned"
    /\ UNCHANGED <<req, budget>>
    /\ drive_unchanged

DriveTimeout ==
    /\ task = "drive" /\ c_pending = <<>>
    /\ c_deadline = 0
    /\ client!handle_timeout
    /\ task' = IF c_ret' = client!OkNone THEN "drive" ELSE "returned"
    /\ UNCHANGED <<req, rsp, budget>>
    /\ drive_unchanged

\* bus.subscribe, bus.send(..)? or rx.recv() fails; a frame to send was
\* already taken.
DriveIoError ==
    /\ task = "drive"
    /\ Spend("io")
    /\ c_pending' = <<>>
    /\ c_ret' = Io
    /\ task' = "returned"
    /\ UNCHANGED <<c_state, c_deadline, req, rsp>>
    /\ drive_unchanged

---------------------------------------------------------------------------
(* The server task: the loop of examples/server_demo.rs.  It only logs an *)
(* error of rx.recv(); the frames a lagging subscription misses are Lost.  *)

\* The history of the values of the call's object.
note_held ==
    held' = IF call.mux \in Objects THEN held \cup {s_od'[call.mux]} ELSE held

ServerSend ==
    /\ server!poll_transmit
    /\ rsp' = Append(rsp, s_pending[1])
    /\ UNCHANGED <<client_vars, req, task_vars, budget, held>>

ServerRecv ==
    /\ s_pending = <<>>
    /\ req # <<>>
    /\ server!handle_frame(Head(req))
    /\ req' = Tail(req)
    /\ note_held
    /\ UNCHANGED <<client_vars, rsp, task_vars, budget>>

ServerExpire ==
    /\ s_pending = <<>>
    /\ s_deadline = 0
    /\ server!handle_timeout
    /\ UNCHANGED <<client_vars, req, rsp, task_vars, budget, held>>

\* The application changes an object.
AppUpdate ==
    /\ Spend("updates")
    /\ \E m \in Objects : \E v \in ValuesOf[m] : s_od' = [s_od EXCEPT ![m] = v]
    /\ note_held
    /\ UNCHANGED <<client_vars, s_state, s_pending, s_deadline, s_ret, req, rsp,
                   task_vars>>

---------------------------------------------------------------------------
(* The bus and the clock *)

bus_unchanged == UNCHANGED <<client_vars, server_vars, task_vars, held>>

Lose ==
    /\ Spend("lost")
    /\ \/ req # <<>> /\ req' = Tail(req) /\ UNCHANGED rsp
       \/ rsp # <<>> /\ rsp' = Tail(rsp) /\ UNCHANGED req
    /\ bus_unchanged

\* The sender repeats a frame that the receiver already accepted.
Repeat ==
    /\ Spend("repeated")
    /\ \/ req # <<>> /\ req' = <<Head(req)>> \o req /\ UNCHANGED rsp
       \/ rsp # <<>> /\ rsp' = <<Head(rsp)>> \o rsp /\ UNCHANGED req
    /\ bus_unchanged

\* A response arrives, or arrived, while no call listens: its subscription
\* is gone with it.
Unheard ==
    /\ task \in {"none", "retry"}
    /\ rsp # <<>> /\ rsp' = Tail(rsp)
    /\ UNCHANGED <<req, budget>>
    /\ bus_unchanged

\* Nothing can happen before time passes.
quiet ==
    /\ req = <<>> /\ rsp = <<>> /\ s_pending = <<>> /\ c_pending = <<>>
    /\ task \in {"none", "drive"}
    /\ c_deadline # 0 /\ s_deadline # 0

elapse(deadline) == IF deadline > 0 THEN deadline - 1 ELSE deadline

tick ==
    /\ c_deadline > 0 \/ s_deadline > 0
    /\ c_deadline' = elapse(c_deadline)
    /\ s_deadline' = elapse(s_deadline)
    /\ UNCHANGED <<c_state, c_pending, c_ret, s_state, s_pending, s_od, s_ret,
                   req, rsp, task_vars, held>>

Tick == quiet /\ tick /\ UNCHANGED budget

\* The bus or one of the two tasks is slower than a timeout.
LateTick == ~quiet /\ tick /\ Spend("late")

ClientNext ==
    \/ Return \/ Retry \/ BeginAgain \/ DriveSend \/ DriveRecv \/ DriveTimeout
ServerNext == ServerSend \/ ServerRecv \/ ServerExpire

Next ==
    \/ Call \/ Return \/ Retry \/ BeginAgain
    \/ DriveSend \/ DriveRecv \/ DriveTimeout \/ DriveIoError
    \/ ServerSend \/ ServerRecv \/ ServerExpire \/ AppUpdate
    \/ Lose \/ Repeat \/ Unheard \/ Tick \/ LateTick

Spec == Init /\ [][Next]_vars

\* The two tasks are polled by their runtimes, a frame on the bus arrives and
\* time passes; nothing is assumed of the applications.
Fairness ==
    /\ WF_vars(ClientNext) /\ WF_vars(ServerNext)
    /\ WF_vars(Unheard) /\ WF_vars(Tick)

FairSpec == Spec /\ Fairness

---------------------------------------------------------------------------
(* Properties *)

\* What an application, on either side, ever meant object m to hold.
Meant(m) == ValuesOf[m] \cup {c.data : c \in {d \in Calls :
                                  d.kind = "download" /\ d.mux = m}}

\* Objects are never torn: whatever was lost, repeated, late, retried or
\* aborted, an object holds a value that one application meant it to hold,
\* never a mixture of two transfers or the front half of one.
ObjectsAreWhole == \A m \in Objects : s_od[m] \in Meant(m)

\* ... and a completed upload returns such a value of the object asked for,
\* never bytes of two values or of another object.
UploadsAreWhole ==
    result.kind = "UploadCompleted" /\ task = "none" => result.bytes \in Meant(call.mux)

\* Frames may be lost, but none is repeated or late.
LossOnly == scenario.repeated = 0 /\ scenario.late = 0

\* With losses only, a completed upload returns a value that the object had
\* during the call.
UploadsAreFresh ==
    LossOnly /\ result.kind = "UploadCompleted" /\ task = "none" => result.bytes \in held

\* With losses only, a completed download has written its data.
DownloadsAreWritten ==
    LossOnly /\ result.kind = "DownloadCompleted" /\ task = "none" => call.data \in held

\* Where frames are lost but neither repeated nor late, more attempts than
\* losses are enough: the retry loop hides the losses, and a call fails only
\* for a reason that the dictionary or the argument gave.
RetriesMaskLoss ==
    LossOnly /\ scenario.io = 0 /\ scenario.retries > scenario.lost /\ task = "none" =>
        /\ result.kind \notin {"ClientAborted", "Io"}
        /\ result.code # "ProtocolTimeout"

\* drive() gives up for good only with an answer or an error: it always
\* returns, and so does the retry loop around it.
CallsReturn == task # "none" ~> task = "none"

\* A download that was reported as completed is written sooner or later, even
\* when a late acknowledgement of an earlier attempt completed it.
DownloadsGetWritten ==
    task = "none" /\ used.calls = scenario.calls /\ result.kind = "DownloadCompleted"
        ~> call.data \in held

\* A transfer that the client abandoned does not hold the server for ever.
ServerRecovers == s_state.kind # "Idle" ~> s_state.kind = "Idle"

\* When drive() returns ClientAborted, the abort frame was sent.
AbortsAreSent ==
    [][task = "drive" /\ task' = "returned" /\ c_ret'.kind = "ClientAborted"
          => c_pending' = <<>>]_vars

=============================================================================

--------------------------- MODULE CoSdoTransfer ---------------------------
(***************************************************************************)
(* CANopenNode's SDO client and SDO server on one bus: a user gives the    *)
(* gateway (CoGateway) a command, the gateway drives the client, and the   *)
(* client and CoSdoServer exchange frames.  A CAN bus keeps the order of   *)
(* the frames of one sender; up to MaxFaults times a frame is lost, or the *)
(* user does not take an answer or is gone.                                *)
(*                                                                         *)
(* The user asks for one transfer and repeats it once if it fails, with    *)
(* whatever the first attempt left behind in the structures and on the     *)
(* bus.                                                                    *)
(***************************************************************************)
EXTENDS CoGateway

CONSTANTS
    Entries, InitialOd,                 \* the server's dictionary
    BUFFER_SIZE, MAX_BLKSIZE, SDOtimeoutTime, block_SDOtimeoutTime,
    Chunk,      \* characters that the user types at once
    MaxFaults,
    Plans       \* plan -> the transfers (jobs), how often the user tries
                \* (attempts), the ticks that pass, and whether time passes only
                \* when there is nothing left to do (prompt)

VARIABLES
    plan,           \* the one of Plans that this behaviour follows
    SDO, od,        \* the server and its dictionary
    SDO_C, gtwa,    \* the client and the gateway
    user,           \* the job, what is still to be typed, what was read, the answer
    c2s, s2c,       \* frames on the bus
    lost, ticks,    \* faults so far, by kind, and ticks
    attempts

S == INSTANCE CoSdoServer
        WITH Clients <- <<>>, Patience <- 0, Histories <- {<<>>}, client <- "none", over <- FALSE, waited <- 0

vars == <<plan, SDO, od, SDO_C, gtwa, user, c2s, s2c, lost, ticks, attempts>>

Init ==
    /\ plan \in DOMAIN Plans
    /\ SDO = S!InitServer /\ od = InitialOd
    /\ SDO_C = C!InitClient /\ gtwa = InitGateway
    /\ user = [job |-> C!NoJob, input |-> <<>>, got |-> <<>>, ret |-> "none"]
    /\ c2s = <<>> /\ s2c = <<>>
    /\ lost = [segments |-> 0, others |-> 0] /\ ticks = 0 /\ attempts = 0

\* The first attempt, or the same command again when the first has been
\* answered and all of its text is gone.
Ask ==
    /\ attempts < Plans[plan].attempts /\ (attempts = 0 \/ user.ret = "ERROR")
    /\ user.input = <<>> /\ gtwa.commFifo = <<>> /\ gtwa.state = "IDLE" /\ ~gtwa.respHold
    /\ \E job \in IF attempts = 0 THEN Plans[plan].jobs ELSE {user.job} :
          user' = [job |-> job, input |-> Append(job.data, COMMAND), got |-> <<>>, ret |-> "none"]
    /\ gtwa' = [gtwa EXCEPT !.asked = TRUE]
    /\ attempts' = attempts + 1
    /\ UNCHANGED <<plan, SDO, od, SDO_C, c2s, s2c, lost, ticks>>

\* CO_GTWA_write, as much as CO_GTWA_write_getSpace allows.
CanType == user.input # <<>> /\ Len(gtwa.commFifo) < COMM_BUF_SIZE
Type ==
    /\ CanType
    /\ \E n \in {Lowest(Lowest(Len(user.input), Chunk), COMM_BUF_SIZE - Len(gtwa.commFifo))} :
          /\ gtwa' = [gtwa EXCEPT !.commFifo = @ \o SubSeq(user.input, 1, n)]
          /\ user' = [user EXCEPT !.input = SubSeq(@, n + 1, Len(@))]
    /\ UNCHANGED <<plan, SDO, od, SDO_C, c2s, s2c, lost, ticks, attempts>>

Everything == CLI_BUFFER_SIZE

\* One call, whose user takes up to room bytes, or is gone.
Process(dt, room, gone) ==
    CO_GTWA_process([g |-> gtwa, c |-> SDO_C, got |-> user.got, ret |-> user.ret, tx |-> <<>>],
                    od, user.job, dt, room, gone)

Called(x, gone) ==
    /\ gtwa' = x.g /\ SDO_C' = x.c /\ c2s' = c2s \o x.tx
    /\ user' = [user EXCEPT !.got = x.got, !.ret = x.ret]
    /\ lost' = IF gone \/ (x.g.respHold /\ ~gtwa.respHold) THEN [lost EXCEPT !.others = @ + 1] ELSE lost
    /\ lost'.segments + lost'.others <= MaxFaults

GatewayProcess ==
    /\ \E room \in IF Plans[plan].prompt THEN {Everything} ELSE {0, RESP_BUF_SIZE, Everything},
          gone \in {FALSE, gtwa.state = "READ" /\ ~Plans[plan].prompt} :
             \E x \in {Process(0, room, gone)} : Called(x, gone)
    /\ UNCHANGED <<plan, SDO, od, s2c, ticks, attempts>>

Served(k) == SDO' = k.s /\ od' = k.od /\ s2c' = s2c \o k.tx

ServerProcess ==
    /\ \E k \in {S!CO_SDOserver_process(SDO, od, TRUE, 0, FALSE)} : Served(k)
    /\ UNCHANGED <<plan, SDO_C, gtwa, user, c2s, lost, ticks, attempts>>

ServerReceive ==
    /\ c2s # <<>>
    /\ SDO' = S!CO_SDO_receive(SDO, Head(c2s)) /\ c2s' = Tail(c2s)
    /\ UNCHANGED <<plan, od, SDO_C, gtwa, user, s2c, lost, ticks, attempts>>

ClientReceive ==
    /\ s2c # <<>>
    /\ SDO_C' = C!CO_SDOclient_receive(SDO_C, Head(s2c)) /\ s2c' = Tail(s2c)
    /\ UNCHANGED <<plan, SDO, od, gtwa, user, c2s, lost, ticks, attempts>>

\* Whether a frame is a segment of a block transfer depends on the state that
\* its receiver is in.
IsSegment(frame, state) ==
    state \in {"DOWNLOAD_BLK_SUBBLOCK_REQ", "UPLOAD_BLK_SUBBLOCK_SREQ"}
    /\ bits(frame.cmd, 0, 7) \in 1..MAX_BLKSIZE

Count(segment) ==
    /\ lost.segments + lost.others < MaxFaults
    /\ lost' = IF segment THEN [lost EXCEPT !.segments = @ + 1] ELSE [lost EXCEPT !.others = @ + 1]

LoseRequest ==
    /\ c2s # <<>> /\ Count(IsSegment(Head(c2s), SDO.state)) /\ c2s' = Tail(c2s)
    /\ UNCHANGED <<plan, SDO, od, SDO_C, gtwa, user, s2c, ticks, attempts>>
LoseResponse ==
    /\ s2c # <<>> /\ Count(IsSegment(Head(s2c), SDO_C.state)) /\ s2c' = Tail(s2c)
    /\ UNCHANGED <<plan, SDO, od, SDO_C, gtwa, user, c2s, ticks, attempts>>

\* Nothing is on the bus and no call without a tick would do anything.
Quiescent ==
    /\ c2s = <<>> /\ s2c = <<>> /\ ~CanType
    /\ \E x \in {Process(0, Everything, FALSE)} :
          x.g = gtwa /\ x.c = SDO_C /\ x.got = user.got /\ x.ret = user.ret
    /\ \E k \in {S!CO_SDOserver_process(SDO, od, TRUE, 0, FALSE)} : k.s = SDO

\* Time passes for both.
Tick ==
    /\ attempts > 0 /\ ticks < Plans[plan].ticks /\ (Plans[plan].prompt => Quiescent)
    /\ ticks' = ticks + 1
    /\ \E x \in {Process(1, IF gtwa.respHold THEN 0 ELSE Everything, FALSE)} : Called(x, FALSE)
    /\ \E k \in {S!CO_SDOserver_process(SDO, od, TRUE, 1, FALSE)} : Served(k)
    /\ UNCHANGED <<plan, attempts>>

Next ==
    \/ Ask \/ Type \/ GatewayProcess \/ ServerProcess
    \/ ServerReceive \/ ClientReceive \/ LoseRequest \/ LoseResponse \/ Tick

Spec == Init /\ [][Next]_vars

---------------------------------------------------------------------------
(* Properties *)

Done == user.ret = "OK"
Failed == user.ret = "ERROR"

\* A transfer that the client reports as successful is one: after a download
\* the variable has the data, and an upload has delivered, in order and
\* without gaps, what the variable holds. This is so whatever was lost or
\* late, and whatever an attempt before it left behind.
SuccessIsTrue ==
    Done => IF user.job.dir = "down"
            THEN SubSeq(od[user.job.mux], 1, Len(user.job.data)) = user.job.data
            ELSE user.got \o gtwa.respBuf =
                    SubSeq(od[user.job.mux], 1, S!content_length(user.job.mux))

\* A bus that loses nothing, and answers before any timeout, gives no reason
\* to fail, and nobody waits for the other for ever.
Unhindered ==
    (Plans[plan].prompt /\ lost.segments + lost.others = 0 /\ ticks = 0) =>
        /\ ~Failed
        /\ (attempts > 0 /\ Quiescent) => Done

\* What block transfers are for: segments of a sub-block that are lost are
\* sent again, and the transfer succeeds.
LostSegmentsAreRepaired == (lost.others = 0 /\ Plans[plan].prompt /\ user.job.block) => ~Failed
=============================================================================

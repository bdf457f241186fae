----------------------------- MODULE CoGateway -----------------------------
(***************************************************************************)
(* The SDO commands of CANopenNode's ASCII gateway, CO_gateway_ascii.c:    *)
(* "read" prints what CO_SDOclientUpload brings, in pieces of the response *)
(* buffer, "write" feeds CO_SDOclientDownload with what the user types.    *)
(* Both directions may stall: the user does not type on, or does not read. *)
(*                                                                         *)
(* commFifo holds the data that its text stands for and the end of the     *)
(* line, COMMAND; the conversion is that of CoFifoScan and CoFifoPrint,    *)
(* and a text is never ill-formed here.  A structure x is handed through a *)
(* call: the gateway g, the SDO client c, what the user has read (got),    *)
(* the answer (ret) and the frames sent (tx).                              *)
(***************************************************************************)
EXTENDS CoSdoFrame, SequencesExt

CONSTANTS
    CLI_BUFFER_SIZE, CLI_MAX_BLKSIZE, CLI_PST, CliTimeoutTime, CliBlockTimeoutTime,
    COMM_BUF_SIZE,      \* CO_CONFIG_GTWA_COMM_BUF_SIZE (2000)
    RESP_BUF_SIZE,      \* CO_GTWA_RESP_BUF_SIZE (200)
    BLOCK_DL_LOOP,      \* CO_CONFIG_GTW_BLOCK_DL_LOOP (3)
    STATE_TIMEOUT_TIME  \* CO_GTWA_STATE_TIMEOUT_TIME_US, in ticks

\* The client's own state and application stay in the composition.
C == INSTANCE CoSdoClient
        WITH OwnEntries <- <<>>, OwnOd <- <<>>, Responses <- <<>>, CliPatience <- 0, UploadBound <- 0,
             Jobs <- {}, Chunk <- 0, SDO_C <- <<>>, own <- <<>>, app <- <<>>, silent <- FALSE, waited <- 0

COMMAND == -1   \* DELIM_COMMAND

\* CO_GTWA_init. asked tells that the words before the data are in commFifo.
InitGateway ==
    [state |-> "IDLE", SDOdataCopyStatus |-> FALSE, stateTimeoutTmr |-> 0, commFifo |-> <<>>,
     asked |-> FALSE, respBuf |-> <<>>, respHold |-> FALSE, cumulative |-> 0]

\* A command is looked at when its end has arrived, or there is no more room.
CO_fifo_CommSearch(commFifo) ==
    commFifo # <<>> /\ (Last(commFifo) = COMMAND \/ Len(commFifo) >= COMM_BUF_SIZE)

\* The user takes an answer at once, or later (room = 0).
respond(x, ret, room) == [x EXCEPT !.ret = ret, !.g.respHold = room = 0]

\* The user takes what was kept.
respBufTransfer(x) ==
    [x EXCEPT !.got = @ \o x.g.respBuf, !.g.respBuf = <<>>, !.g.respHold = FALSE, !.g.cumulative = 0]

\* dataTypeScan: as much as the SDO buffer has room for. The end of the line
\* is reached only while there is room left.
dataTypeScan(x) ==
    LET text == x.g.commFifo
        bytes == SelectSeq(text, LAMBDA b : b # COMMAND)
        n == Lowest(Len(bytes), C!getSpace(x.c))
        closed == n = Len(bytes) /\ Len(text) > n /\ C!getSpace(x.c) > n
    IN  [x EXCEPT !.c = C!fifo_write(@, SubSeq(bytes, 1, n)),
                  !.g.commFifo = IF closed THEN <<>> ELSE SubSeq(@, n + 1, Len(@)),
                  !.g.SDOdataCopyStatus = ~closed]

---------------------------------------------------------------------------
(* A new command *)

\* CO_SDOclient_setup
setup(c) == [c EXCEPT !.state = "IDLE", !.rxNew = FALSE]

syntax_error(x, room) ==
    respond([x EXCEPT !.g.state = "IDLE", !.g.commFifo = <<>>, !.g.asked = FALSE], "ERROR", room)

read_command(x, job) ==
    [x EXCEPT !.c = C!CO_SDOclientUploadInitiate(setup(@), job.mux, job.block, FALSE),
              !.g.commFifo = <<>>, !.g.asked = FALSE, !.g.SDOdataCopyStatus = FALSE,
              !.g.state = "READ"]

\* The size is known if the data type has one, or all of the data is here.
sized(x, job) ==
    IF job.size = 0 /\ ~x.g.SDOdataCopyStatus
    THEN [x EXCEPT !.c = C!CO_SDOclientDownloadInitSize(@, Len(x.c.bufFifo))] ELSE x

written(x, job, room) ==
    IF x.c.bufFifo = <<>> THEN syntax_error(x, room)
    ELSE [sized(x, job) EXCEPT !.g.asked = FALSE, !.g.stateTimeoutTmr = 0, !.g.state = "WRITE"]

write_command(x, job, room) ==
    written(dataTypeScan([x EXCEPT !.c =
        C!CO_SDOclientDownloadInitiate(setup(@), job.mux, job.size, job.block, FALSE)]), job, room)

\* Text that does not start with the words of a command is an error.
command(x, job, room) ==
    IF ~x.g.asked THEN syntax_error(x, room)
    ELSE IF job.dir = "up" THEN read_command(x, job) ELSE write_command(x, job, room)

---------------------------------------------------------------------------
(* CO_GTWA_ST_READ *)

failed(ret) == ret \in {"endedWithClientAbort", "endedWithServerAbort"}
called(x, k) == [x EXCEPT !.c = k.c, !.tx = @ \o k.tx]

\* The buffer may be emptied only between sub-blocks.
printable(ret) == ret \in {"uploadDataBufferFull", "ok_communicationEnd"}

\* Defect: what the user does not take is printed over.
print_over(x, ret, room) ==
    LET n == Len(x.c.bufFifo)
        taken == Lowest(n, room)
        printed == IF n > room THEN Lowest(n, room + RESP_BUF_SIZE) ELSE n
        end == ret = "ok_communicationEnd" /\ printed = n
    IN  [x EXCEPT !.c = C!fifo_read(@, printed), !.got = @ \o SubSeq(x.c.bufFifo, 1, taken),
                  !.g.SDOdataCopyStatus = TRUE,
                  !.g.state = IF end THEN "IDLE" ELSE @, !.ret = IF end THEN "OK" ELSE @]

\* Pieces of the buffer are printed until the user takes no more: what was
\* printed and not taken is kept in respBuf.
print(x, ret, room) ==
    LET n == Len(x.c.bufFifo)
        taken == Lowest(n, room)
        printed == IF n > room THEN Lowest(n, room + RESP_BUF_SIZE) ELSE n
        end == ret = "ok_communicationEnd" /\ printed = n
    IN  [x EXCEPT !.c = C!fifo_read(@, printed), !.got = @ \o SubSeq(x.c.bufFifo, 1, taken),
                  !.g.respBuf = SubSeq(x.c.bufFifo, taken + 1, printed),
                  !.g.respHold = n > room \/ room = 0,
                  !.g.SDOdataCopyStatus = TRUE,
                  !.g.state = IF end THEN "IDLE" ELSE @, !.ret = IF end THEN "OK" ELSE @]

\* Nobody is connected: the transfer is aborted.
disconnected(x, od) ==
    [called(x, C!CO_SDOclientUpload(C!fifo_read(x.c, Lowest(Len(x.c.bufFifo), RESP_BUF_SIZE)),
                                    od, 0, TRUE, FALSE))
       EXCEPT !.g.state = "IDLE", !.ret = "ERROR"]

uploaded(x, ret, od, room, gone) ==
    CASE failed(ret) -> respond([x EXCEPT !.g.state = "IDLE"], "ERROR", room)
      [] ~failed(ret) /\ printable(ret) -> IF gone THEN disconnected(x, od) ELSE print(x, ret, room)
      [] OTHER -> x

read(x, od, dt, room, gone) ==
    LET next(k) == uploaded(called(x, k), k.ret, od, room, gone)
    IN  next(C!CO_SDOclientUpload(x.c, od, dt, FALSE, FALSE))

---------------------------------------------------------------------------
(* CO_GTWA_ST_WRITE, CO_GTWA_ST_WRITE_ABORTED *)

\* After an abort the data that still comes is thrown away, until its end or
\* until none is there.
purge(x) ==
    [x EXCEPT !.c.bufFifo = <<>>,
              !.g.state = IF x.c.bufFifo = <<>> \/ ~x.g.SDOdataCopyStatus THEN "IDLE" ELSE @]

downloaded(x, ret, room) ==
    CASE failed(ret) ->
           respond([x EXCEPT !.g.state = IF x.g.SDOdataCopyStatus THEN "WRITE_ABORTED" ELSE "IDLE"],
                   "ERROR", room)
      [] ret = "ok_communicationEnd" -> respond([x EXCEPT !.g.state = "IDLE"], "OK", room)
      [] OTHER -> x

\* Several segments of a sub-block in one call; each is told the same dt.
download(x, od, dt, abort, room) ==
    LET call(c) == C!CO_SDOclientDownload(c, od, dt, abort, x.g.SDOdataCopyStatus, FALSE)
        joined(k, j) == [j EXCEPT !.tx = k.tx \o @]
        next(k) == downloaded(called(x, k), k.ret, room)
    IN  next(FoldLeft(LAMBDA k, i : IF k.ret = "blockDownldInProgress" THEN joined(k, call(k.c)) ELSE k,
                      call(x.c), [i \in 2..BLOCK_DL_LOOP |-> i]))

\* More data is to come, and too little is here to go on.
starved(x) == x.g.SDOdataCopyStatus /\ Len(x.c.bufFifo) < BLOCK_DL_LOOP * 7

continue(x, od, dt, room) ==
    CASE x.g.state = "WRITE_ABORTED" -> purge(x)
      [] x.g.state = "WRITE" /\ starved(x) /\ x.g.stateTimeoutTmr <= STATE_TIMEOUT_TIME ->
           [x EXCEPT !.g.stateTimeoutTmr = @ + dt]
      [] OTHER -> download(x, od, dt, starved(x), room)

write(x, od, dt, room) ==
    continue(IF x.g.SDOdataCopyStatus THEN dataTypeScan(x) ELSE x, od, dt, room)

---------------------------------------------------------------------------
(* CO_GTWA_process *)

state_machine(x, od, dt, room, gone) ==
    CASE x.g.state = "READ" -> read(x, od, dt, room, gone)
      [] x.g.state \in {"WRITE", "WRITE_ABORTED"} -> write(x, od, dt, room)
      [] OTHER -> x

\* A command starts with no time passed.
ready(x, od, job, dt, room, gone) ==
    IF x.g.state = "IDLE" /\ CO_fifo_CommSearch(x.g.commFifo)
    THEN state_machine(command(x, job, room), od, 0, room, gone)
    ELSE state_machine(x, od, dt, room, gone)

\* What the user has not taken holds everything up; the time adds up.
CO_GTWA_process(x, od, job, dt, room, gone) ==
    CASE ~x.g.respHold -> ready(x, od, job, dt, room, gone)
      [] x.g.respHold /\ room = 0 -> [x EXCEPT !.g.cumulative = @ + dt]
      [] OTHER -> ready(respBufTransfer(x), od, job, dt + x.g.cumulative, room, gone)
=============================================================================

------------------------------- MODULE CoSync -------------------------------
(***************************************************************************)
(* The SYNC object of CANopenNode, CO_SYNC.c and CO_SYNC.h: consumer and   *)
(* producer of SYNC messages, with their counter, and the toggle that tells*)
(* the two receive buffers of a synchronous RPDO apart.                    *)
(*                                                                         *)
(* The object is a record sync with the fields of CO_SYNC_t; period and    *)
(* window are the values of 0x1006 and 0x1007, which it reads through      *)
(* pointers, ident and DLC what the CAN driver is set to.  A SYNC message  *)
(* is [DLC, counter].  errs is the set of error conditions.                *)
(***************************************************************************)
EXTENDS Integers

CONSTANT TimerLimit   \* stands for 2^32: a timer stops below it
ASSUME TimerLimitAssumption == TimerLimit \in Nat \ {0}

\* After CO_SYNC_init with what the dictionary has in 0x1005, 0x1006,
\* 0x1007 and 0x1019.
CO_SYNC_init(cobId, period, window, syncCounterOvf) ==
    LET ovf == IF syncCounterOvf = 1 THEN 2
               ELSE IF syncCounterOvf > 240 THEN 240 ELSE syncCounterOvf
    IN  [counterOverflowValue |-> ovf, counter |-> 0, CANrxToggle |-> FALSE, CANrxNew |-> FALSE,
         receiveError |-> FALSE, timer |-> 0, timeoutError |-> 0, syncIsOutsideWindow |-> FALSE,
         isProducer |-> cobId.producer, CAN_ID |-> cobId.id, ident |-> cobId.id,
         DLC |-> IF ovf # 0 THEN 1 ELSE 0, period |-> period, window |-> window]

CO_SYNC_receive(sync, msg) ==
    LET wanted == IF sync.counterOverflowValue = 0 THEN 0 ELSE 1 IN
    IF msg.DLC # wanted THEN [sync EXCEPT !.receiveError = TRUE]
    ELSE [sync EXCEPT !.counter = IF wanted = 1 THEN msg.counter ELSE @,
                      !.CANrxToggle = ~@, !.CANrxNew = TRUE]

\* The writes that are refused leave the object as it is.
OD_write_1005(sync, cobId) ==
    IF cobId.id = "restricted" \/ (sync.isProducer /\ cobId.producer /\ cobId.id # sync.CAN_ID)
    THEN sync
    ELSE [sync EXCEPT !.ident   = cobId.id,
                      !.DLC     = IF cobId.id = sync.CAN_ID THEN @
                                  ELSE IF sync.counterOverflowValue # 0 THEN 1 ELSE 0,
                      !.CAN_ID  = cobId.id,
                      !.isProducer = cobId.producer,
                      !.counter = IF cobId.producer THEN 0 ELSE @,
                      !.timer   = IF cobId.producer THEN 0 ELSE @]

OD_write_1019(sync, syncCounterOvf) ==
    IF syncCounterOvf = 1 \/ syncCounterOvf > 240 \/ sync.period # 0 THEN sync
    ELSE [sync EXCEPT !.DLC = IF syncCounterOvf # 0 THEN 1 ELSE 0,
                      !.counterOverflowValue = syncCounterOvf]

CO_SYNCsend(sync) ==
    LET next == (sync.counter + 1) % 256 IN
    [sync EXCEPT !.counter = IF next > sync.counterOverflowValue THEN 1 ELSE next,
                 !.timer = 0, !.CANrxToggle = ~@]

\* A timer that would pass its limit keeps its value.
advanced(timer, dt) == IF timer + dt < TimerLimit THEN timer + dt ELSE timer

periodTimeout(period) ==
    LET t == period + period \div 2 IN IF t >= TimerLimit THEN TimerLimit - 1 ELSE t

\* One call: time passes, a message that came is taken ...
sync_taken(sync, dt) ==
    IF sync.CANrxNew
    THEN [sync |-> [sync EXCEPT !.timer = 0, !.CANrxNew = FALSE], status |-> "RX_TX", late |-> FALSE]
    ELSE [sync |-> [sync EXCEPT !.timer = advanced(@, dt)], status |-> "NONE", late |-> FALSE]

\* ... the producer sends when the period is over, the consumer misses the
\* message after one and a half ...
sync_due(r) ==
    IF r.sync.period = 0 THEN r
    ELSE IF r.sync.isProducer
         THEN IF r.sync.timer < r.sync.period THEN r
              ELSE [r EXCEPT !.sync = CO_SYNCsend(@), !.status = "RX_TX"]
         ELSE IF r.sync.timeoutError = 1 /\ r.sync.timer > periodTimeout(r.sync.period)
              THEN [r EXCEPT !.sync.timeoutError = 2, !.late = TRUE] ELSE r

\* ... and the window for synchronous PDOs may be over.
sync_window(r) ==
    LET outside == r.sync.window > 0 /\ r.sync.timer > r.sync.window IN
    [r EXCEPT !.status = IF outside /\ ~r.sync.syncIsOutsideWindow THEN "PASSED_WINDOW" ELSE @,
              !.sync.syncIsOutsideWindow = outside]

sync_idle(sync) ==
    [sync |-> [sync EXCEPT !.CANrxNew = FALSE, !.receiveError = FALSE, !.counter = 0, !.timer = 0],
     status |-> "NONE", late |-> FALSE]

sync_reported(r, errs, active) ==
    LET good == r.status = "RX_TX" IN
    [sync   |-> [r.sync EXCEPT !.receiveError = FALSE, !.timeoutError = IF good THEN 1 ELSE @],
     errs   |-> (((errs \cup (IF r.late THEN {"SYNC_TIME_OUT"} ELSE {}))
                  \cup (IF active /\ r.sync.receiveError THEN {"SYNC_LENGTH"} ELSE {}))
                 \ (IF good /\ r.sync.timeoutError = 2 THEN {"SYNC_TIME_OUT"} ELSE {})),
     status |-> r.status]

CO_SYNC_process(sync, errs, NMTisPreOrOperational, dt) ==
    sync_reported(IF NMTisPreOrOperational THEN sync_window(sync_due(sync_taken(sync, dt)))
                  ELSE sync_idle(sync),
                  errs, NMTisPreOrOperational)
=============================================================================

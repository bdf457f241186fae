---------------------------- MODULE CoEmergency -----------------------------
(***************************************************************************)
(* The emergency object of CANopenNode, CO_Emergency.c: error conditions,  *)
(* the error register, and the circular buffer of messages that is both    *)
(* the queue of the emergency producer and the history, object 0x1003.     *)
(*                                                                         *)
(* The object is a record em with the fields of CO_EM_t.  errorStatusBits  *)
(* is the set of the conditions that are present, the error register a set *)
(* of names, and a message [bit, code, reg].  The last fields are for the  *)
(* properties: log, the messages recorded since the history was cleared    *)
(* (newest first, as many as fit); belief, what a listener that has all    *)
(* messages up to the newest thinks is present; unsure, the conditions     *)
(* whose last change made no message; lost, whether a message was dropped  *)
(* that BUFFER_FULL has to stand for.                                      *)
(***************************************************************************)
EXTENDS Integers, Sequences

CONSTANT fifoSize
ASSUME fifoSizeAssumption == fifoSize \in Nat /\ fifoSize >= 2

\* The conditions of bytes 2 and 3, of byte 5, of bytes 8 and 9, and some
\* that have no part in the error register.
CommunicationBits == {"CAN_TX_BUS_OFF", "CAN_RXB_OVERFLOW", "CAN_TX_OVERFLOW",
                      "TPDO_OUTSIDE_WINDOW", "HEARTBEAT_CONSUMER", "HB_CONSUMER_REMOTE_RESET"}
GenericBits == {"WRONG_ERROR_REPORT", "GENERIC_ERROR"}
ManufacturerBits == {"MANUFACTURER"}
InfoBits == {"CAN_BUS_WARNING", "CAN_TX_BUS_PASSIVE", "CAN_RX_BUS_PASSIVE",
             "EMERGENCY_BUFFER_FULL", "MICROCONTROLLER_RESET"}
StatusBits == CommunicationBits \cup GenericBits \cup ManufacturerBits \cup InfoBits

ErrorRegister(bits) ==
    {r \in {"GENERIC", "COMMUNICATION", "MANUFACTURER"} :
       bits \cap (CASE r = "GENERIC" -> GenericBits
                    [] r = "COMMUNICATION" -> CommunicationBits
                    [] r = "MANUFACTURER" -> ManufacturerBits) # {}}

\* After CO_EM_init with the producer's COB-ID and the inhibit time of the
\* object dictionary.
CO_EM_init(cobId, inhibit) ==
    [errorStatusBits |-> {}, errorRegister |-> {}, CANerrorStatusOld |-> {},
     fifo |-> [i \in 0..(fifoSize - 1) |-> [bit |-> "none", code |-> "NO_ERROR", reg |-> {}]],
     fifoWrPtr |-> 0, fifoPpPtr |-> 0, fifoOverflow |-> 0, fifoCount |-> 0,
     producerEnabled |-> cobId.valid, producerCanId |-> cobId.id,
     CANtxBuff |-> [ident |-> IF cobId.id = "default" THEN "own" ELSE cobId.id, bufferFull |-> FALSE],
     inhibitEmTime |-> inhibit, inhibitEmTimer |-> 0,
     log |-> <<>>, belief |-> {}, unsure |-> {}, lost |-> FALSE]

CO_isError(em, bit) == bit \in em.errorStatusBits

ring_next(ptr) == IF ptr + 1 >= fifoSize THEN 0 ELSE ptr + 1

\* The queue is full: the change is not announced, which is remembered.
drop(em, bit) == [em EXCEPT !.fifoOverflow = 1, !.unsure = @ \cup {bit}, !.lost = TRUE]

\* Mutant: the history counts one message more than it can hold.
counted_all(count) == IF count < fifoSize THEN count + 1 ELSE count

\* One place of the buffer stays empty.
counted(count) == IF count < fifoSize - 1 THEN count + 1 ELSE count

record(em, msg, bit) ==
    [em EXCEPT !.fifo[em.fifoWrPtr] = msg,
               !.fifoWrPtr = ring_next(@),
               !.fifoCount = counted(@),
               !.log    = SubSeq(<<[bit |-> msg.bit, code |-> msg.code]>> \o @, 1, IF Len(@) < fifoSize - 1 THEN Len(@) + 1
                                                  ELSE fifoSize - 1),
               !.belief = IF msg.code = "NO_ERROR" THEN @ \ {msg.bit} ELSE @ \cup {msg.bit},
               !.unsure = @ \ {bit},
               !.lost   = @ /\ ~(msg.bit = "EMERGENCY_BUFFER_FULL" /\ msg.code = "NO_ERROR")]

\* A bit that does not exist counts as WRONG_ERROR_REPORT.
status_bit(errorBit) == IF errorBit \in StatusBits THEN errorBit ELSE "WRONG_ERROR_REPORT"

error_code(setError, errorBit, errorCode) ==
    IF ~setError THEN "NO_ERROR"
    ELSE IF errorBit \in StatusBits THEN errorCode ELSE "SOFTWARE_INTERNAL"

with_bit(bits, setError, bit) == IF setError THEN bits \cup {bit} ELSE bits \ {bit}

marked(em, setError, bit) == [em EXCEPT !.errorStatusBits = with_bit(@, setError, bit)]

\* A condition appears or goes away.  No change, no message.  The message
\* names the bit of the call, also when it does not exist.
CO_error(em, setError, errorBit, errorCode) ==
    LET bit  == status_bit(errorBit)
        next == marked(em, setError, bit)
        msg  == [bit |-> errorBit, code |-> error_code(setError, errorBit, errorCode), reg |-> {}]
    IN  IF setError = (bit \in em.errorStatusBits) THEN em
        ELSE IF ring_next(em.fifoWrPtr) = em.fifoPpPtr THEN drop(next, bit)
        ELSE record(next, msg, bit)

\* What CO_EM_process makes of each flag of the CAN driver's error status,
\* in its order.
CANerrors == <<
    [flags |-> {"TX_WARNING", "RX_WARNING"}, bit |-> "CAN_BUS_WARNING", code |-> "NO_ERROR"],
    [flags |-> {"TX_PASSIVE"},  bit |-> "CAN_TX_BUS_PASSIVE",  code |-> "CAN_PASSIVE"],
    [flags |-> {"TX_BUS_OFF"},  bit |-> "CAN_TX_BUS_OFF",      code |-> "BUS_OFF_RECOVERED"],
    [flags |-> {"TX_OVERFLOW"}, bit |-> "CAN_TX_OVERFLOW",     code |-> "CAN_OVERRUN"],
    [flags |-> {"TX_PDO_LATE"}, bit |-> "TPDO_OUTSIDE_WINDOW", code |-> "COMMUNICATION"],
    [flags |-> {"RX_PASSIVE"},  bit |-> "CAN_RX_BUS_PASSIVE",  code |-> "CAN_PASSIVE"],
    [flags |-> {"RX_OVERFLOW"}, bit |-> "CAN_RXB_OVERFLOW",    code |-> "CAN_OVERRUN"]>>

can_error(em, i, changed, CANerrSt) ==
    LET c == CANerrors[i] IN
    IF c.flags \cap changed = {} THEN em
    ELSE CO_error(em, c.flags \cap CANerrSt # {}, c.bit, c.code)

can_errors(em, CANerrSt) ==
    LET changed  == (CANerrSt \ em.CANerrorStatusOld) \cup (em.CANerrorStatusOld \ CANerrSt)
        start    == [em EXCEPT !.CANerrorStatusOld = CANerrSt]
        after[i \in 0..Len(CANerrors)] ==
            IF i = 0 THEN start ELSE can_error(after[i - 1], i, changed, CANerrSt)
    IN  after[Len(CANerrors)]

\* Mutant: the overflow is over as soon as there is room again.
overflow_early(em) ==
    CASE em.fifoOverflow = 1 ->
           CO_error([em EXCEPT !.fifoOverflow = 0], FALSE, "EMERGENCY_BUFFER_FULL", "GENERIC")
      [] OTHER -> em

\* Once a message is gone there is room to announce the overflow, and to
\* announce its end when the queue is empty.
overflow_step(em) ==
    CASE em.fifoOverflow = 1 ->
           CO_error([em EXCEPT !.fifoOverflow = 2], TRUE, "EMERGENCY_BUFFER_FULL", "GENERIC")
      [] em.fifoOverflow = 2 /\ em.fifoPpPtr = em.fifoWrPtr ->
           CO_error([em EXCEPT !.fifoOverflow = 0], FALSE, "EMERGENCY_BUFFER_FULL", "NO_ERROR")
      [] OTHER -> em

inhibited(em, dt) ==
    [em EXCEPT !.inhibitEmTimer = IF @ < em.inhibitEmTime THEN @ + dt ELSE @]

\* The oldest message gets the error register and goes to the driver, which
\* may have to keep it in its buffer.
send_oldest(em, lineBusy) ==
    LET ready == /\ ~em.CANtxBuff.bufferFull
                 /\ em.fifoPpPtr # em.fifoWrPtr
                 /\ em.inhibitEmTimer >= em.inhibitEmTime
    IN  IF ~ready THEN em
        ELSE overflow_step(
               [em EXCEPT !.inhibitEmTimer = 0,
                          !.fifo[em.fifoPpPtr].reg = em.errorRegister,
                          !.CANtxBuff.bufferFull = lineBusy,
                          !.fifoPpPtr = ring_next(@)])

CO_EM_process(em, CANerrSt, NMTisPreOrOperational, dt, lineBusy) ==
    LET registered(e) == [e EXCEPT !.errorRegister = ErrorRegister(e.errorStatusBits)]
        sending(e)    == IF NMTisPreOrOperational THEN send_oldest(inhibited(e, dt), lineBusy) ELSE e
    IN  sending(registered(can_errors(em, CANerrSt)))

\* Reading 0x1003: sub-index 0 is the count, 1 the newest message.
OD_read_1003(em, subIndex) ==
    LET index == em.fifoWrPtr - subIndex IN
    IF subIndex > em.fifoCount THEN [bit |-> "NO_DATA", code |-> "NO_DATA", reg |-> {}]
    ELSE em.fifo[IF index < 0 THEN index + fifoSize ELSE index]

OD_write_1003(em) == [em EXCEPT !.fifoCount = 0, !.log = <<>>]

OD_write_1015(em, inhibit) == [em EXCEPT !.inhibitEmTime = inhibit, !.inhibitEmTimer = 0]

\* The COB-ID that 0x1014 stands for; "default" is 0x80, to which the node's
\* id is added, "own" the sum.
OD_read_1014(em) ==
    [valid |-> em.producerEnabled,
     id    |-> IF em.producerCanId = "default" THEN "own" ELSE em.producerCanId]

OD_write_1014(em, cobId) ==
    LET newEnabled == cobId.valid IN
    IF newEnabled /\ em.producerEnabled /\ cobId.id # OD_read_1014(em).id
    THEN em
    ELSE [em EXCEPT !.producerEnabled = newEnabled,
                    !.producerCanId   = IF cobId.id = "own" THEN "default" ELSE cobId.id,
                    !.CANtxBuff       = IF newEnabled THEN [ident |-> cobId.id, bufferFull |-> FALSE]
                                        ELSE @]

\* The status bits are written from outside, without any message.
OD_write_statusBits(em, bits) ==
    [em EXCEPT !.errorStatusBits = bits,
               !.unsure = @ \cup (bits \ em.errorStatusBits) \cup (em.errorStatusBits \ bits)]
=============================================================================

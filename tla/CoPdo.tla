-------------------------------- MODULE CoPdo --------------------------------
(***************************************************************************)
(* The process data objects of CANopenNode, CO_PDO.c: their configuration  *)
(* through the object dictionary while the node runs, the reception of an  *)
(* RPDO into one of two buffers, and the sending of a TPDO by events,      *)
(* timers and SYNC messages.                                               *)
(*                                                                         *)
(* rpdo and tpdo are records with the fields of CO_RPDO_t and CO_TPDO_t    *)
(* (those of CO_PDO_common_t among them); od holds the values that the     *)
(* dictionary has in the communication and the mapping parameters.  A      *)
(* mapping entry is [obj, len, odd]: len bytes of an object, odd for a     *)
(* number of bits that makes no whole bytes; obj "dummy" is one of the     *)
(* data types at index < 0x20.  CAN identifiers are "zero", "restricted",  *)
(* "extended", "base" (the default without node-id), "own" (with it) and   *)
(* "other".  errs is the set of error conditions, vals the value of each   *)
(* object and flagged the objects whose flagsPDO bit is set.               *)
(***************************************************************************)
EXTENDS CoSync, Sequences

CONSTANTS Objects,    \* from names to [dataLength, rpdo, tpdo, flag]
          MaxMapped   \* CO_PDO_MAX_MAPPED_ENTRIES
ASSUME MaxMappedAssumption == MaxMapped \in Nat \ {0}
ASSUME ObjectsAssumption ==
    \A x \in DOMAIN Objects : Objects[x] \in [dataLength : Nat, rpdo : BOOLEAN, tpdo : BOOLEAN, flag : BOOLEAN]

MaxSize == 8                            \* CO_PDO_MAX_SIZE
SYNC_ACYCLIC == 0
SYNC_240 == 240
EVENT_LO == 254
isSynchronous(transmissionType) == transmissionType <= SYNC_240
isEventDriven(transmissionType) == transmissionType = SYNC_ACYCLIC \/ transmissionType >= EVENT_LO
isReserved(transmissionType) == transmissionType > SYNC_240 /\ transmissionType < EVENT_LO

-----------------------------------------------------------------------------
(* Mapping *)

unmapped == [obj |-> "dummy", dataLength |-> 0, dataOffset |-> 0]
erroneous == [obj |-> "none", dataLength |-> 0, dataOffset |-> 255]

accepted(pdo, io, i) == [ret |-> "OK", pdo |-> [pdo EXCEPT !.OD_IO[i] = io]]
refused(pdo, code) == [ret |-> code, pdo |-> pdo]

\* The flag of a dummy's place stays the one of what was mapped before.
PDOconfigMap(pdo, map, i, isRPDO) ==
    IF map.len > MaxSize THEN refused(pdo, "MAP_LEN")
    ELSE IF map.obj = "dummy"
    THEN accepted(pdo, [obj |-> "dummy", dataLength |-> map.len, dataOffset |-> map.len], i)
    ELSE IF map.obj \notin DOMAIN Objects THEN refused(pdo, "SUB_NOT_EXIST")
    ELSE LET o == Objects[map.obj] IN
         IF ~(IF isRPDO THEN o.rpdo ELSE o.tpdo) \/ map.odd \/ o.dataLength < map.len
         THEN refused(pdo, "NO_MAP")
         ELSE accepted(IF isRPDO THEN pdo
                       ELSE [pdo EXCEPT !.flagPDO[i] = IF o.flag THEN map.obj ELSE "none"],
                       [obj |-> map.obj, dataLength |-> o.dataLength, dataOffset |-> map.len], i)

mappedBytes(pdo, count) ==
    LET sum[i \in 0..count] == IF i = 0 THEN 0 ELSE sum[i - 1] + pdo.OD_IO[i].dataOffset
    IN  sum[count]

\* With any erroneous entry nothing is mapped.
init_entry(acc, i, r) ==
    IF r.ret = "OK" THEN [acc EXCEPT !.pdo = r.pdo]
    ELSE [pdo |-> [acc.pdo EXCEPT !.OD_IO[i] = erroneous], bad |-> TRUE]

init_next(acc, i, map, isRPDO) == init_entry(acc, i, PDOconfigMap(acc.pdo, map, i, isRPDO))

init_counted(all, count, bytes) ==
    IF all.bad \/ bytes > MaxSize \/ (bytes = 0 /\ count > 0) THEN [all EXCEPT !.bad = TRUE]
    ELSE [all EXCEPT !.pdo.dataLength = bytes, !.pdo.mappedObjectsCount = count]

init_summed(all, count) == init_counted(all, count, mappedBytes(all.pdo, count))

PDO_initMapping(pdo, maps, count, isRPDO) ==
    LET all[i \in 0..MaxMapped] == IF i = 0 THEN [pdo |-> pdo, bad |-> FALSE]
                                   ELSE init_next(all[i - 1], i, maps[i], isRPDO)
    IN  init_summed(all[MaxMapped], count)

\* Mutant: an entry may be changed while entries are mapped.
mapping_locked_when_valid(pdo, subIndex) == pdo.valid

mapping_locked(pdo, subIndex) == pdo.valid \/ (pdo.mappedObjectsCount # 0 /\ subIndex > 0)

OD_write_PDO_mapping(pdo, subIndex, value, isRPDO) ==
    IF mapping_locked(pdo, subIndex) THEN refused(pdo, "UNSUPP_ACCESS")
    ELSE IF subIndex > 0
    THEN LET r == PDOconfigMap(pdo, value, subIndex, isRPDO) IN
         IF r.ret # "OK" THEN r ELSE [r EXCEPT !.pdo.od.maps[subIndex] = value]
    ELSE IF value > MaxMapped THEN refused(pdo, "MAP_LEN")
    ELSE IF \E i \in 1..value : pdo.OD_IO[i].dataOffset > pdo.OD_IO[i].dataLength
    THEN refused(pdo, "NO_MAP")
    ELSE IF mappedBytes(pdo, value) > MaxSize THEN refused(pdo, "MAP_LEN")
    ELSE IF mappedBytes(pdo, value) = 0 /\ value > 0 THEN refused(pdo, "INVALID_VALUE")
    ELSE [ret |-> "OK", pdo |-> [pdo EXCEPT !.dataLength = mappedBytes(pdo, value),
                                            !.mappedObjectsCount = value, !.od.count = value]]

-----------------------------------------------------------------------------
(* The COB-ID *)

\* The CAN identifier that a COB-ID of the dictionary stands for.
with_nodeId(id) == IF id = "base" THEN "own" ELSE id
without_nodeId(id) == IF id = "own" THEN "base" ELSE id

OD_read_PDO_commParam(pdo) == [valid |-> pdo.od.cobId.valid /\ pdo.valid, id |-> with_nodeId(pdo.od.cobId.id)]

cobId_refused(pdo, cobId) ==
    \/ cobId.id = "extended"
    \/ cobId.valid /\ \/ pdo.valid /\ cobId.id # pdo.configuredCanId
                      \/ cobId.id \in {"zero", "restricted"}
                      \/ pdo.mappedObjectsCount = 0

cobId_changed(pdo, cobId) == cobId.valid # pdo.valid \/ cobId.id # pdo.configuredCanId

\* What the dictionary gets.
stored(pdo, cobId) ==
    IF cobId_changed(pdo, cobId) THEN [cobId EXCEPT !.id = without_nodeId(@)] ELSE cobId

\* Whether the COB-ID of the dictionary makes the PDO valid after init, and
\* with which identifier.
init_valid(pdo) == pdo.od.cobId.valid /\ pdo.mappedObjectsCount # 0 /\ pdo.od.cobId.id # "zero"
init_CAN_ID(pdo) == IF init_valid(pdo) THEN with_nodeId(pdo.od.cobId.id) ELSE "zero"
init_wrong(pdo) == pdo.od.cobId.valid /\ ~init_valid(pdo)

-----------------------------------------------------------------------------
(* RPDO *)

\* receiveError: what happened since it was reported, and what was reported.
RxNoError == "ACK_NO_ERROR"
RxPending == {"OK", "SHORT", "LONG"}

rpdo_mapped(m, CAN_ID, errs) ==
    [rpdo |-> [m.pdo EXCEPT !.valid = init_valid(m.pdo), !.ident = CAN_ID, !.configuredCanId = CAN_ID],
     errs |-> IF m.bad \/ init_wrong(m.pdo) THEN errs \cup {"PDO_WRONG_MAPPING"} ELSE errs]

rpdo_blank(od) ==
    [valid |-> FALSE, dataLength |-> 0, mappedObjectsCount |-> 0,
     OD_IO |-> [i \in 1..MaxMapped |-> unmapped], configuredCanId |-> "zero", od |-> od,
     ident |-> "zero", CANrxNew |-> [b \in 0..1 |-> FALSE], CANrxData |-> [b \in 0..1 |-> 0],
     receiveError |-> RxNoError, synchronous |-> isSynchronous(od.type),
     timeoutTime |-> od.event, timeoutTimer |-> 0]

rpdo_configured(m, errs) == rpdo_mapped(m, init_CAN_ID(m.pdo), errs)

CO_RPDO_init(od, errs) == rpdo_configured(PDO_initMapping(rpdo_blank(od), od.maps, od.count, TRUE), errs)

rxBuffer(rpdo, sync) == IF rpdo.synchronous /\ sync.CANrxToggle THEN 1 ELSE 0

\* Mutant: the buffer that is being filled is the one to process.
processBuffer_same(rpdo, sync) == IF rpdo.synchronous /\ sync.CANrxToggle THEN 1 ELSE 0

processBuffer(rpdo, sync) == IF rpdo.synchronous /\ ~sync.CANrxToggle THEN 1 ELSE 0

\* A message whose identifier is the one that the receive buffer has.
CO_PDO_receive(rpdo, sync, DLC, data) ==
    LET bufNo == rxBuffer(rpdo, sync)
        err   == CASE rpdo.receiveError = "ACK_ERROR" /\ DLC = rpdo.dataLength -> "OK"
                   [] rpdo.receiveError = RxNoError /\ DLC > rpdo.dataLength -> "LONG"
                   [] rpdo.receiveError = RxNoError /\ DLC < rpdo.dataLength -> "SHORT"
                   [] OTHER -> rpdo.receiveError
    IN  IF ~rpdo.valid THEN rpdo
        ELSE IF DLC < rpdo.dataLength THEN [rpdo EXCEPT !.receiveError = err]
        ELSE [rpdo EXCEPT !.receiveError = err, !.CANrxData[bufNo] = data, !.CANrxNew[bufNo] = TRUE]

no_messages(rpdo) == [rpdo EXCEPT !.CANrxNew = [b \in 0..1 |-> FALSE]]

\* Sub-index 1: COB-ID, 2: transmission type, 5: event timer.
OD_write_14xx(rpdo, subIndex, value) ==
    CASE subIndex = 1 ->
           IF cobId_refused(rpdo, value) THEN rpdo
           ELSE [(IF ~cobId_changed(rpdo, value) THEN rpdo
                  ELSE IF value.valid
                  THEN [rpdo EXCEPT !.ident = value.id, !.valid = TRUE, !.configuredCanId = value.id]
                  ELSE no_messages([rpdo EXCEPT !.ident = "zero", !.valid = FALSE]))
                 EXCEPT !.od.cobId = stored(rpdo, value)]
      [] subIndex = 2 ->
           IF isReserved(value) THEN rpdo
           ELSE [rpdo EXCEPT !.CANrxNew[1] = @ /\ rpdo.synchronous = isSynchronous(value),
                             !.synchronous = isSynchronous(value), !.od.type = value]
      [] subIndex = 5 ->
           [rpdo EXCEPT !.timeoutTime = value, !.timeoutTimer = 0, !.od.event = value]

rpdo_length_error(r) ==
    IF r.rpdo.receiveError \notin RxPending THEN r
    ELSE IF r.rpdo.receiveError = "OK"
    THEN [r EXCEPT !.rpdo.receiveError = RxNoError, !.errs = @ \ {"RPDO_WRONG_LENGTH"}]
    ELSE [r EXCEPT !.rpdo.receiveError = "ACK_ERROR", !.errs = @ \cup {"RPDO_WRONG_LENGTH"}]

mappedObjects(pdo) == {pdo.OD_IO[i].obj : i \in 1..pdo.mappedObjectsCount}

\* The message goes to the mapped objects; the code then tests its own sums.
rpdo_written(r, bufNo) ==
    IF ~r.rpdo.CANrxNew[bufNo] THEN r
    ELSE [r EXCEPT !.rpdo.CANrxNew[bufNo] = FALSE,
                   !.vals = [x \in DOMAIN @ |-> IF x \in mappedObjects(r.rpdo)
                                                THEN r.rpdo.CANrxData[bufNo] ELSE @[x]],
                   !.errs = IF mappedBytes(r.rpdo, r.rpdo.mappedObjectsCount) # r.rpdo.dataLength
                            THEN @ \cup {"GENERIC_SOFTWARE_ERROR"} ELSE @]

\* The timer starts with 1 and is left alone once it has reached the time.
rpdo_timeout(r, received, dt) ==
    LET timer == r.rpdo.timeoutTimer
        limit == r.rpdo.timeoutTime
    IN  IF limit = 0 THEN r
        ELSE IF received
        THEN [r EXCEPT !.rpdo.timeoutTimer = 1,
                       !.errs = IF timer > limit THEN @ \ {"RPDO_TIME_OUT"} ELSE @]
        ELSE IF timer > 0 /\ timer < limit
        THEN [r EXCEPT !.rpdo.timeoutTimer = timer + dt,
                       !.errs = IF timer + dt > limit THEN @ \cup {"RPDO_TIME_OUT"} ELSE @]
        ELSE r

CO_RPDO_process(rpdo, vals, errs, sync, dt, NMTisOperational, syncWas) ==
    LET r == [rpdo |-> rpdo, vals |-> vals, errs |-> errs]
        bufNo == processBuffer(rpdo, sync)
    IN  IF ~rpdo.valid \/ ~NMTisOperational
        THEN [r EXCEPT !.rpdo = [no_messages(@) EXCEPT !.timeoutTimer = 0]]
        ELSE IF rpdo.synchronous /\ ~syncWas THEN r
        ELSE rpdo_timeout(rpdo_written(rpdo_length_error(r), bufNo), rpdo.CANrxNew[bufNo], dt)

-----------------------------------------------------------------------------
(* TPDO *)

\* The transmit buffer of the driver, for a PDO of this length.
CO_CANtxBufferInit(ident, DLC, type) == [ident |-> ident, DLC |-> DLC, syncFlag |-> isSynchronous(type)]

tpdo_mapped(m, CAN_ID, errs) ==
    [tpdo |-> [m.pdo EXCEPT !.valid = init_valid(m.pdo), !.configuredCanId = CAN_ID,
                            !.tx = CO_CANtxBufferInit(CAN_ID, m.pdo.dataLength, m.pdo.transmissionType)],
     errs |-> IF m.bad \/ init_wrong(m.pdo) THEN errs \cup {"PDO_WRONG_MAPPING"} ELSE errs]

tpdo_blank(od, type) ==
    [valid |-> FALSE, dataLength |-> 0, mappedObjectsCount |-> 0,
     OD_IO |-> [i \in 1..MaxMapped |-> unmapped], flagPDO |-> [i \in 1..MaxMapped |-> "none"],
     configuredCanId |-> "zero", od |-> od,
     tx |-> CO_CANtxBufferInit("zero", 0, type), transmissionType |-> type,
     sendRequest |-> TRUE, syncStartValue |-> od.start, syncCounter |-> 255,
     inhibitTime |-> od.inhibit, eventTime |-> od.event, inhibitTimer |-> 0, eventTimer |-> 0]

tpdo_configured(m, errs) == tpdo_mapped(m, init_CAN_ID(m.pdo), errs)

CO_TPDO_init(od, errs) ==
    tpdo_configured(PDO_initMapping(tpdo_blank(od, IF isReserved(od.type) THEN EVENT_LO ELSE od.type),
                                    od.maps, od.count, FALSE),
                    errs)

\* Sub-index 1: COB-ID, 2: transmission type, 3: inhibit time, 5: event
\* timer, 6: SYNC start value.
OD_write_18xx(tpdo, subIndex, value) ==
    CASE subIndex = 1 ->
           LET CAN_ID == IF value.valid THEN value.id ELSE "zero" IN
           IF cobId_refused(tpdo, value) THEN tpdo
           ELSE [(IF ~cobId_changed(tpdo, value) THEN tpdo
                  ELSE [tpdo EXCEPT !.tx = CO_CANtxBufferInit(CAN_ID, tpdo.dataLength, tpdo.transmissionType), !.valid = value.valid,
                                    !.configuredCanId = CAN_ID])
                 EXCEPT !.od.cobId = stored(tpdo, value)]
      [] subIndex = 2 ->
           IF isReserved(value) THEN tpdo
           ELSE [tpdo EXCEPT !.syncCounter = 255, !.sendRequest = TRUE, !.inhibitTimer = 0, !.eventTimer = 0,
                             !.tx.syncFlag = isSynchronous(value), !.transmissionType = value,
                             !.od.type = value]
      [] subIndex = 3 ->
           IF tpdo.valid THEN tpdo
           ELSE [tpdo EXCEPT !.inhibitTime = value, !.inhibitTimer = 0, !.od.inhibit = value]
      [] subIndex = 5 ->
           [tpdo EXCEPT !.eventTime = value, !.eventTimer = 0, !.od.event = value]
      [] subIndex = 6 ->
           IF tpdo.valid \/ value > 240 THEN tpdo
           ELSE [tpdo EXCEPT !.syncStartValue = value, !.od.start = value]

countdown(timer, dt) == IF timer > dt THEN timer - dt ELSE 0

ownFlags(tpdo) == {tpdo.flagPDO[i] : i \in 1..tpdo.mappedObjectsCount} \ {"none"}

\* The objects are read and acknowledged; the frame goes to the driver,
\* which takes care of it from here.
tpdo_read(t) == [t EXCEPT !.flagged = IF isEventDriven(t.tpdo.transmissionType)
                                      THEN @ \cup ownFlags(t.tpdo) ELSE @]

tpdo_sent(t) ==
    IF mappedBytes(t.tpdo, t.tpdo.mappedObjectsCount) # t.tpdo.dataLength
    THEN [t EXCEPT !.errs = @ \cup {"GENERIC_SOFTWARE_ERROR"}]
    ELSE [t EXCEPT !.tpdo.sendRequest = FALSE, !.tpdo.eventTimer = t.tpdo.eventTime,
                   !.tpdo.inhibitTimer = t.tpdo.inhibitTime, !.sent = TRUE]

CO_TPDOsend(t) == tpdo_sent(tpdo_read(t))

\* The event timer and the flags of the mapped objects ask for a frame.
tpdo_events(t, dt) ==
    LET timer == IF t.tpdo.eventTime # 0 THEN countdown(t.tpdo.eventTimer, dt) ELSE t.tpdo.eventTimer IN
    IF ~isEventDriven(t.tpdo.transmissionType) THEN t
    ELSE [t EXCEPT !.tpdo.eventTimer = timer,
                   !.tpdo.sendRequest = \/ @
                                        \/ t.tpdo.eventTime # 0 /\ timer = 0
                                        \/ ownFlags(t.tpdo) \ t.flagged # {}]

tpdo_inhibited(t, dt) == [t EXCEPT !.tpdo.inhibitTimer = countdown(@, dt)]
tpdo_requested(t, allowed) == IF t.tpdo.sendRequest /\ allowed THEN CO_TPDOsend(t) ELSE t

\* Mutant: the cycle starts one SYNC late again.
reloaded_late(tpdo) == tpdo.transmissionType + 1

reloaded(tpdo) == tpdo.transmissionType

\* Every N-th SYNC; the first one in the middle of a cycle, or at the start
\* value of the SYNC counter.  255: not begun, 254: waits for the start.
tpdo_cycle(t, sync) ==
    LET begun == IF t.tpdo.syncCounter # 255 THEN t.tpdo.syncCounter
                 ELSE IF sync.counterOverflowValue # 0 /\ t.tpdo.syncStartValue # 0 THEN 254
                 ELSE t.tpdo.transmissionType \div 2 + 1
        now   == IF begun = 254 THEN sync.counter = t.tpdo.syncStartValue ELSE begun = 1
    IN  IF now THEN CO_TPDOsend([t EXCEPT !.tpdo.syncCounter = reloaded(t.tpdo)])
        ELSE [t EXCEPT !.tpdo.syncCounter = IF begun = 254 THEN 254 ELSE begun - 1]

tpdo_idle(tpdo) == [tpdo EXCEPT !.sendRequest = TRUE, !.inhibitTimer = 0, !.eventTimer = 0, !.syncCounter = 255]

tpdo_sending(t, sync, dt, syncWas) ==
    CASE t.tpdo.transmissionType >= EVENT_LO ->
           tpdo_requested(tpdo_inhibited(t, dt), countdown(t.tpdo.inhibitTimer, dt) = 0)
      [] t.tpdo.transmissionType < EVENT_LO /\ ~syncWas -> t
      [] t.tpdo.transmissionType = SYNC_ACYCLIC /\ syncWas -> tpdo_requested(t, TRUE)
      [] OTHER -> tpdo_cycle(t, sync)

CO_TPDO_process(tpdo, flagged, errs, sync, dt, NMTisOperational, syncWas) ==
    LET t == [tpdo |-> tpdo, flagged |-> flagged, errs |-> errs, sent |-> FALSE] IN
    IF ~tpdo.valid \/ ~NMTisOperational THEN [t EXCEPT !.tpdo = tpdo_idle(@)]
    ELSE tpdo_sending(tpdo_events(t, dt), sync, dt, syncWas)

CO_TPDOsendRequest(tpdo) == [tpdo EXCEPT !.sendRequest = TRUE]
OD_requestTPDO(flagged, obj) == flagged \ {obj}
=============================================================================

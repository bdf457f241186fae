------------------------------- MODULE CoSrdo -------------------------------
(***************************************************************************)
(* A safety-relevant data object of CANopenNode, CO_SRDO.c: its guarded    *)
(* configuration, and the exchange of a value as two frames, the second    *)
(* one inverted, under a cycle time and a validation time.                 *)
(*                                                                         *)
(* A node is a record: srdo with the fields of CO_SRDO_t, guard with those *)
(* of CO_SRDOGuard_t, od with the values of 0x1301, 0x1381, 0x13FE and     *)
(* 0x13FF, vals with the mapped objects, errs with the error conditions,   *)
(* and previous, which is static in CO_process_SRDO.  What is inverted is  *)
(* written as the value that it is the inversion of, so that two inverted  *)
(* values agree when they are equal.  The CRC of a configuration is the    *)
(* configuration.                                                          *)
(***************************************************************************)
EXTENDS Integers

CONSTANTS MinDelay,   \* CO_CONFIG_SRDO_MINIMUM_DELAY
          FirstDelay  \* 0.5 ms times the node-id

DELETED == 0
TX == 1
RX == 2
errorStates == {"error_internal", "error_configuration", "error_txNotInverted", "error_txFail",
                "error_rxTimeoutSRVT", "error_rxTimeoutSCT", "error_rxNotInverted", "error_rxShort"}
noNew == [b \in 0..1 |-> FALSE]

-----------------------------------------------------------------------------
(* Configuration *)

configurationValidUnset(node) == [node EXCEPT !.guard.configurationValid = FALSE, !.od.valid = FALSE]

\* The default COB-IDs stand for the ones with node-id.
COB_ID(cob) == IF cob = "default" THEN "own" ELSE cob

\* What the signature is about.
signed(od) == [dir |-> od.dir, cycle |-> od.cycle, validation |-> od.validation,
               cob |-> COB_ID(od.cob), count |-> od.count, map |-> od.map]

\* The writes that are refused leave the node as it is.  Fields: dir, cycle,
\* validation, cob.
communicationParam_refused(field, value) ==
    \/ field = "dir" /\ value > 2
    \/ field = "cycle" /\ value < MinDelay + 1
    \/ field = "validation" /\ value = 0
    \/ field = "cob" /\ value = "outside"

OD_write_SRDO_communicationParam(node, field, value) ==
    IF node.guard.NMTisOperational \/ communicationParam_refused(field, value) THEN node
    ELSE LET written == configurationValidUnset(node) IN
         CASE field = "dir"        -> [written EXCEPT !.srdo.informationDirection = value, !.od.dir = value]
           [] field = "cycle"      -> [written EXCEPT !.od.cycle = value]
           [] field = "validation" -> [written EXCEPT !.od.validation = value]
           [] field = "cob"        -> [written EXCEPT !.od.cob = IF value = "own" THEN "default" ELSE value]

\* Fields: count, which is even, and map.
OD_write_SRDO_mappingParam(node, field, value) ==
    IF \/ node.guard.NMTisOperational \/ node.srdo.informationDirection # DELETED
       \/ field = "map" /\ node.srdo.mappedObjectsCount # 0
    THEN node
    ELSE LET written == configurationValidUnset(node) IN
         CASE field = "count" -> [written EXCEPT !.srdo.mappedObjectsCount = value, !.od.count = value]
           [] field = "map"   -> [written EXCEPT !.od.map = value]

OD_write_13FE(node, magic) ==
    IF node.guard.NMTisOperational THEN node
    ELSE [node EXCEPT !.guard.configurationValid = magic, !.od.valid = magic]

OD_write_13FF(node, signature) ==
    IF node.guard.NMTisOperational THEN node
    ELSE [configurationValidUnset(node) EXCEPT !.od.signature = signature]

\* A mapping is "pair": as much data plain as inverted, "dummies": with
\* dummies besides, "unequal", or "unknown": not in the dictionary.
good_parameters(od) ==
    /\ od.dir <= 3 /\ od.cycle >= MinDelay + 1 /\ od.validation >= 1
    /\ COB_ID(od.cob) \in {"own", "other"}
good_mapping(od) == od.count > 0 /\ od.map \in {"pair", "dummies"}

CO_SRDO_config(node) ==
    LET od == node.od
        inProgress == od.valid /\ od.dir # DELETED
        good == good_parameters(od) /\ od.signature = signed(od) /\ good_mapping(od)
        timed == [node EXCEPT !.srdo.informationDirection = od.dir, !.srdo.cycleTime = od.cycle,
                              !.srdo.validationTime = od.validation]
    IN  IF ~inProgress THEN timed
        ELSE IF ~good THEN configurationValidUnset([node EXCEPT !.errs = @ \cup {"SRDO_CONFIGURATION"}])
        ELSE [timed EXCEPT !.srdo.dataLength = 1, !.srdo.mappedObjectsCount = od.count, !.srdo.mapping = od.map,
                           !.srdo.ident[od.dir] = COB_ID(od.cob)]

CO_SRDOGuard_init(od) == [NMTisOperational |-> FALSE, configurationValid |-> od.valid]

\* ident: the CAN identifiers that the buffers of either direction have.
CO_SRDO_init(od, vals, previous) ==
    CO_SRDO_config(
      [od |-> od, vals |-> vals, previous |-> previous, errs |-> {}, guard |-> CO_SRDOGuard_init(od),
       srdo |-> [informationDirection |-> 0, cycleTime |-> 0, validationTime |-> 0, dataLength |-> 0,
                 mappedObjectsCount |-> 0, mapping |-> "pair", ident |-> [d \in 1..3 |-> "none"],
                 internalState |-> "unknown", NMTisOperationalPrevious |-> FALSE, cycleTimer |-> 0,
                 invertedDelay |-> 0, validationTimer |-> 0, CANrxNew |-> noNew,
                 CANrxData |-> [b \in 0..1 |-> 0], CANtxData |-> 0, rxSrdoShort |-> FALSE, nextIsNormal |-> FALSE]])

-----------------------------------------------------------------------------
(* Reception.  A frame is [ident, inverted, DLC, data].                     *)

wants_normal(srdo) == srdo.informationDirection = RX /\ ~srdo.CANrxNew[1]
wants_inverted(srdo) == srdo.informationDirection = RX /\ srdo.CANrxNew[0]

CO_SRDO_receive(srdo, frame) ==
    LET b == IF frame.inverted THEN 1 ELSE 0 IN
    IF frame.ident # srdo.ident[RX] THEN srdo
    ELSE IF frame.DLC < srdo.dataLength THEN [srdo EXCEPT !.rxSrdoShort = TRUE]
    ELSE IF IF frame.inverted THEN wants_inverted(srdo) ELSE wants_normal(srdo)
    THEN [srdo EXCEPT !.CANrxData[b] = frame.data, !.CANrxNew[b] = TRUE]
    ELSE srdo

-----------------------------------------------------------------------------
(* Processing *)

run_down(timer, dt) == IF timer > dt THEN timer - dt ELSE 0

srdo_started(srdo) ==
    IF srdo.NMTisOperationalPrevious THEN srdo
    ELSE [srdo EXCEPT !.cycleTimer = IF srdo.informationDirection = TX THEN FirstDelay ELSE srdo.cycleTime,
                      !.validationTimer = srdo.cycleTime,
                      !.internalState = "initializing", !.nextIsNormal = TRUE]

srdo_timers(srdo, dt) ==
    [srdo EXCEPT !.cycleTimer = run_down(@, dt), !.invertedDelay = run_down(@, dt),
                 !.validationTimer = run_down(@, dt)]

nothing_sent(node) == [node |-> node, frame |-> "none"]

\* The length is tested with the dummies.
length_verified(srdo) == srdo.mapping = "pair"

\* Normal data when the cycle is over, inverted data after a delay; ok: the
\* driver takes the frame now.
tx_normal(node, ok) ==
    IF node.srdo.cycleTimer # 0 THEN nothing_sent(node)
    ELSE IF ~length_verified(node.srdo)
    THEN nothing_sent([node EXCEPT !.srdo.internalState = "error_internal"])
    ELSE IF node.vals.plain # node.vals.inverted
    THEN nothing_sent([node EXCEPT !.srdo.internalState = "error_txNotInverted"])
    ELSE [node  |-> IF ok THEN [node EXCEPT !.srdo.cycleTimer = node.srdo.cycleTime,
                                            !.srdo.invertedDelay = MinDelay, !.srdo.nextIsNormal = FALSE,
                                            !.srdo.CANtxData = node.vals.plain,
                                            !.srdo.internalState = "communicationEstablished"]
                    ELSE [node EXCEPT !.srdo.CANtxData = node.vals.plain, !.srdo.internalState = "error_txFail"],
          frame |-> "normal"]

tx_inverted(node, ok) ==
    IF node.srdo.invertedDelay # 0 THEN nothing_sent(node)
    ELSE [node  |-> IF ok THEN [node EXCEPT !.srdo.nextIsNormal = TRUE]
                    ELSE [node EXCEPT !.srdo.internalState = "error_txFail"],
          frame |-> "inverted"]

\* The timers of the consumer are started by a frame before they are tested.
rx_normal(node) == [node EXCEPT !.srdo.validationTimer = node.srdo.validationTime, !.srdo.nextIsNormal = FALSE]

rx_data(node) ==
    IF node.srdo.CANrxData[0] # node.srdo.CANrxData[1]
    THEN [node EXCEPT !.srdo.internalState = "error_rxNotInverted"]
    ELSE [node EXCEPT !.vals = [plain |-> node.srdo.CANrxData[0], inverted |-> node.srdo.CANrxData[1]],
                      !.srdo.internalState = IF length_verified(node.srdo) THEN "communicationEstablished"
                                             ELSE "error_internal"]

rx_inverted(node) ==
    [rx_data(node) EXCEPT !.srdo.cycleTimer = node.srdo.cycleTime, !.srdo.validationTimer = node.srdo.cycleTime,
                          !.srdo.nextIsNormal = TRUE, !.srdo.CANrxNew = noNew]

rx_frame(node) ==
    IF node.srdo.rxSrdoShort
    THEN [node EXCEPT !.errs = @ \cup {"RPDO_WRONG_LENGTH"}, !.srdo.internalState = "error_rxShort"]
    ELSE IF ~node.srdo.CANrxNew[IF node.srdo.nextIsNormal THEN 0 ELSE 1] THEN node
    ELSE IF node.srdo.nextIsNormal THEN rx_normal(node) ELSE rx_inverted(node)

rx_timeout(node) ==
    [node EXCEPT !.srdo.internalState = IF node.srdo.cycleTimer = 0 THEN "error_rxTimeoutSCT"
                                        ELSE IF node.srdo.validationTimer = 0 THEN "error_rxTimeoutSRVT" ELSE @]

srdo_active(node, ok) ==
    IF node.srdo.informationDirection # TX THEN nothing_sent(rx_timeout(rx_frame(node)))
    ELSE IF node.srdo.nextIsNormal THEN tx_normal(node, ok) ELSE tx_inverted(node, ok)

srdo_idle(node, NMTisOperational) ==
    [node EXCEPT !.srdo.CANrxNew = noNew,
                 !.srdo.internalState = IF ~node.guard.configurationValid THEN "error_configuration"
                                        ELSE IF ~NMTisOperational THEN "nmtNotOperational"
                                        ELSE IF node.srdo.informationDirection = DELETED THEN "deleted" ELSE @]

\* An error keeps the object idle until the node leaves OPERATIONAL.
srdo_stepped(node, dt, NMTisOperational, ok) ==
    IF /\ NMTisOperational /\ node.srdo.informationDirection # DELETED
       /\ node.guard.configurationValid /\ node.srdo.internalState \notin errorStates
    THEN srdo_active([node EXCEPT !.srdo = srdo_started(srdo_timers(@, dt))], ok)
    ELSE nothing_sent(srdo_idle(node, NMTisOperational))

CO_SRDO_process(node, dt, NMTisOperational, ok) ==
    [srdo_stepped(node, dt, NMTisOperational, ok)
       EXCEPT !.node.srdo.NMTisOperationalPrevious = NMTisOperational,
              !.node.guard.NMTisOperational = NMTisOperational]

\* Mutant: what was written since the start is not configured.
srdo_reconfigured_never(node, NMTisOperational) == [node EXCEPT !.previous = NMTisOperational]

srdo_reconfigured(node, NMTisOperational) ==
    IF node.previous = NMTisOperational THEN node
    ELSE IF NMTisOperational THEN [CO_SRDO_config(node) EXCEPT !.previous = TRUE]
    ELSE [node EXCEPT !.previous = FALSE]

CO_process_SRDO(node, dt, NMTisOperational, ok) ==
    CO_SRDO_process(srdo_reconfigured(node, NMTisOperational), dt, NMTisOperational, ok)

CO_SRDO_requestSend(node) ==
    IF /\ node.guard.NMTisOperational /\ node.guard.configurationValid
       /\ node.srdo.informationDirection = TX /\ node.srdo.nextIsNormal
    THEN [node EXCEPT !.srdo.cycleTimer = 0] ELSE node
=============================================================================

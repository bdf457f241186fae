----------------------------- MODULE CoPdoNode ------------------------------
(***************************************************************************)
(* The process data of a CANopenNode device: SYNC, an RPDO and a TPDO as   *)
(* CO_process_SYNC, CO_process_RPDO and CO_process_TPDO run them one after *)
(* the other, with the messages of the bus, requests of the application    *)
(* and writes to the object dictionary in between.                         *)
(*                                                                         *)
(* A behaviour is about one scenario, which says what the surroundings do. *)
(* The data of an RPDO message is its number.                              *)
(***************************************************************************)
EXTENDS CoPdo

CONSTANTS Scenarios, \* from names to [sync, rpdo, tpdo, states, DLCs, SYNCs, r14xx, r16xx,
                     \*   t18xx, t1Axx, s1005, s1006, s1019, requests, reset, times, events]
          MaxAge     \* the time since a TPDO is counted up to here

\* What the dictionary has: a COB-ID, a mapping entry, and the parameters of
\* a PDO with all the sub-indexes of its mapping.
CobIds == [valid : BOOLEAN, id : STRING]
Maps   == [obj : STRING, len : Nat, odd : BOOLEAN]
PdoParameters ==
    [cobId : CobIds, type : 0..255, count : 0..MaxMapped, maps : [1..MaxMapped -> Maps],
     event : Nat, inhibit : Nat, start : Nat]

\* The writes of the sub-indexes of the parameters, each with its values.
CommunicationWrites(timers) ==
    ({1} \X CobIds) \cup ({2} \X (0..255)) \cup (timers \X Nat)
MappingWrites == ({0} \X Nat) \cup ((1..MaxMapped) \X Maps)

\* What the dictionary has for SYNC.
SyncCobIds == [producer : BOOLEAN, id : STRING]
SyncParameters == [cobId : SyncCobIds, period : Nat, window : Nat, ovf : Nat]

ASSUME ScenariosAssumption ==
    \A s \in DOMAIN Scenarios : LET this == Scenarios[s] IN
        /\ this.rpdo \subseteq PdoParameters /\ this.tpdo \subseteq PdoParameters
        /\ this.r14xx \subseteq CommunicationWrites({5}) /\ this.r16xx \subseteq MappingWrites
        /\ this.t18xx \subseteq CommunicationWrites({3, 5, 6}) /\ this.t1Axx \subseteq MappingWrites
        /\ this.sync \in SyncParameters /\ this.SYNCs \subseteq [DLC : Nat, counter : Nat]
        /\ this.s1005 \subseteq SyncCobIds /\ this.s1006 \subseteq Nat /\ this.s1019 \subseteq Nat
        /\ this.DLCs \subseteq Nat /\ this.times \subseteq Nat

\* Requests are for objects, none of which has the name of something else
\* that asks for a TPDO.
ASSUME RequestsAssumption ==
    /\ {"request", "timer"} \cap DOMAIN Objects = {}
    /\ \A s \in DOMAIN Scenarios : Scenarios[s].requests \subseteq DOMAIN Objects

\* The time since a TPDO is counted far enough for the timers of the TPDO.
ASSUME MaxAgeAssumption ==
    /\ MaxAge \in Nat
    /\ \A s \in DOMAIN Scenarios : LET this == Scenarios[s] IN
          /\ \A od \in this.tpdo : od.event <= MaxAge /\ od.inhibit <= MaxAge
          /\ \A w \in this.t18xx : w[1] \in {3, 5} => w[2] <= MaxAge

VARIABLES scenario, nmt, sync, rpdo, tpdo, flagged, vals, errs,
          messages,         \* RPDO messages so far
          latest, atSync,   \* the last message taken, now and at the last SYNC, 0 for none
          syncs,            \* SYNCs since the last call
          disturbed,        \* a message may be in the wrong buffer
          first, asked,     \* no TPDO since it was set up; what asks for one: "request", "timer", objects
          since, cycles,    \* time and calls with SYNC since the last TPDO
          noted,            \* until the next TPDO: "start", the cycle waits for the start value;
                            \*   "free", the inhibit time was written; "stale", a stale flag asked
          quiet,            \* time since the RPDO was last taken, 0 before the first
          call,             \* of the last step: [dt, syncWas, sent]
          events            \* what the surroundings did so far, at most Here.events

objects == <<sync, rpdo, tpdo, flagged, vals, errs>>
rpdoGhosts == <<messages, latest, atSync, syncs, disturbed, quiet>>
tpdoGhosts == <<first, asked, since, cycles, noted>>
vars == <<scenario, nmt, objects, rpdoGhosts, tpdoGhosts, call, events>>

Here == Scenarios[scenario]
NoCall == [dt |-> 0, syncWas |-> FALSE, sent |-> FALSE]
capped(t) == IF t > MaxAge THEN MaxAge ELSE t

StartSync == CO_SYNC_init(Here.sync.cobId, Here.sync.period, Here.sync.window, Here.sync.ovf)

Init == /\ scenario \in DOMAIN Scenarios
        /\ nmt = "PRE_OPERATIONAL" /\ sync = StartSync
        /\ \E od \in Here.rpdo : rpdo = CO_RPDO_init(od, {}).rpdo
        /\ \E od \in Here.tpdo : tpdo = CO_TPDO_init(od, {}).tpdo
        /\ errs = CO_TPDO_init(tpdo.od, CO_RPDO_init(rpdo.od, {}).errs).errs
        /\ flagged = {} /\ vals = [x \in DOMAIN Objects |-> 0]
        /\ messages = 0 /\ latest = 0 /\ atSync = 0 /\ syncs = 0 /\ disturbed = FALSE /\ quiet = 0
        /\ first = TRUE /\ asked = DOMAIN Objects /\ since = 0 /\ cycles = 0 /\ noted = {}
        /\ call = NoCall /\ events = 0

-----------------------------------------------------------------------------
(* One call of CO_process_SYNC, CO_process_RPDO and CO_process_TPDO *)

operational == nmt = "OPERATIONAL"

\* What a message buffer and a timer per PDO would remember.
RpdoRemembered(nextSync, nextRpdo, dt) ==
    LET active == rpdo.valid /\ operational
        own    == nextSync.CANrxToggle # sync.CANrxToggle
        empty  == nextRpdo.CANrxNew = [b \in 0..1 |-> FALSE]
        taken  == nextRpdo.CANrxNew # rpdo.CANrxNew
    IN  /\ latest' = IF active /\ ~(disturbed /\ empty) THEN latest ELSE 0
        /\ atSync' = IF ~active \/ (disturbed /\ empty) THEN 0 ELSE IF own THEN latest ELSE atSync
        /\ disturbed' = (active /\ disturbed /\ ~empty)
        /\ syncs' = 0
        /\ quiet' = IF ~active \/ rpdo.timeoutTime = 0 THEN 0 ELSE IF taken THEN 1
                    ELSE IF quiet > 0 THEN capped(quiet + dt) ELSE 0

askingObjects == {x \in mappedObjects(tpdo) \cap DOMAIN Objects : Objects[x].flag}

\* One is due: after the set-up, asked for, or by the event timer.
due(dt) == \/ first
           \/ asked \cap ({"request", "timer"} \cup askingObjects) # {}
           \/ tpdo.eventTime # 0 /\ since + dt >= tpdo.eventTime

\* The flags of a dummy's place are the ones of what was mapped before it.
noStaleFlag == ownFlags(tpdo) = askingObjects
staleAsks == isEventDriven(tpdo.transmissionType) /\ ~first /\ ("stale" \in noted \/ ~noStaleFlag)

\* The first cycle begins at the start value if there was one at its first SYNC.
startAwaited ==
    /\ first
    /\ \/ "start" \in noted
       \/ cycles = 0 /\ sync.counterOverflowValue # 0 /\ tpdo.syncStartValue # 0

TpdoRemembered(sent, syncWas, dt) ==
    LET active == tpdo.valid /\ operational
        again  == active /\ ~sent
        acknowledged == IF sent /\ isEventDriven(tpdo.transmissionType) THEN ownFlags(tpdo) ELSE {}
    IN  /\ first' = IF active THEN first /\ ~sent ELSE TRUE
        /\ asked' = (asked \ ({"request", "timer"} \cup acknowledged))
                    \cup (IF again /\ ~first /\ due(dt) /\ isEventDriven(tpdo.transmissionType) THEN {"request"} ELSE {})
        /\ since' = IF again /\ ~first /\ tpdo.eventTime + tpdo.inhibitTime > 0 THEN capped(since + dt) ELSE 0
        /\ cycles' = IF again /\ ~isEventDriven(tpdo.transmissionType)
                     THEN cycles + (IF syncWas THEN 1 ELSE 0) ELSE 0
        /\ noted' = IF ~again THEN {}
                    ELSE noted \cup (IF syncWas /\ startAwaited THEN {"start"} ELSE {})
                               \cup (IF staleAsks THEN {"stale"} ELSE {})

Process(dt) ==
    \E s \in {CO_SYNC_process(sync, errs, nmt # "STOPPED", dt)} :
    \E syncWas \in {s.status = "RX_TX"} :
    \E r \in {CO_RPDO_process(rpdo, vals, s.errs, s.sync, dt, operational, syncWas)} :
    \E t \in {CO_TPDO_process(tpdo, flagged, r.errs, s.sync, dt, operational, syncWas)} :
        /\ sync' = s.sync /\ rpdo' = r.rpdo /\ vals' = r.vals
        /\ tpdo' = t.tpdo /\ flagged' = t.flagged /\ errs' = t.errs
        /\ RpdoRemembered(s.sync, r.rpdo, dt)
        /\ TpdoRemembered(t.sent, syncWas, dt)
        /\ call' = [dt |-> dt, syncWas |-> syncWas, sent |-> t.sent]
        /\ UNCHANGED <<scenario, nmt, messages, events>>

-----------------------------------------------------------------------------
(* The surroundings *)

Command(state) ==
    /\ nmt' = state
    /\ UNCHANGED <<objects, rpdoGhosts, tpdoGhosts>>

pending == rpdo.CANrxNew # [b \in 0..1 |-> FALSE]

Sync(msg) ==
    /\ sync' = CO_SYNC_receive(sync, msg)
    /\ IF sync'.CANrxToggle = sync.CANrxToggle THEN UNCHANGED <<atSync, syncs, disturbed>>
       ELSE /\ atSync' = latest
            /\ syncs' = 1
            /\ disturbed' = (disturbed \/ (syncs = 1 /\ pending))
    /\ UNCHANGED <<nmt, rpdo, tpdo, flagged, vals, errs, messages, latest, quiet, tpdoGhosts>>

Message(DLC) ==
    /\ rpdo.ident # "zero"
    /\ rpdo' = CO_PDO_receive(rpdo, sync, DLC, messages + 1)
    /\ messages' = messages + 1
    /\ latest' = IF rpdo.valid /\ DLC >= rpdo.dataLength THEN messages + 1 ELSE latest
    /\ UNCHANGED <<nmt, sync, tpdo, flagged, vals, errs, atSync, syncs, disturbed, quiet, tpdoGhosts>>

WriteRpdo ==
    /\ \/ \E w \in Here.r14xx : rpdo' = OD_write_14xx(rpdo, w[1], w[2])
       \/ \E w \in Here.r16xx : rpdo' = OD_write_PDO_mapping(rpdo, w[1], w[2], TRUE).pdo
    /\ disturbed' = (disturbed \/ (rpdo'.synchronous # rpdo.synchronous /\ pending))
    /\ latest' = IF rpdo'.valid THEN latest ELSE 0
    /\ atSync' = IF ~rpdo'.valid THEN 0 ELSE IF rpdo'.synchronous # rpdo.synchronous THEN latest ELSE atSync
    /\ quiet' = IF rpdo'.timeoutTimer = 0 THEN 0 ELSE quiet
    /\ UNCHANGED <<nmt, sync, tpdo, flagged, vals, errs, messages, syncs, tpdoGhosts>>

\* What starts the TPDO afresh is a transmission type.
WriteTpdo ==
    /\ \/ \E w \in Here.t18xx : LET afresh == w[1] = 2 /\ ~isReserved(w[2]) IN
            /\ tpdo' = OD_write_18xx(tpdo, w[1], w[2])
            /\ first' = (first \/ afresh)
            /\ asked' = IF first' \/ w[1] # 5 THEN asked
                        ELSE (asked \ {"timer"}) \cup (IF w[2] # 0 THEN {"timer"} ELSE {})
            /\ cycles' = IF afresh THEN 0 ELSE cycles
            /\ noted' = IF afresh THEN {}
                        ELSE noted \cup (IF w[1] = 3 /\ ~tpdo.valid THEN {"free"} ELSE {})
       \/ \E w \in Here.t1Axx :
            /\ tpdo' = OD_write_PDO_mapping(tpdo, w[1], w[2], FALSE).pdo
            /\ UNCHANGED <<first, asked, cycles, noted>>
    /\ since' = IF first' THEN 0 ELSE since
    /\ UNCHANGED <<nmt, sync, rpdo, flagged, vals, errs, rpdoGhosts>>

WriteSync ==
    /\ \/ \E c \in Here.s1005 : sync' = OD_write_1005(sync, c)
       \/ \E t \in Here.s1006 : sync' = [sync EXCEPT !.period = t]
       \/ \E o \in Here.s1019 : sync' = OD_write_1019(sync, o)
    /\ UNCHANGED <<nmt, rpdo, tpdo, flagged, vals, errs, rpdoGhosts, tpdoGhosts>>

\* The application asks for the TPDO, or for one that has an object.
Request ==
    /\ \/ /\ tpdo' = CO_TPDOsendRequest(tpdo)
          /\ UNCHANGED flagged
          /\ asked' = asked \cup {"request"}
       \/ \E x \in Here.requests :
            /\ flagged' = OD_requestTPDO(flagged, x)
            /\ UNCHANGED tpdo
            /\ asked' = asked \cup {x}
    /\ Here.requests # {}
    /\ UNCHANGED <<nmt, sync, rpdo, vals, errs, rpdoGhosts, first, since, cycles, noted>>

\* Communication reset: everything is set up from the dictionary.
ResetCommunication ==
    /\ Here.reset
    /\ nmt' = "PRE_OPERATIONAL"
    /\ sync' = CO_SYNC_init([producer |-> sync.isProducer, id |-> sync.CAN_ID], sync.period,
                            sync.window, sync.counterOverflowValue)
    /\ rpdo' = CO_RPDO_init(rpdo.od, {}).rpdo
    /\ tpdo' = CO_TPDO_init(tpdo.od, {}).tpdo
    /\ errs' = CO_TPDO_init(tpdo.od, CO_RPDO_init(rpdo.od, {}).errs).errs
    /\ flagged' = {}
    /\ latest' = 0 /\ atSync' = 0 /\ syncs' = 0 /\ disturbed' = FALSE /\ quiet' = 0
    /\ first' = TRUE /\ asked' = DOMAIN Objects /\ since' = 0 /\ cycles' = 0 /\ noted' = {}
    /\ UNCHANGED <<vals, messages>>

Surroundings ==
    \/ \E s \in Here.states \ {nmt} : Command(s)
    \/ \E m \in Here.SYNCs : Sync(m)
    \/ \E d \in Here.DLCs : Message(d)
    \/ WriteRpdo
    \/ WriteTpdo
    \/ WriteSync
    \/ Request
    \/ ResetCommunication

Next == \/ \E dt \in Here.times : Process(dt)
        \/ events < Here.events /\ Surroundings /\ events' = events + 1 /\ call' = NoCall /\ UNCHANGED scenario

Spec == Init /\ [][Next]_vars

-----------------------------------------------------------------------------
(* An RPDO has the effect of one message buffer: a call of CO_process gives *)
(* the mapped objects the last message of good length, with a synchronous   *)
(* RPDO the last before the SYNC that the call acts on, and nothing else    *)
(* (CO_PDO_receive and CO_RPDO_process with their two buffers).  Excepted   *)
(* are messages that were waiting when a second SYNC came before the call   *)
(* or when the transmission type was changed.                               *)
RpdoFollowsSync ==
    [][call'.dt > 0 /\ rpdo.valid /\ operational /\ ~disturbed =>
         LET now == IF ~rpdo.synchronous THEN latest ELSE IF call'.syncWas THEN atSync' ELSE 0 IN
         \A x \in DOMAIN vals :
            vals'[x] = IF now # 0 /\ x \in mappedObjects(rpdo) THEN now ELSE vals[x]]_vars

cycleBegins ==
    IF ~first THEN cycles + 1 = tpdo.transmissionType
    ELSE IF startAwaited THEN sync'.counter = tpdo.syncStartValue
    ELSE cycles = tpdo.transmissionType \div 2

(* A call sends the TPDO when it is due and only then: event-driven when it *)
(* was asked for or the event time is over, not before the inhibit time;    *)
(* acyclic likewise at a SYNC; cyclic at every N-th SYNC, begun in the      *)
(* middle of a cycle or at the start value of the counter; and at once when *)
(* it was set up or its type written.  Writing the inhibit time ends the    *)
(* one that runs.  Excepted is what the flag of an object that is no longer *)
(* mapped asks for (CO_TPDO_process, CO_TPDOsend, OD_write_18xx).           *)
TpdoWhenDue ==
    [][call'.dt > 0 /\ tpdo.valid /\ operational /\ ~staleAsks =>
         call'.sent <=>
           CASE tpdo.transmissionType >= EVENT_LO ->
                  due(call'.dt) /\ (first \/ "free" \in noted \/ since + call'.dt >= tpdo.inhibitTime)
             [] tpdo.transmissionType = SYNC_ACYCLIC -> due(call'.dt) /\ call'.syncWas
             [] OTHER -> call'.syncWas /\ cycleBegins]_vars

soundMapping(pdo, isRPDO) ==
    /\ pdo.mappedObjectsCount = pdo.od.count
    /\ pdo.dataLength = mappedBytes(pdo, pdo.mappedObjectsCount) /\ pdo.dataLength \in 1..MaxSize
    /\ \A i \in 1..pdo.mappedObjectsCount : LET m == pdo.od.maps[i] IN
          /\ pdo.OD_IO[i].obj = m.obj /\ pdo.OD_IO[i].dataOffset = m.len
          /\ m.obj = "dummy" \/ /\ ~m.odd /\ m.len <= Objects[m.obj].dataLength
                                /\ IF isRPDO THEN Objects[m.obj].rpdo ELSE Objects[m.obj].tpdo

(* Read back, the COB-ID is the one in use, but for the default COB-ID      *)
(* written without node-id: it is used as it is and read with it.           *)
readBack(pdo) == pdo.configuredCanId = "base" \/
                 OD_read_PDO_commParam(pdo) = [valid |-> TRUE, id |-> pdo.configuredCanId]

entriesGood(pdo) == \A i \in DOMAIN pdo.od.maps : pdo.OD_IO[i] # erroneous

(* Whatever was written in whichever order, a valid PDO exchanges exactly   *)
(* the objects that the dictionary says, in a frame of their length and     *)
(* under the identifier that is read back, and a communication reset sets   *)
(* it up the same (an entry that was erroneous from the start can prevent   *)
(* that); an RPDO that is not valid gets no messages; and the code's own    *)
(* test of the lengths never fails (OD_write_PDO_mapping, OD_write_14xx,    *)
(* OD_write_18xx, PDO_initMapping).                                         *)
MappingIsSound ==
    /\ rpdo.valid =>
         /\ soundMapping(rpdo, TRUE) /\ readBack(rpdo) /\ rpdo.ident = rpdo.configuredCanId
         /\ entriesGood(rpdo) => CO_RPDO_init(rpdo.od, {}).rpdo.valid
    /\ ~rpdo.valid => rpdo.ident = "zero" /\ ~pending
    /\ tpdo.valid =>
         /\ soundMapping(tpdo, FALSE) /\ readBack(tpdo)
         /\ tpdo.tx = CO_CANtxBufferInit(tpdo.configuredCanId, tpdo.dataLength, tpdo.transmissionType)
         /\ entriesGood(tpdo) => CO_TPDO_init(tpdo.od, {}).tpdo.valid
    /\ "GENERIC_SOFTWARE_ERROR" \notin errs

(* The event timer of an RPDO is the longest time between messages: after   *)
(* it the timeout is reported (CO_RPDO_process).                            *)
TimeoutIsReported ==
    rpdo.timeoutTime > 0 /\ quiet > rpdo.timeoutTime => "RPDO_TIME_OUT" \in errs
=============================================================================

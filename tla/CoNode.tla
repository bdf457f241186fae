------------------------------- MODULE CoNode -------------------------------
(***************************************************************************)
(* A CANopenNode device as CO_process, CANopen.c, runs it: the emergency   *)
(* object, the NMT slave with its heartbeat, and the heartbeat consumer,   *)
(* one after the other in every call, with the messages of the bus, the    *)
(* errors of the application and the writes to the object dictionary in    *)
(* between (the build has a single thread).                                *)
(*                                                                         *)
(* A behaviour is about one scenario, which says what the surroundings do. *)
(***************************************************************************)
EXTENDS CoHBconsumer, FiniteSets

CONSTANTS Scenarios, \* from names to [control, first, cobIds, inhibits, HBtimes,
                     \*   entries, errors, statusBits, flags, commands, peers, written, busy, events]
          Times,     \* how long after the last call CO_process may be called
          MaxAge     \* the ages of heartbeats are counted up to here

\* There is a longest time between two calls.
ASSUME TimesAssumption == /\ Times \subseteq Nat /\ MaxAge \in Nat
                          /\ \E t \in Times : \A u \in Times : u <= t
\* What a scenario gives is of the types of the object dictionary, and the
\* times that peers are monitored with are within MaxAge.  The application
\* has errors of its own: it leaves two of the stack's alone.
ASSUME ScenariosAssumption ==
    \A s \in DOMAIN Scenarios : LET here == Scenarios[s] IN
        /\ here.HBtimes \subseteq Nat /\ here.HBtimes # {} /\ here.first \in Nat
        /\ here.inhibits \subseteq Nat /\ here.inhibits # {}
        /\ here.cobIds \subseteq [valid : BOOLEAN, id : STRING]
        /\ here.errors \subseteq STRING \ {"EMERGENCY_BUFFER_FULL", "HEARTBEAT_CONSUMER"}
        /\ here.statusBits \subseteq SUBSET (STRING \ {"EMERGENCY_BUFFER_FULL"})
        /\ here.flags \subseteq SUBSET STRING /\ here.commands \subseteq NmtCommands
        /\ here.entries \in Seq([nodeId : Nat, time : 0..MaxAge])
        /\ here.written \subseteq [nodeId : Nat, time : 0..MaxAge] /\ here.peers \subseteq Nat

VARIABLES scenario, em, nmt, hb,
          CANerrorStatus, \* of the CAN driver, a set of flags
          lineBusy,       \* the socket takes no message
          quiet, said,    \* of a peer: ticks since its last heartbeat, and its state
          beatAge, told,  \* of this node's heartbeats: ticks since the last, and its state
          changed,        \* the last call of CO_process changed the state
          rewritten,      \* 0x1017 was written since the last call
          overdue,        \* entries that the last two calls found in timeout
          events          \* what the surroundings did so far, at most Here.events

vars == <<scenario, em, nmt, hb, CANerrorStatus, lineBusy, quiet, said, beatAge, told,
          changed, rewritten, overdue, events>>
node == <<em, nmt, hb>>
ghosts == <<quiet, said, beatAge, told, changed, rewritten, overdue>>

Here == Scenarios[scenario]
capped(n) == IF n > MaxAge THEN MaxAge ELSE n

\* CO_CANopenInit, in the order of its calls.
Start(cobId, inhibit, HBtime, nodes, entries) ==
    [em  |-> CO_EM_init(cobId, inhibit),
     nmt |-> CO_NMT_init(Here.control, HBtime, Here.first),
     hb  |-> CO_HBconsumer_init(nodes, entries)]

FirstStart == Start([valid |-> TRUE, id |-> "default"], CHOOSE t \in Here.inhibits : TRUE,
                    CHOOSE t \in Here.HBtimes : TRUE,
                    [i \in DOMAIN Here.entries |-> unmonitored], Here.entries)

Init == /\ scenario \in DOMAIN Scenarios
        /\ em = FirstStart.em /\ nmt = FirstStart.nmt /\ hb = FirstStart.hb
        /\ CANerrorStatus = {} /\ lineBusy = FALSE
        /\ quiet = [p \in Here.peers |-> MaxAge] /\ said = [p \in Here.peers |-> "INITIALIZING"]
        /\ beatAge = 0 /\ told = "none" /\ changed = FALSE /\ rewritten = FALSE /\ overdue = {}
        /\ events = 0

\* After a reset the dictionary still has what was written to it, unless
\* the whole application starts again.
Restart(reset, e, n, h) ==
    CASE reset = "RESET_APP" -> FirstStart
      [] reset = "RESET_COMM" ->
           Start([valid |-> e.producerEnabled, id |-> e.producerCanId], e.inhibitEmTime,
                 n.HBproducerTime, h.monitoredNodes,
                 [i \in DOMAIN h.monitoredNodes |->
                    [nodeId |-> h.monitoredNodes[i].nodeId, time |-> h.monitoredNodes[i].time]])
      [] OTHER -> [em |-> e, nmt |-> n, hb |-> h]

\* CO_CANmodule_process sends what the driver kept.
resent(e) == [e EXCEPT !.CANtxBuff.bufferFull = @ /\ lineBusy]

\* The objects of CO_process, in its order; the emergency object goes by the
\* state before the call, the consumer by the one after it.
Processed(dt) ==
    LET e == CO_EM_process(resent(em), CANerrorStatus, NMTisPreOrOperational(nmt.operatingState),
                           dt, lineBusy)
        n == CO_NMT_process(nmt, e, dt)
        h == CO_HBconsumer_process(hb, e, NMTisPreOrOperational(n.nmt.operatingState), dt)
    IN  [next |-> Restart(n.reset, h[2], n.nmt, h[1]), beat |-> n.beat, reset |-> n.reset]

inTimeout(h) == {i \in DOMAIN h.monitoredNodes : h.monitoredNodes[i].HBstate = "TIMEOUT"}

Process(dt) ==
    \E p \in {Processed(dt)} :
        /\ em' = p.next.em /\ nmt' = p.next.nmt /\ hb' = p.next.hb
        /\ quiet' = [x \in DOMAIN quiet |-> capped(quiet[x] + dt)]
        /\ beatAge' = IF p.beat # "none" \/ nmt.HBproducerTime = 0 THEN 0 ELSE capped(beatAge + dt)
        /\ told' = IF p.beat # "none" THEN p.beat ELSE told
        /\ changed' = (p.next.nmt.operatingState # nmt.operatingState)
        /\ rewritten' = FALSE
        /\ overdue' = inTimeout(hb) \cap inTimeout(p.next.hb)
        /\ UNCHANGED <<scenario, CANerrorStatus, lineBusy, said, events>>

\* An NMT command from the bus, or of this node's own master.
Command(c) ==
    /\ nmt' = CO_NMT_receive(nmt, c)
    /\ UNCHANGED <<scenario, em, hb, CANerrorStatus, lineBusy, ghosts>>

PeerHeartbeat(p, state) ==
    /\ hb' = CO_HBcons_receive(hb, p, state)
    /\ said' = [said EXCEPT ![p] = state]
    /\ quiet' = [quiet EXCEPT ![p] = 0]
    /\ UNCHANGED <<scenario, em, nmt, CANerrorStatus, lineBusy, beatAge, told, changed, rewritten, overdue>>

\* CO_errorReport and CO_errorReset by the application.
ApplicationError(set, bit) ==
    /\ em' = CO_error(em, set, bit, "DEVICE_SPECIFIC")
    /\ UNCHANGED <<scenario, nmt, hb, CANerrorStatus, lineBusy, ghosts>>

CANstatus(flags) ==
    /\ CANerrorStatus' = flags
    /\ UNCHANGED <<scenario, node, lineBusy, ghosts>>

Line == /\ Here.busy /\ lineBusy' = ~lineBusy
        /\ UNCHANGED <<scenario, node, CANerrorStatus, ghosts>>

WriteEmergencyObjects ==
    /\ \/ Here.errors # {} /\ em' = OD_write_1003(em)
       \/ \E c \in Here.cobIds : em' = OD_write_1014(em, c)
       \/ \E t \in Here.inhibits : em' = OD_write_1015(em, t)
       \/ \E b \in Here.statusBits : em' = OD_write_statusBits(em, (em.errorStatusBits \ Here.errors) \cup b)
    /\ UNCHANGED <<scenario, nmt, hb, CANerrorStatus, lineBusy, ghosts>>

Write1016(i, p, t) ==
    /\ hb' = CO_HBconsumer_initEntry(hb, i, p, t)
    /\ UNCHANGED <<scenario, em, nmt, CANerrorStatus, lineBusy, quiet, said, beatAge, told, changed, rewritten>>
    /\ overdue' = overdue \ {i}

Write1017(t) ==
    /\ nmt' = OD_write_1017(nmt, t)
    /\ rewritten' = TRUE
    /\ UNCHANGED <<scenario, em, hb, CANerrorStatus, lineBusy, quiet, said, beatAge, told, changed, overdue>>

Surroundings ==
        \/ \E c \in Here.commands : Command(c)
        \/ \E p \in Here.peers, s \in NmtStates \ {"STOPPED"} : PeerHeartbeat(p, s)
        \/ \E set \in BOOLEAN, b \in Here.errors : ApplicationError(set, b)
        \/ \E f \in Here.flags : CANstatus(f)
        \/ Line
        \/ WriteEmergencyObjects
        \/ \E i \in DOMAIN hb.monitoredNodes, entry \in Here.written : Write1016(i, entry.nodeId, entry.time)
        \/ \E t \in Here.HBtimes : Write1017(t)

Next == \/ \E dt \in Times : Process(dt)
        \/ events < Here.events /\ Surroundings /\ events' = events + 1

Spec == Init /\ [][Next]_vars
-----------------------------------------------------------------------------
MaxTime == CHOOSE t \in Times : \A u \in Times : u <= t
booted == IF "STARTUP_TO_OPERATIONAL" \in nmt.NMTcontrol.flags THEN "OPERATIONAL" ELSE "PRE_OPERATIONAL"

(* Who listens to this node knows its state: with a producer time, no call  *)
(* of CO_process leaves a heartbeat as old as the time behind, and a state  *)
(* is told in the call after the one that entered it, however commands,     *)
(* errors and writes of 0x1017 come in between.  Only the state after the   *)
(* boot-up message waits for the first heartbeat (CO_NMT_process).          *)
HeartbeatsAreTimely ==
    nmt.HBproducerTime # 0 /\ ~rewritten /\ nmt.operatingState # "INITIALIZING" =>
        /\ beatAge < nmt.HBproducerTime
        /\ \/ told = nmt.operatingState \/ changed
           \/ told = "INITIALIZING" /\ nmt.operatingState = booted

(* A silent peer is noticed in time and a live one is never taken for dead, *)
(* although heartbeats are only looked at in CO_process; a peer in timeout  *)
(* is an error that keeps the node from being operational from the next     *)
(* call on, whatever the NMT master commands (CO_HBconsumer_process with    *)
(* CO_error and CO_NMT_process); and when all monitored nodes are said to   *)
(* be operational, the last heartbeat of each one said so.                  *)
DeadPeersAreNoticed ==
    \A i \in DOMAIN hb.monitoredNodes : LET n == hb.monitoredNodes[i] IN
        /\ n.HBstate = "ACTIVE" => quiet[n.nodeId] < n.time + MaxTime
        /\ n.HBstate = "TIMEOUT" =>
             /\ n.CANrxNew \/ quiet[n.nodeId] >= n.time
             /\ CO_isError(em, "HEARTBEAT_CONSUMER")
             /\ ~hb.allMonitoredActive /\ ~hb.allMonitoredOperational
             /\ "ERR_ON_BUSOFF_HB" \in nmt.NMTcontrol.flags /\ i \in overdue
                  => nmt.operatingState # "OPERATIONAL"
        /\ n.HBstate = "ACTIVE" /\ ~n.CANrxNew /\ hb.allMonitoredOperational
             => said[n.nodeId] = "OPERATIONAL"

(* A listener of the emergency messages knows the error conditions, but for *)
(* those whose last change found the queue full or came from a write to the *)
(* status bits, and it is told of every overflow: until the queue was empty *)
(* again BUFFER_FULL is announced, or about to be (CO_error, CO_EM_process).*)
(* Excepted are CAN_BUS_WARNING, which is announced with the code that says *)
(* that an error is over, and reports of bits that do not exist.            *)
EmergenciesTellTheErrors ==
    /\ \A b \in StatusBits \ (em.unsure \cup {"CAN_BUS_WARNING", "WRONG_ERROR_REPORT"}) :
          b \in em.belief <=> b \in em.errorStatusBits
    /\ em.lost => \/ em.fifoOverflow = 1
                  \/ em.fifoOverflow = 2 /\ "EMERGENCY_BUFFER_FULL" \in em.belief

(* 0x1003 gives the messages recorded since it was cleared, newest first,   *)
(* as many as fit, also while some of them are not sent yet (OD_read_1003). *)
HistoryIsTrue ==
    \A k \in 1..fifoSize :
        IF k > Len(em.log) THEN OD_read_1003(em, k).bit = "NO_DATA"
        ELSE \E m \in {OD_read_1003(em, k)} : m.bit = em.log[k].bit /\ m.code = em.log[k].code
=============================================================================

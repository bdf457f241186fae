---------------------------- MODULE CoHBconsumer ----------------------------
(***************************************************************************)
(* The heartbeat consumer of CANopenNode, CO_HBconsumer.c.  hb is a record *)
(* with the fields of CO_HBconsumer_t, its monitoredNodes a sequence.      *)
(* Node id 0 is 0.                                                         *)
(***************************************************************************)
EXTENDS CoNMT

unmonitored == [nodeId |-> 0, NMTstate |-> "INITIALIZING", HBstate |-> "UNCONFIGURED",
                timeoutTimer |-> 0, time |-> 0, CANrxNew |-> FALSE]

\* A node may be monitored once.
duplicate(nodes, idx, nodeId, consumerTime) ==
    /\ consumerTime # 0 /\ nodeId # 0
    /\ \E i \in DOMAIN nodes : i # idx /\ nodes[i].time # 0 /\ nodes[i].nodeId = nodeId

\* Also OD_write_1016, which stores the value unless the entry is refused.
CO_HBconsumer_initEntry(hb, idx, nodeId, consumerTime) ==
    LET used == nodeId # 0 /\ consumerTime # 0 IN
    IF duplicate(hb.monitoredNodes, idx, nodeId, consumerTime) THEN hb
    ELSE [hb EXCEPT !.monitoredNodes[idx] =
            [@ EXCEPT !.nodeId = nodeId, !.time = IF used THEN consumerTime ELSE 0,
                      !.NMTstate = "UNKNOWN", !.CANrxNew = FALSE,
                      !.HBstate = IF used THEN "UNKNOWN" ELSE "UNCONFIGURED"]]

\* entries: what the object dictionary has at 0x1016; the array of nodes is
\* not cleared by a communication reset.
CO_HBconsumer_init(nodes, entries) ==
    LET start == [monitoredNodes |-> nodes, allMonitoredActive |-> FALSE,
                  allMonitoredOperational |-> FALSE, NMTisPreOrOperationalPrev |-> FALSE]
        after[i \in 0..Len(entries)] ==
            IF i = 0 THEN start
            ELSE CO_HBconsumer_initEntry(after[i - 1], i, entries[i].nodeId, entries[i].time)
    IN  after[Len(entries)]

\* The driver gives a message to the first entry whose COB-ID it has; an
\* unused entry listens to COB-ID 0, which no heartbeat has.
CO_HBcons_receive(hb, nodeId, state) ==
    LET listens(i) == hb.monitoredNodes[i].HBstate # "UNCONFIGURED" /\ hb.monitoredNodes[i].nodeId = nodeId
    IN  [hb EXCEPT !.monitoredNodes = [i \in DOMAIN @ |->
            IF listens(i) /\ \A j \in 1..(i - 1) : ~listens(j)
            THEN [@[i] EXCEPT !.NMTstate = state, !.CANrxNew = TRUE] ELSE @[i]]]

\* A heartbeat starts the timer anew.
heard(node) == [node EXCEPT !.HBstate = "ACTIVE", !.timeoutTimer = 0, !.CANrxNew = FALSE]

\* The new message of a node: a boot-up message ends the monitoring until
\* the next heartbeat.
on_message(node) ==
    IF ~node.CANrxNew THEN node
    ELSE IF node.NMTstate = "INITIALIZING"
    THEN [node EXCEPT !.HBstate = "UNKNOWN", !.CANrxNew = FALSE]
    ELSE heard(node)

expired(timer, time) == timer >= time

on_time(node, dt) ==
    LET timer == node.timeoutTimer + dt IN
    IF node.HBstate # "ACTIVE" THEN node
    ELSE IF expired(timer, node.time)
    THEN [node EXCEPT !.timeoutTimer = timer, !.NMTstate = "UNKNOWN", !.HBstate = "TIMEOUT"]
    ELSE [node EXCEPT !.timeoutTimer = timer]

\* One node in the loop; a heartbeat makes the time of this call count for
\* nothing.
monitor(node, dt) ==
    LET starts == node.CANrxNew /\ node.NMTstate # "INITIALIZING"
    IN  IF node.HBstate = "UNCONFIGURED" THEN node
        ELSE on_time(on_message(node), IF starts THEN 0 ELSE dt)

\* The errors that this is: a node that was active has started again, or is
\* silent for too long.
report(node, em, dt) ==
    IF node.HBstate = "ACTIVE" /\ node.CANrxNew /\ node.NMTstate = "INITIALIZING"
    THEN CO_error(em, TRUE, "HB_CONSUMER_REMOTE_RESET", "HEARTBEAT")
    ELSE IF on_message(node).HBstate = "ACTIVE" /\ monitor(node, dt).HBstate = "TIMEOUT"
    THEN CO_error(em, TRUE, "HEARTBEAT_CONSUMER", "HEARTBEAT")
    ELSE em

\* The loop over the nodes reports their errors one after the other.
reported(nodes, em, dt) ==
    LET after[i \in 0..Len(nodes)] == IF i = 0 THEN em ELSE report(nodes[i], after[i - 1], dt)
    IN  after[Len(nodes)]

\* The node enters or leaves the states in which it monitors others.
forget(node) ==
    [node EXCEPT !.NMTstate = "UNKNOWN", !.CANrxNew = FALSE,
                 !.HBstate = IF @ = "UNCONFIGURED" THEN @ ELSE "UNKNOWN"]

\* CO_HBconsumer_process: <<hb, em>>.
conclude(hb, em, nodes, active, operational, now) ==
    <<[hb EXCEPT !.monitoredNodes = nodes, !.allMonitoredActive = active,
                 !.allMonitoredOperational = operational, !.NMTisPreOrOperationalPrev = now],
      IF ~hb.allMonitoredActive /\ active
      THEN CO_error(CO_error(em, FALSE, "HEARTBEAT_CONSUMER", "NO_ERROR"),
                    FALSE, "HB_CONSUMER_REMOTE_RESET", "NO_ERROR")
      ELSE em>>

CO_HBconsumer_process(hb, em, now, dt) ==
    IF now /\ hb.NMTisPreOrOperationalPrev
    THEN LET nodes == [i \in DOMAIN hb.monitoredNodes |-> monitor(hb.monitoredNodes[i], dt)]
             used  == {i \in DOMAIN nodes : nodes[i].HBstate # "UNCONFIGURED"}
         IN  conclude(hb, reported(hb.monitoredNodes, em, dt), nodes,
                      \A i \in used : nodes[i].HBstate = "ACTIVE",
                      \A i \in used : nodes[i].NMTstate = "OPERATIONAL", now)
    ELSE IF now \/ hb.NMTisPreOrOperationalPrev
    THEN conclude(hb, em, [i \in DOMAIN hb.monitoredNodes |-> forget(hb.monitoredNodes[i])],
                  FALSE, FALSE, now)
    ELSE conclude(hb, em, hb.monitoredNodes, TRUE, TRUE, now)
=============================================================================

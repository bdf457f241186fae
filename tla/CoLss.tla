------------------------------- MODULE CoLss --------------------------------
(***************************************************************************)
(* Layer setting services: a gateway with the LSS master, whose commands   *)
(* CO_gateway_ascii.c works off one at a time, and the slaves on its bus.  *)
(*                                                                         *)
(* A message of the master reaches all slaves at once, their answers come  *)
(* back in order.  A command is [name, and what it is given].  Commands    *)
(* are given as CO_LSSmaster.h asks for: select, configure or inquire,     *)
(* deselect.  A behaviour is about one scenario.                           *)
(***************************************************************************)
EXTENDS CoLssMaster

CONSTANT Scenarios  \* from names to [buses, commands, length, rates, faults, events]

VARIABLES scenario,
          initial,        \* the slaves as they were: [address, id]
          master, slaves,
          gtwa,           \* [command, lssSubState, lssNID, lssNodeCount, value]
          last,           \* how the last command ended: [command, ret, value, faults]
          announced,      \* node-ids said to be assigned, each with the address found
          selection,      \* something was selected since everything was deselected
          given,          \* how many commands were given
          down, up,       \* messages on the bus
          faults          \* messages lost and waits cut short so far

vars == <<scenario, initial, master, slaves, gtwa, last, announced, selection, given, down, up, faults>>

Here == Scenarios[scenario]
Slaves == DOMAIN initial
NoAddress == [p \in Parts |-> 0]
FullScan == [scan |-> [p \in Parts |-> "SCAN"], match |-> NoAddress, found |-> NoAddress]
Idle == [command |-> [name |-> "idle"], lssSubState |-> 0, lssNID |-> 0, lssNodeCount |-> 0, value |-> 0]

Init == /\ scenario \in DOMAIN Scenarios
        /\ initial \in Here.buses
        /\ master = CO_LSSmaster_init
        /\ slaves = [s \in Slaves |-> CO_LSSslave_init(initial[s].address, initial[s].id, 0)]
        /\ gtwa = Idle
        /\ last = [command |-> Idle.command, ret |-> "OK", value |-> 0, faults |-> 0]
        /\ announced = {} /\ selection = FALSE /\ given = 0
        /\ down = <<>> /\ up = <<>> /\ faults = 0

-----------------------------------------------------------------------------
(* The gateway.  A step gives [g, m, send, done, ret, says]: says is what   *)
(* it announces.                                                            *)

Step(g, m, send, done, ret, says) == [g |-> g, m |-> m, send |-> send, done |-> done, ret |-> ret, says |-> says]

\* A command that is a single function of the master.
single(g, r) == Step([g EXCEPT !.value = r.value], r.m, r.send, r.ret # "WAIT_SLAVE", r.ret, {})

\* After the deselection: the next node-id, while there is one.
allnodes_next(g, r, send) ==
    LET says == {[nid |-> g.lssNID, found |-> g.value.found, scan |-> g.value.scan]}
        counted == [g EXCEPT !.lssNodeCount = @ + 1]
    IN  IF g.lssNID < 127 THEN Step([counted EXCEPT !.lssNID = @ + 1, !.lssSubState = 0], r.m, send \o r.send, FALSE, r.ret, says)
        ELSE Step(counted, r.m, send \o r.send, TRUE, "NOT_ALL", says)

allnodes_deselect(g, m, send) == allnodes_next(g, CO_LSSmaster_swStateDeselect(m), send)

\* Sub-states 1 and 2 wait for an answer, and pass on in the same call.
allnodes_wait(g, r, send) == Step(g, r.m, send \o r.send, r.ret # "WAIT_SLAVE", r.ret, {})

allnodes_store(g, m, send, dt) ==
    LET r == CO_LSSmaster_configureStore(m, dt)
        h == [g EXCEPT !.lssSubState = 2]
    IN  IF r.ret = "OK" THEN allnodes_deselect(h, r.m, send \o r.send) ELSE allnodes_wait(h, r, send)

allnodes_node(g, m, dt) ==
    LET r == CO_LSSmaster_configureNodeId(m, dt, g.lssNID) IN
    CASE r.ret # "OK" -> allnodes_wait(g, r, <<>>)
      [] r.ret = "OK" /\ g.command.store -> allnodes_store(g, r.m, r.send, dt)
      [] OTHER -> allnodes_deselect(g, r.m, r.send)

\* No answer is the end of the search.
allnodes_scan(g, m, dt) ==
    LET r == CO_LSSmaster_IdentifyFastscan(m, dt, g.value)
        scan == [g EXCEPT !.value = r.value]
    IN  CASE r.ret = "WAIT_SLAVE"    -> Step(scan, r.m, r.send, FALSE, r.ret, {})
          [] r.ret = "SCAN_FINISHED" -> allnodes_node([scan EXCEPT !.lssSubState = 1], r.m, dt)
          [] r.ret = "SCAN_NOACK"    -> Step(scan, r.m, r.send, TRUE, "FOUND", {})
          [] OTHER                   -> Step(scan, r.m, r.send, TRUE, r.ret, {})

allnodes(g, m, dt) ==
    CASE g.lssSubState = 0 -> allnodes_scan(g, m, dt)
      [] g.lssSubState = 1 -> allnodes_node(g, m, dt)
      [] g.lssSubState = 2 -> allnodes_store(g, m, <<>>, dt)

CO_GTWA_process(g, m, dt) ==
    LET c == g.command IN
    CASE c.name = "lss_switch_glob"  -> single(g, IF c.on THEN CO_LSSmaster_swStateSelect(m, dt, TRUE, NoAddress)
                                                  ELSE CO_LSSmaster_swStateDeselect(m))
      [] c.name = "lss_switch_sel"   -> single(g, CO_LSSmaster_swStateSelect(m, dt, FALSE, c.address))
      [] c.name = "lss_set_node"     -> single(g, CO_LSSmaster_configureNodeId(m, dt, c.nid))
      [] c.name = "lss_conf_bitrate" -> single(g, CO_LSSmaster_configureBitTiming(m, dt, c.rate))
      [] c.name = "lss_activate_bitrate" -> single(g, CO_LSSmaster_ActivateBit(m))
      [] c.name = "lss_store"        -> single(g, CO_LSSmaster_configureStore(m, dt))
      [] c.name = "lss_inquire"      -> single(g, CO_LSSmaster_Inquire(m, dt, c.sub, g.value))
      [] c.name = "lss_inquire_addr" -> single(g, CO_LSSmaster_InquireLssAddress(m, dt, g.value))
      [] c.name = "lss_fastscan"     -> single(g, CO_LSSmaster_IdentifyFastscan(m, dt, g.value))
      [] c.name = "lss_allnodes"     -> allnodes(g, m, dt)

\* What the output parameter holds when a command starts.
started(c) ==
    [Idle EXCEPT !.command = c,
                 !.lssNID = IF c.name = "lss_allnodes" THEN c.nid ELSE 0,
                 !.value = CASE c.name = "lss_allnodes" -> c.fs
                             [] c.name = "lss_fastscan" -> FullScan
                             [] c.name = "lss_inquire_addr" -> NoAddress
                             [] OTHER -> 0]

selects(c) == c.name \in {"lss_switch_sel", "lss_fastscan", "lss_allnodes"} \/ (c.name = "lss_switch_glob" /\ c.on)
deselects(c) == c.name = "lss_switch_glob" /\ ~c.on

settled == down = <<>> /\ up = <<>> /\ \A s \in Slaves : ~slaves[s].sendResponse

\* A step of the gateway is taken.
Outcome(r) ==
    /\ master' = r.m
    /\ down' = down \o r.send
    /\ announced' = announced \cup r.says
    /\ gtwa' = IF r.done THEN Idle ELSE r.g
    /\ last' = IF r.done THEN [command |-> r.g.command, ret |-> r.ret, faults |-> faults',
                               value |-> IF r.g.command.name = "lss_allnodes" THEN r.g.lssNodeCount ELSE r.g.value]
               ELSE last

\* A message that is not confirmed is sent at once.  The bus is quiet: a
\* slave that still has a message to work off drops the next one, the
\* deselection too.
Start(c) ==
    /\ gtwa.command.name = "idle" /\ settled /\ given < Here.length
    /\ IF selects(c) THEN ~selection ELSE selection
    /\ UNCHANGED <<scenario, initial, slaves, up, faults>>
    /\ given' = given + 1
    /\ selection' = ~deselects(c)
    /\ IF deselects(c) \/ c.name = "lss_activate_bitrate" THEN Outcome(CO_GTWA_process(started(c), master, 0))
       ELSE gtwa' = started(c) /\ UNCHANGED <<master, last, announced, down>>

\* In time, the master has all the answers before it stops waiting.
Process(dt) ==
    /\ gtwa.command.name # "idle"
    /\ \/ ~timed_out(master, dt) \/ settled \/ master.command = "WAITING"
       \/ "late" \in Here.faults /\ faults < Here.events
    /\ faults' = IF timed_out(master, dt) /\ ~settled /\ master.command # "WAITING" THEN faults + 1 ELSE faults
    /\ \E r \in {CO_GTWA_process(gtwa, master, dt)} : Outcome(r)
    /\ UNCHANGED <<scenario, initial, slaves, selection, given, up>>

-----------------------------------------------------------------------------
(* The slaves and the bus *)

\* After a reset of the communication the pending node-id is the active one.
ProcessSlave(s) ==
    /\ slaves[s].sendResponse
    /\ \E saved \in 0..2 : \E r \in {CO_LSSslave_process(slaves[s], Here.rates, saved)} :
         /\ slaves' = [slaves EXCEPT ![s] = IF ~r.reset THEN r.slave
                          ELSE CO_LSSslave_init(@.lssAddress, r.slave.pendingNodeID, r.slave.pendingBitRate)]
         /\ up' = up \o r.reply
    /\ UNCHANGED <<scenario, initial, master, gtwa, last, announced, selection, given, down, faults>>

answer(r) == IF \A s \in DOMAIN r : r[s].reply = <<>> THEN <<>> ELSE r[CHOOSE s \in DOMAIN r : r[s].reply # <<>>].reply

\* missed: the slaves that do not get the message.  Answers given at once
\* are the same frame.
ToSlaves(missed) ==
    /\ down # <<>>
    /\ missed # {} => faults < Here.events
    /\ \E r \in {[s \in Slaves \ missed |-> CO_LSSslave_receive(slaves[s], Head(down))]} :
         /\ slaves' = [s \in Slaves |-> IF s \in missed THEN slaves[s] ELSE r[s].slave]
         /\ up' = up \o answer(r)
    /\ down' = Tail(down)
    /\ faults' = IF missed = {} THEN faults ELSE faults + 1
    /\ UNCHANGED <<scenario, initial, master, gtwa, last, announced, selection, given>>

ToMaster(lost) ==
    /\ up # <<>>
    /\ lost => "answer" \in Here.faults /\ faults < Here.events
    /\ master' = IF lost THEN master ELSE CO_LSSmaster_receive(master, Head(up))
    /\ up' = Tail(up)
    /\ faults' = IF lost THEN faults + 1 ELSE faults
    /\ UNCHANGED <<scenario, initial, slaves, gtwa, last, announced, selection, given, down>>

\* The deselection is not lost: a slave left in configuration would answer
\* the next search and be given the next node-id.
Missed == {{}} \cup (IF "message" \in Here.faults /\ down # <<>> /\ Head(down).cs # "SWITCH_GLOBAL" THEN {Slaves} ELSE {})

Next == \/ \E c \in Here.commands : Start(c)
        \/ \E dt \in {1, Timeout} : Process(dt)
        \/ \E s \in Slaves : ProcessSlave(s)
        \/ \E missed \in Missed : ToSlaves(missed)
        \/ \E lost \in BOOLEAN : ToMaster(lost)

Spec == Init /\ [][Next]_vars

-----------------------------------------------------------------------------
(* What it should do *)

scannedParts(fs) == {p \in Parts : fs.scan[p] # "SKIP"}
Agree(a, b, parts) == \A p \in parts : a[p] = b[p]
Before(a, b) == \E p \in DOMAIN a : a[p] < b[p] /\ \A q \in DOMAIN a : q < p => a[q] = b[q]
configuring == {s \in Slaves : slaves[s].lssState = "CONFIGURATION"}

\* Slaves are told apart by what is not skipped.
AllnodesIsRight(c) ==
    LET parts == scannedParts(c.fs)
        seen(s) == [p \in parts |-> initial[s].address[p]]
        all == {s \in Slaves : initial[s].id = UNASSIGNED /\
                                Agree(initial[s].address, c.fs.match, {p \in Parts : c.fs.scan[p] = "MATCH"})}
        rank(s) == Cardinality({t \in all : Before(seen(t), seen(s))})
    IN  /\ last.value = Cardinality(all)
        /\ \A s \in Slaves : slaves[s].pendingNodeID = IF s \in all THEN c.nid + rank(s) ELSE initial[s].id

FastscanIsRight ==
    IF \A s \in Slaves : ~scanned(slaves[s]) THEN last.ret = "SCAN_NOACK" /\ configuring = {}
    ELSE \E s \in Slaves : /\ last.ret = "SCAN_FINISHED" /\ last.value.found = initial[s].address
                           /\ configuring = {s} /\ scanned(slaves[s])

SelectionIsRight(c) ==
    /\ configuring = {s \in Slaves : initial[s].address = c.address}
    /\ last.ret = IF configuring = {} THEN "TIMEOUT" ELSE "OK"

InquiryIsRight ==
    \A s \in Slaves : configuring = {s} => last.ret = "OK" /\ last.value = initial[s].address

\* Node-ids are given by searches only.
searched == \A c \in Here.commands : c.name = "lss_allnodes"

(* A search that ends without a fault has given every slave that it is      *)
(* about a node-id, consecutive in the order of the addresses, and no other *)
(* slave ("All nodes that match the given criteria are assigned a node ID   *)
(* beginning with nodeId", CO_gateway_ascii.c:1360); a fastscan and a       *)
(* selection leave the slaves with that address, and no other, in           *)
(* configuration; an inquiry gives the address of the selected slave.       *)
(* With messages or answers lost or late no two slaves get the same node-id *)
(* from a search, and a node-id said to be assigned is pending in the slave *)
(* with that address (CO_LSSmaster_IdentifyFastscan, CO_LSSslave_receive).  *)
NodeIdsAreAssigned ==
    /\ searched => \A s, t \in Slaves : s # t /\ slaves[s].pendingNodeID = slaves[t].pendingNodeID
                                        => slaves[s].pendingNodeID = UNASSIGNED
    /\ \A x \in announced : \E s \in Slaves : /\ Agree(initial[s].address, x.found, scannedParts(x))
                                               /\ slaves[s].pendingNodeID = x.nid
    /\ settled /\ last.faults = 0 /\ gtwa = Idle =>
         CASE last.command.name = "lss_allnodes" /\ last.ret = "FOUND" -> AllnodesIsRight(last.command)
           [] last.command.name = "lss_fastscan" -> FastscanIsRight
           [] last.command.name = "lss_switch_sel" -> SelectionIsRight(last.command)
           [] last.command.name = "lss_inquire_addr" -> InquiryIsRight
           [] OTHER -> TRUE
=============================================================================

----------------------------- MODULE CoLssSlave -----------------------------
(***************************************************************************)
(* A slave of the layer setting services, CO_LSSslave.c: switched to       *)
(* configuration by its address, by a fastscan or with all others, it is   *)
(* inquired and given a node-id and a bit rate.                            *)
(*                                                                         *)
(* An address has four parts of Width bits.  A message of the master is    *)
(* [cs, val, bit, sub, next]; sub is the part that it is about.  The field *)
(* service stands for the code's service and CANdata.                      *)
(***************************************************************************)
EXTENDS Integers

CONSTANT Width  \* 32 in the code

Parts == 0..3   \* vendor, product, revision, serial
SERIAL == 3
UNASSIGNED == 255
CONFIRM == 128

LssMessage(cs, val, sub) == [cs |-> cs, val |-> val, bit |-> 0, sub |-> sub, next |-> 0]
LssReply(cs, val) == [cs |-> cs, val |-> val]

CO_LSS_NODE_ID_VALID(nid) == nid \in 1..127 \cup {UNASSIGNED}

CO_LSSslave_init(address, pendingNodeID, pendingBitRate) ==
    [lssAddress |-> address, lssState |-> "WAITING", lssSelect |-> [p \in Parts |-> 0], fastscanPos |-> 0,
     service |-> LssMessage("none", 0, 0), sendResponse |-> FALSE,
     pendingNodeID |-> pendingNodeID, activeNodeID |-> pendingNodeID, pendingBitRate |-> pendingBitRate]

-----------------------------------------------------------------------------
(* Reception: the slave then, and what it answers at once *)

received_only(slave) == [slave |-> slave, reply |-> <<>>]
requested(slave, msg) == received_only([slave EXCEPT !.service = msg, !.sendResponse = TRUE])
acknowledged(slave) == [slave |-> slave, reply |-> <<LssReply("IDENT_SLAVE", 0)>>]

\* A node-id that was configured takes effect.
renamed(slave) == /\ slave.lssState = "CONFIGURATION"
                  /\ slave.activeNodeID = UNASSIGNED /\ slave.pendingNodeID # UNASSIGNED

switch_global(slave, msg) ==
    LET waiting == [slave EXCEPT !.lssState = "WAITING", !.lssSelect = [p \in Parts |-> 0]] IN
    IF msg.val = "CONFIGURATION" THEN received_only([slave EXCEPT !.lssState = "CONFIGURATION"])
    ELSE IF renamed(slave) THEN requested(waiting, msg) ELSE received_only(waiting)

switch_selective(slave, msg) ==
    LET told == [slave EXCEPT !.lssSelect[msg.sub] = msg.val] IN
    IF msg.sub = SERIAL /\ told.lssSelect = slave.lssAddress
    THEN requested([told EXCEPT !.lssState = "CONFIGURATION"], msg) ELSE received_only(told)

scanned(slave) == slave.pendingNodeID = UNASSIGNED /\ slave.activeNodeID = UNASSIGNED

\* Mutant: the part that the scan is at is not heeded.
fastscan_match_anywhere(slave, msg) ==
    slave.lssAddress[msg.sub] \div 2^msg.bit = msg.val \div 2^msg.bit

\* The part agrees down to the bit that is checked.
fastscan_match(slave, msg) ==
    /\ slave.fastscanPos = msg.sub
    /\ slave.lssAddress[msg.sub] \div 2^msg.bit = msg.val \div 2^msg.bit

fastscan(slave, msg) ==
    IF ~scanned(slave) THEN received_only(slave)
    ELSE IF msg.bit = CONFIRM THEN acknowledged([slave EXCEPT !.fastscanPos = 0])
    ELSE IF fastscan_match(slave, msg)
    THEN acknowledged([slave EXCEPT !.fastscanPos = msg.next,
                                    !.lssState = IF msg.bit = 0 /\ msg.next < msg.sub THEN "CONFIGURATION" ELSE @])
    ELSE received_only(slave)

\* In configuration every other message is a service, known or not.
CO_LSSslave_receive(slave, msg) ==
    IF slave.sendResponse THEN received_only(slave)
    ELSE IF msg.cs = "SWITCH_GLOBAL" THEN switch_global(slave, msg)
    ELSE IF slave.lssState = "CONFIGURATION" THEN requested(slave, msg)
    ELSE CASE msg.cs = "SWITCH_SEL" -> switch_selective(slave, msg)
           [] msg.cs = "FASTSCAN"   -> fastscan(slave, msg)
           [] OTHER                 -> received_only(slave)

-----------------------------------------------------------------------------
(* Processing: the slave then, its answer, and whether the communication is *)
(* to be reset.  rates: the bit rates that the device supports, none when   *)
(* it has no function to check them.  saved: what became of a store, 0 done,*)
(* 1 the device has no function for it, 2 the function failed.              *)

processed(slave, reply) == [slave |-> [slave EXCEPT !.sendResponse = FALSE], reply |-> reply, reset |-> FALSE]

configure_node_id(slave) ==
    IF CO_LSS_NODE_ID_VALID(slave.service.val)
    THEN processed([slave EXCEPT !.pendingNodeID = slave.service.val], <<LssReply("CFG_NODE_ID", 0)>>)
    ELSE processed(slave, <<LssReply("CFG_NODE_ID", 1)>>)

configure_bit_timing(slave, rates) ==
    IF rates = {} THEN processed(slave, <<>>)
    ELSE IF slave.service.val \in rates
    THEN processed([slave EXCEPT !.pendingBitRate = slave.service.val], <<LssReply("CFG_BIT_TIMING", 0)>>)
    ELSE processed(slave, <<LssReply("CFG_BIT_TIMING", 255)>>)

\* The answer repeats the command specifier, one for each part and one for
\* the node-id.
inquireCs == [p \in 0..4 |-> <<"INQUIRE_VENDOR", "INQUIRE_PRODUCT", "INQUIRE_REV", "INQUIRE_SERIAL", "INQUIRE_NODE_ID">>[p + 1]]
inquired(slave) == IF slave.service.sub \in Parts THEN slave.lssAddress[slave.service.sub] ELSE slave.activeNodeID

CO_LSSslave_process(slave, rates, saved) ==
    LET cs == slave.service.cs IN
    CASE cs = "SWITCH_GLOBAL"  -> [processed(slave, <<>>) EXCEPT !.reset = TRUE]
      [] cs = "SWITCH_SEL"     -> processed(slave, IF slave.service.sub = SERIAL THEN <<LssReply("SEL", 0)>> ELSE <<>>)
      [] cs = "CFG_NODE_ID"    -> configure_node_id(slave)
      [] cs = "CFG_BIT_TIMING" -> configure_bit_timing(slave, rates)
      [] cs = "CFG_STORE"      -> processed(slave, <<LssReply("CFG_STORE", saved)>>)
      [] cs = "INQUIRE"        -> processed(slave, <<LssReply(inquireCs[slave.service.sub], inquired(slave))>>)
      [] cs = "FASTSCAN"       -> processed(slave, <<LssReply("IDENT_SLAVE", 0)>>)
      [] OTHER                 -> processed(slave, <<>>)
=============================================================================

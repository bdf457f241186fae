----------------------------- MODULE CoSrdoPair -----------------------------
(***************************************************************************)
(* Two CANopenNode devices that share a safety-relevant data object: the   *)
(* producer of CO_SRDO.c and its consumer, each with its own main loop,    *)
(* and the bus between them.                                               *)
(*                                                                         *)
(* Time passes in ticks; a node takes note of it when it next calls        *)
(* CO_process_SRDO, at the latest after Pair.call ticks; Pair.wire frames  *)
(* are on the bus at most.  A behaviour is about one pair, which says what *)
(* else happens.                                                           *)
(***************************************************************************)
EXTENDS CoSrdo, Sequences

CONSTANTS Pairs,      \* from names to [tx, rx, start, values, faults, writes, commands,
                      \*   call, wire, events]
          MaxDataAge  \* ages are counted up to here

Parameters == [valid : BOOLEAN, dir : Nat, cycle : Nat, validation : Nat, cob : STRING, count : Nat, map : STRING,
               signature : [dir : Nat, cycle : Nat, validation : Nat, cob : STRING, count : Nat, map : STRING]]
Broken == {8, 9}  \* data that a fault on the bus makes

ASSUME TicksAssumption == MinDelay \in Nat /\ FirstDelay \in Nat /\ MaxDataAge \in Nat
\* One node is the producer and the other one the consumer, and no SDO client
\* makes a producer of it.  The values of the application are neither the one
\* that the consumer starts with nor what a fault makes.
ASSUME PairsAssumption ==
    \A p \in DOMAIN Pairs : LET this == Pairs[p] IN
        /\ this.tx \in Parameters /\ this.tx.dir \in {DELETED, TX}
        /\ this.rx \subseteq Parameters /\ \A od \in this.rx : od.dir # TX
        /\ this.values \subseteq Nat \ (Broken \cup {0}) /\ this.call \in Nat
        /\ this.writes \subseteq
              ({"13FE"} \X BOOLEAN) \cup ({"13FF"} \X {"now", "other"})
              \cup ({"comm"} \X {"dir"} \X (Nat \ {TX})) \cup ({"comm"} \X {"cycle", "validation"} \X Nat)
              \cup ({"comm"} \X {"cob"} \X STRING)
              \cup ({"map"} \X {"count"} \X Nat) \cup ({"map"} \X {"map"} \X STRING)

VARIABLES pair, tx, rx,
          running,        \* the NMT state of either node
          elapsed,        \* since the last call of either node
          unsent,         \* frames that wait in the driver of the producer
          wire,           \* frames on the bus, in order
          rxAge, valAge,  \* since the normal frame of the buffer, of the value, was taken
          failed,         \* the consumer met an error since it became operational
          incidents       \* what the surroundings did so far, at most Pair.events

pairVars == <<pair, tx, rx, running, elapsed, unsent, wire, rxAge, valAge, failed, incidents>>

Pair == Pairs[pair]
Nodes == {"tx", "rx"}

PairInit == /\ pair \in DOMAIN Pairs
            /\ tx = CO_SRDO_init(Pair.tx, [plain |-> 1, inverted |-> 1], FALSE)
            /\ \E od \in Pair.rx : rx = CO_SRDO_init(od, [plain |-> 0, inverted |-> 0], FALSE)
            /\ running = [node \in Nodes |-> node \in Pair.start]
            /\ elapsed = [node \in Nodes |-> 0]
            /\ unsent = {} /\ wire = <<>>
            /\ rxAge = 0 /\ valAge = 0 /\ failed = FALSE /\ incidents = 0

established == rx.srdo.internalState = "communicationEstablished"
older(age) == IF age < MaxDataAge THEN age + 1 ELSE age

-----------------------------------------------------------------------------
(* The main loops *)

Tick == /\ \A node \in Nodes : elapsed[node] < Pair.call
        /\ elapsed' = [node \in Nodes |-> elapsed[node] + 1]
        /\ rxAge'  = IF rx.srdo.CANrxNew[0] THEN older(rxAge) ELSE 0
        /\ valAge' = IF established THEN older(valAge) ELSE 0
        /\ UNCHANGED <<pair, tx, rx, running, unsent, wire, failed, incidents>>

FrameOf(node, kind) == [ident |-> node.srdo.ident[TX], inverted |-> kind = "inverted",
                        DLC |-> node.srdo.dataLength, data |-> node.srdo.CANtxData]

\* The buffers of the driver are set up again with the configuration.
unsentAfter(nowOperational) == IF nowOperational /\ ~tx.previous THEN {} ELSE unsent

\* CO_CANsend takes the frame, keeps it for later, or fails.
ProcessTx(outcome) ==
    \E r \in {CO_process_SRDO(tx, elapsed["tx"], running["tx"], outcome = "taken")} :
        /\ outcome = "taken" \/ r.frame # "none"
        /\ outcome = "taken" /\ r.frame # "none" => Len(wire) < Pair.wire
        /\ tx' = r.node
        /\ wire' = IF outcome = "taken" /\ r.frame # "none" THEN Append(wire, FrameOf(r.node, r.frame)) ELSE wire
        /\ unsent' = unsentAfter(running["tx"]) \cup (IF outcome = "busy" THEN {r.frame} ELSE {})
        /\ elapsed' = [elapsed EXCEPT !["tx"] = 0]
        /\ UNCHANGED <<pair, rx, running, rxAge, valAge, failed>>

\* The data of the value is as old as the normal frame that it came with.
valueAge(before, after) ==
    IF after.srdo.internalState # "communicationEstablished" THEN 0
    ELSE IF before.srdo.CANrxNew[1] /\ ~after.srdo.CANrxNew[1] THEN rxAge ELSE valAge

ProcessRx ==
    \E r \in {CO_process_SRDO(rx, elapsed["rx"], running["rx"], TRUE)} :
        /\ rx' = r.node
        /\ rxAge' = IF r.node.srdo.CANrxNew[0] THEN rxAge ELSE 0
        /\ valAge' = valueAge(rx, r.node)
        /\ failed' = (running["rx"] /\ (failed \/ r.node.srdo.internalState \in errorStates))
        /\ elapsed' = [elapsed EXCEPT !["rx"] = 0]
        /\ UNCHANGED <<pair, tx, running, unsent, wire, incidents>>

\* The driver sends a frame that it kept, the normal one first.
CO_CANmodule_process ==
    \E kind \in unsent :
        /\ kind = "inverted" => "normal" \notin unsent
        /\ Len(wire) < Pair.wire
        /\ wire' = Append(wire, FrameOf(tx, kind))
        /\ unsent' = unsent \ {kind}
        /\ UNCHANGED <<pair, tx, rx, running, elapsed, rxAge, valAge, failed, incidents>>

-----------------------------------------------------------------------------
(* The bus *)

received(frame) == [rx EXCEPT !.srdo = CO_SRDO_receive(@, frame)]

\* A normal frame that is taken is new.
ageAfter(frame) == IF /\ ~frame.inverted /\ frame.ident = rx.srdo.ident[RX]
                      /\ frame.DLC >= rx.srdo.dataLength /\ wants_normal(rx.srdo)
                   THEN 0 ELSE rxAge

Deliver ==
    /\ wire # <<>>
    /\ rx' = received(Head(wire)) /\ rxAge' = ageAfter(Head(wire))
    /\ wire' = Tail(wire)
    /\ UNCHANGED <<pair, tx, running, elapsed, unsent, valAge, failed, incidents>>

faulty(fault, frame) ==
    CASE fault = "broken" -> [frame EXCEPT !.data = IF frame.inverted THEN 8 ELSE 9]
      [] fault = "short"  -> [frame EXCEPT !.DLC = 0]
      [] fault = "again"  -> frame

Fault(fault) ==
    /\ wire # <<>>
    /\ IF fault = "lost" THEN UNCHANGED <<rx, rxAge>>
       ELSE \E frame \in {faulty(fault, Head(wire))} : rx' = received(frame) /\ rxAge' = ageAfter(frame)
    /\ wire' = IF fault = "again" THEN wire ELSE Tail(wire)
    /\ UNCHANGED <<tx, running, elapsed, unsent, valAge, failed>>

-----------------------------------------------------------------------------
(* The surroundings *)

\* The application writes the plain and the inverted object one by one.
Change(value) ==
    /\ \/ tx.vals.plain # value /\ tx' = [tx EXCEPT !.vals.plain = value]
       \/ tx.vals.inverted # value /\ tx' = [tx EXCEPT !.vals.inverted = value]
    /\ UNCHANGED <<rx, running, elapsed, unsent, wire, rxAge, valAge, failed>>

RequestSend ==
    /\ tx' = CO_SRDO_requestSend(tx) /\ tx' # tx
    /\ UNCHANGED <<rx, running, elapsed, unsent, wire, rxAge, valAge, failed>>

Switch(node) ==
    /\ running' = [running EXCEPT ![node] = ~@]
    /\ UNCHANGED <<tx, rx, elapsed, unsent, wire, rxAge, valAge, failed>>

\* What SDO clients write to the consumer; a signature is for the present
\* configuration or for another one.
written(w) ==
    CASE w[1] = "13FE" -> OD_write_13FE(rx, w[2])
      [] w[1] = "13FF" -> OD_write_13FF(rx, signed(IF w[2] = "now" THEN rx.od ELSE tx.od))
      [] w[1] = "comm" -> OD_write_SRDO_communicationParam(rx, w[2], w[3])
      [] w[1] = "map"  -> OD_write_SRDO_mappingParam(rx, w[2], w[3])

WriteRx(w) ==
    /\ rx' = written(w) /\ rx' # rx
    /\ UNCHANGED <<tx, running, elapsed, unsent, wire, rxAge, valAge, failed>>

\* The loop calls CO_process_SRDO before anything can be written; the node
\* is operational then if it starts by itself.
ResetConsumer(starts) ==
    \E r \in {CO_process_SRDO(CO_SRDO_init(rx.od, rx.vals, rx.previous), 0, starts, TRUE)} :
        /\ rx' = r.node
        /\ running' = [running EXCEPT !["rx"] = starts]
        /\ elapsed' = [elapsed EXCEPT !["rx"] = 0]
        /\ rxAge' = 0 /\ valAge' = 0
        /\ failed' = (r.node.srdo.internalState \in errorStates)
        /\ UNCHANGED <<tx, unsent, wire>>

Incident ==
    \/ \E f \in Pair.faults \cap {"lost", "broken", "short", "again"} : Fault(f)
    \/ \E o \in Pair.faults \cap {"busy", "failed"} : ProcessTx(o)
    \/ \E v \in Pair.values : Change(v)
    \/ Pair.values # {} /\ RequestSend
    \/ \E node \in Pair.commands \cap Nodes : Switch(node)
    \/ \E w \in Pair.writes : WriteRx(w)
    \/ \E s \in BOOLEAN : "reset" \in Pair.commands /\ ResetConsumer(s)

PairNext == \/ Tick
            \/ ProcessTx("taken") /\ UNCHANGED incidents
            \/ ProcessRx
            \/ CO_CANmodule_process
            \/ Deliver
            \/ incidents < Pair.events /\ Incident /\ incidents' = incidents + 1 /\ UNCHANGED pair

PairSpec == PairInit /\ [][PairNext]_pairVars

-----------------------------------------------------------------------------
(* While the consumer says that the communication is established, its value *)
(* is one that the producer had, plain and inverted, not what a fault made  *)
(* of it; it came with a frame no older than the cycle time and the         *)
(* validation time, give or take the time between calls; it was received    *)
(* under the configuration that the dictionary holds, signed and declared   *)
(* valid; and no error went by since the node became operational            *)
(* (CO_SRDO_process, CO_SRDO_config and the guarded writes).                *)
SafetyDataIsSound ==
    established =>
      /\ rx.vals.plain = rx.vals.inverted /\ rx.vals.plain \notin Broken \cup {0}
      /\ valAge < rx.od.cycle + rx.od.validation + 3 * Pair.call
      /\ rx.od.valid /\ rx.od.signature = signed(rx.od)
      /\ rx.srdo.cycleTime = rx.od.cycle /\ rx.srdo.validationTime = rx.od.validation
      /\ ~failed
=============================================================================

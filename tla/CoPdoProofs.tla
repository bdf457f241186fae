---------------------------- MODULE CoPdoProofs ----------------------------
(***************************************************************************)
(* Process data.  First what the consumer of safety-relevant data promises *)
(* (CoSrdoPair), for every cycle and validation time, every time between   *)
(* calls, and every order of frames, faults, commands, writes and resets;  *)
(* then what a valid PDO exchanges, which message an RPDO acts on and when *)
(* a TPDO is sent (CoPdoNode), for every set of objects, every order of    *)
(* messages, SYNCs, requests, commands, resets and writes to the           *)
(* dictionary, and every time between calls.                               *)
(***************************************************************************)
EXTENDS CoPdoNode, CoSrdoPair, SequenceTheorems, LoopProofs, TLAPS

\* The provers know of no literal that it is a string.
Names == STRING \cup {"own", "default", "other", "none", "pair", "SRDO_CONFIGURATION", "RPDO_WRONG_LENGTH"}
States == errorStates \cup {"unknown", "nmtNotOperational", "initializing",
                            "communicationEstablished", "deleted"}

Signature == [dir : Nat, cycle : Nat, validation : Nat, cob : Names, count : Nat, map : Names]
OdType == [valid : BOOLEAN, dir : Nat, cycle : Nat, validation : Nat, cob : Names, count : Nat,
           map : Names, signature : Signature]
ValsType == [plain : Nat, inverted : Nat]
GuardType == [NMTisOperational : BOOLEAN, configurationValid : BOOLEAN]
SrdoType ==
    [informationDirection : Nat, cycleTime : Nat, validationTime : Nat, dataLength : Nat,
     mappedObjectsCount : Nat, mapping : Names, ident : [1..3 -> Names], internalState : States,
     NMTisOperationalPrevious : BOOLEAN, cycleTimer : Nat, invertedDelay : Nat,
     validationTimer : Nat, CANrxNew : [0..1 -> BOOLEAN], CANrxData : [0..1 -> Nat],
     CANtxData : Nat, rxSrdoShort : BOOLEAN, nextIsNormal : BOOLEAN]
NodeType == [od : OdType, vals : ValsType, previous : BOOLEAN, errs : SUBSET Names,
             guard : GuardType, srdo : SrdoType]

-----------------------------------------------------------------------------
(* The invariant *)

\* The producer's values are genuine, and so is what it sends of them.
TxOK(n) ==
    /\ n \in NodeType /\ n.guard.configurationValid = n.od.valid
    /\ n.od.dir \in {DELETED, TX} /\ n.srdo.informationDirection \in {DELETED, TX}
    /\ n.vals.plain \notin Broken \cup {0} /\ n.vals.inverted \notin Broken \cup {0}
    /\ n.srdo.CANtxData \notin Broken

Frames == {f \in [ident : Names, inverted : BOOLEAN, DLC : Nat, data : Nat] :
              f.data \notin Broken /\ (~f.inverted => f.data # 0)}

\* Nothing that a fault makes of one frame agrees with the other frame.
DataOK(s) ==
    /\ s.CANrxNew[1] => s.CANrxNew[0] /\ s.CANrxData[1] # 9
    /\ s.CANrxNew[0] => s.CANrxData[0] \notin {0, 8}

\* The configuration that a node works with is the one of its dictionary.
Configured(n) ==
    n.od.valid =>
      /\ n.srdo.informationDirection = n.od.dir
      /\ n.srdo.cycleTime = n.od.cycle /\ n.srdo.validationTime = n.od.validation
      /\ n.od.dir # DELETED => n.od.signature = signed(n.od)

Works(n) == n.srdo.internalState \notin errorStates
Established(n) == n.srdo.internalState = "communicationEstablished"
\* The node exchanges data.
Active(n) == /\ Works(n) /\ n.guard.NMTisOperational /\ n.od.valid
             /\ n.srdo.informationDirection # DELETED

RxOK(n) ==
    /\ n \in NodeType /\ n.od.dir # TX /\ n.srdo.informationDirection # TX
    /\ n.guard.configurationValid = n.od.valid
    /\ n.previous = n.guard.NMTisOperational
    /\ n.srdo.NMTisOperationalPrevious = n.guard.NMTisOperational
    /\ n.guard.NMTisOperational => Configured(n)
    /\ DataOK(n.srdo)
    /\ Established(n) => /\ Active(n) /\ n.srdo.cycleTimer # 0
                         /\ n.vals.plain = n.vals.inverted /\ n.vals.plain \notin Broken \cup {0}

\* The age ra of the frame in the buffer and the age va of the value go with
\* the timers, which lag behind by the time el since the last call.
AgesOK(n, ra, va, el) ==
    /\ n.srdo.CANrxNew[0] /\ Works(n) /\ (n.srdo.nextIsNormal \/ ~n.guard.NMTisOperational) => ra <= el
    /\ Active(n) /\ ~n.srdo.nextIsNormal =>
          /\ n.srdo.validationTimer <= n.srdo.validationTime
          /\ n.srdo.CANrxNew[0] => ra + n.srdo.validationTimer <= n.srdo.validationTime + Pair.call + el
    /\ Established(n) =>
          va + n.srdo.cycleTimer <= n.srdo.cycleTime + n.srdo.validationTime + 2 * Pair.call + el

\* An error lasts as long as the node is operational.
FailureOK(n, f) ==
    f => \/ n.srdo.internalState \in errorStates
         \/ /\ n.srdo.internalState = "deleted" /\ n.guard.NMTisOperational
            /\ n.srdo.informationDirection = DELETED

PairInv ==
    /\ pair \in DOMAIN Pairs
    /\ TxOK(tx) /\ RxOK(rx)
    /\ unsent \in SUBSET {"normal", "inverted"} /\ ("normal" \in unsent => tx.srdo.CANtxData # 0)
    /\ wire \in Seq(Frames)
    /\ running \in [Nodes -> BOOLEAN]
    /\ elapsed \in [Nodes -> Nat] /\ elapsed["rx"] <= Pair.call
    /\ rxAge \in Nat /\ valAge \in Nat /\ failed \in BOOLEAN
    /\ AgesOK(rx, rxAge, valAge, elapsed["rx"]) /\ FailureOK(rx, failed)
-----------------------------------------------------------------------------
(* Configuration *)

\* What is known of a pair.
LEMMA PairTypes ==
    ASSUME pair \in DOMAIN Pairs
    PROVE  /\ Pair.tx \in Parameters /\ Pair.tx.dir \in {DELETED, TX}
           /\ Pair.rx \subseteq Parameters /\ \A od \in Pair.rx : od.dir # TX
           /\ Pair.values \subseteq Nat \ (Broken \cup {0}) /\ Pair.call \in Nat
           /\ Pair.writes \subseteq
                 ({"13FE"} \X BOOLEAN) \cup ({"13FF"} \X {"now", "other"})
                 \cup ({"comm"} \X {"dir"} \X (Nat \ {TX})) \cup ({"comm"} \X {"cycle", "validation"} \X Nat)
                 \cup ({"comm"} \X {"cob"} \X STRING)
                 \cup ({"map"} \X {"count"} \X Nat) \cup ({"map"} \X {"map"} \X STRING)
  BY PairsAssumption, Zenon DEF Pair

\* The parameters of a pair are parameters of a node.
LEMMA ParametersOK ==
    ASSUME NEW od \in Parameters
    PROVE  od \in OdType
  BY DEF Parameters, OdType, Signature, Names

\* A node with a new srdo is the same otherwise.
LEMMA WithSrdo ==
    ASSUME NEW n \in NodeType, NEW s \in SrdoType
    PROVE  LET m == [n EXCEPT !.srdo = s] IN
             /\ m \in NodeType /\ m.srdo = s /\ m.od = n.od /\ m.vals = n.vals
             /\ m.previous = n.previous /\ m.errs = n.errs /\ m.guard = n.guard
  BY Zenon DEF NodeType

\* What the configuration leaves alone.
SameRun(c, n) ==
    /\ c.vals = n.vals /\ c.guard.NMTisOperational = n.guard.NMTisOperational
    /\ c.srdo.internalState = n.srdo.internalState
    /\ c.srdo.NMTisOperationalPrevious = n.srdo.NMTisOperationalPrevious
    /\ c.srdo.cycleTimer = n.srdo.cycleTimer /\ c.srdo.validationTimer = n.srdo.validationTimer
    /\ c.srdo.CANrxNew = n.srdo.CANrxNew /\ c.srdo.CANrxData = n.srdo.CANrxData
    /\ c.srdo.CANtxData = n.srdo.CANtxData /\ c.srdo.nextIsNormal = n.srdo.nextIsNormal

\* c is n after its configuration.
ConfiguredAs(c, n) ==
    /\ c \in NodeType /\ SameRun(c, n) /\ Configured(c)
    /\ c.previous = n.previous /\ c.guard.configurationValid = c.od.valid
    /\ c.od.dir = n.od.dir
    /\ c.srdo.informationDirection \in {n.od.dir, n.srdo.informationDirection}

\* It is declared invalid.
LEMMA UnsetOK ==
    ASSUME NEW n \in NodeType
    PROVE  LET c == configurationValidUnset(n) IN
             /\ c \in NodeType /\ SameRun(c, n) /\ c.srdo = n.srdo /\ c.previous = n.previous
             /\ c.guard.configurationValid = FALSE /\ c.od.valid = FALSE
             /\ c.od.dir = n.od.dir /\ c.errs = n.errs
             /\ c.od = [n.od EXCEPT !.valid = FALSE]
  <1> DEFINE c == configurationValidUnset(n)
             g == [n.guard EXCEPT !.configurationValid = FALSE]
             o == [n.od EXCEPT !.valid = FALSE]
  <1>1. c = [n EXCEPT !.guard = g, !.od = o]
    BY DEF configurationValidUnset, NodeType
  <1>2. /\ g \in GuardType /\ g.configurationValid = FALSE
        /\ g.NMTisOperational = n.guard.NMTisOperational
    BY Zenon DEF NodeType, GuardType
  <1>3. o \in OdType /\ o.valid = FALSE /\ o.dir = n.od.dir
    BY Zenon DEF NodeType, OdType
  <1> HIDE DEF c, g
  <1>4. /\ c \in NodeType /\ c.srdo = n.srdo /\ c.vals = n.vals /\ c.previous = n.previous
        /\ c.errs = n.errs /\ c.guard = g /\ c.od = o
    <2> HIDE DEF o
    <2> QED  BY <1>1, <1>2, <1>3, Zenon DEF NodeType
  <1>5. SameRun(c, n)
    BY <1>2, <1>4, Zenon DEF SameRun
  <1> HIDE DEF o
  <1> QED  BY <1>2, <1>3, <1>4, <1>5, Zenon DEF c, o

\* What the signature is about.
LEMMA SignedType ==
    ASSUME NEW od \in OdType
    PROVE  signed(od) \in Signature /\ COB_ID(od.cob) \in Names
  <1>1. COB_ID(od.cob) \in Names
    BY DEF COB_ID, OdType, Names
  <1> HIDE DEF COB_ID
  <1> QED  BY <1>1 DEF signed, OdType, Signature

\* CO_SRDO_config.
LEMMA ConfigOK ==
    ASSUME NEW n \in NodeType, n.guard.configurationValid = n.od.valid
    PROVE  ConfiguredAs(CO_SRDO_config(n), n)
  <1> DEFINE od    == n.od
             s     == n.srdo
             run   == od.valid /\ od.dir # DELETED
             good  == good_parameters(od) /\ od.signature = signed(od) /\ good_mapping(od)
             s1    == [s EXCEPT !.informationDirection = od.dir, !.cycleTime = od.cycle,
                                !.validationTime = od.validation]
             i2    == [s.ident EXCEPT ![od.dir] = COB_ID(od.cob)]
             s2    == [s1 EXCEPT !.dataLength = 1, !.mappedObjectsCount = od.count, !.mapping = od.map,
                                 !.ident = i2]
             timed == [n EXCEPT !.srdo = s1]
             c     == CO_SRDO_config(n)
  <1>1. /\ od \in OdType /\ s \in SrdoType /\ n.guard \in GuardType
        /\ od.dir \in Nat /\ od.cycle \in Nat /\ od.validation \in Nat
        /\ od.count \in Nat /\ od.map \in Names
    BY DEF NodeType, OdType
  <1>2. /\ s1 \in SrdoType /\ s1.informationDirection = od.dir /\ s1.cycleTime = od.cycle
        /\ s1.validationTime = od.validation /\ s1.internalState = s.internalState
        /\ s1.NMTisOperationalPrevious = s.NMTisOperationalPrevious
        /\ s1.cycleTimer = s.cycleTimer /\ s1.validationTimer = s.validationTimer
        /\ s1.CANrxNew = s.CANrxNew /\ s1.CANrxData = s.CANrxData
        /\ s1.CANtxData = s.CANtxData /\ s1.nextIsNormal = s.nextIsNormal /\ s1.ident = s.ident
    <2> HIDE DEF s, od
    <2> QED  BY <1>1, Zenon DEF SrdoType
  <1>3. CASE ~run
    <2>1. c = timed
      BY <1>3 DEF CO_SRDO_config, NodeType
    <2>2. /\ timed \in NodeType /\ timed.srdo = s1 /\ timed.od = od /\ timed.vals = n.vals
          /\ timed.previous = n.previous /\ timed.guard = n.guard
      <3> HIDE DEF s1
      <3> QED  BY <1>2, WithSrdo
    <2> HIDE DEF timed, c, s1
    <2>3. SameRun(c, n)
      BY <1>2, <2>1, <2>2, Zenon DEF SameRun
    <2>4. Configured(c)
      BY <1>2, <1>3, <2>1, <2>2 DEF Configured
    <2> QED  BY <1>2, <2>1, <2>2, <2>3, <2>4, Zenon DEF ConfiguredAs, c
  <1>4. CASE run /\ ~good
    <2> DEFINE e == [n EXCEPT !.errs = n.errs \cup {"SRDO_CONFIGURATION"}]
    <2>1. c = configurationValidUnset(e)
      BY <1>4 DEF CO_SRDO_config
    <2>2. n.errs \cup {"SRDO_CONFIGURATION"} \in SUBSET Names
      BY DEF NodeType, Names
    <2>3. /\ e \in NodeType /\ e.srdo = n.srdo /\ e.vals = n.vals /\ e.od = n.od
          /\ e.previous = n.previous /\ e.guard = n.guard
      BY <2>2, Zenon DEF NodeType
    <2> HIDE DEF e, c
    <2>4. /\ c \in NodeType /\ SameRun(c, e) /\ c.srdo = e.srdo /\ c.previous = e.previous
          /\ c.guard.configurationValid = FALSE /\ c.od.valid = FALSE /\ c.od.dir = e.od.dir
      BY <2>1, <2>3, UnsetOK, Zenon
    <2>5. SameRun(c, n)
      BY <2>3, <2>4, Zenon DEF SameRun
    <2> QED  BY <2>3, <2>4, <2>5, Zenon DEF ConfiguredAs, Configured, c
  <1>5. CASE run /\ good
    <2>1. c = [n EXCEPT !.srdo = s2]
      BY <1>5 DEF CO_SRDO_config, NodeType, SrdoType
    <2>2. od.dir \in 1..3
      BY <1>1, <1>5 DEF good_parameters, DELETED
    <2>3. i2 \in [1..3 -> Names]
      <3>1. s.ident \in [1..3 -> Names]
        BY DEF NodeType, SrdoType
      <3> HIDE DEF s, od
      <3> QED  BY <1>1, <2>2, <3>1, SignedType
    <2>4. 1 \in Nat
      OBVIOUS
    <2> HIDE DEF i2, s1, od
    <2>5. /\ s2 \in SrdoType /\ s2.informationDirection = s1.informationDirection
          /\ s2.cycleTime = s1.cycleTime /\ s2.validationTime = s1.validationTime
          /\ s2.internalState = s1.internalState
          /\ s2.NMTisOperationalPrevious = s1.NMTisOperationalPrevious
          /\ s2.cycleTimer = s1.cycleTimer /\ s2.validationTimer = s1.validationTimer
          /\ s2.CANrxNew = s1.CANrxNew /\ s2.CANrxData = s1.CANrxData
          /\ s2.CANtxData = s1.CANtxData /\ s2.nextIsNormal = s1.nextIsNormal
      BY <1>1, <1>2, <2>3, <2>4, Zenon DEF SrdoType
    <2> HIDE DEF s2
    <2>6. /\ c \in NodeType /\ c.srdo = s2 /\ c.od = n.od /\ c.vals = n.vals
          /\ c.previous = n.previous /\ c.guard = n.guard
      <3> HIDE DEF c
      <3> QED  BY <2>1, <2>5, WithSrdo
    <2> HIDE DEF c
    <2>7. SameRun(c, n)
      BY <1>2, <2>5, <2>6, Zenon DEF SameRun
    <2>8. Configured(c)
      BY <1>2, <1>5, <2>5, <2>6 DEF Configured, od
    <2> QED  BY <1>2, <2>5, <2>6, <2>7, <2>8, Zenon DEF ConfiguredAs, c, od
  <1> QED  BY <1>3, <1>4, <1>5
\* c is n after the change of the NMT state was looked at.
Reconfigured(c, n, op) ==
    /\ c \in NodeType /\ SameRun(c, n) /\ c.previous = op
    /\ c.guard.configurationValid = c.od.valid /\ c.od.dir = n.od.dir
    /\ c.srdo.informationDirection \in {n.od.dir, n.srdo.informationDirection}
    /\ n.previous = op => c = n
    /\ n.previous # op /\ op => Configured(c)

\* It is what srdo_reconfigured makes.
LEMMA ReconfiguredAs ==
    ASSUME NEW n \in NodeType, n.guard.configurationValid = n.od.valid, NEW op \in BOOLEAN
    PROVE  Reconfigured(srdo_reconfigured(n, op), n, op)
  <1> DEFINE c == srdo_reconfigured(n, op)
             k == CO_SRDO_config(n)
  <1>1. ConfiguredAs(k, n)
    BY ConfigOK
  <1>2. n.previous \in BOOLEAN
    BY DEF NodeType
  <1> HIDE DEF k
  <1>3. CASE n.previous = op
    <2>1. c = n
      BY <1>3 DEF srdo_reconfigured
    <2>2. SameRun(n, n)
      BY DEF SameRun
    <2> HIDE DEF c
    <2> QED  BY <1>3, <2>1, <2>2, Zenon DEF Reconfigured, c
  <1>4. CASE n.previous # op /\ op
    <2>1. c = [k EXCEPT !.previous = TRUE]
      BY <1>4 DEF srdo_reconfigured, k
    <2>2. k \in NodeType
      BY <1>1 DEF ConfiguredAs
    <2> HIDE DEF c
    <2>3. /\ c \in NodeType /\ c.previous = TRUE /\ c.srdo = k.srdo /\ c.od = k.od
          /\ c.vals = k.vals /\ c.guard = k.guard
      BY <2>1, <2>2, Zenon DEF NodeType
    <2>4. SameRun(c, n) /\ Configured(c)
      BY <1>1, <2>3, Zenon DEF ConfiguredAs, SameRun, Configured
    <2>5. c.previous = op
      BY <1>4, <2>3
    <2> QED  BY <1>1, <1>4, <2>3, <2>4, <2>5, Zenon DEF ConfiguredAs, Reconfigured, c
  <1>5. CASE n.previous # op /\ ~op
    <2>1. c = [n EXCEPT !.previous = FALSE]
      BY <1>5 DEF srdo_reconfigured
    <2> HIDE DEF c
    <2>2. /\ c \in NodeType /\ c.previous = FALSE /\ c.srdo = n.srdo /\ c.od = n.od
          /\ c.vals = n.vals /\ c.guard = n.guard
      BY <2>1, Zenon DEF NodeType
    <2>3. SameRun(c, n)
      BY <2>2, Zenon DEF SameRun
    <2>4. c.previous = op
      BY <1>5, <2>2
    <2> QED  BY <1>5, <2>2, <2>3, <2>4, Zenon DEF Reconfigured, c
  <1> QED  BY <1>2, <1>3, <1>4, <1>5

\* A node that has started and has not run yet.
Fresh(n) ==
    /\ n \in NodeType /\ Configured(n) /\ n.guard.configurationValid = n.od.valid
    /\ n.guard.NMTisOperational = FALSE /\ n.srdo.NMTisOperationalPrevious = FALSE
    /\ n.srdo.internalState = "unknown" /\ n.srdo.CANrxNew = noNew
    /\ n.srdo.CANtxData = 0

\* It is what CO_SRDO_init makes.
LEMMA InitOK ==
    ASSUME NEW od \in OdType, NEW ours \in ValsType, NEW previous \in BOOLEAN
    PROVE  LET n == CO_SRDO_init(od, ours, previous) IN
             /\ Fresh(n) /\ n.od.dir = od.dir /\ n.vals = ours /\ n.previous = previous
             /\ n.srdo.informationDirection \in {od.dir, DELETED}
  <1> DEFINE s == [informationDirection |-> 0, cycleTime |-> 0, validationTime |-> 0, dataLength |-> 0,
                   mappedObjectsCount |-> 0, mapping |-> "pair", ident |-> [d \in 1..3 |-> "none"],
                   internalState |-> "unknown", NMTisOperationalPrevious |-> FALSE, cycleTimer |-> 0,
                   invertedDelay |-> 0, validationTimer |-> 0, CANrxNew |-> noNew,
                   CANrxData |-> [b \in 0..1 |-> 0], CANtxData |-> 0, rxSrdoShort |-> FALSE,
                   nextIsNormal |-> FALSE]
             g == [NMTisOperational |-> FALSE, configurationValid |-> od.valid]
             b == [od |-> od, vals |-> ours, previous |-> previous, errs |-> {}, guard |-> g, srdo |-> s]
             n == CO_SRDO_init(od, ours, previous)
  <1>1. n = CO_SRDO_config(b)
    BY DEF CO_SRDO_init, CO_SRDOGuard_init
  <1>2. noNew \in [0..1 -> BOOLEAN] /\ [d \in 0..1 |-> 0] \in [0..1 -> Nat]
        /\ [d \in 1..3 |-> "none"] \in [1..3 -> Names]
        /\ "pair" \in Names /\ "unknown" \in States
    BY DEF noNew, Names, States
  <1>3. /\ s \in SrdoType /\ s.internalState = "unknown" /\ s.NMTisOperationalPrevious = FALSE
        /\ s.CANrxNew = noNew /\ s.CANtxData = 0 /\ s.informationDirection = 0
    BY <1>2 DEF SrdoType
  <1>4. /\ g \in GuardType /\ g.NMTisOperational = FALSE /\ g.configurationValid = od.valid
    BY DEF GuardType, OdType
  <1> HIDE DEF s, g
  <1>5. /\ b \in NodeType /\ b.srdo = s /\ b.guard = g /\ b.od = od /\ b.vals = ours
        /\ b.previous = previous
    BY <1>3, <1>4, Zenon DEF NodeType
  <1> HIDE DEF b
  <1>6. b.guard.configurationValid = b.od.valid
    BY <1>4, <1>5
  <1>7. ConfiguredAs(CO_SRDO_config(b), b)
    BY <1>5, <1>6, ConfigOK
  <1> HIDE DEF n
  <1>8. ConfiguredAs(n, b)
    BY <1>1, <1>7
  <1>9. Fresh(n) /\ n.vals = ours /\ n.previous = previous /\ n.od.dir = od.dir
    BY <1>3, <1>4, <1>5, <1>8, Zenon DEF ConfiguredAs, SameRun, Fresh
  <1>10. n.srdo.informationDirection \in {od.dir, DELETED}
    BY <1>3, <1>5, <1>8 DEF ConfiguredAs, DELETED
  <1> QED  BY <1>9, <1>10 DEF n

\* A consumer that is about to run, in the NMT state op.
Ready(c, op) ==
    /\ c \in NodeType /\ c.od.dir # TX /\ c.srdo.informationDirection # TX
    /\ c.guard.configurationValid = c.od.valid /\ c.previous = op
    /\ c.srdo.NMTisOperationalPrevious = c.guard.NMTisOperational
    /\ op => Configured(c)
    /\ DataOK(c.srdo)
    /\ Established(c) => /\ Active(c)
                         /\ c.vals.plain = c.vals.inverted /\ c.vals.plain \notin Broken \cup {0}

\* The consumer of a call of CO_process_SRDO.
LEMMA ReadyRunning ==
    ASSUME NEW n, RxOK(n), NEW op \in BOOLEAN, NEW ra, NEW va, NEW el, AgesOK(n, ra, va, el),
           NEW f, FailureOK(n, f)
    PROVE  LET c == srdo_reconfigured(n, op) IN
             /\ Ready(c, op) /\ AgesOK(c, ra, va, el) /\ FailureOK(c, f)
             /\ c.srdo.CANrxNew = n.srdo.CANrxNew
  <1> DEFINE c == srdo_reconfigured(n, op)
  <1>1. n \in NodeType /\ n.guard.configurationValid = n.od.valid /\ n.previous = n.guard.NMTisOperational
    BY DEF RxOK
  <1>2. Reconfigured(c, n, op)
    BY <1>1, ReconfiguredAs
  <1> HIDE DEF c
  <1>3. CASE n.previous = op
    <2>1. c = n
      BY <1>2, <1>3 DEF Reconfigured
    <2>2. Ready(n, op)
      BY <1>1, <1>3 DEF RxOK, Ready
    <2> QED  BY <2>1, <2>2 DEF c
  <1>4. CASE n.previous # op
    <2>1. SameRun(c, n) /\ c \in NodeType
      BY <1>2 DEF Reconfigured
    <2>2. c.od.dir # TX /\ c.srdo.informationDirection # TX
      BY <1>2, Zenon DEF Reconfigured, RxOK
    <2>3. CASE n.guard.NMTisOperational = FALSE
      <3>1. ~Established(n) /\ ~Active(n)
        BY <2>3 DEF RxOK, Active
      <3>2. ~Established(c) /\ ~Active(c)
        BY <2>1, <2>3, <3>1 DEF Established, Active, SameRun
      <3>3. DataOK(c.srdo)
        BY <2>1 DEF SameRun, DataOK, RxOK
      <3>4. Ready(c, op)
        BY <1>1, <1>2, <1>4, <2>1, <2>2, <3>2, <3>3, Zenon DEF Ready, Reconfigured, SameRun, RxOK
      <3>5. AgesOK(c, ra, va, el)
        BY <2>1, <3>2 DEF AgesOK, SameRun, Works
      <3>6. FailureOK(c, f)
        BY <2>1, <2>3 DEF FailureOK, SameRun
      <3> QED  BY <2>1, <3>4, <3>5, <3>6 DEF SameRun, c
    <2>4. CASE n.guard.NMTisOperational = TRUE
      <3>1. op = FALSE
        BY <1>1, <1>4, <2>4
      <3>2. /\ c.od = n.od /\ c.srdo = n.srdo /\ c.vals = n.vals /\ c.guard = n.guard
        <4>1. c = [n EXCEPT !.previous = FALSE]
          BY <1>4, <3>1 DEF c, srdo_reconfigured
        <4> QED  BY <1>1, <4>1, Zenon DEF NodeType
      <3>3. Ready(c, op)
        BY <1>2, <2>1, <2>2, <3>1, <3>2, Zenon DEF Ready, Reconfigured, RxOK, Established, Active, Works
      <3>4. AgesOK(c, ra, va, el) /\ FailureOK(c, f)
        BY <3>2 DEF AgesOK, FailureOK, Works, Active, Established
      <3> QED  BY <3>2, <3>3, <3>4 DEF c
    <2> QED  BY <1>1, <2>3, <2>4 DEF NodeType, GuardType
  <1> QED  BY <1>3, <1>4

\* The consumer after a reset of the communication.
LEMMA ReadyFresh ==
    ASSUME NEW n, Fresh(n), n.od.dir # TX, n.srdo.informationDirection # TX, NEW op \in BOOLEAN,
           NEW ra, NEW va, NEW el
    PROVE  LET c == srdo_reconfigured(n, op) IN
             /\ Ready(c, op) /\ AgesOK(c, ra, va, el) /\ c.srdo.CANrxNew = noNew
  <1> DEFINE c == srdo_reconfigured(n, op)
  <1>1. n \in NodeType /\ n.guard.configurationValid = n.od.valid
    BY DEF Fresh
  <1>2. Reconfigured(c, n, op)
    BY <1>1, ReconfiguredAs
  <1> HIDE DEF c
  <1>3. SameRun(c, n) /\ c \in NodeType
    BY <1>2 DEF Reconfigured
  <1>4. /\ c.srdo.internalState = "unknown" /\ c.guard.NMTisOperational = FALSE
        /\ c.srdo.NMTisOperationalPrevious = FALSE /\ c.srdo.CANrxNew = noNew
    BY <1>3, Zenon DEF SameRun, Fresh
  <1>5. noNew[0] = FALSE /\ noNew[1] = FALSE
    BY DEF noNew
  <1>6. DataOK(c.srdo) /\ ~Established(c) /\ ~Active(c) /\ ~c.srdo.CANrxNew[0]
    BY <1>4, <1>5 DEF DataOK, Established, Active
  <1>7. op => Configured(c)
    BY <1>2 DEF Reconfigured, Fresh
  <1>8. c.od.dir # TX /\ c.srdo.informationDirection # TX
    BY <1>2, Zenon DEF Reconfigured
  <1>9. Ready(c, op)
    BY <1>2, <1>3, <1>4, <1>6, <1>7, <1>8, Zenon DEF Ready, Reconfigured
  <1>10. AgesOK(c, ra, va, el)
    BY <1>6 DEF AgesOK
  <1> QED  BY <1>4, <1>9, <1>10 DEF c
-----------------------------------------------------------------------------
(* A call of the consumer *)

\* The timers.
LEMMA RunDown ==
    ASSUME NEW t \in Nat, NEW dt \in Nat
    PROVE  /\ run_down(t, dt) \in Nat /\ run_down(t, dt) <= t
           /\ run_down(t, dt) # 0 => run_down(t, dt) + dt = t
  BY DEF run_down

\* t is the object s after the timers have run for dt.
TimedAs(t, s, dt) ==
    /\ t \in SrdoType
    /\ t.informationDirection = s.informationDirection
    /\ t.cycleTime = s.cycleTime /\ t.validationTime = s.validationTime
    /\ t.NMTisOperationalPrevious = s.NMTisOperationalPrevious
    /\ t.CANrxNew = s.CANrxNew /\ t.CANrxData = s.CANrxData /\ t.CANtxData = s.CANtxData
    /\ IF s.NMTisOperationalPrevious
       THEN /\ t.cycleTimer = run_down(s.cycleTimer, dt)
            /\ t.validationTimer = run_down(s.validationTimer, dt)
            /\ t.nextIsNormal = s.nextIsNormal /\ t.internalState = s.internalState
       ELSE t.nextIsNormal = TRUE /\ t.internalState = "initializing"

\* srdo_timers and srdo_started.
LEMMA TimersOK ==
    ASSUME NEW s \in SrdoType, NEW dt \in Nat
    PROVE  TimedAs(srdo_started(srdo_timers(s, dt)), s, dt)
  <1> DEFINE ct == run_down(s.cycleTimer, dt)
             id == run_down(s.invertedDelay, dt)
             vt == run_down(s.validationTimer, dt)
             u  == [s EXCEPT !.cycleTimer = ct, !.invertedDelay = id, !.validationTimer = vt]
             k  == IF u.informationDirection = TX THEN FirstDelay ELSE u.cycleTime
             w  == [u EXCEPT !.cycleTimer = k, !.validationTimer = u.cycleTime,
                             !.internalState = "initializing", !.nextIsNormal = TRUE]
             t  == srdo_started(srdo_timers(s, dt))
  <1>1. s.cycleTimer \in Nat /\ s.invertedDelay \in Nat /\ s.validationTimer \in Nat
    BY DEF SrdoType
  <1>2. ct \in Nat /\ id \in Nat /\ vt \in Nat
    BY <1>1, RunDown
  <1>3. t = IF u.NMTisOperationalPrevious THEN u ELSE w
    BY DEF srdo_started, srdo_timers
  <1> HIDE DEF ct, id, vt, t
  <1>4. /\ u \in SrdoType /\ u.informationDirection = s.informationDirection
        /\ u.cycleTime = s.cycleTime /\ u.validationTime = s.validationTime
        /\ u.NMTisOperationalPrevious = s.NMTisOperationalPrevious
        /\ u.CANrxNew = s.CANrxNew /\ u.CANrxData = s.CANrxData /\ u.CANtxData = s.CANtxData
        /\ u.cycleTimer = ct /\ u.validationTimer = vt
        /\ u.nextIsNormal = s.nextIsNormal /\ u.internalState = s.internalState
    BY <1>2, Zenon DEF SrdoType
  <1> HIDE DEF u
  <1>5. u.cycleTime \in Nat
    BY <1>4 DEF SrdoType
  <1>6. k \in Nat /\ "initializing" \in States
    BY <1>5, TicksAssumption DEF States
  <1> HIDE DEF k
  <1>7. /\ w \in SrdoType /\ w.informationDirection = u.informationDirection
        /\ w.cycleTime = u.cycleTime /\ w.validationTime = u.validationTime
        /\ w.NMTisOperationalPrevious = u.NMTisOperationalPrevious
        /\ w.CANrxNew = u.CANrxNew /\ w.CANrxData = u.CANrxData /\ w.CANtxData = u.CANtxData
        /\ w.nextIsNormal = TRUE /\ w.internalState = "initializing"
    BY <1>4, <1>5, <1>6, Zenon DEF SrdoType
  <1> HIDE DEF w
  <1>8. CASE s.NMTisOperationalPrevious
    <2>1. t = u
      BY <1>3, <1>4, <1>8
    <2>2. TimedAs(u, s, dt)
      BY <1>4, <1>8, Zenon DEF TimedAs, ct, vt
    <2> QED  BY <2>1, <2>2 DEF t
  <1>9. CASE ~s.NMTisOperationalPrevious
    <2>1. t = w
      BY <1>3, <1>4, <1>9
    <2>2. TimedAs(w, s, dt)
      BY <1>4, <1>7, <1>9, Zenon DEF TimedAs
    <2> QED  BY <2>1, <2>2 DEF t
  <1> QED  BY <1>8, <1>9

\* What a call leaves alone, whatever it does.
SameSetting(m, d) ==
    /\ m \in NodeType /\ m.od = d.od /\ m.previous = d.previous /\ m.guard = d.guard
    /\ m.srdo.informationDirection = d.srdo.informationDirection
    /\ m.srdo.cycleTime = d.srdo.cycleTime /\ m.srdo.validationTime = d.srdo.validationTime
    /\ m.srdo.NMTisOperationalPrevious = d.srdo.NMTisOperationalPrevious
    /\ m.srdo.CANrxData = d.srdo.CANrxData /\ m.srdo.CANtxData = d.srdo.CANtxData

\* The timers are tested last.
LEMMA TimeoutOK ==
    ASSUME NEW d \in NodeType
    PROVE  LET m == rx_timeout(d) IN
             /\ SameSetting(m, d) /\ m.vals = d.vals
             /\ m.srdo.cycleTimer = d.srdo.cycleTimer /\ m.srdo.validationTimer = d.srdo.validationTimer
             /\ m.srdo.CANrxNew = d.srdo.CANrxNew /\ m.srdo.nextIsNormal = d.srdo.nextIsNormal
             /\ Works(m) => /\ m.srdo.internalState = d.srdo.internalState
                            /\ m.srdo.cycleTimer # 0 /\ m.srdo.validationTimer # 0
  <1> DEFINE i == IF d.srdo.cycleTimer = 0 THEN "error_rxTimeoutSCT"
                  ELSE IF d.srdo.validationTimer = 0 THEN "error_rxTimeoutSRVT" ELSE d.srdo.internalState
             s == [d.srdo EXCEPT !.internalState = i]
             m == rx_timeout(d)
  <1>1. m = [d EXCEPT !.srdo = s]
    BY DEF rx_timeout, NodeType
  <1>2. d.srdo \in SrdoType /\ d.srdo.internalState \in States
    BY DEF NodeType, SrdoType
  <1>3. /\ i \in States
        /\ i \notin errorStates => /\ i = d.srdo.internalState
                                   /\ d.srdo.cycleTimer # 0 /\ d.srdo.validationTimer # 0
    BY <1>2 DEF States, errorStates
  <1> HIDE DEF i, m
  <1>4. /\ s \in SrdoType /\ s.internalState = i
        /\ s.informationDirection = d.srdo.informationDirection
        /\ s.cycleTime = d.srdo.cycleTime /\ s.validationTime = d.srdo.validationTime
        /\ s.NMTisOperationalPrevious = d.srdo.NMTisOperationalPrevious
        /\ s.CANrxData = d.srdo.CANrxData /\ s.CANtxData = d.srdo.CANtxData
        /\ s.cycleTimer = d.srdo.cycleTimer /\ s.validationTimer = d.srdo.validationTimer
        /\ s.CANrxNew = d.srdo.CANrxNew /\ s.nextIsNormal = d.srdo.nextIsNormal
    BY <1>2, <1>3, Zenon DEF SrdoType
  <1> HIDE DEF s
  <1>5. /\ m \in NodeType /\ m.srdo = s /\ m.od = d.od /\ m.vals = d.vals
        /\ m.previous = d.previous /\ m.guard = d.guard
    BY <1>1, <1>4, WithSrdo
  <1>6. SameSetting(m, d)
    BY <1>4, <1>5, Zenon DEF SameSetting
  <1>7. Works(m) => /\ m.srdo.internalState = d.srdo.internalState
                    /\ m.srdo.cycleTimer # 0 /\ m.srdo.validationTimer # 0
    BY <1>3, <1>4, <1>5 DEF Works
  <1> QED  BY <1>4, <1>5, <1>6, <1>7, Zenon DEF m

\* What a received frame does: nothing, an error, or one of the two cases.
Unmoved(m, d) ==
    /\ m.srdo.CANrxNew = d.srdo.CANrxNew /\ m.srdo.nextIsNormal = d.srdo.nextIsNormal
    /\ m.srdo.cycleTimer = d.srdo.cycleTimer /\ m.srdo.validationTimer = d.srdo.validationTimer
    /\ m.vals = d.vals
    /\ Works(m) => /\ m.srdo.internalState = d.srdo.internalState
                   /\ d.srdo.nextIsNormal => ~d.srdo.CANrxNew[0]
TookNormal(m, d) ==
    /\ d.srdo.nextIsNormal /\ d.srdo.CANrxNew[0]
    /\ m.srdo.CANrxNew = d.srdo.CANrxNew /\ ~m.srdo.nextIsNormal
    /\ m.srdo.cycleTimer = d.srdo.cycleTimer /\ m.srdo.validationTimer = d.srdo.validationTime
    /\ m.vals = d.vals
    /\ Works(m) => m.srdo.internalState = d.srdo.internalState
TookInverted(m, d) ==
    /\ ~d.srdo.nextIsNormal /\ d.srdo.CANrxNew[1]
    /\ m.srdo.CANrxNew = noNew /\ m.srdo.nextIsNormal
    /\ m.srdo.cycleTimer = d.srdo.cycleTime
    /\ Works(m) => /\ d.srdo.CANrxData[0] = d.srdo.CANrxData[1]
                   /\ m.vals.plain = d.srdo.CANrxData[0] /\ m.vals.inverted = d.srdo.CANrxData[0]
TookFrame(m, d) == SameSetting(m, d) /\ (Unmoved(m, d) \/ TookNormal(m, d) \/ TookInverted(m, d))

\* The data of both frames is compared.
LEMMA DataStep ==
    ASSUME NEW d \in NodeType
    PROVE  LET m == rx_data(d) IN
             /\ SameSetting(m, d)
             /\ m.srdo.internalState \notin errorStates =>
                  /\ d.srdo.CANrxData[0] = d.srdo.CANrxData[1]
                  /\ m.vals.plain = d.srdo.CANrxData[0] /\ m.vals.inverted = d.srdo.CANrxData[0]
  <1> DEFINE a == d.srdo.CANrxData[0]
             b == d.srdo.CANrxData[1]
             i == IF a # b THEN "error_rxNotInverted"
                  ELSE IF length_verified(d.srdo) THEN "communicationEstablished" ELSE "error_internal"
             s == [d.srdo EXCEPT !.internalState = i]
             v == IF a # b THEN d.vals ELSE [plain |-> a, inverted |-> b]
             m == rx_data(d)
  <1>1. d.srdo \in SrdoType /\ d.vals \in ValsType /\ a \in Nat /\ b \in Nat
    BY DEF NodeType, SrdoType
  <1>2. i \in States /\ (i \notin errorStates => a = b) /\ "error_rxNotInverted" \in errorStates
    BY DEF States, errorStates
  <1>3. v \in ValsType /\ (a = b => v.plain = a /\ v.inverted = b)
    BY <1>1 DEF ValsType
  <1>4. m = [d EXCEPT !.srdo = s, !.vals = v]
    <2>1. CASE a # b
      <3>1. [d EXCEPT !.srdo = s, !.vals = d.vals] = [d EXCEPT !.srdo = s]
        BY DEF NodeType
      <3> QED  BY <2>1, <3>1 DEF rx_data
    <2>2. CASE a = b
      BY <2>2 DEF rx_data, NodeType
    <2> QED  BY <2>1, <2>2
  <1> HIDE DEF i, v, m
  <1>5. /\ s \in SrdoType /\ s.internalState = i
        /\ s.informationDirection = d.srdo.informationDirection
        /\ s.cycleTime = d.srdo.cycleTime /\ s.validationTime = d.srdo.validationTime
        /\ s.NMTisOperationalPrevious = d.srdo.NMTisOperationalPrevious
        /\ s.CANrxData = d.srdo.CANrxData /\ s.CANtxData = d.srdo.CANtxData
    BY <1>1, <1>2, Zenon DEF SrdoType
  <1> HIDE DEF s
  <1>6. /\ m \in NodeType /\ m.srdo = s /\ m.vals = v /\ m.od = d.od
        /\ m.previous = d.previous /\ m.guard = d.guard
    BY <1>3, <1>4, <1>5, Zenon DEF NodeType
  <1>7. SameSetting(m, d)
    BY <1>5, <1>6, Zenon DEF SameSetting
  <1>8. m.srdo.internalState \notin errorStates => a = b /\ m.vals.plain = a /\ m.vals.inverted = a
    BY <1>2, <1>3, <1>5, <1>6
  <1> QED  BY <1>7, <1>8 DEF m

\* rx_inverted.
LEMMA InvertedStep ==
    ASSUME NEW d \in NodeType, ~d.srdo.nextIsNormal, d.srdo.CANrxNew[1]
    PROVE  TookFrame(rx_inverted(d), d)
  <1> DEFINE e == rx_data(d)
             s == [e.srdo EXCEPT !.cycleTimer = d.srdo.cycleTime, !.validationTimer = d.srdo.cycleTime,
                                 !.nextIsNormal = TRUE, !.CANrxNew = noNew]
             m == rx_inverted(d)
  <1>1. /\ SameSetting(e, d)
        /\ e.srdo.internalState \notin errorStates =>
             /\ d.srdo.CANrxData[0] = d.srdo.CANrxData[1]
             /\ e.vals.plain = d.srdo.CANrxData[0] /\ e.vals.inverted = d.srdo.CANrxData[0]
    BY DataStep
  <1> HIDE DEF e
  <1>2. e \in NodeType /\ e.srdo \in SrdoType
    BY <1>1 DEF SameSetting, NodeType
  <1>3. m = [e EXCEPT !.srdo = s]
    BY <1>2 DEF rx_inverted, e, NodeType
  <1>4. d.srdo.cycleTime \in Nat /\ noNew \in [0..1 -> BOOLEAN]
    BY DEF NodeType, SrdoType, noNew
  <1> HIDE DEF m
  <1>5. /\ s \in SrdoType /\ s.internalState = e.srdo.internalState
        /\ s.informationDirection = e.srdo.informationDirection
        /\ s.cycleTime = e.srdo.cycleTime /\ s.validationTime = e.srdo.validationTime
        /\ s.NMTisOperationalPrevious = e.srdo.NMTisOperationalPrevious
        /\ s.CANrxData = e.srdo.CANrxData /\ s.CANtxData = e.srdo.CANtxData
        /\ s.CANrxNew = noNew /\ s.nextIsNormal = TRUE /\ s.cycleTimer = d.srdo.cycleTime
    BY <1>2, <1>4, Zenon DEF SrdoType
  <1> HIDE DEF s
  <1>6. /\ m \in NodeType /\ m.srdo = s /\ m.od = e.od /\ m.vals = e.vals
        /\ m.previous = e.previous /\ m.guard = e.guard
    BY <1>2, <1>3, <1>5, WithSrdo
  <1>7. SameSetting(m, d)
    BY <1>1, <1>5, <1>6, Zenon DEF SameSetting
  <1>8. TookInverted(m, d)
    BY <1>1, <1>5, <1>6, Zenon DEF TookInverted, Works
  <1> QED  BY <1>7, <1>8, Zenon DEF TookFrame, m

\* rx_normal.
LEMMA NormalStep ==
    ASSUME NEW d \in NodeType, d.srdo.nextIsNormal, d.srdo.CANrxNew[0]
    PROVE  TookFrame(rx_normal(d), d)
  <1> DEFINE s == [d.srdo EXCEPT !.validationTimer = d.srdo.validationTime, !.nextIsNormal = FALSE]
             m == rx_normal(d)
  <1>1. d.srdo \in SrdoType /\ d.srdo.validationTime \in Nat
    BY DEF NodeType, SrdoType
  <1>2. m = [d EXCEPT !.srdo = s]
    BY DEF rx_normal, NodeType
  <1> HIDE DEF m
  <1>3. /\ s \in SrdoType /\ s.internalState = d.srdo.internalState
        /\ s.informationDirection = d.srdo.informationDirection
        /\ s.cycleTime = d.srdo.cycleTime /\ s.validationTime = d.srdo.validationTime
        /\ s.NMTisOperationalPrevious = d.srdo.NMTisOperationalPrevious
        /\ s.CANrxData = d.srdo.CANrxData /\ s.CANtxData = d.srdo.CANtxData
        /\ s.CANrxNew = d.srdo.CANrxNew /\ s.nextIsNormal = FALSE
        /\ s.cycleTimer = d.srdo.cycleTimer /\ s.validationTimer = d.srdo.validationTime
    BY <1>1, Zenon DEF SrdoType
  <1> HIDE DEF s
  <1>4. /\ m \in NodeType /\ m.srdo = s /\ m.od = d.od /\ m.vals = d.vals
        /\ m.previous = d.previous /\ m.guard = d.guard
    BY <1>2, <1>3, WithSrdo
  <1>5. SameSetting(m, d)
    BY <1>3, <1>4, Zenon DEF SameSetting
  <1>6. TookNormal(m, d)
    BY <1>3, <1>4, Zenon DEF TookNormal
  <1> QED  BY <1>5, <1>6, Zenon DEF TookFrame, m

\* rx_frame.
LEMMA FrameStep ==
    ASSUME NEW d \in NodeType
    PROVE  TookFrame(rx_frame(d), d)
  <1> DEFINE m == rx_frame(d)
  <1>1. d.srdo \in SrdoType /\ d.srdo.nextIsNormal \in BOOLEAN
    BY DEF NodeType, SrdoType
  <1>2. CASE d.srdo.rxSrdoShort
    <2> DEFINE s == [d.srdo EXCEPT !.internalState = "error_rxShort"]
               e == d.errs \cup {"RPDO_WRONG_LENGTH"}
    <2>1. m = [d EXCEPT !.errs = e, !.srdo = s]
      BY <1>2 DEF rx_frame, NodeType
    <2>2. e \in SUBSET Names /\ "error_rxShort" \in States /\ "error_rxShort" \in errorStates
      BY DEF NodeType, Names, States, errorStates
    <2> HIDE DEF m, e
    <2>3. /\ s \in SrdoType /\ s.internalState = "error_rxShort"
          /\ s.informationDirection = d.srdo.informationDirection
          /\ s.cycleTime = d.srdo.cycleTime /\ s.validationTime = d.srdo.validationTime
          /\ s.NMTisOperationalPrevious = d.srdo.NMTisOperationalPrevious
          /\ s.CANrxData = d.srdo.CANrxData /\ s.CANtxData = d.srdo.CANtxData
          /\ s.CANrxNew = d.srdo.CANrxNew /\ s.nextIsNormal = d.srdo.nextIsNormal
          /\ s.cycleTimer = d.srdo.cycleTimer /\ s.validationTimer = d.srdo.validationTimer
      BY <1>1, <2>2, Zenon DEF SrdoType
    <2> HIDE DEF s
    <2>4. /\ m \in NodeType /\ m.srdo = s /\ m.od = d.od /\ m.vals = d.vals
          /\ m.previous = d.previous /\ m.guard = d.guard
      BY <2>1, <2>2, <2>3, Zenon DEF NodeType
    <2>5. SameSetting(m, d)
      BY <2>3, <2>4, Zenon DEF SameSetting
    <2>6. Unmoved(m, d)
      BY <2>2, <2>3, <2>4, Zenon DEF Unmoved, Works
    <2> QED  BY <2>5, <2>6, Zenon DEF TookFrame, m
  <1>3. CASE ~d.srdo.rxSrdoShort /\ ~d.srdo.CANrxNew[IF d.srdo.nextIsNormal THEN 0 ELSE 1]
    <2>1. m = d
      BY <1>3 DEF rx_frame
    <2> HIDE DEF m
    <2>2. SameSetting(m, d) /\ Unmoved(m, d)
      BY <1>3, <2>1 DEF SameSetting, Unmoved
    <2> QED  BY <2>2, Zenon DEF TookFrame, m
  <1>4. CASE ~d.srdo.rxSrdoShort /\ d.srdo.nextIsNormal /\ d.srdo.CANrxNew[0]
    <2>1. m = rx_normal(d)
      BY <1>4 DEF rx_frame
    <2> QED  BY <1>4, <2>1, NormalStep
  <1>5. CASE ~d.srdo.rxSrdoShort /\ ~d.srdo.nextIsNormal /\ d.srdo.CANrxNew[1]
    <2>1. m = rx_inverted(d)
      BY <1>5 DEF rx_frame
    <2> QED  BY <1>5, <2>1, InvertedStep
  <1> QED  BY <1>1, <1>2, <1>3, <1>4, <1>5

\* r is m at the end of CO_SRDO_process.
Finished(r, m, op) ==
    /\ r \in NodeType /\ r.od = m.od /\ r.vals = m.vals /\ r.previous = m.previous
    /\ r.guard.NMTisOperational = op /\ r.guard.configurationValid = m.guard.configurationValid
    /\ r.srdo.NMTisOperationalPrevious = op
    /\ r.srdo.informationDirection = m.srdo.informationDirection
    /\ r.srdo.cycleTime = m.srdo.cycleTime /\ r.srdo.validationTime = m.srdo.validationTime
    /\ r.srdo.internalState = m.srdo.internalState
    /\ r.srdo.cycleTimer = m.srdo.cycleTimer /\ r.srdo.validationTimer = m.srdo.validationTimer
    /\ r.srdo.CANrxNew = m.srdo.CANrxNew /\ r.srdo.CANrxData = m.srdo.CANrxData
    /\ r.srdo.CANtxData = m.srdo.CANtxData /\ r.srdo.nextIsNormal = m.srdo.nextIsNormal

\* What CO_SRDO_process does besides the step.
LEMMA FinishOK ==
    ASSUME NEW c, NEW dt, NEW op \in BOOLEAN, NEW ok, NEW m \in NodeType, NEW frame,
           srdo_stepped(c, dt, op, ok) = [node |-> m, frame |-> frame]
    PROVE  LET r == CO_SRDO_process(c, dt, op, ok) IN Finished(r.node, m, op) /\ r.frame = frame
  <1> DEFINE s == [m.srdo EXCEPT !.NMTisOperationalPrevious = op]
             g == [m.guard EXCEPT !.NMTisOperational = op]
             n == [m EXCEPT !.srdo = s, !.guard = g]
             r == CO_SRDO_process(c, dt, op, ok)
  <1>1. r = [[node |-> m, frame |-> frame] EXCEPT !.node.srdo.NMTisOperationalPrevious = op,
                                                  !.node.guard.NMTisOperational = op]
    BY DEF CO_SRDO_process
  <1>2. r = [node |-> n, frame |-> frame]
    BY <1>1 DEF NodeType
  <1>3. m.srdo \in SrdoType /\ m.guard \in GuardType
    BY DEF NodeType
  <1>4. /\ g \in GuardType /\ g.NMTisOperational = op
        /\ g.configurationValid = m.guard.configurationValid
    BY <1>3, Zenon DEF GuardType
  <1>5. /\ s \in SrdoType /\ s.NMTisOperationalPrevious = op
        /\ s.informationDirection = m.srdo.informationDirection
        /\ s.cycleTime = m.srdo.cycleTime /\ s.validationTime = m.srdo.validationTime
        /\ s.internalState = m.srdo.internalState
        /\ s.cycleTimer = m.srdo.cycleTimer /\ s.validationTimer = m.srdo.validationTimer
        /\ s.CANrxNew = m.srdo.CANrxNew /\ s.CANrxData = m.srdo.CANrxData
        /\ s.CANtxData = m.srdo.CANtxData /\ s.nextIsNormal = m.srdo.nextIsNormal
    BY <1>3, Zenon DEF SrdoType
  <1> HIDE DEF s, g
  <1>6. /\ n \in NodeType /\ n.srdo = s /\ n.guard = g /\ n.od = m.od /\ n.vals = m.vals
        /\ n.previous = m.previous
    BY <1>4, <1>5, Zenon DEF NodeType
  <1> HIDE DEF n
  <1>7. Finished(n, m, op)
    BY <1>4, <1>5, <1>6, Zenon DEF Finished
  <1> QED  BY <1>2, <1>7 DEF r

\* The object is idle.
LEMMA IdleStep ==
    ASSUME NEW c \in NodeType, NEW op
    PROVE  LET m == srdo_idle(c, op)
               i == IF ~c.guard.configurationValid THEN "error_configuration"
                    ELSE IF ~op THEN "nmtNotOperational"
                    ELSE IF c.srdo.informationDirection = DELETED THEN "deleted" ELSE c.srdo.internalState
           IN  /\ SameSetting(m, c) /\ m.srdo.CANrxNew = noNew /\ m.srdo.internalState = i /\ m.vals = c.vals
  <1> DEFINE i == IF ~c.guard.configurationValid THEN "error_configuration"
                  ELSE IF ~op THEN "nmtNotOperational"
                  ELSE IF c.srdo.informationDirection = DELETED THEN "deleted" ELSE c.srdo.internalState
             s == [c.srdo EXCEPT !.CANrxNew = noNew, !.internalState = i]
             m == srdo_idle(c, op)
  <1>1. c.srdo \in SrdoType /\ c.srdo.internalState \in States
    BY DEF NodeType, SrdoType
  <1>2. i \in States /\ noNew \in [0..1 -> BOOLEAN]
    BY <1>1 DEF States, errorStates, noNew
  <1>3. m = [c EXCEPT !.srdo = s]
    BY DEF srdo_idle, NodeType
  <1> HIDE DEF i, m
  <1>4. /\ s \in SrdoType /\ s.internalState = i /\ s.CANrxNew = noNew
        /\ s.informationDirection = c.srdo.informationDirection
        /\ s.cycleTime = c.srdo.cycleTime /\ s.validationTime = c.srdo.validationTime
        /\ s.NMTisOperationalPrevious = c.srdo.NMTisOperationalPrevious
        /\ s.CANrxData = c.srdo.CANrxData /\ s.CANtxData = c.srdo.CANtxData
    BY <1>1, <1>2, Zenon DEF SrdoType
  <1> HIDE DEF s
  <1>5. /\ m \in NodeType /\ m.srdo = s /\ m.od = c.od /\ m.vals = c.vals
        /\ m.previous = c.previous /\ m.guard = c.guard
    BY <1>3, <1>4, WithSrdo
  <1>6. SameSetting(m, c)
    BY <1>4, <1>5, Zenon DEF SameSetting
  <1> QED  BY <1>4, <1>5, <1>6 DEF m, i

\* The age of the value after a call that starts with c and ends with r.
ValueAge(c, r, ra, va) ==
    IF ~Established(r) THEN 0 ELSE IF c.srdo.CANrxNew[1] /\ ~r.srdo.CANrxNew[1] THEN ra ELSE va

\* A call of the consumer c has ended with r.
CallOK(r, c, op, ra, va, f) ==
    /\ RxOK(r)
    /\ AgesOK(r, IF r.srdo.CANrxNew[0] THEN ra ELSE 0, ValueAge(c, r, ra, va), 0)
    /\ FailureOK(r, op /\ (f \/ r.srdo.internalState \in errorStates))

\* The call of an object that is idle.
LEMMA IdleCall ==
    ASSUME NEW c, NEW op \in BOOLEAN, Ready(c, op), NEW f \in BOOLEAN, FailureOK(c, f),
           NEW ra \in Nat, NEW va \in Nat, pair \in DOMAIN Pairs,
           ~(op /\ c.srdo.informationDirection # DELETED /\ c.od.valid /\ Works(c)),
           NEW r, Finished(r, srdo_idle(c, op), op)
    PROVE  CallOK(r, c, op, ra, va, f)
  <1> DEFINE m == srdo_idle(c, op)
  <1>1. c \in NodeType /\ c.guard.configurationValid = c.od.valid /\ c.od.valid \in BOOLEAN
    BY DEF Ready, NodeType, OdType
  <1>2. /\ SameSetting(m, c) /\ m.srdo.CANrxNew = noNew /\ m.vals = c.vals
        /\ m.srdo.internalState =
             IF ~c.guard.configurationValid THEN "error_configuration"
             ELSE IF ~op THEN "nmtNotOperational"
             ELSE IF c.srdo.informationDirection = DELETED THEN "deleted" ELSE c.srdo.internalState
    BY <1>1, IdleStep
  <1> HIDE DEF m
  <1>3. /\ r \in NodeType /\ r.od = c.od /\ r.previous = op
        /\ r.guard.NMTisOperational = op /\ r.guard.configurationValid = c.od.valid
        /\ r.srdo.NMTisOperationalPrevious = op
        /\ r.srdo.informationDirection = c.srdo.informationDirection
        /\ r.srdo.cycleTime = c.srdo.cycleTime /\ r.srdo.validationTime = c.srdo.validationTime
        /\ r.srdo.internalState = m.srdo.internalState /\ r.srdo.CANrxNew = noNew
    BY <1>1, <1>2, Zenon DEF Finished, SameSetting, Ready, m
  <1>4. ~r.srdo.CANrxNew[0] /\ ~r.srdo.CANrxNew[1]
    BY <1>3 DEF noNew
  <1>5. ~Established(r)
    BY <1>1, <1>2, <1>3 DEF Established, Works, errorStates
  <1>6. op => Configured(r)
    BY <1>3 DEF Configured, Ready
  <1>7. DataOK(r.srdo)
    BY <1>4 DEF DataOK
  <1>8. RxOK(r)
    BY <1>3, <1>5, <1>6, <1>7, Zenon DEF RxOK, Ready
  <1>9. ~Active(r)
    <2>1. Works(r) /\ op /\ c.od.valid => r.srdo.internalState = "deleted" \/ Works(c)
      BY <1>1, <1>2, <1>3 DEF Works
    <2>2. r.srdo.internalState = "deleted" /\ op /\ c.od.valid => c.srdo.informationDirection = DELETED \/ Works(c)
      BY <1>1, <1>2, <1>3 DEF Works, errorStates
    <2> QED  BY <1>3, <2>1, <2>2 DEF Active
  <1>10. \A x, y : AgesOK(r, x, y, 0)
    BY <1>4, <1>5, <1>9, Zenon DEF AgesOK
  <1>11. FailureOK(r, op /\ (f \/ r.srdo.internalState \in errorStates))
    BY <1>1, <1>2, <1>3 DEF FailureOK, errorStates
  <1> QED  BY <1>8, <1>10, <1>11, Zenon DEF CallOK

\* The object after the step m of an active consumer c.
Stepped(m, c, dt) ==
    \E d, k : /\ d \in NodeType /\ TimedAs(d.srdo, c.srdo, dt)
              /\ d.od = c.od /\ d.vals = c.vals /\ d.previous = c.previous /\ d.guard = c.guard
              /\ TookFrame(k, d) /\ m = rx_timeout(k)

\* It is what srdo_active makes.
LEMMA ActiveStep ==
    ASSUME NEW c, Ready(c, TRUE), NEW dt \in Nat, NEW ok
    PROVE  LET d == [c EXCEPT !.srdo = srdo_started(srdo_timers(@, dt))]
               m == rx_timeout(rx_frame(d))
           IN  /\ srdo_active(d, ok) = [node |-> m, frame |-> "none"]
               /\ m \in NodeType /\ Stepped(m, c, dt)
  <1> DEFINE t == srdo_started(srdo_timers(c.srdo, dt))
             d == [c EXCEPT !.srdo = t]
             k == rx_frame(d)
             m == rx_timeout(k)
  <1>1. c \in NodeType /\ c.srdo \in SrdoType /\ c.srdo.informationDirection # TX
    BY DEF Ready, NodeType
  <1>2. TimedAs(t, c.srdo, dt)
    BY <1>1, TimersOK
  <1>3. t \in SrdoType /\ t.informationDirection # TX
    BY <1>1, <1>2 DEF TimedAs
  <1> HIDE DEF t
  <1>4. /\ d \in NodeType /\ d.srdo = t /\ d.od = c.od /\ d.vals = c.vals
        /\ d.previous = c.previous /\ d.guard = c.guard
    BY <1>1, <1>3, WithSrdo
  <1> HIDE DEF d
  <1>5. TookFrame(k, d)
    BY <1>4, FrameStep
  <1> HIDE DEF k
  <1>6. k \in NodeType
    BY <1>5 DEF TookFrame, SameSetting
  <1>7. m \in NodeType
    BY <1>6, TimeoutOK DEF SameSetting
  <1>8. srdo_active(d, ok) = [node |-> m, frame |-> "none"]
    BY <1>3, <1>4 DEF srdo_active, nothing_sent, k
  <1>9. Stepped(m, c, dt)
    BY <1>2, <1>4, <1>5, Zenon DEF Stepped
  <1> QED  BY <1>7, <1>8, <1>9 DEF m, k, d, t

\* The ages after the step m of a consumer c that still works.
Aged(m, c, ra, va) ==
    /\ m.srdo.nextIsNormal => ~m.srdo.CANrxNew[0]
    /\ ~m.srdo.nextIsNormal =>
          /\ m.srdo.validationTimer <= m.srdo.validationTime
          /\ m.srdo.CANrxNew[0] => ra + m.srdo.validationTimer <= m.srdo.validationTime + Pair.call + 0
    /\ Established(m) =>
          /\ m.srdo.cycleTimer # 0
          /\ m.vals.plain = m.vals.inverted /\ m.vals.plain \notin Broken \cup {0}
          /\ (IF c.srdo.CANrxNew[1] /\ ~m.srdo.CANrxNew[1] THEN ra ELSE va) + m.srdo.cycleTimer
                <= m.srdo.cycleTime + m.srdo.validationTime + 2 * Pair.call + 0

\* What an active call makes of the age of the frame in the buffer and of the
\* age of the value.
LEMMA ActiveAges ==
    ASSUME NEW c, Ready(c, TRUE), NEW dt \in Nat, dt <= Pair.call, pair \in DOMAIN Pairs,
           c.srdo.informationDirection # DELETED, c.od.valid, Works(c),
           NEW ra \in Nat, NEW va \in Nat, AgesOK(c, ra, va, dt),
           NEW d \in NodeType, TimedAs(d.srdo, c.srdo, dt), d.od = c.od, d.vals = c.vals,
           NEW k, TookFrame(k, d), Works(rx_timeout(k))
    PROVE  Aged(rx_timeout(k), c, ra, va)
  <1> DEFINE m == rx_timeout(k)
             s == m.srdo
             t == d.srdo
             pace == Pair.call
  <1>1. k \in NodeType /\ SameSetting(k, d)
    BY DEF TookFrame, SameSetting
  <1>2. /\ SameSetting(m, k) /\ m.vals = k.vals
        /\ s.cycleTimer = k.srdo.cycleTimer /\ s.validationTimer = k.srdo.validationTimer
        /\ s.CANrxNew = k.srdo.CANrxNew /\ s.nextIsNormal = k.srdo.nextIsNormal
        /\ s.internalState = k.srdo.internalState
        /\ s.cycleTimer # 0 /\ s.validationTimer # 0
    BY <1>1, TimeoutOK
  <1> HIDE DEF m
  <1>3. Works(k) /\ (Established(m) <=> Established(k))
    BY <1>2 DEF Works, Established, m
  <1>4. s.cycleTime = c.srdo.cycleTime /\ s.validationTime = c.srdo.validationTime
    BY <1>1, <1>2 DEF SameSetting, TimedAs
  <1>5. /\ c \in NodeType /\ c.srdo \in SrdoType /\ c.srdo.CANrxNew \in [0..1 -> BOOLEAN]
        /\ c.srdo.cycleTime \in Nat /\ c.srdo.validationTime \in Nat
        /\ c.srdo.cycleTimer \in Nat /\ c.srdo.validationTimer \in Nat
        /\ c.srdo.NMTisOperationalPrevious = c.guard.NMTisOperational
        /\ c.guard.NMTisOperational \in BOOLEAN /\ c.srdo.nextIsNormal \in BOOLEAN
    BY DEF Ready, NodeType, SrdoType, GuardType
  <1>6. pace \in Nat
    BY PairTypes
  <1>7. t.CANrxNew = c.srdo.CANrxNew /\ t.CANrxData = c.srdo.CANrxData
    BY DEF TimedAs
  \* The frame in the buffer when the object waits for it.
  <1>8. t.nextIsNormal /\ c.srdo.CANrxNew[0] => ra <= dt
    BY <1>5 DEF AgesOK, TimedAs
  \* The object goes on.
  <1>9. CASE c.guard.NMTisOperational
    <2>1. Active(c)
      BY <1>9 DEF Active
    <2>2. /\ t.cycleTimer = run_down(c.srdo.cycleTimer, dt)
          /\ t.validationTimer = run_down(c.srdo.validationTimer, dt)
          /\ t.nextIsNormal = c.srdo.nextIsNormal /\ t.internalState = c.srdo.internalState
      BY <1>5, <1>9, Zenon DEF TimedAs
    <2>3. /\ t.cycleTimer \in Nat /\ (t.cycleTimer # 0 => t.cycleTimer + dt = c.srdo.cycleTimer)
          /\ t.validationTimer \in Nat /\ t.validationTimer <= c.srdo.validationTimer
          /\ t.validationTimer # 0 => t.validationTimer + dt = c.srdo.validationTimer
      <3> HIDE DEF t
      <3>1. /\ run_down(c.srdo.cycleTimer, dt) \in Nat
            /\ run_down(c.srdo.cycleTimer, dt) # 0
                  => run_down(c.srdo.cycleTimer, dt) + dt = c.srdo.cycleTimer
        BY <1>5, RunDown, Zenon
      <3>2. /\ run_down(c.srdo.validationTimer, dt) \in Nat
            /\ run_down(c.srdo.validationTimer, dt) <= c.srdo.validationTimer
            /\ run_down(c.srdo.validationTimer, dt) # 0
                  => run_down(c.srdo.validationTimer, dt) + dt = c.srdo.validationTimer
        BY <1>5, RunDown, Zenon
      <3> QED  BY <2>2, <3>1, <3>2, Zenon
    <2>4. ~c.srdo.nextIsNormal =>
            /\ c.srdo.validationTimer <= c.srdo.validationTime
            /\ c.srdo.CANrxNew[0] => ra + c.srdo.validationTimer <= c.srdo.validationTime + pace + dt
      BY <2>1 DEF AgesOK
    <2>5. Established(c) =>
            va + c.srdo.cycleTimer <= c.srdo.cycleTime + c.srdo.validationTime + 2 * pace + dt
      BY DEF AgesOK
    <2>6. CASE Unmoved(k, d) \/ TookNormal(k, d)
      <3>1. /\ k.srdo.CANrxNew = c.srdo.CANrxNew /\ k.srdo.cycleTimer = t.cycleTimer /\ k.vals = c.vals
            /\ k.srdo.internalState = c.srdo.internalState
        BY <1>3, <1>7, <2>2, <2>6, Zenon DEF Unmoved, TookNormal
      <3>2. Established(m) => Established(c)
        BY <1>3, <3>1 DEF Established
      <3>3. Established(m) =>
              /\ m.vals.plain = m.vals.inverted /\ m.vals.plain \notin Broken \cup {0}
              /\ ~(c.srdo.CANrxNew[1] /\ ~s.CANrxNew[1])
        BY <1>2, <3>1, <3>2 DEF Ready
      <3>4. Established(m) => va + s.cycleTimer <= s.cycleTime + s.validationTime + 2 * pace + 0
        <4> HIDE DEF pace, s, t
        <4> QED  BY <1>2, <1>4, <1>5, <1>6, <2>3, <2>5, <3>1, <3>2
      <3>5. CASE Unmoved(k, d)
        <4>1. /\ s.nextIsNormal = c.srdo.nextIsNormal /\ s.validationTimer = t.validationTimer
              /\ s.nextIsNormal => ~s.CANrxNew[0]
          BY <1>2, <1>3, <1>7, <2>2, <3>1, <3>5 DEF Unmoved
        <4>2. ~s.nextIsNormal => /\ s.validationTimer <= s.validationTime
                                 /\ ra + s.validationTimer <= s.validationTime + pace + 0 \/ ~s.CANrxNew[0]
          <5>1. s.CANrxNew[0] = c.srdo.CANrxNew[0]
            BY <1>2, <3>1
          <5> HIDE DEF pace, s, t
          <5> QED  BY <1>2, <1>4, <1>5, <1>6, <2>3, <2>4, <4>1, <5>1
        <4> QED  BY <1>2, <3>3, <3>4, <4>1, <4>2 DEF m, Aged
      <3>6. CASE TookNormal(k, d)
        <4>1. ~s.nextIsNormal /\ s.validationTimer = s.validationTime /\ t.nextIsNormal /\ c.srdo.CANrxNew[0]
          BY <1>1, <1>2, <1>7, <3>6 DEF TookNormal, SameSetting
        <4>2. ra <= dt
          BY <1>8, <4>1
        <4>3. s.validationTimer <= s.validationTime /\ ra + s.validationTimer <= s.validationTime + pace + 0
          <5> HIDE DEF pace, s, t
          <5> QED  BY <1>4, <1>5, <1>6, <4>1, <4>2 DEF pace
        <4> QED  BY <1>2, <3>3, <3>4, <4>1, <4>3 DEF m, Aged
      <3> QED  BY <2>6, <3>5, <3>6
    <2>7. CASE TookInverted(k, d)
      <3>1. /\ ~c.srdo.nextIsNormal /\ c.srdo.CANrxNew[1] /\ s.CANrxNew = noNew /\ s.nextIsNormal
            /\ s.cycleTimer = s.cycleTime
            /\ c.srdo.CANrxData[0] = c.srdo.CANrxData[1]
            /\ m.vals.plain = c.srdo.CANrxData[0] /\ m.vals.inverted = c.srdo.CANrxData[0]
        BY <1>1, <1>2, <1>3, <1>7, <2>2, <2>7, Zenon DEF TookInverted, SameSetting
      <3>2. ~s.CANrxNew[0] /\ ~s.CANrxNew[1]
        BY <3>1 DEF noNew
      <3>3. /\ c.srdo.CANrxNew[0] /\ c.srdo.CANrxData[1] # 9 /\ c.srdo.CANrxData[0] \notin {0, 8}
        BY <3>1 DEF Ready, DataOK
      <3>4. m.vals.plain = m.vals.inverted /\ m.vals.plain \notin Broken \cup {0}
        BY <3>1, <3>3 DEF Broken
      <3>5. ra + s.cycleTimer <= s.cycleTime + s.validationTime + 2 * pace + 0
        <4> HIDE DEF pace, s, t
        <4> QED  BY <1>4, <1>5, <1>6, <2>4, <3>1, <3>3 DEF pace
      <3> QED  BY <1>2, <3>1, <3>2, <3>4, <3>5 DEF m, Aged
    <2> QED  BY <2>6, <2>7 DEF TookFrame
  \* The object starts.
  <1>10. CASE ~c.guard.NMTisOperational
    <2>1. t.nextIsNormal = TRUE /\ t.internalState = "initializing"
      BY <1>5, <1>10 DEF TimedAs
    <2>2. ~TookInverted(k, d)
      BY <2>1 DEF TookInverted
    <2>3. CASE Unmoved(k, d)
      <3>1. s.nextIsNormal /\ ~s.CANrxNew[0] /\ ~Established(m)
        BY <1>2, <1>3, <2>1, <2>3 DEF Unmoved, Established
      <3> QED  BY <3>1 DEF m, Aged
    <2>4. CASE TookNormal(k, d)
      <3>1. /\ ~s.nextIsNormal /\ s.validationTimer = s.validationTime /\ c.srdo.CANrxNew[0]
            /\ ~Established(m)
        BY <1>1, <1>2, <1>3, <1>7, <2>1, <2>4 DEF TookNormal, SameSetting, Established
      <3>2. ra <= dt
        BY <1>8, <2>1, <3>1
      <3>3. s.validationTimer <= s.validationTime /\ ra + s.validationTimer <= s.validationTime + pace + 0
        <4> HIDE DEF pace, s, t
        <4> QED  BY <1>4, <1>5, <1>6, <3>1, <3>2 DEF pace
      <3> QED  BY <3>1, <3>3 DEF m, Aged
    <2> QED  BY <2>2, <2>3, <2>4 DEF TookFrame
  <1> QED  BY <1>5, <1>9, <1>10

\* The call of an object that is active.
LEMMA ActiveCall ==
    ASSUME NEW c, Ready(c, TRUE), NEW dt \in Nat, dt <= Pair.call, pair \in DOMAIN Pairs,
           c.srdo.informationDirection # DELETED, c.od.valid, Works(c),
           NEW ra \in Nat, NEW va \in Nat, AgesOK(c, ra, va, dt),
           NEW f \in BOOLEAN, FailureOK(c, f),
           NEW m, Stepped(m, c, dt), NEW r, Finished(r, m, TRUE)
    PROVE  CallOK(r, c, TRUE, ra, va, f)
  <1>1. PICK d, k : /\ d \in NodeType /\ TimedAs(d.srdo, c.srdo, dt)
                    /\ d.od = c.od /\ d.vals = c.vals /\ d.previous = c.previous /\ d.guard = c.guard
                    /\ TookFrame(k, d) /\ m = rx_timeout(k)
    BY DEF Stepped
  <1>2. k \in NodeType /\ SameSetting(k, d)
    BY <1>1 DEF TookFrame, SameSetting
  <1>3. SameSetting(m, k) /\ m.srdo.CANrxNew = k.srdo.CANrxNew
    BY <1>1, <1>2, TimeoutOK
  <1>4. /\ r \in NodeType /\ r.od = c.od /\ r.previous = TRUE
        /\ r.guard.NMTisOperational = TRUE /\ r.guard.configurationValid = c.od.valid
        /\ r.srdo.NMTisOperationalPrevious = TRUE
        /\ r.srdo.informationDirection = c.srdo.informationDirection
        /\ r.srdo.cycleTime = c.srdo.cycleTime /\ r.srdo.validationTime = c.srdo.validationTime
        /\ r.srdo.CANrxData = c.srdo.CANrxData /\ r.srdo.internalState = m.srdo.internalState
    <2>1. /\ d.srdo.informationDirection = c.srdo.informationDirection
          /\ d.srdo.cycleTime = c.srdo.cycleTime /\ d.srdo.validationTime = c.srdo.validationTime
          /\ d.srdo.CANrxData = c.srdo.CANrxData
      BY <1>1, Zenon DEF TimedAs
    <2>2. /\ m.od = d.od /\ m.previous = d.previous /\ m.guard = d.guard
          /\ m.srdo.informationDirection = d.srdo.informationDirection
          /\ m.srdo.cycleTime = d.srdo.cycleTime /\ m.srdo.validationTime = d.srdo.validationTime
          /\ m.srdo.CANrxData = d.srdo.CANrxData
      BY <1>2, <1>3, Zenon DEF SameSetting
    <2>3. c.previous = TRUE /\ c.guard.configurationValid = c.od.valid
      BY DEF Ready
    <2> QED  BY <1>1, <2>1, <2>2, <2>3, Zenon DEF Finished
  <1>5. r.srdo.CANrxNew \in {c.srdo.CANrxNew, noNew}
    BY <1>1, <1>3, Zenon DEF Finished, TookFrame, Unmoved, TookNormal, TookInverted, TimedAs
  <1>6. DataOK(r.srdo)
    BY <1>4, <1>5 DEF DataOK, Ready, noNew
  <1>7. Configured(r)
    BY <1>4 DEF Configured, Ready
  <1>8. CASE ~Works(m)
    <2>1. ~Works(r) /\ ~Established(r) /\ r.srdo.internalState \in errorStates
      BY <1>4, <1>8 DEF Works, Established, errorStates
    <2>2. RxOK(r)
      BY <1>4, <1>6, <1>7, <2>1, Zenon DEF RxOK, Ready
    <2>3. \A x, y : AgesOK(r, x, y, 0)
      BY <2>1, Zenon DEF AgesOK, Active
    <2>4. \A x : FailureOK(r, x)
      BY <2>1, Zenon DEF FailureOK
    <2> QED  BY <2>2, <2>3, <2>4, Zenon DEF CallOK
  <1>9. CASE Works(m)
    <2> DEFINE s == m.srdo
               age == IF c.srdo.CANrxNew[1] /\ ~s.CANrxNew[1] THEN ra ELSE va
    <2>1. Aged(m, c, ra, va)
      <3>1. Works(rx_timeout(k))
        BY <1>1, <1>9
      <3>2. Aged(rx_timeout(k), c, ra, va)
        BY <1>1, <3>1, ActiveAges
      <3> QED  BY <1>1, <3>2
    <2>2. /\ r.srdo.nextIsNormal = s.nextIsNormal /\ r.srdo.CANrxNew = s.CANrxNew
          /\ r.srdo.validationTimer = s.validationTimer /\ r.srdo.cycleTimer = s.cycleTimer
          /\ r.srdo.validationTime = s.validationTime /\ r.srdo.cycleTime = s.cycleTime
          /\ r.vals = m.vals
      BY DEF Finished
    <2>3. /\ Works(r) /\ (Established(r) <=> Established(m)) /\ Active(r)
      BY <1>4, <1>9 DEF Works, Established, Active
    <2> HIDE DEF s, age
    <2>4. Established(r) => /\ r.srdo.cycleTimer # 0 /\ r.vals.plain = r.vals.inverted
                            /\ r.vals.plain \notin Broken \cup {0}
      BY <2>1, <2>2, <2>3 DEF Aged, s
    <2>5. RxOK(r)
      BY <1>4, <1>6, <1>7, <2>3, <2>4, Zenon DEF RxOK, Ready
    <2>6. AgesOK(r, IF r.srdo.CANrxNew[0] THEN ra ELSE 0, ValueAge(c, r, ra, va), 0)
      <3>1. Established(r) => ValueAge(c, r, ra, va) = age
        BY <2>2 DEF ValueAge, age, s
      <3> HIDE DEF ValueAge
      <3> QED  BY <1>4, <2>1, <2>2, <2>3, <3>1 DEF AgesOK, Aged, age, s
    <2>7. ~f
      BY DEF FailureOK, Works
    <2>8. FailureOK(r, TRUE /\ (f \/ r.srdo.internalState \in errorStates))
      BY <2>3, <2>7 DEF FailureOK, Works
    <2> QED  BY <2>5, <2>6, <2>8 DEF CallOK
  <1> QED  BY <1>8, <1>9

\* CO_SRDO_process of the consumer.
LEMMA ProcessCall ==
    ASSUME NEW c, NEW op \in BOOLEAN, Ready(c, op), NEW dt \in Nat, dt <= Pair.call, pair \in DOMAIN Pairs,
           NEW ra \in Nat, NEW va \in Nat, AgesOK(c, ra, va, dt),
           NEW f \in BOOLEAN, FailureOK(c, f), NEW ok
    PROVE  CallOK(CO_SRDO_process(c, dt, op, ok).node, c, op, ra, va, f)
  <1> DEFINE r == CO_SRDO_process(c, dt, op, ok).node
  <1>1. c \in NodeType /\ c.guard.configurationValid = c.od.valid
    BY DEF Ready
  <1>2. CASE op /\ c.srdo.informationDirection # DELETED /\ c.od.valid /\ Works(c)
    <2> DEFINE d == [c EXCEPT !.srdo = srdo_started(srdo_timers(@, dt))]
               m == rx_timeout(rx_frame(d))
    <2>1. Ready(c, TRUE) /\ op = TRUE
      BY <1>2
    <2>2. srdo_stepped(c, dt, op, ok) = srdo_active(d, ok)
      BY <1>1, <1>2 DEF srdo_stepped, Works
    <2>3. /\ srdo_active(d, ok) = [node |-> m, frame |-> "none"]
          /\ m \in NodeType /\ Stepped(m, c, dt)
      BY <2>1, ActiveStep
    <2> HIDE DEF m, d
    <2>4. Finished(r, m, TRUE)
      BY <2>1, <2>2, <2>3, FinishOK
    <2> HIDE DEF r
    <2>5. CallOK(r, c, TRUE, ra, va, f)
      BY <1>2, <2>1, <2>3, <2>4, ActiveCall
    <2> QED  BY <2>1, <2>5 DEF r
  <1>3. CASE ~(op /\ c.srdo.informationDirection # DELETED /\ c.od.valid /\ Works(c))
    <2> DEFINE m == srdo_idle(c, op)
    <2>1. srdo_stepped(c, dt, op, ok) = [node |-> m, frame |-> "none"]
      BY <1>1, <1>3 DEF srdo_stepped, Works, nothing_sent
    <2>2. m \in NodeType
      BY <1>1, IdleStep DEF SameSetting
    <2> HIDE DEF m
    <2>3. Finished(r, m, op)
      BY <2>1, <2>2, FinishOK
    <2> HIDE DEF r
    <2>4. CallOK(r, c, op, ra, va, f)
      BY <1>3, <2>3, IdleCall DEF m
    <2> QED  BY <2>4 DEF r
  <1> QED  BY <1>2, <1>3
-----------------------------------------------------------------------------
(* Reception *)

\* What the consumer can see on the bus: the frames of the producer and what
\* the faults make of them.
Arriving == {f \in [ident : Names, inverted : BOOLEAN, DLC : Nat, data : Nat] :
                /\ ~f.inverted => f.data \notin {0, 8}
                /\ f.inverted => f.data # 9}

\* The consumer takes a normal frame.
Accepts(s, frame) == /\ ~frame.inverted /\ frame.ident = s.ident[RX]
                     /\ frame.DLC >= s.dataLength /\ wants_normal(s)

\* t is the object s after a frame.
ReceivedAs(t, s, frame) ==
    /\ t \in SrdoType
    /\ t.informationDirection = s.informationDirection /\ t.internalState = s.internalState
    /\ t.cycleTime = s.cycleTime /\ t.validationTime = s.validationTime
    /\ t.NMTisOperationalPrevious = s.NMTisOperationalPrevious
    /\ t.cycleTimer = s.cycleTimer /\ t.validationTimer = s.validationTimer
    /\ t.nextIsNormal = s.nextIsNormal
    /\ \/ ~Accepts(s, frame) /\ t.CANrxNew = s.CANrxNew /\ t.CANrxData = s.CANrxData
       \/ /\ Accepts(s, frame) /\ ~s.CANrxNew[1]
          /\ t.CANrxNew = [s.CANrxNew EXCEPT ![0] = TRUE]
          /\ t.CANrxData = [s.CANrxData EXCEPT ![0] = frame.data]
       \/ /\ ~Accepts(s, frame) /\ frame.inverted /\ s.CANrxNew[0]
          /\ t.CANrxNew = [s.CANrxNew EXCEPT ![1] = TRUE]
          /\ t.CANrxData = [s.CANrxData EXCEPT ![1] = frame.data]

\* CO_SRDO_receive.
LEMMA ReceiveStep ==
    ASSUME NEW s \in SrdoType, NEW frame \in Arriving
    PROVE  ReceivedAs(CO_SRDO_receive(s, frame), s, frame)
  <1> DEFINE t == CO_SRDO_receive(s, frame)
             b == IF frame.inverted THEN 1 ELSE 0
             wanted == IF frame.inverted THEN wants_inverted(s) ELSE wants_normal(s)
             new  == [s.CANrxNew EXCEPT ![b] = TRUE]
             data == [s.CANrxData EXCEPT ![b] = frame.data]
  <1>1. /\ s.CANrxNew \in [0..1 -> BOOLEAN] /\ s.CANrxData \in [0..1 -> Nat] /\ s.dataLength \in Nat
        /\ frame.DLC \in Nat /\ frame.data \in Nat /\ frame.inverted \in BOOLEAN /\ b \in 0..1
    BY DEF SrdoType, Arriving
  <1>2. CASE frame.ident # s.ident[RX] \/ (frame.DLC >= s.dataLength /\ ~wanted)
    <2>1. t = s
      BY <1>1, <1>2 DEF CO_SRDO_receive
    <2>2. ~Accepts(s, frame)
      BY <1>2 DEF Accepts
    <2>3. ReceivedAs(s, s, frame)
      BY <2>2, Zenon DEF ReceivedAs
    <2> QED  BY <2>1, <2>3
  <1>3. CASE frame.ident = s.ident[RX] /\ frame.DLC < s.dataLength
    <2>1. t = [s EXCEPT !.rxSrdoShort = TRUE]
      BY <1>3 DEF CO_SRDO_receive
    <2>2. ~Accepts(s, frame)
      BY <1>1, <1>3 DEF Accepts
    <2> HIDE DEF t
    <2>3. /\ t \in SrdoType
          /\ t.informationDirection = s.informationDirection /\ t.internalState = s.internalState
          /\ t.cycleTime = s.cycleTime /\ t.validationTime = s.validationTime
          /\ t.NMTisOperationalPrevious = s.NMTisOperationalPrevious
          /\ t.cycleTimer = s.cycleTimer /\ t.validationTimer = s.validationTimer
          /\ t.nextIsNormal = s.nextIsNormal /\ t.CANrxNew = s.CANrxNew /\ t.CANrxData = s.CANrxData
      BY <2>1, Zenon DEF SrdoType
    <2> QED  BY <2>2, <2>3, Zenon DEF ReceivedAs, t
  <1>4. CASE frame.ident = s.ident[RX] /\ ~(frame.DLC < s.dataLength) /\ wanted
    <2>1. t = [s EXCEPT !.CANrxData = data, !.CANrxNew = new]
      BY <1>4 DEF CO_SRDO_receive, SrdoType
    <2>2. new \in [0..1 -> BOOLEAN] /\ data \in [0..1 -> Nat]
      BY <1>1
    <2>3. \/ /\ Accepts(s, frame) /\ ~s.CANrxNew[1]
             /\ new = [s.CANrxNew EXCEPT ![0] = TRUE] /\ data = [s.CANrxData EXCEPT ![0] = frame.data]
          \/ /\ ~Accepts(s, frame) /\ frame.inverted /\ s.CANrxNew[0]
             /\ new = [s.CANrxNew EXCEPT ![1] = TRUE] /\ data = [s.CANrxData EXCEPT ![1] = frame.data]
      <3>1. frame.DLC >= s.dataLength
        BY <1>1, <1>4
      <3>2. CASE frame.inverted
        <4>1. b = 1 /\ s.CANrxNew[0] /\ ~Accepts(s, frame)
          BY <1>4, <3>2 DEF Accepts, wants_inverted
        <4> QED  BY <3>2, <4>1, Zenon
      <3>3. CASE ~frame.inverted
        <4>1. b = 0 /\ ~s.CANrxNew[1] /\ Accepts(s, frame)
          BY <1>4, <3>1, <3>3, Zenon DEF Accepts, wants_normal
        <4> QED  BY <4>1, Zenon
      <3> QED  BY <3>2, <3>3
    <2> HIDE DEF t, new, data
    <2>4. /\ t \in SrdoType
          /\ t.informationDirection = s.informationDirection /\ t.internalState = s.internalState
          /\ t.cycleTime = s.cycleTime /\ t.validationTime = s.validationTime
          /\ t.NMTisOperationalPrevious = s.NMTisOperationalPrevious
          /\ t.cycleTimer = s.cycleTimer /\ t.validationTimer = s.validationTimer
          /\ t.nextIsNormal = s.nextIsNormal /\ t.CANrxNew = new /\ t.CANrxData = data
      BY <2>1, <2>2, Zenon DEF SrdoType
    <2> QED  BY <2>3, <2>4, Zenon DEF ReceivedAs, t
  <1> QED  BY <1>1, <1>2, <1>3, <1>4

\* A frame leaves the consumer as it should be.
LEMMA ReceiveOK ==
    ASSUME RxOK(rx), NEW frame \in Arriving, pair \in DOMAIN Pairs, rxAge \in Nat, NEW el \in Nat,
           AgesOK(rx, rxAge, valAge, el), FailureOK(rx, failed)
    PROVE  /\ RxOK(received(frame)) /\ ageAfter(frame) \in Nat
           /\ AgesOK(received(frame), ageAfter(frame), valAge, el)
           /\ FailureOK(received(frame), failed)
  <1> DEFINE s == rx.srdo
             t == CO_SRDO_receive(s, frame)
             n == received(frame)
             a == ageAfter(frame)
  <1>1. rx \in NodeType /\ s \in SrdoType
    BY DEF RxOK, NodeType
  <1>2. ReceivedAs(t, s, frame)
    BY <1>1, ReceiveStep
  <1>3. a = IF Accepts(s, frame) THEN 0 ELSE rxAge
    BY DEF ageAfter, Accepts
  <1>4. n = [rx EXCEPT !.srdo = t]
    BY DEF received
  <1> HIDE DEF t, a
  <1>5. t \in SrdoType
    BY <1>2 DEF ReceivedAs
  <1> HIDE DEF n
  <1>6. /\ n \in NodeType /\ n.srdo = t /\ n.od = rx.od /\ n.vals = rx.vals
        /\ n.previous = rx.previous /\ n.guard = rx.guard
    BY <1>1, <1>4, <1>5, WithSrdo
  <1>7. /\ t.informationDirection = s.informationDirection /\ t.internalState = s.internalState
        /\ t.cycleTime = s.cycleTime /\ t.validationTime = s.validationTime
        /\ t.NMTisOperationalPrevious = s.NMTisOperationalPrevious
        /\ t.cycleTimer = s.cycleTimer /\ t.validationTimer = s.validationTimer
        /\ t.nextIsNormal = s.nextIsNormal
    BY <1>2 DEF ReceivedAs
  <1>8. /\ (Works(n) <=> Works(rx)) /\ (Established(n) <=> Established(rx)) /\ (Active(n) <=> Active(rx))
        /\ (Configured(n) <=> Configured(rx))
    BY <1>6, <1>7, Zenon DEF Works, Established, Active, Configured
  <1>9. s.CANrxNew \in [0..1 -> BOOLEAN] /\ s.CANrxData \in [0..1 -> Nat]
    BY <1>1 DEF SrdoType
  <1>10. DataOK(t)
    <2>1. DataOK(s)
      BY DEF RxOK
    <2> HIDE DEF s
    <2> QED  BY <1>2, <1>9, <2>1 DEF ReceivedAs, DataOK, Arriving, Accepts
  <1>11. RxOK(n)
    BY <1>6, <1>7, <1>8, <1>10, Zenon DEF RxOK
  <1>12. a \in Nat /\ (t.CANrxNew[0] => a = 0 \/ (s.CANrxNew[0] /\ a = rxAge))
    BY <1>2, <1>3, <1>9 DEF ReceivedAs
  <1>13. AgesOK(n, a, valAge, el)
    <2>1. Pair.call \in Nat /\ s.validationTime \in Nat /\ s.validationTimer \in Nat
      BY <1>1, PairTypes DEF SrdoType
    <2> HIDE DEF s
    <2>2. n.srdo.CANrxNew[0] /\ Works(n) /\ (n.srdo.nextIsNormal \/ ~n.guard.NMTisOperational) => a <= el
      BY <1>6, <1>7, <1>8, <1>12 DEF AgesOK, s
    <2>3. Active(n) /\ ~n.srdo.nextIsNormal =>
            /\ n.srdo.validationTimer <= n.srdo.validationTime
            /\ n.srdo.CANrxNew[0] => a + n.srdo.validationTimer <= n.srdo.validationTime + Pair.call + el
      BY <1>6, <1>7, <1>8, <1>12, <2>1 DEF AgesOK, s
    <2>4. Established(n) =>
            valAge + n.srdo.cycleTimer <= n.srdo.cycleTime + n.srdo.validationTime + 2 * Pair.call + el
      BY <1>6, <1>7, <1>8 DEF AgesOK, s
    <2> QED  BY <2>2, <2>3, <2>4 DEF AgesOK
  <1>14. FailureOK(n, failed)
    BY <1>6, <1>7 DEF FailureOK
  <1> QED  BY <1>11, <1>12, <1>13, <1>14 DEF n, a
-----------------------------------------------------------------------------
(* The producer *)

\* m is the producer d after a step that hands the frame to the driver.
Produced(m, d, frame) ==
    /\ m \in NodeType /\ m.od = d.od /\ m.vals = d.vals /\ m.guard = d.guard
    /\ m.srdo.informationDirection = d.srdo.informationDirection
    /\ m.srdo.CANtxData \in {d.srdo.CANtxData, d.vals.plain}
    /\ frame \in {"none", "normal", "inverted"}
    /\ frame = "normal" => m.srdo.CANtxData = d.vals.plain

\* A node of which only some fields of the object changed.
LEMMA ProducedWith ==
    ASSUME NEW d \in NodeType, NEW t \in SrdoType, t.informationDirection = d.srdo.informationDirection,
           t.CANtxData \in {d.srdo.CANtxData, d.vals.plain},
           NEW frame \in {"none", "normal", "inverted"}, frame = "normal" => t.CANtxData = d.vals.plain
    PROVE  Produced([d EXCEPT !.srdo = t], d, frame)
  <1> DEFINE m == [d EXCEPT !.srdo = t]
  <1>1. m \in NodeType /\ m.srdo = t /\ m.od = d.od /\ m.vals = d.vals /\ m.guard = d.guard
    BY WithSrdo
  <1> HIDE DEF m
  <1> QED  BY <1>1, Zenon DEF Produced, m

\* tx_normal.
LEMMA NormalSent ==
    ASSUME NEW d \in NodeType, NEW ok \in BOOLEAN
    PROVE  \E m, frame : tx_normal(d, ok) = [node |-> m, frame |-> frame] /\ Produced(m, d, frame)
  <1> DEFINE s == d.srdo
             failing(state) == [s EXCEPT !.internalState = state]
             sent == [s EXCEPT !.cycleTimer = s.cycleTime, !.invertedDelay = MinDelay, !.nextIsNormal = FALSE,
                               !.CANtxData = d.vals.plain, !.internalState = "communicationEstablished"]
             unable == [s EXCEPT !.CANtxData = d.vals.plain, !.internalState = "error_txFail"]
  <1>1. s \in SrdoType /\ s.cycleTime \in Nat /\ d.vals.plain \in Nat /\ MinDelay \in Nat
    BY TicksAssumption DEF NodeType, SrdoType, ValsType
  <1>2. /\ "error_internal" \in States /\ "error_txNotInverted" \in States /\ "error_txFail" \in States
        /\ "communicationEstablished" \in States
    BY DEF States, errorStates
  <1>3. ASSUME NEW state \in States
        PROVE  /\ failing(state) \in SrdoType
               /\ failing(state).informationDirection = s.informationDirection
               /\ failing(state).CANtxData = s.CANtxData
    <2> HIDE DEF s
    <2> QED  BY <1>1, Zenon DEF SrdoType
  <1>4. /\ sent \in SrdoType /\ sent.informationDirection = s.informationDirection
        /\ sent.CANtxData = d.vals.plain
    <2> DEFINE p == d.vals.plain
    <2> HIDE DEF s, p
    <2> QED  BY <1>1, <1>2, Zenon DEF SrdoType, p
  <1>5. /\ unable \in SrdoType /\ unable.informationDirection = s.informationDirection
        /\ unable.CANtxData = d.vals.plain
    <2> DEFINE p == d.vals.plain
    <2> HIDE DEF s, p
    <2> QED  BY <1>1, <1>2, Zenon DEF SrdoType, p
  <1>6. Produced(d, d, "none")
    BY Zenon DEF Produced
  <1>7. \A state \in States : Produced([d EXCEPT !.srdo = failing(state)], d, "none")
    <2> TAKE state \in States
    <2> DEFINE t == failing(state)
    <2>1. t \in SrdoType /\ t.informationDirection = d.srdo.informationDirection /\ t.CANtxData = d.srdo.CANtxData
      BY <1>3
    <2> HIDE DEF t
    <2>2. Produced([d EXCEPT !.srdo = t], d, "none")
      BY <2>1, ProducedWith
    <2> QED  BY <2>2 DEF t
  <1>8. Produced([d EXCEPT !.srdo = sent], d, "normal")
    <2> HIDE DEF sent
    <2> QED  BY <1>4, ProducedWith
  <1>9. Produced([d EXCEPT !.srdo = unable], d, "normal")
    <2> HIDE DEF unable
    <2> QED  BY <1>5, ProducedWith
  <1>10. CASE d.srdo.cycleTimer # 0
    <2>1. tx_normal(d, ok) = [node |-> d, frame |-> "none"]
      BY <1>10 DEF tx_normal, nothing_sent
    <2> QED  BY <1>6, <2>1, Zenon
  <1>11. CASE d.srdo.cycleTimer = 0 /\ ~length_verified(d.srdo)
    <2>1. tx_normal(d, ok) = [node |-> [d EXCEPT !.srdo = failing("error_internal")], frame |-> "none"]
      BY <1>11 DEF tx_normal, nothing_sent
    <2> QED  BY <1>2, <1>7, <2>1, Zenon
  <1>12. CASE d.srdo.cycleTimer = 0 /\ length_verified(d.srdo) /\ d.vals.plain # d.vals.inverted
    <2>1. tx_normal(d, ok) = [node |-> [d EXCEPT !.srdo = failing("error_txNotInverted")], frame |-> "none"]
      BY <1>12 DEF tx_normal, nothing_sent
    <2> QED  BY <1>2, <1>7, <2>1, Zenon
  <1>13. CASE d.srdo.cycleTimer = 0 /\ length_verified(d.srdo) /\ d.vals.plain = d.vals.inverted /\ ok
    <2>1. tx_normal(d, ok) = [node |-> [d EXCEPT !.srdo = sent], frame |-> "normal"]
      BY <1>13 DEF tx_normal, NodeType
    <2> QED  BY <1>8, <2>1, Zenon
  <1>14. CASE d.srdo.cycleTimer = 0 /\ length_verified(d.srdo) /\ d.vals.plain = d.vals.inverted /\ ~ok
    <2>1. tx_normal(d, ok) = [node |-> [d EXCEPT !.srdo = unable], frame |-> "normal"]
      BY <1>14 DEF tx_normal, NodeType
    <2> QED  BY <1>9, <2>1, Zenon
  <1> QED  BY <1>10, <1>11, <1>12, <1>13, <1>14

\* tx_inverted.
LEMMA InvertedSent ==
    ASSUME NEW d \in NodeType, NEW ok \in BOOLEAN
    PROVE  \E m, frame : tx_inverted(d, ok) = [node |-> m, frame |-> frame] /\ Produced(m, d, frame)
  <1> DEFINE s == d.srdo
             sent == [s EXCEPT !.nextIsNormal = TRUE]
             unable == [s EXCEPT !.internalState = "error_txFail"]
  <1>1. s \in SrdoType /\ "error_txFail" \in States
    BY DEF NodeType, States, errorStates
  <1>2. /\ sent \in SrdoType /\ sent.informationDirection = s.informationDirection
        /\ sent.CANtxData = s.CANtxData
        /\ unable \in SrdoType /\ unable.informationDirection = s.informationDirection
        /\ unable.CANtxData = s.CANtxData
    <2> HIDE DEF s
    <2> QED  BY <1>1, Zenon DEF SrdoType
  <1>3. Produced(d, d, "none")
    BY Zenon DEF Produced
  <1>4. Produced([d EXCEPT !.srdo = sent], d, "inverted")
    <2> HIDE DEF sent
    <2> QED  BY <1>2, ProducedWith
  <1>5. Produced([d EXCEPT !.srdo = unable], d, "inverted")
    <2> HIDE DEF unable
    <2> QED  BY <1>2, ProducedWith
  <1>6. CASE d.srdo.invertedDelay # 0
    <2>1. tx_inverted(d, ok) = [node |-> d, frame |-> "none"]
      BY <1>6 DEF tx_inverted, nothing_sent
    <2> QED  BY <1>3, <2>1, Zenon
  <1>7. CASE d.srdo.invertedDelay = 0 /\ ok
    <2>1. tx_inverted(d, ok) = [node |-> [d EXCEPT !.srdo = sent], frame |-> "inverted"]
      BY <1>7 DEF tx_inverted
    <2> QED  BY <1>4, <2>1, Zenon
  <1>8. CASE d.srdo.invertedDelay = 0 /\ ~ok
    <2>1. tx_inverted(d, ok) = [node |-> [d EXCEPT !.srdo = unable], frame |-> "inverted"]
      BY <1>8 DEF tx_inverted
    <2> QED  BY <1>5, <2>1, Zenon
  <1> QED  BY <1>6, <1>7, <1>8

\* A call of the producer has made r of n and hands the frame to the driver.
TxCallOK(r, n, frame) ==
    /\ TxOK(r) /\ frame \in {"none", "normal", "inverted"}
    /\ r.srdo.CANtxData \in {n.srdo.CANtxData, n.vals.plain}
    /\ frame = "normal" => r.srdo.CANtxData = n.vals.plain

\* CO_process_SRDO of the producer.
LEMMA ProducerCall ==
    ASSUME NEW n, TxOK(n), NEW dt \in Nat, NEW op \in BOOLEAN, NEW ok \in BOOLEAN
    PROVE  LET r == CO_process_SRDO(n, dt, op, ok) IN TxCallOK(r.node, n, r.frame)
  <1> DEFINE c == srdo_reconfigured(n, op)
             x == srdo_stepped(c, dt, op, ok)
             r == CO_process_SRDO(n, dt, op, ok)
  <1>1. Reconfigured(c, n, op)
    BY ReconfiguredAs DEF TxOK
  <1>2. r = CO_SRDO_process(c, dt, op, ok)
    BY DEF CO_process_SRDO
  <1> HIDE DEF c, r
  <1>3. /\ c \in NodeType /\ c.vals = n.vals /\ c.od.dir = n.od.dir /\ c.srdo.CANtxData = n.srdo.CANtxData
        /\ c.guard.configurationValid = c.od.valid
        /\ c.srdo.informationDirection \in {DELETED, TX}
    BY <1>1, Zenon DEF Reconfigured, SameRun, TxOK
  <1>4. \E m, frame : x = [node |-> m, frame |-> frame] /\ Produced(m, c, frame)
    <2> DEFINE live == /\ op /\ c.srdo.informationDirection # DELETED
                       /\ c.guard.configurationValid /\ c.srdo.internalState \notin errorStates
    <2>1. CASE ~live
      <3>1. x = [node |-> srdo_idle(c, op), frame |-> "none"]
        BY <2>1 DEF srdo_stepped, nothing_sent
      <3>2. Produced(srdo_idle(c, op), c, "none")
        <4> DEFINE m == srdo_idle(c, op)
        <4>1. SameSetting(m, c) /\ m.vals = c.vals
          BY <1>3, IdleStep
        <4> HIDE DEF m
        <4> QED  BY <4>1, Zenon DEF SameSetting, Produced, m
      <3> QED  BY <3>1, <3>2, Zenon
    <2>2. CASE live
      <3> DEFINE t == srdo_started(srdo_timers(c.srdo, dt))
                 d == [c EXCEPT !.srdo = t]
      <3>1. x = srdo_active(d, ok)
        BY <2>2 DEF srdo_stepped
      <3>2. TimedAs(t, c.srdo, dt)
        BY <1>3, TimersOK DEF NodeType
      <3> HIDE DEF t
      <3>3. /\ t \in SrdoType /\ t.informationDirection = TX /\ t.informationDirection = c.srdo.informationDirection
            /\ t.CANtxData = c.srdo.CANtxData
        BY <1>3, <2>2, <3>2 DEF TimedAs
      <3>4. /\ d \in NodeType /\ d.srdo = t /\ d.od = c.od /\ d.vals = c.vals /\ d.guard = c.guard
        BY <1>3, <3>3, WithSrdo
      <3> HIDE DEF d, x
      <3>5. x = tx_normal(d, ok) \/ x = tx_inverted(d, ok)
        BY <3>1, <3>3, <3>4 DEF srdo_active
      <3>6. \E m, frame : x = [node |-> m, frame |-> frame] /\ Produced(m, d, frame)
        BY <3>4, <3>5, NormalSent, InvertedSent, Zenon
      <3>7. PICK m, frame : x = [node |-> m, frame |-> frame] /\ Produced(m, d, frame)
        BY <3>6
      <3>8. Produced(m, c, frame)
        BY <3>3, <3>4, <3>7, Zenon DEF Produced
      <3> QED  BY <3>7, <3>8, Zenon DEF x
    <2> QED  BY <2>1, <2>2
  <1>5. PICK m, frame : x = [node |-> m, frame |-> frame] /\ Produced(m, c, frame)
    BY <1>4
  <1>6. m \in NodeType
    BY <1>5 DEF Produced
  <1>7. Finished(r.node, m, op) /\ r.frame = frame
    BY <1>2, <1>5, <1>6, FinishOK
  <1>8. /\ r.node \in NodeType /\ r.node.od = c.od /\ r.node.vals = n.vals
        /\ r.node.guard.configurationValid = c.guard.configurationValid
        /\ r.node.srdo.informationDirection = c.srdo.informationDirection
        /\ r.node.srdo.CANtxData = m.srdo.CANtxData
    BY <1>3, <1>5, <1>7, Zenon DEF Finished, Produced
  <1>9. /\ m.srdo.CANtxData \in {n.srdo.CANtxData, n.vals.plain} /\ frame \in {"none", "normal", "inverted"}
        /\ frame = "normal" => m.srdo.CANtxData = n.vals.plain
    BY <1>3, <1>5 DEF Produced
  <1>10. TxOK(r.node)
    BY <1>3, <1>8, <1>9 DEF TxOK
  <1> QED  BY <1>7, <1>8, <1>9, <1>10 DEF TxCallOK, r
-----------------------------------------------------------------------------
(* Writes *)

\* m is the consumer n after an SDO client wrote a parameter.
WrittenAs(m, n) ==
    /\ m \in NodeType /\ SameRun(m, n) /\ m.previous = n.previous
    /\ m.guard.configurationValid = m.od.valid
    /\ m.od.dir # TX /\ m.srdo.informationDirection # TX

\* A parameter and what goes with it are written, the configuration is invalid.
LEMMA ParameterWritten ==
    ASSUME NEW n \in NodeType, NEW o \in OdType, o.valid = FALSE, o.dir # TX,
           NEW i \in Nat, i # TX, NEW count \in Nat
    PROVE  LET u == configurationValidUnset(n)
               s == [u.srdo EXCEPT !.informationDirection = i, !.mappedObjectsCount = count]
           IN  WrittenAs([u EXCEPT !.srdo = s, !.od = o], n)
  <1> DEFINE u == configurationValidUnset(n)
             s == [u.srdo EXCEPT !.informationDirection = i, !.mappedObjectsCount = count]
             m == [u EXCEPT !.srdo = s, !.od = o]
  <1>1. /\ u \in NodeType /\ SameRun(u, n) /\ u.previous = n.previous /\ u.guard.configurationValid = FALSE
    BY UnsetOK
  <1> HIDE DEF u
  <1>2. u.srdo \in SrdoType
    BY <1>1 DEF NodeType
  <1>3. /\ s \in SrdoType /\ s.informationDirection = i /\ s.internalState = u.srdo.internalState
        /\ s.NMTisOperationalPrevious = u.srdo.NMTisOperationalPrevious
        /\ s.cycleTimer = u.srdo.cycleTimer /\ s.validationTimer = u.srdo.validationTimer
        /\ s.CANrxNew = u.srdo.CANrxNew /\ s.CANrxData = u.srdo.CANrxData
        /\ s.CANtxData = u.srdo.CANtxData /\ s.nextIsNormal = u.srdo.nextIsNormal
    BY <1>2, Zenon DEF SrdoType
  <1> HIDE DEF s
  <1>4. /\ m \in NodeType /\ m.srdo = s /\ m.od = o /\ m.vals = u.vals /\ m.previous = u.previous
        /\ m.guard = u.guard
    BY <1>1, <1>3, Zenon DEF NodeType
  <1> HIDE DEF m
  <1>5. SameRun(m, n)
    BY <1>1, <1>3, <1>4, Zenon DEF SameRun
  <1>6. WrittenAs(m, n)
    BY <1>1, <1>3, <1>4, <1>5, Zenon DEF WrittenAs
  <1> QED  BY <1>6 DEF m, s, u

\* Only a parameter of the dictionary is written.
LEMMA EntryWritten ==
    ASSUME NEW n \in NodeType, n.srdo.informationDirection # TX, NEW o \in OdType, o.valid = FALSE, o.dir # TX
    PROVE  WrittenAs([configurationValidUnset(n) EXCEPT !.od = o], n)
  <1> DEFINE u == configurationValidUnset(n)
             i == u.srdo.informationDirection
             count == u.srdo.mappedObjectsCount
             s == [u.srdo EXCEPT !.informationDirection = i, !.mappedObjectsCount = count]
  <1>1. u \in NodeType /\ u.srdo = n.srdo
    BY UnsetOK
  <1> HIDE DEF u
  <1>2. i \in Nat /\ count \in Nat /\ i # TX
    BY <1>1 DEF NodeType, SrdoType
  <1>3. s = u.srdo
    BY <1>1 DEF NodeType, SrdoType
  <1>4. [u EXCEPT !.srdo = s, !.od = o] = [u EXCEPT !.od = o]
    BY <1>1, <1>3 DEF NodeType
  <1> HIDE DEF i, count
  <1>5. WrittenAs([u EXCEPT !.srdo = s, !.od = o], n)
    BY <1>2, ParameterWritten DEF u
  <1> QED  BY <1>4, <1>5 DEF u

\* The dictionary of a node whose configuration was declared invalid.
LEMMA UnsetEntries ==
    ASSUME NEW n \in NodeType
    PROVE  LET p == configurationValidUnset(n).od IN
             /\ p \in OdType /\ p.valid = FALSE /\ p.dir = n.od.dir
             /\ \A v \in Nat : [p EXCEPT !.dir = v] \in OdType
             /\ \A v \in Nat : [p EXCEPT !.cycle = v] \in OdType /\ [p EXCEPT !.validation = v] \in OdType
                               /\ [p EXCEPT !.count = v] \in OdType
             /\ \A v \in Names : [p EXCEPT !.cob = v] \in OdType /\ [p EXCEPT !.map = v] \in OdType
             /\ \A v \in Signature : [p EXCEPT !.signature = v] \in OdType
  <1> DEFINE p == configurationValidUnset(n).od
  <1>1. p \in OdType /\ p.valid = FALSE /\ p.dir = n.od.dir
    BY UnsetOK DEF NodeType
  <1> HIDE DEF p
  <1>2. /\ \A v \in Nat : [p EXCEPT !.dir = v] \in OdType
        /\ \A v \in Nat : [p EXCEPT !.cycle = v] \in OdType /\ [p EXCEPT !.validation = v] \in OdType
                          /\ [p EXCEPT !.count = v] \in OdType
        /\ \A v \in Names : [p EXCEPT !.cob = v] \in OdType /\ [p EXCEPT !.map = v] \in OdType
        /\ \A v \in Signature : [p EXCEPT !.signature = v] \in OdType
    BY <1>1 DEF OdType
  <1> QED  BY <1>1, <1>2 DEF p

\* A write is refused while the node is operational.
Guarded(m, n) == m = n \/ (~n.guard.NMTisOperational /\ WrittenAs(m, n))

\* OD_write_13FE.
LEMMA ValidWritten ==
    ASSUME NEW n, RxOK(n), NEW magic \in BOOLEAN
    PROVE  Guarded(OD_write_13FE(n, magic), n)
  <1> DEFINE g == [n.guard EXCEPT !.configurationValid = magic]
             o == [n.od EXCEPT !.valid = magic]
             m == [n EXCEPT !.guard = g, !.od = o]
  <1>1. n \in NodeType /\ n.guard \in GuardType /\ n.od \in OdType
    BY DEF RxOK, NodeType
  <1>2. OD_write_13FE(n, magic) = IF n.guard.NMTisOperational THEN n ELSE m
    BY <1>1 DEF OD_write_13FE, NodeType
  <1>3. g \in GuardType /\ g.configurationValid = magic /\ g.NMTisOperational = n.guard.NMTisOperational
    BY <1>1, Zenon DEF GuardType
  <1>4. o \in OdType /\ o.valid = magic /\ o.dir = n.od.dir
    BY <1>1, Zenon DEF OdType
  <1> HIDE DEF g, o
  <1>5. /\ m \in NodeType /\ m.guard = g /\ m.od = o /\ m.srdo = n.srdo /\ m.vals = n.vals
        /\ m.previous = n.previous
    BY <1>1, <1>3, <1>4, Zenon DEF NodeType
  <1> HIDE DEF m
  <1>6. SameRun(m, n)
    BY <1>3, <1>5, Zenon DEF SameRun
  <1>7. WrittenAs(m, n)
    BY <1>3, <1>4, <1>5, <1>6, Zenon DEF WrittenAs, RxOK
  <1> QED  BY <1>2, <1>7 DEF Guarded

\* OD_write_13FF.
LEMMA SignatureWritten ==
    ASSUME NEW n, RxOK(n), NEW signature \in Signature
    PROVE  Guarded(OD_write_13FF(n, signature), n)
  <1> DEFINE u == configurationValidUnset(n)
             o == [u.od EXCEPT !.signature = signature]
  <1>1. n \in NodeType /\ n.srdo.informationDirection # TX /\ n.od.dir # TX
    BY DEF RxOK
  <1>2. OD_write_13FF(n, signature) = IF n.guard.NMTisOperational THEN n ELSE [u EXCEPT !.od = o]
    BY DEF OD_write_13FF
  <1>3. /\ u.od \in OdType /\ u.od.valid = FALSE /\ u.od.dir = n.od.dir /\ o \in OdType
    BY <1>1, UnsetEntries
  <1> HIDE DEF u
  <1>4. o.valid = FALSE /\ o.dir # TX
    BY <1>1, <1>3, Zenon DEF OdType
  <1> HIDE DEF o
  <1>5. WrittenAs([u EXCEPT !.od = o], n)
    BY <1>1, <1>3, <1>4, EntryWritten DEF u
  <1> QED  BY <1>2, <1>5 DEF Guarded

\* OD_write_SRDO_communicationParam.
LEMMA CommunicationWritten ==
    ASSUME NEW n, RxOK(n), NEW field, NEW value,
           \/ field = "dir" /\ value \in Nat \ {TX}
           \/ field \in {"cycle", "validation"} /\ value \in Nat
           \/ field = "cob" /\ value \in STRING
    PROVE  Guarded(OD_write_SRDO_communicationParam(n, field, value), n)
  <1> DEFINE u == configurationValidUnset(n)
             m == OD_write_SRDO_communicationParam(n, field, value)
             cob == IF value = "own" THEN "default" ELSE value
             rejects == n.guard.NMTisOperational \/ communicationParam_refused(field, value)
  <1>1. n \in NodeType /\ n.srdo.informationDirection # TX /\ n.od.dir # TX
    BY DEF RxOK
  <1>2. u \in NodeType /\ u.srdo = n.srdo
    BY <1>1, UnsetOK
  <1>3. /\ u.od \in OdType /\ u.od.valid = FALSE /\ u.od.dir = n.od.dir
    BY <1>1, UnsetEntries
  <1>4. CASE rejects
    BY <1>4 DEF OD_write_SRDO_communicationParam, Guarded
  <1>5. CASE ~rejects /\ field = "dir"
    <2> DEFINE o == [u.od EXCEPT !.dir = value]
               count == u.srdo.mappedObjectsCount
               s == [u.srdo EXCEPT !.informationDirection = value, !.mappedObjectsCount = count]
    <2>1. value \in Nat /\ value # TX
      BY <1>5
    <2>2. o \in OdType
      BY <1>1, <2>1, UnsetEntries
    <2> HIDE DEF u
    <2>3. o.valid = FALSE /\ o.dir = value
      BY <1>3, Zenon DEF OdType
    <2>4. count \in Nat
      BY <1>2 DEF NodeType, SrdoType
    <2>5. m = [u EXCEPT !.srdo.informationDirection = value, !.od.dir = value]
      BY <1>5 DEF OD_write_SRDO_communicationParam, u
    <2>6. m = [u EXCEPT !.srdo = s, !.od = o]
      BY <1>2, <2>5 DEF NodeType, SrdoType
    <2> HIDE DEF o, count, m
    <2>7. WrittenAs([u EXCEPT !.srdo = s, !.od = o], n)
      BY <1>1, <2>1, <2>2, <2>3, <2>4, ParameterWritten DEF u
    <2> QED  BY <1>5, <2>6, <2>7, Zenon DEF Guarded, m
  <1>6. CASE ~rejects /\ field \in {"cycle", "validation", "cob"}
    <2>1. PICK o \in OdType : o.valid = FALSE /\ o.dir = n.od.dir /\ m = [u EXCEPT !.od = o]
      <3>1. CASE field = "cycle"
        <4> DEFINE o == [u.od EXCEPT !.cycle = value]
        <4>1. m = [u EXCEPT !.od = o]
          BY <1>6, <3>1 DEF OD_write_SRDO_communicationParam
        <4>2. o \in OdType
          BY <1>1, <3>1, UnsetEntries
        <4>3. o.valid = FALSE /\ o.dir = n.od.dir
          <5> HIDE DEF u
          <5> QED  BY <1>3, Zenon DEF OdType
        <4> QED  BY <4>1, <4>2, <4>3, Zenon
      <3>2. CASE field = "validation"
        <4> DEFINE o == [u.od EXCEPT !.validation = value]
        <4>1. m = [u EXCEPT !.od = o]
          BY <1>6, <3>2 DEF OD_write_SRDO_communicationParam
        <4>2. o \in OdType
          BY <1>1, <3>2, UnsetEntries
        <4>3. o.valid = FALSE /\ o.dir = n.od.dir
          <5> HIDE DEF u
          <5> QED  BY <1>3, Zenon DEF OdType
        <4> QED  BY <4>1, <4>2, <4>3, Zenon
      <3>3. CASE field = "cob"
        <4> DEFINE o == [u.od EXCEPT !.cob = cob]
        <4>1. m = [u EXCEPT !.od = o]
          BY <1>6, <3>3 DEF OD_write_SRDO_communicationParam
        <4>2. cob \in Names
          BY <3>3 DEF Names
        <4> HIDE DEF cob
        <4>3. o \in OdType
          BY <1>1, <4>2, UnsetEntries
        <4>4. o.valid = FALSE /\ o.dir = n.od.dir
          <5> HIDE DEF u
          <5> QED  BY <1>3, Zenon DEF OdType
        <4> QED  BY <4>1, <4>3, <4>4, Zenon
      <3> QED  BY <1>6, <3>1, <3>2, <3>3
    <2>2. WrittenAs([u EXCEPT !.od = o], n)
      BY <1>1, <2>1, EntryWritten
    <2> QED  BY <1>6, <2>1, <2>2, Zenon DEF Guarded
  <1> QED  BY <1>4, <1>5, <1>6

\* OD_write_SRDO_mappingParam.
LEMMA MappingWritten ==
    ASSUME NEW n, RxOK(n), NEW field, NEW value,
           \/ field = "count" /\ value \in Nat
           \/ field = "map" /\ value \in STRING
    PROVE  Guarded(OD_write_SRDO_mappingParam(n, field, value), n)
  <1> DEFINE u == configurationValidUnset(n)
             m == OD_write_SRDO_mappingParam(n, field, value)
             rejects == \/ n.guard.NMTisOperational \/ n.srdo.informationDirection # DELETED
                        \/ field = "map" /\ n.srdo.mappedObjectsCount # 0
  <1>1. n \in NodeType /\ n.srdo.informationDirection # TX /\ n.od.dir # TX
    BY DEF RxOK
  <1>2. u \in NodeType /\ u.srdo = n.srdo
    BY <1>1, UnsetOK
  <1>3. /\ u.od \in OdType /\ u.od.valid = FALSE /\ u.od.dir = n.od.dir
    BY <1>1, UnsetEntries
  <1>4. CASE rejects
    BY <1>4 DEF OD_write_SRDO_mappingParam, Guarded
  <1>5. CASE ~rejects /\ field = "count"
    <2> DEFINE o == [u.od EXCEPT !.count = value]
               i == u.srdo.informationDirection
               s == [u.srdo EXCEPT !.informationDirection = i, !.mappedObjectsCount = value]
    <2>1. value \in Nat
      BY <1>5
    <2>2. o \in OdType
      BY <1>1, <2>1, UnsetEntries
    <2> HIDE DEF u
    <2>3. o.valid = FALSE /\ o.dir # TX
      BY <1>1, <1>3, Zenon DEF OdType
    <2>4. i \in Nat /\ i # TX
      BY <1>1, <1>2 DEF NodeType, SrdoType
    <2>5. m = [u EXCEPT !.srdo.mappedObjectsCount = value, !.od.count = value]
      BY <1>5 DEF OD_write_SRDO_mappingParam, u
    <2>6. m = [u EXCEPT !.srdo = s, !.od = o]
      BY <1>2, <2>5 DEF NodeType, SrdoType
    <2> HIDE DEF o, i, m
    <2>7. WrittenAs([u EXCEPT !.srdo = s, !.od = o], n)
      BY <1>1, <2>1, <2>2, <2>3, <2>4, ParameterWritten DEF u
    <2> QED  BY <1>5, <2>6, <2>7, Zenon DEF Guarded, m
  <1>6. CASE ~rejects /\ field = "map"
    <2> DEFINE o == [u.od EXCEPT !.map = value]
    <2>1. m = [u EXCEPT !.od = o]
      BY <1>6 DEF OD_write_SRDO_mappingParam
    <2>2. value \in Names
      BY <1>6 DEF Names
    <2>3. o \in OdType
      BY <1>1, <2>2, UnsetEntries
    <2>4. o.valid = FALSE /\ o.dir # TX
      <3> HIDE DEF u
      <3> QED  BY <1>1, <1>3, Zenon DEF OdType
    <2> HIDE DEF o, m
    <2>5. WrittenAs([u EXCEPT !.od = o], n)
      BY <1>1, <2>3, <2>4, EntryWritten
    <2> QED  BY <1>6, <2>1, <2>5, Zenon DEF Guarded, m
  <1> QED  BY <1>4, <1>5, <1>6

\* Whatever is written to the consumer.
LEMMA WriteStep ==
    ASSUME RxOK(rx), TxOK(tx), pair \in DOMAIN Pairs, NEW w \in Pair.writes
    PROVE  Guarded(written(w), rx)
  <1>1. \/ w \in {"13FE"} \X BOOLEAN \/ w \in {"13FF"} \X {"now", "other"}
        \/ w \in {"comm"} \X {"dir"} \X (Nat \ {TX}) \/ w \in {"comm"} \X {"cycle", "validation"} \X Nat
        \/ w \in {"comm"} \X {"cob"} \X STRING
        \/ w \in {"map"} \X {"count"} \X Nat \/ w \in {"map"} \X {"map"} \X STRING
    BY PairTypes
  <1>2. CASE w \in {"13FE"} \X BOOLEAN
    <2>1. w[1] = "13FE" /\ w[2] \in BOOLEAN
      BY <1>2
    <2>2. written(w) = OD_write_13FE(rx, w[2])
      BY <2>1 DEF written
    <2> QED  BY <2>1, <2>2, ValidWritten
  <1>3. CASE w \in {"13FF"} \X {"now", "other"}
    <2> DEFINE z == signed(IF w[2] = "now" THEN rx.od ELSE tx.od)
    <2>1. w[1] = "13FF"
      BY <1>3
    <2>2. rx.od \in OdType /\ tx.od \in OdType
      BY DEF RxOK, TxOK, NodeType
    <2>3. z \in Signature
      BY <2>2, SignedType
    <2>4. written(w) = OD_write_13FF(rx, z)
      BY <2>1 DEF written
    <2> HIDE DEF z
    <2> QED  BY <2>3, <2>4, SignatureWritten
  <1>4. CASE \/ w \in {"comm"} \X {"dir"} \X (Nat \ {TX}) \/ w \in {"comm"} \X {"cycle", "validation"} \X Nat
             \/ w \in {"comm"} \X {"cob"} \X STRING
    <2>1. /\ w[1] = "comm"
          /\ \/ w[2] = "dir" /\ w[3] \in Nat \ {TX}
             \/ w[2] \in {"cycle", "validation"} /\ w[3] \in Nat
             \/ w[2] = "cob" /\ w[3] \in STRING
      BY <1>4
    <2>2. written(w) = OD_write_SRDO_communicationParam(rx, w[2], w[3])
      BY <2>1 DEF written
    <2> QED  BY <2>1, <2>2, CommunicationWritten
  <1>5. CASE w \in {"map"} \X {"count"} \X Nat \/ w \in {"map"} \X {"map"} \X STRING
    <2>1. /\ w[1] = "map"
          /\ \/ w[2] = "count" /\ w[3] \in Nat
             \/ w[2] = "map" /\ w[3] \in STRING
      BY <1>5
    <2>2. written(w) = OD_write_SRDO_mappingParam(rx, w[2], w[3])
      BY <2>1 DEF written
    <2> QED  BY <2>1, <2>2, MappingWritten
  <1> QED  BY <1>1, <1>2, <1>3, <1>4, <1>5

\* A write leaves the consumer as it should be.
LEMMA WrittenOK ==
    ASSUME NEW n, RxOK(n), NEW m, Guarded(m, n), NEW ra, NEW va, NEW el, AgesOK(n, ra, va, el),
           NEW f, FailureOK(n, f)
    PROVE  RxOK(m) /\ AgesOK(m, ra, va, el) /\ FailureOK(m, f)
  <1>1. CASE m = n
    BY <1>1
  <1>2. CASE ~n.guard.NMTisOperational /\ WrittenAs(m, n)
    <2>1. /\ m \in NodeType /\ SameRun(m, n) /\ m.previous = n.previous
          /\ m.guard.configurationValid = m.od.valid
          /\ m.od.dir # TX /\ m.srdo.informationDirection # TX
      BY <1>2 DEF WrittenAs
    <2>2. ~m.guard.NMTisOperational /\ ~Active(m) /\ ~Established(m) /\ (Works(m) <=> Works(n))
      BY <1>2, <2>1, Zenon DEF SameRun, Active, Established, RxOK, Works
    <2>3. DataOK(m.srdo)
      BY <2>1, Zenon DEF SameRun, DataOK, RxOK
    <2>4. RxOK(m)
      BY <2>1, <2>2, <2>3, Zenon DEF RxOK, SameRun
    <2>5. AgesOK(m, ra, va, el)
      BY <1>2, <2>1, <2>2, Zenon DEF AgesOK, SameRun
    <2>6. FailureOK(m, f)
      BY <1>2, <2>1, Zenon DEF FailureOK, SameRun
    <2> QED  BY <2>4, <2>5, <2>6
  <1> QED  BY <1>1, <1>2 DEF Guarded
-----------------------------------------------------------------------------
(* The steps *)

\* The parts of the invariant that a step leaves.
LEMMA Kept ==
    ASSUME PairInv, UNCHANGED pair,
           TxOK(tx'), unsent' \in SUBSET {"normal", "inverted"},
           "normal" \in unsent' => tx'.srdo.CANtxData # 0,
           wire' \in Seq(Frames), running' \in [Nodes -> BOOLEAN], elapsed' \in [Nodes -> Nat],
           elapsed'["rx"] <= Pair.call, rxAge' \in Nat, valAge' \in Nat, failed' \in BOOLEAN,
           RxOK(rx'), AgesOK(rx', rxAge', valAge', elapsed'["rx"]), FailureOK(rx', failed')
    PROVE  PairInv'
  <1>1. Pair' = Pair
    BY DEF Pair
  <1>2. AgesOK(rx, rxAge, valAge, elapsed["rx"])'
    BY <1>1 DEF AgesOK, Works, Active, Established
  <1>3. RxOK(rx)' /\ FailureOK(rx, failed)' /\ TxOK(tx)'
    BY DEF RxOK, FailureOK, TxOK
  <1> QED  BY <1>1, <1>2, <1>3 DEF PairInv

\* Nothing that the consumer's part of the invariant is about changes.
LEMMA RxKept ==
    ASSUME PairInv, UNCHANGED <<pair, rx, rxAge, valAge, failed>>, elapsed'["rx"] = elapsed["rx"],
           TxOK(tx'), unsent' \in SUBSET {"normal", "inverted"},
           "normal" \in unsent' => tx'.srdo.CANtxData # 0,
           wire' \in Seq(Frames), running' \in [Nodes -> BOOLEAN], elapsed' \in [Nodes -> Nat]
    PROVE  PairInv'
  <1>1. /\ elapsed'["rx"] <= Pair.call /\ rxAge' \in Nat /\ valAge' \in Nat /\ failed' \in BOOLEAN
        /\ RxOK(rx') /\ AgesOK(rx', rxAge', valAge', elapsed'["rx"]) /\ FailureOK(rx', failed')
    BY DEF PairInv
  <1> QED  BY <1>1, Kept

\* Nothing that the producer's part of the invariant is about changes.
LEMMA TxKept ==
    ASSUME PairInv, UNCHANGED <<pair, tx, unsent>>,
           wire' \in Seq(Frames), running' \in [Nodes -> BOOLEAN], elapsed' \in [Nodes -> Nat],
           elapsed'["rx"] <= Pair.call, rxAge' \in Nat, valAge' \in Nat, failed' \in BOOLEAN,
           RxOK(rx'), AgesOK(rx', rxAge', valAge', elapsed'["rx"]), FailureOK(rx', failed')
    PROVE  PairInv'
  <1>1. /\ TxOK(tx') /\ unsent' \in SUBSET {"normal", "inverted"}
        /\ "normal" \in unsent' => tx'.srdo.CANtxData # 0
    BY DEF PairInv
  <1> QED  BY <1>1, Kept

\* The initial state.
LEMMA PairStart == PairInit => PairInv
  <1> SUFFICES ASSUME PairInit PROVE PairInv
    OBVIOUS
  <1> DEFINE one == [plain |-> 1, inverted |-> 1]
             zero == [plain |-> 0, inverted |-> 0]
  <1>1. one \in ValsType /\ zero \in ValsType /\ one.plain = 1 /\ one.inverted = 1
    BY DEF ValsType
  <1>2. pair \in DOMAIN Pairs
    BY DEF PairInit
  <1>3. TxOK(tx)
    <2>1. Pair.tx \in OdType /\ Pair.tx.dir \in {DELETED, TX}
      BY <1>2, PairTypes, ParametersOK
    <2>2. tx = CO_SRDO_init(Pair.tx, one, FALSE)
      BY DEF PairInit
    <2> HIDE DEF one
    <2>3. /\ Fresh(tx) /\ tx.od.dir = Pair.tx.dir /\ tx.vals = one
          /\ tx.srdo.informationDirection \in {Pair.tx.dir, DELETED}
      BY <1>1, <2>1, <2>2, InitOK
    <2> QED  BY <1>1, <2>1, <2>3 DEF TxOK, Fresh, Broken
  <1>4. PICK od \in Pair.rx : rx = CO_SRDO_init(od, zero, FALSE)
    BY DEF PairInit
  <1> HIDE DEF zero
  <1>5. od \in OdType /\ od.dir # TX
    BY <1>2, <1>4, PairTypes, ParametersOK
  <1>6. /\ Fresh(rx) /\ rx.od.dir = od.dir /\ rx.previous = FALSE
        /\ rx.srdo.informationDirection \in {od.dir, DELETED}
    BY <1>1, <1>4, <1>5, InitOK
  <1>7. rx.od.dir # TX /\ rx.srdo.informationDirection # TX
    BY <1>5, <1>6 DEF TX, DELETED
  <1>8. ~rx.srdo.CANrxNew[0] /\ ~rx.srdo.CANrxNew[1]
    BY <1>6 DEF Fresh, noNew
  <1>9. ~Established(rx) /\ ~Active(rx) /\ DataOK(rx.srdo)
    BY <1>6, <1>8 DEF Fresh, Established, Active, DataOK
  <1>10. RxOK(rx)
    BY <1>6, <1>7, <1>9, Zenon DEF RxOK, Fresh
  <1>11. AgesOK(rx, rxAge, valAge, elapsed["rx"])
    BY <1>8, <1>9, Zenon DEF AgesOK
  <1>12. FailureOK(rx, failed)
    BY DEF FailureOK, PairInit
  <1>13. Pair.call \in Nat
    BY <1>2, PairTypes
  <1>14. /\ unsent \in SUBSET {"normal", "inverted"} /\ "normal" \notin unsent /\ wire \in Seq(Frames)
         /\ elapsed \in [Nodes -> Nat] /\ elapsed["rx"] <= Pair.call
         /\ rxAge \in Nat /\ valAge \in Nat /\ failed \in BOOLEAN
    <2>1. /\ elapsed = [node \in Nodes |-> 0] /\ unsent = {} /\ wire = <<>>
          /\ rxAge = 0 /\ valAge = 0 /\ failed = FALSE
      BY DEF PairInit
    <2>2. wire \in Seq(Frames)
      BY <2>1
    <2>3. elapsed \in [Nodes -> Nat] /\ elapsed["rx"] = 0
      BY <2>1 DEF Nodes
    <2>4. unsent \in SUBSET {"normal", "inverted"} /\ "normal" \notin unsent /\ failed \in BOOLEAN
      BY <2>1, Zenon
    <2> QED  BY <1>13, <2>1, <2>2, <2>3, <2>4
  <1>15. running \in [Nodes -> BOOLEAN]
    <2>1. running = [node \in Nodes |-> node \in Pair.start]
      BY DEF PairInit
    <2> QED  BY <2>1
  <1> QED  BY <1>2, <1>3, <1>10, <1>11, <1>12, <1>14, <1>15 DEF PairInv

\* A tick adds to an age what it adds to the lag of the timers.
LEMMA Later ==
    ASSUME NEW a \in Nat, NEW a2 \in Nat, a2 <= a + 1, NEW t \in Nat, NEW b \in Nat, NEW el \in Nat,
           a + t <= b + el
    PROVE  a2 + t <= b + (el + 1)
  OBVIOUS

\* The ages after a tick.
LEMMA OlderAges ==
    ASSUME NEW n \in NodeType, pair \in DOMAIN Pairs, NEW ra \in Nat, NEW va \in Nat, NEW el \in Nat,
           AgesOK(n, ra, va, el), NEW ra2 \in Nat, ra2 <= ra + 1, NEW va2 \in Nat, va2 <= va + 1
    PROVE  AgesOK(n, ra2, va2, el + 1)
  <1> DEFINE vr == n.srdo.validationTimer
             cr == n.srdo.cycleTimer
             vb == n.srdo.validationTime + Pair.call
             cb == n.srdo.cycleTime + n.srdo.validationTime + 2 * Pair.call
  <1>1. vr \in Nat /\ cr \in Nat /\ vb \in Nat /\ cb \in Nat
    BY PairTypes DEF NodeType, SrdoType
  <1>2. n.srdo.CANrxNew[0] /\ Works(n) /\ (n.srdo.nextIsNormal \/ ~n.guard.NMTisOperational) => ra2 <= el + 1
    BY DEF AgesOK
  <1>3. Active(n) /\ ~n.srdo.nextIsNormal =>
          /\ n.srdo.validationTimer <= n.srdo.validationTime
          /\ n.srdo.CANrxNew[0] => ra + vr <= vb + el
    BY DEF AgesOK
  <1>4. Established(n) => va + cr <= cb + el
    BY DEF AgesOK
  <1> HIDE DEF vr, cr, vb, cb
  <1>5. ra + vr <= vb + el => ra2 + vr <= vb + (el + 1)
    BY <1>1, Later
  <1>6. va + cr <= cb + el => va2 + cr <= cb + (el + 1)
    BY <1>1, Later
  <1> QED  BY <1>2, <1>3, <1>4, <1>5, <1>6 DEF AgesOK, vr, cr, vb, cb

\* Time passes.
LEMMA TickKeeps ==
    ASSUME PairInv, Tick
    PROVE  PairInv'
  <1>1. /\ pair \in DOMAIN Pairs /\ RxOK(rx) /\ rxAge \in Nat /\ valAge \in Nat
        /\ elapsed \in [Nodes -> Nat] /\ AgesOK(rx, rxAge, valAge, elapsed["rx"]) /\ FailureOK(rx, failed)
        /\ wire \in Seq(Frames) /\ running \in [Nodes -> BOOLEAN] /\ failed \in BOOLEAN
    BY DEF PairInv
  <1>2. /\ Pair.call \in Nat /\ rx.srdo \in SrdoType /\ rx.srdo.validationTimer \in Nat
        /\ rx.srdo.validationTime \in Nat /\ rx.srdo.cycleTimer \in Nat /\ rx.srdo.cycleTime \in Nat
    BY <1>1, PairTypes DEF RxOK, NodeType, SrdoType
  <1>3. UNCHANGED <<pair, tx, rx, running, unsent, wire, failed>>
    BY DEF Tick
  <1>4. "rx" \in Nodes /\ elapsed["rx"] \in Nat
    BY <1>1 DEF Nodes
  <1>5. /\ elapsed' \in [Nodes -> Nat] /\ elapsed'["rx"] = elapsed["rx"] + 1 /\ elapsed["rx"] < Pair.call
    BY <1>1, <1>4 DEF Tick
  <1>6. elapsed'["rx"] <= Pair.call
    BY <1>2, <1>4, <1>5
  <1>7. /\ rxAge' \in Nat /\ rxAge' <= rxAge + 1 /\ valAge' \in Nat /\ valAge' <= valAge + 1
    BY <1>1, TicksAssumption DEF Tick, older
  <1>8. AgesOK(rx', rxAge', valAge', elapsed'["rx"])
    <2> DEFINE el == elapsed["rx"]
    <2> HIDE DEF el
    <2>1. rx' = rx
      BY <1>3
    <2>2. el \in Nat /\ elapsed'["rx"] = el + 1 /\ AgesOK(rx, rxAge, valAge, el)
      BY <1>1, <1>4, <1>5 DEF el
    <2>3. AgesOK(rx, rxAge', valAge', el + 1)
      BY <1>1, <1>7, <2>2, OlderAges DEF RxOK
    <2> QED  BY <2>1, <2>2, <2>3
  <1>9. /\ wire' \in Seq(Frames) /\ running' \in [Nodes -> BOOLEAN] /\ failed' \in BOOLEAN
        /\ RxOK(rx') /\ FailureOK(rx', failed')
    BY <1>1, <1>3
  <1> QED  BY <1>3, <1>5, <1>6, <1>7, <1>8, <1>9, TxKept

\* The consumer's loop.
LEMMA ProcessRxKeeps ==
    ASSUME PairInv, ProcessRx
    PROVE  PairInv'
  <1> DEFINE op == running["rx"]
             el == elapsed["rx"]
             c  == srdo_reconfigured(rx, op)
             r  == CO_SRDO_process(c, el, op, TRUE).node
  <1>1. /\ pair \in DOMAIN Pairs /\ RxOK(rx) /\ rxAge \in Nat /\ valAge \in Nat
        /\ elapsed \in [Nodes -> Nat] /\ el <= Pair.call /\ AgesOK(rx, rxAge, valAge, el)
        /\ FailureOK(rx, failed) /\ failed \in BOOLEAN
        /\ wire \in Seq(Frames) /\ running \in [Nodes -> BOOLEAN]
    BY DEF PairInv
  <1>2. op \in BOOLEAN /\ el \in Nat /\ "rx" \in Nodes
    BY <1>1 DEF Nodes
  <1>3. /\ rx' = r /\ rxAge' = (IF r.srdo.CANrxNew[0] THEN rxAge ELSE 0) /\ valAge' = valueAge(rx, r)
        /\ failed' = (op /\ (failed \/ r.srdo.internalState \in errorStates))
        /\ elapsed' = [elapsed EXCEPT !["rx"] = 0]
        /\ UNCHANGED <<pair, tx, running, unsent, wire>>
    BY DEF ProcessRx, CO_process_SRDO
  <1>4. Ready(c, op) /\ AgesOK(c, rxAge, valAge, el) /\ FailureOK(c, failed) /\ c.srdo.CANrxNew = rx.srdo.CANrxNew
    <2> HIDE DEF op, el
    <2> QED  BY <1>1, <1>2, ReadyRunning
  <1> HIDE DEF c, op, el
  <1>5. CallOK(r, c, op, rxAge, valAge, failed)
    BY <1>1, <1>2, <1>4, ProcessCall
  <1> HIDE DEF r
  <1>6. valAge' = ValueAge(c, r, rxAge, valAge)
    BY <1>3, <1>4 DEF valueAge, ValueAge, Established
  <1>7. /\ RxOK(rx') /\ AgesOK(rx', rxAge', valAge', 0) /\ FailureOK(rx', failed')
    BY <1>3, <1>5, <1>6, Zenon DEF CallOK
  <1>8. rxAge' \in Nat /\ valAge' \in Nat /\ failed' \in BOOLEAN
    <2>1. rxAge' \in Nat /\ valAge' \in Nat
      BY <1>1, <1>3, <1>6 DEF ValueAge
    <2>2. failed' \in BOOLEAN
      BY <1>3, Zenon
    <2> QED  BY <2>1, <2>2
  <1>9. Pair.call \in Nat
    BY <1>1, PairTypes
  <1>10. elapsed' \in [Nodes -> Nat] /\ elapsed'["rx"] = 0 /\ elapsed'["rx"] <= Pair.call
    BY <1>1, <1>2, <1>3, <1>9
  <1>11. wire' \in Seq(Frames) /\ running' \in [Nodes -> BOOLEAN] /\ UNCHANGED <<pair, tx, unsent>>
    BY <1>1, <1>3
  <1>12. AgesOK(rx', rxAge', valAge', elapsed'["rx"])
    BY <1>7, <1>10
  <1> QED  BY <1>7, <1>8, <1>10, <1>11, <1>12, TxKept

\* The frame that the producer sends.
LEMMA FrameSent ==
    ASSUME NEW n, TxOK(n), NEW kind \in {"normal", "inverted"}, kind = "normal" => n.srdo.CANtxData # 0
    PROVE  FrameOf(n, kind) \in Frames
  <1> DEFINE f == FrameOf(n, kind)
             back == kind = "inverted"
  <1>1. n.srdo.ident \in [1..3 -> Names] /\ n.srdo.dataLength \in Nat /\ n.srdo.CANtxData \in Nat
    BY DEF TxOK, NodeType, SrdoType
  <1>2. n.srdo.ident[TX] \in Names
    BY <1>1 DEF TX
  <1>3. back \in BOOLEAN
    BY Zenon
  <1>4. f = [ident |-> n.srdo.ident[TX], inverted |-> back, DLC |-> n.srdo.dataLength, data |-> n.srdo.CANtxData]
    BY DEF FrameOf
  <1> HIDE DEF back, f
  <1>5. /\ f \in [ident : Names, inverted : BOOLEAN, DLC : Nat, data : Nat]
        /\ f.data = n.srdo.CANtxData /\ f.inverted = back
    BY <1>1, <1>2, <1>3, <1>4, Zenon
  <1>6. f.data \notin Broken
    BY <1>5 DEF TxOK
  <1>7. ~f.inverted => f.data # 0
    BY <1>5 DEF back
  <1> QED  BY <1>5, <1>6, <1>7 DEF Frames, f

\* The producer's loop.
LEMMA ProcessTxKeeps ==
    ASSUME PairInv, NEW outcome, ProcessTx(outcome), UNCHANGED pair
    PROVE  PairInv'
  <1> DEFINE op == running["tx"]
             el == elapsed["tx"]
             ok == outcome = "taken"
             r  == CO_process_SRDO(tx, el, op, ok)
  <1>1. /\ TxOK(tx) /\ elapsed \in [Nodes -> Nat] /\ running \in [Nodes -> BOOLEAN] /\ wire \in Seq(Frames)
        /\ unsent \in SUBSET {"normal", "inverted"} /\ ("normal" \in unsent => tx.srdo.CANtxData # 0)
    BY DEF PairInv
  <1>2. op \in BOOLEAN /\ el \in Nat /\ "tx" \in Nodes /\ "rx" \in Nodes
    BY <1>1 DEF Nodes
  <1>3. ok \in BOOLEAN
    BY Zenon
  <1>4. /\ ok \/ r.frame # "none"
        /\ tx' = r.node
        /\ wire' = IF ok /\ r.frame # "none" THEN Append(wire, FrameOf(r.node, r.frame)) ELSE wire
        /\ unsent' = unsentAfter(op) \cup (IF outcome = "busy" THEN {r.frame} ELSE {})
        /\ elapsed' = [elapsed EXCEPT !["tx"] = 0]
        /\ UNCHANGED <<rx, running, rxAge, valAge, failed>>
    BY DEF ProcessTx
  <1> HIDE DEF op, el
  <1>5. TxCallOK(r.node, tx, r.frame)
    <2> HIDE DEF ok
    <2> QED  BY <1>1, <1>2, <1>3, ProducerCall
  <1> HIDE DEF r
  <1>6. /\ TxOK(r.node) /\ r.frame \in {"none", "normal", "inverted"}
        /\ r.node.srdo.CANtxData \in {tx.srdo.CANtxData, tx.vals.plain}
        /\ r.frame = "normal" => r.node.srdo.CANtxData = tx.vals.plain
    BY <1>5 DEF TxCallOK
  <1>7. tx.vals.plain # 0
    BY <1>1 DEF TxOK
  <1>8. r.frame = "normal" => r.node.srdo.CANtxData # 0
    BY <1>6, <1>7
  <1>9. wire' \in Seq(Frames)
    <2>1. CASE ok /\ r.frame # "none"
      <3> DEFINE f == FrameOf(r.node, r.frame)
      <3>1. r.frame \in {"normal", "inverted"}
        BY <1>6, <2>1
      <3>2. f \in Frames
        BY <1>6, <1>8, <3>1, FrameSent
      <3>3. wire' = Append(wire, f)
        BY <1>4, <2>1
      <3> HIDE DEF f
      <3> QED  BY <1>1, <3>2, <3>3
    <2>2. CASE ~(ok /\ r.frame # "none")
      BY <1>1, <1>4, <2>2
    <2> QED  BY <2>1, <2>2
  <1>10. unsent' \in SUBSET {"normal", "inverted"}
    <2>1. unsentAfter(op) \in SUBSET {"normal", "inverted"}
      BY <1>1 DEF unsentAfter
    <2>2. outcome = "busy" => r.frame \in {"normal", "inverted"}
      BY <1>4, <1>6
    <2> QED  BY <1>4, <2>1, <2>2
  <1>11. "normal" \in unsent' => tx'.srdo.CANtxData # 0
    <2>1. "normal" \in unsent' => "normal" \in unsent \/ r.frame = "normal"
      BY <1>4 DEF unsentAfter
    <2> QED  BY <1>1, <1>4, <1>6, <1>7, <1>8, <2>1
  <1>12. elapsed' \in [Nodes -> Nat] /\ elapsed'["rx"] = elapsed["rx"]
    BY <1>1, <1>2, <1>4
  <1>13. TxOK(tx') /\ running' \in [Nodes -> BOOLEAN] /\ UNCHANGED <<pair, rx, rxAge, valAge, failed>>
    BY <1>1, <1>4, <1>6
  <1> QED  BY <1>9, <1>10, <1>11, <1>12, <1>13, RxKept

\* The driver sends a frame that it kept.
LEMMA SendKeeps ==
    ASSUME PairInv, CO_CANmodule_process
    PROVE  PairInv'
  <1>1. /\ TxOK(tx) /\ elapsed \in [Nodes -> Nat] /\ running \in [Nodes -> BOOLEAN] /\ wire \in Seq(Frames)
        /\ unsent \in SUBSET {"normal", "inverted"} /\ ("normal" \in unsent => tx.srdo.CANtxData # 0)
    BY DEF PairInv
  <1>2. PICK kind \in unsent : /\ wire' = Append(wire, FrameOf(tx, kind)) /\ unsent' = unsent \ {kind}
                               /\ UNCHANGED <<pair, tx, rx, running, elapsed, rxAge, valAge, failed>>
    BY DEF CO_CANmodule_process
  <1>3. FrameOf(tx, kind) \in Frames
    BY <1>1, FrameSent
  <1>4. wire' \in Seq(Frames)
    <2> DEFINE f == FrameOf(tx, kind)
    <2> HIDE DEF f
    <2> QED  BY <1>1, <1>2, <1>3 DEF f
  <1>5. /\ TxOK(tx') /\ running' \in [Nodes -> BOOLEAN] /\ elapsed' \in [Nodes -> Nat]
        /\ elapsed'["rx"] = elapsed["rx"] /\ UNCHANGED <<pair, rx, rxAge, valAge, failed>>
        /\ unsent' \in SUBSET {"normal", "inverted"} /\ ("normal" \in unsent' => tx'.srdo.CANtxData # 0)
    BY <1>1, <1>2
  <1> QED  BY <1>4, <1>5, RxKept

\* The consumer takes a frame off the bus.
LEMMA ArrivalKeeps ==
    ASSUME PairInv, NEW frame \in Arriving, rx' = received(frame), rxAge' = ageAfter(frame),
           wire' \in Seq(Frames), UNCHANGED <<pair, tx, running, elapsed, unsent, valAge, failed>>
    PROVE  PairInv'
  <1> DEFINE el == elapsed["rx"]
  <1>1. /\ pair \in DOMAIN Pairs /\ RxOK(rx) /\ rxAge \in Nat /\ valAge \in Nat
        /\ elapsed \in [Nodes -> Nat] /\ el <= Pair.call /\ AgesOK(rx, rxAge, valAge, el)
        /\ FailureOK(rx, failed) /\ failed \in BOOLEAN /\ running \in [Nodes -> BOOLEAN]
    BY DEF PairInv
  <1>2. el \in Nat
    BY <1>1 DEF Nodes
  <1>3. elapsed'["rx"] = el /\ valAge' = valAge /\ failed' = failed
    OBVIOUS
  <1> HIDE DEF el
  <1>4. /\ RxOK(rx') /\ rxAge' \in Nat /\ AgesOK(rx', rxAge', valAge, el) /\ FailureOK(rx', failed)
    BY <1>1, <1>2, ReceiveOK
  <1>5. /\ AgesOK(rx', rxAge', valAge', elapsed'["rx"]) /\ FailureOK(rx', failed')
        /\ elapsed'["rx"] <= Pair.call
    BY <1>1, <1>3, <1>4
  <1>6. /\ elapsed' \in [Nodes -> Nat] /\ valAge' \in Nat /\ failed' \in BOOLEAN
        /\ running' \in [Nodes -> BOOLEAN] /\ UNCHANGED <<pair, tx, unsent>>
    BY <1>1
  <1> QED  BY <1>4, <1>5, <1>6, TxKept

\* What a frame of the producer is when it arrives.
LEMMA FramesArrive ==
    ASSUME NEW frame \in Frames, NEW fault \in {"broken", "short", "again"}
    PROVE  frame \in Arriving /\ faulty(fault, frame) \in Arriving
  <1> DEFINE F == [ident : Names, inverted : BOOLEAN, DLC : Nat, data : Nat]
             d == IF frame.inverted THEN 8 ELSE 9
  <1>1. frame \in F /\ frame.data \notin Broken /\ (~frame.inverted => frame.data # 0)
    BY DEF Frames
  <1>2. frame \in Arriving
    BY <1>1 DEF Arriving, Broken
  <1>3. d \in Nat /\ 0 \in Nat
    OBVIOUS
  <1>4. CASE fault = "broken"
    <2> DEFINE f == [frame EXCEPT !.data = d]
    <2>1. f \in F /\ f.data = d /\ f.inverted = frame.inverted
      <3> HIDE DEF d
      <3> QED  BY <1>1, <1>3, Zenon
    <2>2. faulty(fault, frame) = f
      BY <1>4 DEF faulty
    <2> HIDE DEF f
    <2>3. f \in Arriving
      BY <2>1 DEF Arriving
    <2> QED  BY <1>2, <2>2, <2>3
  <1>5. CASE fault = "short"
    <2> DEFINE f == [frame EXCEPT !.DLC = 0]
    <2>1. f \in F /\ f.data = frame.data /\ f.inverted = frame.inverted
      BY <1>1, <1>3, Zenon
    <2>2. faulty(fault, frame) = f
      BY <1>5 DEF faulty
    <2> HIDE DEF f
    <2>3. f \in Arriving
      BY <1>2, <2>1 DEF Arriving
    <2> QED  BY <1>2, <2>2, <2>3
  <1>6. CASE fault = "again"
    BY <1>2, <1>6 DEF faulty
  <1> QED  BY <1>4, <1>5, <1>6

\* A frame arrives.
LEMMA DeliverKeeps ==
    ASSUME PairInv, Deliver
    PROVE  PairInv'
  <1>1. wire \in Seq(Frames) /\ wire # <<>>
    BY DEF PairInv, Deliver
  <1>2. Head(wire) \in Frames /\ Tail(wire) \in Seq(Frames)
    BY <1>1
  <1>3. Head(wire) \in Arriving
    BY <1>2, FramesArrive
  <1>4. /\ rx' = received(Head(wire)) /\ rxAge' = ageAfter(Head(wire)) /\ wire' = Tail(wire)
        /\ UNCHANGED <<pair, tx, running, elapsed, unsent, valAge, failed>>
    BY DEF Deliver
  <1> QED  BY <1>2, <1>3, <1>4, ArrivalKeeps

\* A fault on the bus.
LEMMA FaultKeeps ==
    ASSUME PairInv, NEW fault \in {"lost", "broken", "short", "again"}, Fault(fault), UNCHANGED pair
    PROVE  PairInv'
  <1>1. wire \in Seq(Frames) /\ wire # <<>>
    BY DEF PairInv, Fault
  <1>2. Head(wire) \in Frames /\ Tail(wire) \in Seq(Frames)
    BY <1>1
  <1>3. /\ wire' = IF fault = "again" THEN wire ELSE Tail(wire)
        /\ UNCHANGED <<tx, running, elapsed, unsent, valAge, failed>>
    BY DEF Fault
  <1>4. wire' \in Seq(Frames)
    BY <1>1, <1>2, <1>3
  <1>5. CASE fault = "lost"
    <2>1. UNCHANGED <<rx, rxAge>>
      BY <1>5 DEF Fault
    <2>2. /\ TxOK(tx') /\ running' \in [Nodes -> BOOLEAN] /\ elapsed' \in [Nodes -> Nat]
          /\ elapsed'["rx"] = elapsed["rx"] /\ UNCHANGED <<pair, rx, rxAge, valAge, failed>>
          /\ unsent' \in SUBSET {"normal", "inverted"} /\ ("normal" \in unsent' => tx'.srdo.CANtxData # 0)
      BY <1>3, <2>1 DEF PairInv
    <2> QED  BY <1>4, <2>2, RxKept
  <1>6. CASE fault # "lost"
    <2> DEFINE frame == faulty(fault, Head(wire))
    <2>1. fault \in {"broken", "short", "again"}
      BY <1>6
    <2>2. frame \in Arriving
      BY <1>2, <2>1, FramesArrive
    <2>3. rx' = received(frame) /\ rxAge' = ageAfter(frame)
      BY <1>6 DEF Fault
    <2> HIDE DEF frame
    <2>4. UNCHANGED <<pair, tx, running, elapsed, unsent, valAge, failed>>
      BY <1>3
    <2> QED  BY <1>4, <2>2, <2>3, <2>4, ArrivalKeeps
  <1> QED  BY <1>5, <1>6

\* Only the producer, as it should be, and not what it sends next, changes.
LEMMA ProducerChanged ==
    ASSUME PairInv, TxOK(tx'), tx'.srdo.CANtxData = tx.srdo.CANtxData,
           UNCHANGED <<pair, rx, running, elapsed, unsent, wire, rxAge, valAge, failed>>
    PROVE  PairInv'
  <1>1. /\ running' \in [Nodes -> BOOLEAN] /\ elapsed' \in [Nodes -> Nat]
        /\ elapsed'["rx"] = elapsed["rx"] /\ UNCHANGED <<pair, rx, rxAge, valAge, failed>>
        /\ unsent' \in SUBSET {"normal", "inverted"} /\ ("normal" \in unsent' => tx'.srdo.CANtxData # 0)
        /\ wire' \in Seq(Frames)
    BY DEF PairInv
  <1> QED  BY <1>1, RxKept

\* The application writes a value.
LEMMA ChangeKeeps ==
    ASSUME PairInv, NEW value \in Pair.values, Change(value), UNCHANGED pair
    PROVE  PairInv'
  <1>1. pair \in DOMAIN Pairs /\ TxOK(tx) /\ tx \in NodeType /\ tx.vals \in ValsType
    BY DEF PairInv, TxOK, NodeType
  <1>2. value \in Nat /\ value \notin Broken \cup {0}
    BY <1>1, PairTypes
  <1> DEFINE v1 == [tx.vals EXCEPT !.plain = value]
             v2 == [tx.vals EXCEPT !.inverted = value]
  <1>3. \E v \in {v1, v2} : tx' = [tx EXCEPT !.vals = v]
    BY DEF Change
  <1>4. /\ v1 \in ValsType /\ v1.plain = value /\ v1.inverted = tx.vals.inverted
        /\ v2 \in ValsType /\ v2.plain = tx.vals.plain /\ v2.inverted = value
    BY <1>1, <1>2, Zenon DEF ValsType
  <1> HIDE DEF v1, v2
  <1>5. PICK v \in {v1, v2} : tx' = [tx EXCEPT !.vals = v]
    BY <1>3
  <1>6. v \in ValsType /\ v.plain \notin Broken \cup {0} /\ v.inverted \notin Broken \cup {0}
    BY <1>1, <1>2, <1>4, <1>5 DEF TxOK
  <1>7. /\ tx' \in NodeType /\ tx'.vals = v /\ tx'.srdo = tx.srdo /\ tx'.od = tx.od /\ tx'.guard = tx.guard
    BY <1>1, <1>5, <1>6, Zenon DEF NodeType
  <1>8. TxOK(tx')
    BY <1>1, <1>6, <1>7, Zenon DEF TxOK
  <1>9. UNCHANGED <<rx, running, elapsed, unsent, wire, rxAge, valAge, failed>>
    BY DEF Change
  <1> QED  BY <1>7, <1>8, <1>9, ProducerChanged

\* The application asks for a transmission.
LEMMA RequestKeeps ==
    ASSUME PairInv, RequestSend, UNCHANGED pair
    PROVE  PairInv'
  <1> DEFINE s == [tx.srdo EXCEPT !.cycleTimer = 0]
  <1>1. TxOK(tx) /\ tx \in NodeType /\ tx.srdo \in SrdoType
    BY DEF PairInv, TxOK, NodeType
  <1>2. tx' = [tx EXCEPT !.srdo = s] \/ tx' = tx
    BY <1>1 DEF RequestSend, CO_SRDO_requestSend, NodeType
  <1>3. 0 \in Nat
    OBVIOUS
  <1>4. /\ s \in SrdoType /\ s.informationDirection = tx.srdo.informationDirection
        /\ s.CANtxData = tx.srdo.CANtxData
    BY <1>1, <1>3, Zenon DEF SrdoType
  <1> HIDE DEF s
  <1>5. LET m == [tx EXCEPT !.srdo = s] IN
          m \in NodeType /\ m.srdo = s /\ m.od = tx.od /\ m.vals = tx.vals /\ m.guard = tx.guard
    BY <1>1, <1>4, WithSrdo
  <1>6. TxOK([tx EXCEPT !.srdo = s]) /\ [tx EXCEPT !.srdo = s].srdo.CANtxData = tx.srdo.CANtxData
    <2> DEFINE m == [tx EXCEPT !.srdo = s]
    <2>1. m \in NodeType /\ m.srdo = s /\ m.od = tx.od /\ m.vals = tx.vals /\ m.guard = tx.guard
      BY <1>5
    <2> HIDE DEF m
    <2>2. TxOK(m) /\ m.srdo.CANtxData = tx.srdo.CANtxData
      BY <1>1, <1>4, <2>1, Zenon DEF TxOK
    <2> QED  BY <2>2 DEF m
  <1>7. TxOK(tx') /\ tx'.srdo.CANtxData = tx.srdo.CANtxData
    BY <1>1, <1>2, <1>6, Zenon
  <1>8. UNCHANGED <<rx, running, elapsed, unsent, wire, rxAge, valAge, failed>>
    BY DEF RequestSend
  <1> QED  BY <1>7, <1>8, ProducerChanged

\* An NMT command.
LEMMA SwitchKeeps ==
    ASSUME PairInv, NEW node \in Nodes, Switch(node), UNCHANGED pair
    PROVE  PairInv'
  <1>1. running \in [Nodes -> BOOLEAN]
    BY DEF PairInv
  <1>2. /\ running' = [running EXCEPT ![node] = ~@]
        /\ UNCHANGED <<tx, rx, elapsed, unsent, wire, rxAge, valAge, failed>>
    BY DEF Switch
  <1>3. running' \in [Nodes -> BOOLEAN]
    BY <1>1, <1>2
  <1>4. /\ TxOK(tx') /\ elapsed' \in [Nodes -> Nat] /\ wire' \in Seq(Frames)
        /\ elapsed'["rx"] = elapsed["rx"] /\ UNCHANGED <<pair, rx, rxAge, valAge, failed>>
        /\ unsent' \in SUBSET {"normal", "inverted"} /\ ("normal" \in unsent' => tx'.srdo.CANtxData # 0)
    BY <1>2 DEF PairInv
  <1> QED  BY <1>3, <1>4, RxKept

\* An SDO client writes a parameter.
LEMMA WriteKeeps ==
    ASSUME PairInv, NEW w \in Pair.writes, WriteRx(w), UNCHANGED pair
    PROVE  PairInv'
  <1> DEFINE el == elapsed["rx"]
  <1>1. /\ pair \in DOMAIN Pairs /\ RxOK(rx) /\ TxOK(tx) /\ AgesOK(rx, rxAge, valAge, el) /\ FailureOK(rx, failed)
    BY DEF PairInv
  <1>2. rx' = written(w) /\ UNCHANGED <<tx, running, elapsed, unsent, wire, rxAge, valAge, failed>>
    BY DEF WriteRx
  <1>3. Guarded(rx', rx)
    BY <1>1, <1>2, WriteStep
  <1> HIDE DEF el
  <1>4. RxOK(rx') /\ AgesOK(rx', rxAge, valAge, el) /\ FailureOK(rx', failed)
    BY <1>1, <1>3, WrittenOK
  <1>5. /\ RxOK(rx') /\ AgesOK(rx', rxAge', valAge', elapsed'["rx"]) /\ FailureOK(rx', failed')
    BY <1>2, <1>4 DEF el
  <1>6. /\ elapsed'["rx"] <= Pair.call /\ rxAge' \in Nat /\ valAge' \in Nat /\ failed' \in BOOLEAN
        /\ wire' \in Seq(Frames) /\ running' \in [Nodes -> BOOLEAN] /\ elapsed' \in [Nodes -> Nat]
        /\ UNCHANGED <<pair, tx, unsent>>
    BY <1>2 DEF PairInv
  <1> QED  BY <1>5, <1>6, TxKept

\* The communication of the consumer is reset.
LEMMA ResetKeeps ==
    ASSUME PairInv, NEW starts \in BOOLEAN, ResetConsumer(starts), UNCHANGED pair
    PROVE  PairInv'
  <1> DEFINE n == CO_SRDO_init(rx.od, rx.vals, rx.previous)
             c == srdo_reconfigured(n, starts)
             r == CO_SRDO_process(c, 0, starts, TRUE).node
  <1>1. /\ pair \in DOMAIN Pairs /\ RxOK(rx) /\ elapsed \in [Nodes -> Nat]
        /\ wire \in Seq(Frames) /\ running \in [Nodes -> BOOLEAN]
    BY DEF PairInv
  <1>2. /\ rx' = r /\ running' = [running EXCEPT !["rx"] = starts] /\ elapsed' = [elapsed EXCEPT !["rx"] = 0]
        /\ rxAge' = 0 /\ valAge' = 0 /\ failed' = (r.srdo.internalState \in errorStates)
        /\ UNCHANGED <<tx, unsent, wire>>
    BY DEF ResetConsumer, CO_process_SRDO
  <1>3. rx.od \in OdType /\ rx.vals \in ValsType /\ rx.previous \in BOOLEAN /\ rx.od.dir # TX
    BY <1>1 DEF RxOK, NodeType
  <1>4. Fresh(n) /\ n.od.dir = rx.od.dir /\ n.srdo.informationDirection \in {rx.od.dir, DELETED}
    BY <1>3, InitOK
  <1> HIDE DEF n
  <1>5. n.od.dir # TX /\ n.srdo.informationDirection # TX
    BY <1>3, <1>4 DEF TX, DELETED
  <1>6. Ready(c, starts) /\ AgesOK(c, 0, 0, 0) /\ c.srdo.CANrxNew = noNew
    BY <1>4, <1>5, ReadyFresh
  <1> HIDE DEF c
  <1>7. FailureOK(c, FALSE) /\ FALSE \in BOOLEAN
    BY DEF FailureOK
  <1>8. Pair.call \in Nat /\ 0 <= Pair.call /\ 0 \in Nat
    BY <1>1, PairTypes
  <1>9. CallOK(r, c, starts, 0, 0, FALSE)
    BY <1>1, <1>6, <1>7, <1>8, ProcessCall
  <1> HIDE DEF r
  <1>10. ValueAge(c, r, 0, 0) = 0 /\ (IF r.srdo.CANrxNew[0] THEN 0 ELSE 0) = 0
    BY DEF ValueAge
  <1>11. RxOK(rx') /\ AgesOK(rx', rxAge', valAge', 0)
    BY <1>2, <1>9, <1>10, Zenon DEF CallOK
  <1>12. FailureOK(rx', failed') /\ failed' \in BOOLEAN
    <2>1. failed' \in BOOLEAN
      <3> DEFINE z == r.srdo.internalState \in errorStates
      <3>1. z \in BOOLEAN
        <4>1. CASE r.srdo.internalState \in errorStates
          BY <4>1
        <4>2. CASE r.srdo.internalState \notin errorStates
          BY <4>2
        <4> QED  BY <4>1, <4>2
      <3>2. failed' = z
        BY <1>2
      <3> HIDE DEF z
      <3> QED  BY <3>1, <3>2
    <2>2. failed' => rx'.srdo.internalState \in errorStates
      BY <1>2
    <2> QED  BY <2>1, <2>2 DEF FailureOK
  <1>13. "rx" \in Nodes
    BY DEF Nodes
  <1>14. /\ elapsed' \in [Nodes -> Nat] /\ elapsed'["rx"] = 0 /\ elapsed'["rx"] <= Pair.call
         /\ running' \in [Nodes -> BOOLEAN] /\ rxAge' \in Nat /\ valAge' \in Nat
         /\ wire' \in Seq(Frames) /\ UNCHANGED <<pair, tx, unsent>>
    BY <1>1, <1>2, <1>8, <1>13
  <1>15. AgesOK(rx', rxAge', valAge', elapsed'["rx"])
    BY <1>11, <1>14
  <1> QED  BY <1>11, <1>12, <1>14, <1>15, TxKept

\* What the surroundings do.
LEMMA IncidentKeeps ==
    ASSUME PairInv, Incident, UNCHANGED pair
    PROVE  PairInv'
  <1>1. ASSUME NEW f \in Pair.faults \cap {"lost", "broken", "short", "again"}, Fault(f) PROVE PairInv'
    BY <1>1, FaultKeeps
  <1>2. ASSUME NEW o \in Pair.faults \cap {"busy", "failed"}, ProcessTx(o) PROVE PairInv'
    BY <1>2, ProcessTxKeeps
  <1>3. ASSUME NEW v \in Pair.values, Change(v) PROVE PairInv'
    BY <1>3, ChangeKeeps
  <1>4. ASSUME RequestSend PROVE PairInv'
    BY <1>4, RequestKeeps
  <1>5. ASSUME NEW node \in Pair.commands \cap Nodes, Switch(node) PROVE PairInv'
    BY <1>5, SwitchKeeps
  <1>6. ASSUME NEW w \in Pair.writes, WriteRx(w) PROVE PairInv'
    BY <1>6, WriteKeeps
  <1>7. ASSUME NEW s \in BOOLEAN, ResetConsumer(s) PROVE PairInv'
    BY <1>7, ResetKeeps
  <1> QED  BY <1>1, <1>2, <1>3, <1>4, <1>5, <1>6, <1>7 DEF Incident

\* Every step keeps the invariant.
LEMMA PairStep == PairInv /\ [PairNext]_pairVars => PairInv'
  <1> SUFFICES ASSUME PairInv, [PairNext]_pairVars PROVE PairInv'
    OBVIOUS
  <1>1. CASE Tick
    BY <1>1, TickKeeps
  <1>2. CASE ProcessTx("taken") /\ UNCHANGED incidents
    <2>1. UNCHANGED pair
      BY <1>2 DEF ProcessTx
    <2> QED  BY <1>2, <2>1, ProcessTxKeeps
  <1>3. CASE ProcessRx
    BY <1>3, ProcessRxKeeps
  <1>4. CASE CO_CANmodule_process
    BY <1>4, SendKeeps
  <1>5. CASE Deliver
    BY <1>5, DeliverKeeps
  <1>6. CASE Incident /\ UNCHANGED pair
    BY <1>6, IncidentKeeps
  <1>7. CASE UNCHANGED pairVars
    <2>1. /\ TxOK(tx') /\ tx'.srdo.CANtxData = tx.srdo.CANtxData
          /\ UNCHANGED <<pair, rx, running, elapsed, unsent, wire, rxAge, valAge, failed>>
      BY <1>7 DEF pairVars, PairInv
    <2> QED  BY <2>1, ProducerChanged
  <1> QED  BY <1>1, <1>2, <1>3, <1>4, <1>5, <1>6, <1>7 DEF PairNext

\* The invariant says what the application of the consumer relies on.
LEMMA PairSound == PairInv => SafetyDataIsSound
  <1> SUFFICES ASSUME PairInv, established PROVE SafetyDataIsSound
    BY DEF SafetyDataIsSound
  <1> DEFINE el == elapsed["rx"]
             ct == rx.srdo.cycleTime
             vt == rx.srdo.validationTime
             left == rx.srdo.cycleTimer
             pace == Pair.call
  <1>1. /\ pair \in DOMAIN Pairs /\ RxOK(rx) /\ elapsed \in [Nodes -> Nat] /\ el <= pace /\ valAge \in Nat
        /\ AgesOK(rx, rxAge, valAge, el) /\ FailureOK(rx, failed) /\ failed \in BOOLEAN
    BY DEF PairInv
  <1>2. Established(rx)
    BY DEF established, Established
  <1>3. /\ Active(rx) /\ left # 0 /\ rx.vals.plain = rx.vals.inverted /\ rx.vals.plain \notin Broken \cup {0}
    BY <1>1, <1>2 DEF RxOK
  <1>4. Configured(rx) /\ rx.od.valid /\ rx.srdo.informationDirection # DELETED
    BY <1>1, <1>3 DEF RxOK, Active
  <1>5. ct = rx.od.cycle /\ vt = rx.od.validation /\ rx.od.signature = signed(rx.od)
    BY <1>4 DEF Configured
  <1>6. el \in Nat /\ ct \in Nat /\ vt \in Nat /\ left \in Nat /\ pace \in Nat
    <2>1. "rx" \in Nodes
      BY DEF Nodes
    <2>2. el \in Nat
      BY <1>1, <2>1
    <2>3. ct \in Nat /\ vt \in Nat /\ left \in Nat
      BY <1>1 DEF RxOK, NodeType, SrdoType
    <2>4. pace \in Nat
      BY <1>1, PairTypes
    <2> QED  BY <2>2, <2>3, <2>4
  <1>7. valAge + left <= ct + vt + 2 * pace + el
    BY <1>1, <1>2 DEF AgesOK
  <1>8. ~failed
    BY <1>1, <1>2, <1>4 DEF FailureOK, Established, errorStates
  <1>9. valAge < ct + vt + 3 * pace
    <2> HIDE DEF el, ct, vt, left, pace
    <2> QED  BY <1>1, <1>3, <1>6, <1>7
  <1> QED  BY <1>3, <1>4, <1>5, <1>8, <1>9 DEF SafetyDataIsSound

\* While the consumer of CO_SRDO.c says that the communication is established,
\* its value is one that the producer had, in both frames, no older than the
\* cycle time and the validation time allow, received under the signed
\* configuration of the dictionary, with no error since the node became
\* operational: whatever the bus loses, breaks, shortens or repeats, and
\* whatever is written, commanded or reset meanwhile.
THEOREM SafetyData == PairSpec => []SafetyDataIsSound
  <1>1. PairSpec => []PairInv
    BY PairStart, PairStep, PTL DEF PairSpec
  <1> QED  BY <1>1, PairSound, PTL

-----------------------------------------------------------------------------
(* Process data: the mapping and the COB-ID                                 *)

PdoNames == STRING \cup {"zero", "base", "own", "dummy", "none", RxNoError, "ACK_ERROR", "OK", "SHORT", "LONG"}
PdoMaps == [obj : PdoNames, len : Nat, odd : BOOLEAN]
PdoCobIds == [valid : BOOLEAN, id : PdoNames]
PdoOd == [cobId : PdoCobIds, type : 0..255, count : 0..MaxMapped, maps : [1..MaxMapped -> PdoMaps],
          event : Nat, inhibit : Nat, start : Nat]
Io == [obj : PdoNames, dataLength : Nat, dataOffset : Nat]
RpdoType ==
    [valid : BOOLEAN, dataLength : Nat, mappedObjectsCount : 0..MaxMapped, OD_IO : [1..MaxMapped -> Io],
     configuredCanId : PdoNames, od : PdoOd, ident : PdoNames, CANrxNew : [0..1 -> BOOLEAN],
     CANrxData : [0..1 -> Nat], receiveError : PdoNames, synchronous : BOOLEAN, timeoutTime : Nat,
     timeoutTimer : Nat]
TxType == [ident : PdoNames, DLC : Nat, syncFlag : BOOLEAN]
TpdoType ==
    [valid : BOOLEAN, dataLength : Nat, mappedObjectsCount : 0..MaxMapped, OD_IO : [1..MaxMapped -> Io],
     flagPDO : [1..MaxMapped -> PdoNames], configuredCanId : PdoNames, od : PdoOd, tx : TxType,
     transmissionType : 0..255, sendRequest : BOOLEAN, syncStartValue : Nat, syncCounter : Int,
     inhibitTime : Nat, eventTime : Nat, inhibitTimer : Nat, eventTimer : Nat]

\* What an entry of the mapping makes of the place that it is for.
mappable(m, isRPDO) ==
    /\ m.len <= MaxSize
    /\ \/ m.obj = "dummy"
       \/ /\ m.obj \in DOMAIN Objects /\ ~m.odd /\ m.len <= Objects[m.obj].dataLength
          /\ IF isRPDO THEN Objects[m.obj].rpdo ELSE Objects[m.obj].tpdo
placeFor(m) ==
    [obj |-> m.obj, dataLength |-> IF m.obj = "dummy" THEN m.len ELSE Objects[m.obj].dataLength,
     dataOffset |-> m.len]

\* The places are those of the entries, or marked as erroneous.
Reflects(pdo, isRPDO) ==
    \A i \in 1..MaxMapped :
        \/ pdo.OD_IO[i] = erroneous
        \/ mappable(pdo.od.maps[i], isRPDO) /\ pdo.OD_IO[i] = placeFor(pdo.od.maps[i])

\* What is mapped is what the dictionary counts.
Counted(pdo) ==
    pdo.mappedObjectsCount # 0 =>
        /\ pdo.mappedObjectsCount = pdo.od.count
        /\ pdo.dataLength = mappedBytes(pdo, pdo.mappedObjectsCount) /\ pdo.dataLength \in 1..MaxSize
        /\ \A i \in 1..pdo.mappedObjectsCount : pdo.OD_IO[i] # erroneous

\* A valid PDO has the identifier of its COB-ID.
Identified(pdo) ==
    pdo.valid => /\ pdo.mappedObjectsCount # 0 /\ pdo.od.cobId.valid /\ pdo.od.cobId.id # "zero"
                 /\ pdo.configuredCanId = "base" \/ with_nodeId(pdo.od.cobId.id) = pdo.configuredCanId

PdoOK(pdo, isRPDO) == Reflects(pdo, isRPDO) /\ Counted(pdo) /\ Identified(pdo)

RpdoOK(r) ==
    /\ r \in RpdoType /\ PdoOK(r, TRUE)
    /\ IF r.valid THEN r.ident = r.configuredCanId
       ELSE r.ident = "zero" /\ r.CANrxNew = [b \in 0..1 |-> FALSE]

TpdoOK(t) ==
    /\ t \in TpdoType /\ PdoOK(t, FALSE)
    /\ t.valid => t.tx = CO_CANtxBufferInit(t.configuredCanId, t.dataLength, t.transmissionType)

-----------------------------------------------------------------------------
(* The sum of the mapped bytes                                              *)

\* A sum of lengths is a length.
LEMMA BytesNat ==
    ASSUME NEW pdo, NEW count \in Nat, \A i \in 1..count : pdo.OD_IO[i].dataOffset \in Nat
    PROVE  mappedBytes(pdo, count) \in Nat
  <1> DEFINE len(i)  == pdo.OD_IO[i].dataOffset
             step    == [i \in 1..count |-> [x \in Nat |-> x + len(i)]]
             pass(h) == [i \in 0..count |-> IF i = 0 THEN 0 ELSE h[i - 1] + len(i)]
             sum     == CHOOSE h : h = pass(h)
  <1>1. mappedBytes(pdo, count) = sum[count]
    BY DEF mappedBytes
  <1>2. \A i \in 1..count : len(i) \in Nat
    OBVIOUS
  <1> HIDE DEF len
  <1>3. step \in [1..count -> [Nat -> Nat]]
    BY <1>2
  <1>4. PICK g \in [0..count -> Nat] : IsLoop(g, count, 0, step)
    <2> HIDE DEF step
    <2> QED  BY <1>3, LoopExists
  <1>5. g = pass(g)
    <2>1. ASSUME NEW i \in 1..count
          PROVE  g[i] = g[i - 1] + len(i)
      <3>1. g[i - 1] \in Nat
        OBVIOUS
      <3> QED  BY <1>4, <3>1 DEF IsLoop
    <2> QED  BY <1>4, <2>1 DEF IsLoop
  <1>6. sum = pass(sum)
    <2> HIDE DEF pass
    <2> QED  BY <1>5, Zenon
  <1> HIDE DEF sum
  <1>7. sum[0] \in Nat /\ \A i \in 1..count : sum[i] = sum[i - 1] + len(i)
    BY <1>6
  <1>8. \A i \in 0..count : sum[i] \in Nat
    <2>1. \A i \in 1..count : sum[i - 1] \in Nat => sum[i] \in Nat
      BY <1>2, <1>7
    <2> QED  BY <1>7, <2>1, LoopInvariant
  <1> QED  BY <1>1, <1>8

\* The sum is one of the places only.
LEMMA BytesSame ==
    ASSUME NEW p, NEW q, NEW count, p.OD_IO = q.OD_IO
    PROVE  mappedBytes(p, count) = mappedBytes(q, count)
  BY DEF mappedBytes

\* So the sum of mapped places is one.
LEMMA BytesOfMapped ==
    ASSUME NEW p, p.OD_IO \in [1..MaxMapped -> Io], NEW count \in 0..MaxMapped
    PROVE  mappedBytes(p, count) \in Nat
  <1>1. count \in Nat /\ \A i \in 1..count : i \in 1..MaxMapped
    BY MaxMappedAssumption
  <1>2. \A i \in 1..count : p.OD_IO[i].dataOffset \in Nat
    BY <1>1 DEF Io
  <1> QED  BY <1>1, <1>2, BytesNat
-----------------------------------------------------------------------------
(* One entry                                                                *)

\* The PDO with the entry in place i.
placed(pdo, map, i, isRPDO) ==
    [(IF isRPDO \/ map.obj = "dummy" THEN pdo
      ELSE [pdo EXCEPT !.flagPDO[i] = IF Objects[map.obj].flag THEN map.obj ELSE "none"])
     EXCEPT !.OD_IO[i] = placeFor(map)]

\* An entry is put in place or refused, for what it says.
LEMMA ConfigMap ==
    ASSUME NEW pdo, NEW map \in PdoMaps, NEW i, NEW isRPDO \in BOOLEAN
    PROVE  LET r == PDOconfigMap(pdo, map, i, isRPDO) IN
           IF mappable(map, isRPDO) THEN r.ret = "OK" /\ r.pdo = placed(pdo, map, i, isRPDO)
           ELSE r.ret # "OK" /\ r.pdo = pdo
  <1> DEFINE o == Objects[map.obj]
             r == PDOconfigMap(pdo, map, i, isRPDO)
  <1>1. CASE map.len > MaxSize
    BY <1>1 DEF PDOconfigMap, refused, mappable, PdoMaps, MaxSize
  <1>2. CASE map.len <= MaxSize /\ map.obj = "dummy"
    <2>1. r = accepted(pdo, [obj |-> "dummy", dataLength |-> map.len, dataOffset |-> map.len], i)
      BY <1>2 DEF PDOconfigMap, PdoMaps, MaxSize
    <2>2. mappable(map, isRPDO) /\ placeFor(map) = [obj |-> "dummy", dataLength |-> map.len, dataOffset |-> map.len]
      BY <1>2 DEF mappable, placeFor
    <2> QED  BY <1>2, <2>1, <2>2 DEF accepted, placed
  <1>3. CASE map.len <= MaxSize /\ map.obj # "dummy" /\ map.obj \notin DOMAIN Objects
    BY <1>3 DEF PDOconfigMap, refused, mappable, PdoMaps, MaxSize
  <1>4. CASE map.len <= MaxSize /\ map.obj # "dummy" /\ map.obj \in DOMAIN Objects
    <2>1. o.dataLength \in Nat /\ map.len \in Nat
      BY <1>4, ObjectsAssumption DEF PdoMaps
    <2> DEFINE bad == ~(IF isRPDO THEN o.rpdo ELSE o.tpdo) \/ map.odd \/ o.dataLength < map.len
               f == [pdo EXCEPT !.flagPDO[i] = IF o.flag THEN map.obj ELSE "none"]
    <2>2. mappable(map, isRPDO) <=> ~bad
      BY <1>4, <2>1 DEF mappable
    <2>3. r = IF bad THEN refused(pdo, "NO_MAP")
              ELSE accepted(IF isRPDO THEN pdo ELSE f,
                            [obj |-> map.obj, dataLength |-> o.dataLength, dataOffset |-> map.len], i)
      BY <1>4, <2>1 DEF PDOconfigMap, MaxSize
    <2>4. placeFor(map) = [obj |-> map.obj, dataLength |-> o.dataLength, dataOffset |-> map.len]
      BY <1>4 DEF placeFor
    <2>5. CASE bad
      <3>1. r = refused(pdo, "NO_MAP")
        <4> HIDE DEF bad
        <4> QED  BY <2>3, <2>5, Zenon
      <3>2. ~mappable(map, isRPDO)
        <4> HIDE DEF bad
        <4> QED  BY <2>2, <2>5
      <3> HIDE DEF bad, f
      <3> QED  BY <3>1, <3>2 DEF refused
    <2>6. CASE ~bad
      <3>1. r = accepted(IF isRPDO THEN pdo ELSE f, placeFor(map), i)
        <4> HIDE DEF bad, f
        <4> QED  BY <2>3, <2>4, <2>6, Zenon
      <3>2. mappable(map, isRPDO)
        <4> HIDE DEF bad
        <4> QED  BY <2>2, <2>6
      <3>3. placed(pdo, map, i, isRPDO) = [(IF isRPDO THEN pdo ELSE f) EXCEPT !.OD_IO[i] = placeFor(map)]
        BY <1>4, Zenon DEF placed
      <3> HIDE DEF bad, f
      <3> QED  BY <3>1, <3>2, <3>3 DEF accepted
    <2> QED  BY <2>5, <2>6
  <1>5. map.len \in Nat
    BY DEF PdoMaps
  <1> QED  BY <1>1, <1>2, <1>3, <1>4, <1>5 DEF MaxSize

\* An object that can be mapped has a length.
LEMMA PlaceType ==
    ASSUME NEW map \in PdoMaps, NEW isRPDO, mappable(map, isRPDO)
    PROVE  placeFor(map) \in Io /\ placeFor(map) # erroneous
  <1>1. map.obj # "dummy" => Objects[map.obj].dataLength \in Nat
    BY ObjectsAssumption DEF mappable
  <1>2. map.obj \in PdoNames /\ map.len \in Nat /\ map.len <= 8
    BY DEF PdoMaps, mappable, MaxSize
  <1> QED  BY <1>1, <1>2 DEF placeFor, Io, erroneous

\* Of an RPDO only the places change ...
LEMMA PlacedRpdo ==
    ASSUME NEW r \in RpdoType, NEW map \in PdoMaps, mappable(map, TRUE), NEW i \in 1..MaxMapped
    PROVE  LET q == placed(r, map, i, TRUE) IN
           q \in RpdoType /\ q = [r EXCEPT !.OD_IO = [r.OD_IO EXCEPT ![i] = placeFor(map)]]
  <1> DEFINE io == [r.OD_IO EXCEPT ![i] = placeFor(map)]
             q  == placed(r, map, i, TRUE)
  <1>1. placeFor(map) \in Io
    BY PlaceType
  <1>2. r.OD_IO \in [1..MaxMapped -> Io]
    BY DEF RpdoType
  <1>3. io \in [1..MaxMapped -> Io]
    BY <1>1, <1>2
  <1>4. q = [r EXCEPT !.OD_IO = io]
    BY DEF placed
  <1> HIDE DEF io
  <1>5. [r EXCEPT !.OD_IO = io] \in RpdoType
    BY <1>3 DEF RpdoType
  <1> QED  BY <1>4, <1>5 DEF io

\* A TPDO with other places and flags.
remapped(t, io, flags) == [t EXCEPT !.OD_IO = io, !.flagPDO = flags]

\* ... and of a TPDO the flags, too.
LEMMA PlacedTpdo ==
    ASSUME NEW t \in TpdoType, NEW map \in PdoMaps, mappable(map, FALSE), NEW i \in 1..MaxMapped
    PROVE  LET q == placed(t, map, i, FALSE) IN
           /\ q \in TpdoType
           /\ \E flags \in [1..MaxMapped -> PdoNames] :
                 q = remapped(t, [t.OD_IO EXCEPT ![i] = placeFor(map)], flags)
  <1> DEFINE io == [t.OD_IO EXCEPT ![i] = placeFor(map)]
             flag == IF Objects[map.obj].flag THEN map.obj ELSE "none"
             new == [t.flagPDO EXCEPT ![i] = flag]
             flags == IF map.obj = "dummy" THEN t.flagPDO ELSE new
             q  == placed(t, map, i, FALSE)
  <1>1. placeFor(map) \in Io
    BY PlaceType
  <1>2. t.OD_IO \in [1..MaxMapped -> Io] /\ t.flagPDO \in [1..MaxMapped -> PdoNames]
    BY DEF TpdoType
  <1>3. flag \in PdoNames
    BY DEF PdoMaps, PdoNames
  <1>4. io \in [1..MaxMapped -> Io] /\ flags \in [1..MaxMapped -> PdoNames]
    BY <1>1, <1>2, <1>3
  <1>5. q = [t EXCEPT !.OD_IO = io, !.flagPDO = flags]
    <2>1. CASE map.obj = "dummy"
      <3>1. q = [t EXCEPT !.OD_IO = io]
        BY <2>1 DEF placed
      <3>2. flags = t.flagPDO
        BY <2>1
      <3> HIDE DEF io, flags
      <3> QED  BY <3>1, <3>2 DEF TpdoType
    <2>2. CASE map.obj # "dummy"
      <3>1. q = [[t EXCEPT !.flagPDO[i] = flag] EXCEPT !.OD_IO[i] = placeFor(map)]
        BY <2>2 DEF placed
      <3>2. [t EXCEPT !.flagPDO[i] = flag] = [t EXCEPT !.flagPDO = new]
        OBVIOUS
      <3>3. flags = new
        BY <2>2
      <3> HIDE DEF flag, new, flags
      <3>4. [t EXCEPT !.flagPDO = new].OD_IO = t.OD_IO
        BY DEF TpdoType
      <3> QED  BY <3>1, <3>2, <3>3, <3>4 DEF TpdoType
    <2> QED  BY <2>1, <2>2
  <1> HIDE DEF io, flags, q
  <1>6. [t EXCEPT !.OD_IO = io, !.flagPDO = flags] \in TpdoType
    BY <1>4 DEF TpdoType
  <1> QED  BY <1>4, <1>5, <1>6 DEF io, q, remapped
-----------------------------------------------------------------------------
(* The mapping of the dictionary                                            *)

PdoType(isRPDO) == IF isRPDO THEN RpdoType ELSE TpdoType

\* Only the mapping differs.
Alike(q, p, isRPDO) ==
    IF isRPDO THEN q = [p EXCEPT !.OD_IO = q.OD_IO]
    ELSE q = [p EXCEPT !.OD_IO = q.OD_IO, !.flagPDO = q.flagPDO]

\* Alike twice is alike.
LEMMA AlikeTrans ==
    ASSUME NEW isRPDO \in BOOLEAN, NEW p \in PdoType(isRPDO), NEW q \in PdoType(isRPDO), NEW r \in PdoType(isRPDO),
           Alike(q, p, isRPDO), Alike(r, q, isRPDO)
    PROVE  Alike(r, p, isRPDO)
  <1>1. CASE isRPDO
    <2>1. p \in RpdoType /\ q = [p EXCEPT !.OD_IO = q.OD_IO] /\ r = [q EXCEPT !.OD_IO = r.OD_IO]
      BY <1>1 DEF PdoType, Alike
    <2>2. r = [p EXCEPT !.OD_IO = r.OD_IO]
      BY <2>1 DEF RpdoType
    <2> QED  BY <1>1, <2>2 DEF Alike
  <1>2. CASE ~isRPDO
    <2>1. /\ p \in TpdoType /\ q = [p EXCEPT !.OD_IO = q.OD_IO, !.flagPDO = q.flagPDO]
          /\ r = [q EXCEPT !.OD_IO = r.OD_IO, !.flagPDO = r.flagPDO]
      BY <1>2 DEF PdoType, Alike
    <2>2. r = [p EXCEPT !.OD_IO = r.OD_IO, !.flagPDO = r.flagPDO]
      BY <2>1 DEF TpdoType
    <2> QED  BY <1>2, <2>2 DEF Alike
  <1> QED  BY <1>1, <1>2

\* An entry put in place.
LEMMA PlacedAs ==
    ASSUME NEW isRPDO \in BOOLEAN, NEW p \in PdoType(isRPDO), NEW map \in PdoMaps, mappable(map, isRPDO),
           NEW i \in 1..MaxMapped
    PROVE  LET q == placed(p, map, i, isRPDO) IN
           /\ q \in PdoType(isRPDO) /\ Alike(q, p, isRPDO)
           /\ q.OD_IO = [p.OD_IO EXCEPT ![i] = placeFor(map)]
  <1> DEFINE io == [p.OD_IO EXCEPT ![i] = placeFor(map)]
             q == placed(p, map, i, isRPDO)
  <1>1. CASE isRPDO = TRUE
    <2>1. p \in RpdoType
      BY <1>1 DEF PdoType
    <2>2. q = placed(p, map, i, TRUE) /\ mappable(map, TRUE)
      BY <1>1
    <2>3. q \in RpdoType /\ q = [p EXCEPT !.OD_IO = io]
      BY <2>1, <2>2, PlacedRpdo
    <2> HIDE DEF io, q
    <2>4. q.OD_IO = io
      BY <2>1, <2>3 DEF RpdoType
    <2> QED  BY <1>1, <2>3, <2>4 DEF PdoType, Alike, io, q
  <1>2. CASE isRPDO = FALSE
    <2>1. p \in TpdoType
      BY <1>2 DEF PdoType
    <2>2. q = placed(p, map, i, FALSE) /\ mappable(map, FALSE)
      BY <1>2
    <2> DEFINE f == placed(p, map, i, FALSE)
    <2>3. f \in TpdoType /\ \E flags \in [1..MaxMapped -> PdoNames] : f = remapped(p, io, flags)
      <3>1. mappable(map, FALSE)
        BY <2>2
      <3> QED  BY <2>1, <3>1, PlacedTpdo
    <2>6. q = f
      BY <2>2
    <2> HIDE DEF f
    <2> HIDE DEF io, q
    <2>4. q \in TpdoType /\ \E flags \in [1..MaxMapped -> PdoNames] : q = remapped(p, io, flags)
      BY <2>3, <2>6
    <2>7. PICK flags \in [1..MaxMapped -> PdoNames] : q = [p EXCEPT !.OD_IO = io, !.flagPDO = flags]
      BY <2>4 DEF remapped
    <2>8. q.OD_IO = io /\ q.flagPDO = flags
      BY <2>1, <2>7 DEF TpdoType
    <2> QED  BY <1>2, <2>4, <2>7, <2>8 DEF PdoType, Alike, io, q
  <1> QED  BY <1>1, <1>2

\* A place marked as erroneous.
LEMMA MarkedAs ==
    ASSUME NEW isRPDO \in BOOLEAN, NEW p \in PdoType(isRPDO), NEW i \in 1..MaxMapped
    PROVE  LET q == [p EXCEPT !.OD_IO[i] = erroneous] IN
           /\ q \in PdoType(isRPDO) /\ Alike(q, p, isRPDO)
           /\ q.OD_IO = [p.OD_IO EXCEPT ![i] = erroneous]
  <1> DEFINE io == [p.OD_IO EXCEPT ![i] = erroneous]
             q == [p EXCEPT !.OD_IO[i] = erroneous]
  <1>1. erroneous \in Io
    BY DEF erroneous, Io, PdoNames
  <1>2. p.OD_IO \in [1..MaxMapped -> Io]
    <2>1. p \in RpdoType \/ p \in TpdoType
      BY DEF PdoType
    <2> QED  BY <2>1 DEF RpdoType, TpdoType
  <1>3. io \in [1..MaxMapped -> Io]
    BY <1>1, <1>2
  <1>4. q = [p EXCEPT !.OD_IO = io]
    OBVIOUS
  <1> HIDE DEF io, q
  <1>5. CASE isRPDO
    <2>1. p \in RpdoType
      BY <1>5 DEF PdoType
    <2>2. q \in RpdoType /\ q.OD_IO = io
      BY <1>3, <1>4, <2>1 DEF RpdoType
    <2> QED  BY <1>4, <1>5, <2>2 DEF PdoType, Alike, q, io
  <1>6. CASE ~isRPDO
    <2>1. p \in TpdoType
      BY <1>6 DEF PdoType
    <2>2. q \in TpdoType /\ q.OD_IO = io /\ q.flagPDO = p.flagPDO
      BY <1>3, <1>4, <2>1 DEF TpdoType
    <2>3. q = [p EXCEPT !.OD_IO = io, !.flagPDO = p.flagPDO]
      BY <1>4, <2>1 DEF TpdoType
    <2> QED  BY <1>6, <2>2, <2>3 DEF PdoType, Alike, q, io
  <1> QED  BY <1>5, <1>6

Accs(isRPDO) == [pdo : PdoType(isRPDO), bad : BOOLEAN]
place(map, isRPDO) == IF mappable(map, isRPDO) THEN placeFor(map) ELSE erroneous

\* One pass of the loop over the entries.
LEMMA EntryPass ==
    ASSUME NEW isRPDO \in BOOLEAN, NEW acc \in Accs(isRPDO), NEW map \in PdoMaps, NEW i \in 1..MaxMapped
    PROVE  LET n == init_next(acc, i, map, isRPDO) IN
           /\ n \in Accs(isRPDO) /\ Alike(n.pdo, acc.pdo, isRPDO)
           /\ n.pdo.OD_IO = [acc.pdo.OD_IO EXCEPT ![i] = place(map, isRPDO)]
           /\ n.bad <=> acc.bad \/ ~mappable(map, isRPDO)
  <1> DEFINE p == acc.pdo
             r == PDOconfigMap(p, map, i, isRPDO)
             n == init_next(acc, i, map, isRPDO)
             e == [p EXCEPT !.OD_IO[i] = erroneous]
  <1>1. p \in PdoType(isRPDO) /\ acc.bad \in BOOLEAN /\ acc = [pdo |-> p, bad |-> acc.bad]
    BY DEF Accs
  <1>2. n = init_entry(acc, i, r)
    BY DEF init_next
  <1>3. CASE mappable(map, isRPDO)
    <2>1. r.ret = "OK" /\ r.pdo = placed(p, map, i, isRPDO)
      BY <1>3, ConfigMap
    <2>2. /\ r.pdo \in PdoType(isRPDO) /\ Alike(r.pdo, p, isRPDO)
          /\ r.pdo.OD_IO = [p.OD_IO EXCEPT ![i] = placeFor(map)]
      BY <1>1, <1>3, <2>1, PlacedAs
    <2> HIDE DEF r
    <2>3. n = [pdo |-> r.pdo, bad |-> acc.bad]
      BY <1>1, <1>2, <2>1 DEF init_entry
    <2>4. place(map, isRPDO) = placeFor(map)
      BY <1>3 DEF place
    <2> HIDE DEF n, p
    <2> QED  BY <1>1, <1>3, <2>2, <2>3, <2>4 DEF Accs, n, p
  <1>4. CASE ~mappable(map, isRPDO)
    <2>1. r.ret # "OK"
      BY <1>4, ConfigMap
    <2> HIDE DEF r
    <2>2. n = [pdo |-> e, bad |-> TRUE]
      BY <1>2, <2>1 DEF init_entry
    <2>3. e \in PdoType(isRPDO) /\ Alike(e, p, isRPDO) /\ e.OD_IO = [p.OD_IO EXCEPT ![i] = erroneous]
      BY <1>1, MarkedAs
    <2>4. place(map, isRPDO) = erroneous
      BY <1>4 DEF place
    <2> HIDE DEF n, p, e
    <2> QED  BY <1>1, <1>4, <2>2, <2>3, <2>4 DEF Accs, n, p
  <1> QED  BY <1>3, <1>4

\* The places that a mapping parameter asks for, and whether one is refused.
places(maps, isRPDO) == [i \in 1..MaxMapped |-> place(maps[i], isRPDO)]
refusedOne(maps, isRPDO) == \E i \in 1..MaxMapped : ~mappable(maps[i], isRPDO)

\* The loop over the entries.
LEMMA EntriesLoop ==
    ASSUME NEW isRPDO \in BOOLEAN, NEW p \in PdoType(isRPDO), NEW maps \in [1..MaxMapped -> PdoMaps], NEW count
    PROVE  \E all \in Accs(isRPDO) :
              /\ PDO_initMapping(p, maps, count, isRPDO) = init_summed(all, count)
              /\ Alike(all.pdo, p, isRPDO) /\ all.pdo.OD_IO = places(maps, isRPDO)
              /\ all.bad <=> refusedOne(maps, isRPDO)
  <1> DEFINE start   == [pdo |-> p, bad |-> FALSE]
             S       == Accs(isRPDO)
             next(acc, i) == init_next(acc, i, maps[i], isRPDO)
             step    == [i \in 1..MaxMapped |-> [x \in S |-> next(x, i)]]
             pass(h) == [i \in 0..MaxMapped |-> IF i = 0 THEN start ELSE next(h[i - 1], i)]
             all     == CHOOSE h : h = pass(h)
             Done(x, i) == /\ x \in S /\ Alike(x.pdo, p, isRPDO) /\ x.pdo.OD_IO \in [1..MaxMapped -> Io]
                           /\ \A j \in 1..i : x.pdo.OD_IO[j] = place(maps[j], isRPDO)
                           /\ x.bad <=> \E j \in 1..i : ~mappable(maps[j], isRPDO)
  <1>0. MaxMapped \in Nat
    BY MaxMappedAssumption
  <1>1. PDO_initMapping(p, maps, count, isRPDO) = init_summed(all[MaxMapped], count)
    BY Zenon DEF PDO_initMapping
  <1>2. start \in S
    BY DEF Accs
  <1>3. \A x \in S, i \in 1..MaxMapped : next(x, i) \in S
    BY EntryPass
  <1>4. \A x \in S : x.pdo \in PdoType(isRPDO) /\ x.pdo.OD_IO \in [1..MaxMapped -> Io]
    <2> SUFFICES ASSUME NEW x \in S
                 PROVE  x.pdo \in PdoType(isRPDO) /\ x.pdo.OD_IO \in [1..MaxMapped -> Io]
      OBVIOUS
    <2>1. x.pdo \in PdoType(isRPDO)
      BY DEF Accs
    <2>2. x.pdo \in RpdoType \/ x.pdo \in TpdoType
      BY <2>1 DEF PdoType
    <2> QED  BY <2>1, <2>2 DEF RpdoType, TpdoType
  <1>5. Alike(p, p, isRPDO)
    <2>1. CASE isRPDO
      <3>1. p \in RpdoType
        BY <2>1 DEF PdoType
      <3>2. p = [p EXCEPT !.OD_IO = p.OD_IO]
        BY <3>1 DEF RpdoType
      <3> QED  BY <2>1, <3>2 DEF Alike
    <2>2. CASE ~isRPDO
      <3>1. p \in TpdoType
        BY <2>2 DEF PdoType
      <3>2. p = [p EXCEPT !.OD_IO = p.OD_IO, !.flagPDO = p.flagPDO]
        BY <3>1 DEF TpdoType
      <3> QED  BY <2>2, <3>2 DEF Alike
    <2> QED  BY <2>1, <2>2
  <1>6. Done(start, 0)
    <2>1. start.pdo = p /\ start.bad = FALSE
      OBVIOUS
    <2> HIDE DEF start
    <2> QED  BY <1>2, <1>4, <1>5, <2>1
  <1>7. \A x : \A i \in 1..MaxMapped : Done(x, i - 1) => Done(next(x, i), i)
    <2> SUFFICES ASSUME NEW x, NEW i \in 1..MaxMapped, Done(x, i - 1)
                 PROVE  Done(next(x, i), i)
      OBVIOUS
    <2> DEFINE y == next(x, i)
    <2>1. /\ y \in S /\ Alike(y.pdo, x.pdo, isRPDO)
          /\ y.pdo.OD_IO = [x.pdo.OD_IO EXCEPT ![i] = place(maps[i], isRPDO)]
          /\ y.bad <=> x.bad \/ ~mappable(maps[i], isRPDO)
      BY EntryPass
    <2>2. /\ x \in S /\ Alike(x.pdo, p, isRPDO) /\ x.pdo.OD_IO \in [1..MaxMapped -> Io]
          /\ \A j \in 1..(i - 1) : x.pdo.OD_IO[j] = place(maps[j], isRPDO)
          /\ x.bad <=> \E j \in 1..(i - 1) : ~mappable(maps[j], isRPDO)
      OBVIOUS
    <2> HIDE DEF y, Done, next
    <2>3. Alike(y.pdo, p, isRPDO)
      BY <1>4, <2>1, <2>2, AlikeTrans
    <2>4. y.pdo.OD_IO \in [1..MaxMapped -> Io]
      BY <1>4, <2>1
    <2>5. i \in Nat /\ \A j \in 1..i : j \in 1..MaxMapped /\ (j = i \/ j \in 1..(i - 1))
      BY <1>0
    <2>6. \A j \in 1..i : y.pdo.OD_IO[j] = place(maps[j], isRPDO)
      BY <2>1, <2>2, <2>5
    <2>7. (\E j \in 1..i : ~mappable(maps[j], isRPDO)) <=> (x.bad \/ ~mappable(maps[i], isRPDO))
      <3>1. i \in 1..i /\ \A j \in 1..(i - 1) : j \in 1..i
        BY <2>5
      <3> QED  BY <2>2, <2>5, <3>1
    <2> QED  BY <2>1, <2>3, <2>4, <2>6, <2>7 DEF Done, y
  <1> HIDE DEF next
  <1>8. step \in [1..MaxMapped -> [S -> S]]
    <2> HIDE DEF S
    <2> QED  BY <1>3
  <1>9. PICK g \in [0..MaxMapped -> S] : IsLoop(g, MaxMapped, start, step)
    <2> HIDE DEF step, S, start
    <2> QED  BY <1>0, <1>2, <1>8, LoopExists
  <1>10. g = pass(g)
    <2>1. ASSUME NEW i \in 1..MaxMapped
          PROVE  g[i] = next(g[i - 1], i)
      <3>1. g[i - 1] \in S
        BY <1>0
      <3> HIDE DEF S
      <3> QED  BY <1>9, <3>1 DEF IsLoop
    <2> HIDE DEF S, start, step
    <2> QED  BY <1>9, <2>1 DEF IsLoop
  <1>11. all = pass(all)
    <2> HIDE DEF pass
    <2> QED  BY <1>10, Zenon
  <1> HIDE DEF all
  <1>12. all[0] = start /\ \A i \in 1..MaxMapped : all[i] = next(all[i - 1], i)
    <2> HIDE DEF start
    <2> QED  BY <1>0, <1>11
  <1> DEFINE Q == [i \in 0..MaxMapped |-> {x \in S : Done(x, i)}]
  <1>13. \A i \in 0..MaxMapped : all[i] \in Q[i]
    <2>1. all[0] \in Q[0]
      <3> HIDE DEF start, S, Done
      <3> QED  BY <1>0, <1>2, <1>6, <1>12
    <2>2. ASSUME NEW i \in 1..MaxMapped, all[i - 1] \in Q[i - 1]
          PROVE  all[i] \in Q[i]
      <3>1. i - 1 \in 0..MaxMapped /\ i \in 0..MaxMapped
        BY <1>0
      <3> HIDE DEF S, Done
      <3>2. all[i - 1] \in S /\ Done(all[i - 1], i - 1)
        BY <2>2, <3>1
      <3>3. all[i] \in S /\ Done(all[i], i)
        BY <1>3, <1>7, <1>12, <3>2
      <3> QED  BY <3>1, <3>3
    <2> HIDE DEF Q
    <2> QED  BY <1>0, <2>1, <2>2, LoopAssertions
  <1>14. Done(all[MaxMapped], MaxMapped)
    <2> HIDE DEF S, Done
    <2> QED  BY <1>0, <1>13
  <1>15. all[MaxMapped].pdo.OD_IO = places(maps, isRPDO)
    <2> DEFINE io == all[MaxMapped].pdo.OD_IO
    <2>1. io \in [1..MaxMapped -> Io] /\ \A j \in 1..MaxMapped : io[j] = place(maps[j], isRPDO)
      BY <1>14
    <2> HIDE DEF io
    <2>2. io = places(maps, isRPDO)
      BY <2>1 DEF places
    <2> QED  BY <2>2 DEF io
  <1> QED  BY <1>1, <1>14, <1>15 DEF refusedOne

\* Only the mapping, its count and its length differ.
MappedFrom(q, p, isRPDO) ==
    IF isRPDO
    THEN q = [p EXCEPT !.OD_IO = q.OD_IO, !.dataLength = q.dataLength, !.mappedObjectsCount = q.mappedObjectsCount]
    ELSE q = [p EXCEPT !.OD_IO = q.OD_IO, !.flagPDO = q.flagPDO, !.dataLength = q.dataLength,
                       !.mappedObjectsCount = q.mappedObjectsCount]

\* The length and the number of what is mapped are set.
counted(q, bytes, count) == [q EXCEPT !.dataLength = bytes, !.mappedObjectsCount = count]

\* The sum is stored with the number of entries, and nothing else changes.
LEMMA CountedAs ==
    ASSUME NEW isRPDO \in BOOLEAN, NEW p \in PdoType(isRPDO), NEW q \in PdoType(isRPDO), Alike(q, p, isRPDO),
           NEW bytes \in Nat, NEW count \in 0..MaxMapped
    PROVE  LET r == counted(q, bytes, count) IN
           /\ r \in PdoType(isRPDO) /\ MappedFrom(r, p, isRPDO)
           /\ r.OD_IO = q.OD_IO /\ r.od = p.od /\ r.dataLength = bytes /\ r.mappedObjectsCount = count
  <1> DEFINE r == [q EXCEPT !.dataLength = bytes, !.mappedObjectsCount = count]
  <1>3. r = counted(q, bytes, count)
    BY DEF counted
  <1>1. CASE isRPDO
    <2>1. p \in RpdoType /\ q \in RpdoType /\ q = [p EXCEPT !.OD_IO = q.OD_IO]
      BY <1>1 DEF PdoType, Alike
    <2>2. q.od = p.od
      BY <2>1 DEF RpdoType
    <2>3. r \in RpdoType /\ r.OD_IO = q.OD_IO /\ r.od = q.od /\ r.dataLength = bytes /\ r.mappedObjectsCount = count
      BY <2>1 DEF RpdoType
    <2>4. r = [p EXCEPT !.OD_IO = q.OD_IO, !.dataLength = bytes, !.mappedObjectsCount = count]
      BY <2>1 DEF RpdoType
    <2> HIDE DEF r
    <2> QED  BY <1>1, <1>3, <2>2, <2>3, <2>4 DEF PdoType, MappedFrom
  <1>2. CASE ~isRPDO
    <2>1. /\ p \in TpdoType /\ q \in TpdoType
          /\ q = [p EXCEPT !.OD_IO = q.OD_IO, !.flagPDO = q.flagPDO]
      BY <1>2 DEF PdoType, Alike
    <2>2. q.od = p.od
      BY <2>1 DEF TpdoType
    <2>3. /\ r \in TpdoType /\ r.OD_IO = q.OD_IO /\ r.od = q.od /\ r.dataLength = bytes /\ r.mappedObjectsCount = count
          /\ r.flagPDO = q.flagPDO
      BY <2>1 DEF TpdoType
    <2>4. r = [p EXCEPT !.OD_IO = q.OD_IO, !.flagPDO = q.flagPDO, !.dataLength = bytes, !.mappedObjectsCount = count]
      BY <2>1 DEF TpdoType
    <2> HIDE DEF r
    <2> QED  BY <1>2, <1>3, <2>2, <2>3, <2>4 DEF PdoType, MappedFrom
  <1> QED  BY <1>1, <1>2

\* Whether the mapping of the dictionary can be used.
usable(od, isRPDO) ==
    /\ ~refusedOne(od.maps, isRPDO)
    /\ LET bytes == mappedBytes([OD_IO |-> places(od.maps, isRPDO)], od.count) IN
       bytes <= MaxSize /\ (bytes # 0 \/ od.count = 0)

\* What a PDO has of the mapping in the dictionary after its initialization.
LEMMA MappingInit ==
    ASSUME NEW isRPDO \in BOOLEAN, NEW p \in PdoType(isRPDO), p.mappedObjectsCount = 0
    PROVE  LET q == PDO_initMapping(p, p.od.maps, p.od.count, isRPDO).pdo IN
           /\ q \in PdoType(isRPDO) /\ MappedFrom(q, p, isRPDO) /\ q.od = p.od
           /\ Reflects(q, isRPDO) /\ Counted(q)
           /\ q.mappedObjectsCount = IF usable(p.od, isRPDO) THEN p.od.count ELSE 0
  <1> DEFINE maps  == p.od.maps
             count == p.od.count
             r     == PDO_initMapping(p, maps, count, isRPDO)
             q     == r.pdo
             io    == places(maps, isRPDO)
             only  == [OD_IO |-> io]
             bytes == mappedBytes(only, count)
  <1>1. p.od \in PdoOd /\ p.dataLength \in Nat /\ p.OD_IO \in [1..MaxMapped -> Io]
    <2>1. p \in RpdoType \/ p \in TpdoType
      BY DEF PdoType
    <2> QED  BY <2>1 DEF RpdoType, TpdoType
  <1>2. maps \in [1..MaxMapped -> PdoMaps] /\ count \in 0..MaxMapped
    BY <1>1 DEF PdoOd
  <1> HIDE DEF maps, count
  <1>3. PICK all \in Accs(isRPDO) :
           /\ r = init_summed(all, count)
           /\ Alike(all.pdo, p, isRPDO) /\ all.pdo.OD_IO = io
           /\ all.bad <=> refusedOne(maps, isRPDO)
    BY <1>2, EntriesLoop
  <1>4. all.pdo \in PdoType(isRPDO) /\ all.bad \in BOOLEAN /\ DOMAIN all = {"pdo", "bad"}
    BY DEF Accs
  <1>5. all.pdo.OD_IO \in [1..MaxMapped -> Io] /\ all.pdo.od = p.od /\ all.pdo.dataLength = p.dataLength
        /\ all.pdo.mappedObjectsCount = 0
    <2>1. CASE isRPDO
      <3>1. p \in RpdoType /\ all.pdo \in RpdoType /\ all.pdo = [p EXCEPT !.OD_IO = all.pdo.OD_IO]
        BY <1>3, <1>4, <2>1 DEF PdoType, Alike
      <3> QED  BY <3>1 DEF RpdoType
    <2>2. CASE ~isRPDO
      <3>1. /\ p \in TpdoType /\ all.pdo \in TpdoType
            /\ all.pdo = [p EXCEPT !.OD_IO = all.pdo.OD_IO, !.flagPDO = all.pdo.flagPDO]
        BY <1>3, <1>4, <2>2 DEF PdoType, Alike
      <3> QED  BY <3>1 DEF TpdoType
    <2> QED  BY <2>1, <2>2
  <1>6. mappedBytes(all.pdo, count) = bytes
    <2>1. all.pdo.OD_IO = only.OD_IO
      BY <1>3
    <2> HIDE DEF only
    <2> QED  BY <2>1, BytesSame
  <1>7. bytes \in Nat
    BY <1>2, <1>5, <1>6, BytesOfMapped
  <1> HIDE DEF bytes, only
  <1>8. r = init_counted(all, count, bytes)
    BY <1>3, <1>6 DEF init_summed
  <1> HIDE DEF r
  <1>9. usable(p.od, isRPDO) <=> ~all.bad /\ bytes <= MaxSize /\ (bytes # 0 \/ count = 0)
    BY <1>3 DEF usable, bytes, only, maps, count
  <1>10. q = IF usable(p.od, isRPDO) THEN counted(all.pdo, bytes, count) ELSE all.pdo
    <2>1. CASE usable(p.od, isRPDO)
      <3>1. ~(all.bad \/ bytes > MaxSize \/ (bytes = 0 /\ count > 0))
        BY <1>2, <1>7, <1>9, <2>1 DEF MaxSize
      <3>2. r = [all EXCEPT !.pdo.dataLength = bytes, !.pdo.mappedObjectsCount = count]
        BY <1>8, <3>1, Zenon DEF init_counted
      <3>3. q = [[all.pdo EXCEPT !.dataLength = bytes] EXCEPT !.mappedObjectsCount = count]
        BY <1>4, <3>2
      <3> QED  BY <2>1, <3>3 DEF counted
    <2>2. CASE ~usable(p.od, isRPDO)
      <3>1. all.bad \/ bytes > MaxSize \/ (bytes = 0 /\ count > 0)
        BY <1>2, <1>7, <1>9, <2>2 DEF MaxSize
      <3>2. r = [all EXCEPT !.bad = TRUE]
        BY <1>8, <3>1, Zenon DEF init_counted
      <3> QED  BY <1>4, <2>2, <3>2
    <2> QED  BY <2>1, <2>2
  <1>11. /\ q \in PdoType(isRPDO) /\ MappedFrom(q, p, isRPDO) /\ q.od = p.od /\ q.OD_IO = io
         /\ q.mappedObjectsCount = IF usable(p.od, isRPDO) THEN count ELSE 0
         /\ usable(p.od, isRPDO) => q.dataLength = bytes
    <2>1. CASE usable(p.od, isRPDO)
      <3>1. q = counted(all.pdo, bytes, count)
        BY <1>10, <2>1
      <3> HIDE DEF q, io
      <3> QED  BY <1>2, <1>3, <1>4, <1>7, <2>1, <3>1, CountedAs
    <2>2. CASE ~usable(p.od, isRPDO)
      <3>1. q = all.pdo
        BY <1>10, <2>2
      <3>2. MappedFrom(q, p, isRPDO)
        <4>1. CASE isRPDO
          <5>1. p \in RpdoType /\ q = [p EXCEPT !.OD_IO = q.OD_IO] /\ q.dataLength = p.dataLength
                /\ q.mappedObjectsCount = p.mappedObjectsCount
            BY <1>3, <1>5, <3>1, <4>1 DEF PdoType, Alike
          <5> HIDE DEF q
          <5> QED  BY <4>1, <5>1 DEF MappedFrom, RpdoType
        <4>2. CASE ~isRPDO
          <5>1. /\ p \in TpdoType /\ q = [p EXCEPT !.OD_IO = q.OD_IO, !.flagPDO = q.flagPDO]
                /\ q.dataLength = p.dataLength /\ q.mappedObjectsCount = p.mappedObjectsCount
            BY <1>3, <1>5, <3>1, <4>2 DEF PdoType, Alike
          <5> HIDE DEF q
          <5> QED  BY <4>2, <5>1 DEF MappedFrom, TpdoType
        <4> QED  BY <4>1, <4>2
      <3> QED  BY <1>3, <1>4, <1>5, <2>2, <3>1, <3>2
    <2> QED  BY <2>1, <2>2
  <1> HIDE DEF q
  <1>12. Reflects(q, isRPDO)
    BY <1>11 DEF Reflects, io, places, place, maps
  <1>13. Counted(q)
    <2> SUFFICES ASSUME q.mappedObjectsCount # 0
                 PROVE  /\ q.mappedObjectsCount = q.od.count
                        /\ q.dataLength = mappedBytes(q, q.mappedObjectsCount) /\ q.dataLength \in 1..MaxSize
                        /\ \A i \in 1..q.mappedObjectsCount : q.OD_IO[i] # erroneous
      BY DEF Counted
    <2>1. usable(p.od, isRPDO) /\ q.mappedObjectsCount = count /\ q.dataLength = bytes /\ count = q.od.count
      BY <1>11 DEF count
    <2>2. bytes \in 1..MaxSize
      BY <1>7, <1>9, <2>1 DEF MaxSize
    <2>3. mappedBytes(q, count) = bytes
      <3>1. q.OD_IO = only.OD_IO
        BY <1>11 DEF only
      <3> QED  BY <3>1, BytesSame DEF bytes
    <2>4. ASSUME NEW i \in 1..count
          PROVE  q.OD_IO[i] # erroneous
      <3>1. i \in 1..MaxMapped
        BY <1>2, MaxMappedAssumption
      <3>2. mappable(maps[i], isRPDO)
        BY <2>1, <3>1 DEF usable, refusedOne, maps
      <3>3. maps[i] \in PdoMaps
        BY <1>2, <3>1
      <3>4. q.OD_IO[i] = placeFor(maps[i])
        BY <1>11, <3>1, <3>2 DEF io, places, place
      <3> QED  BY <3>2, <3>3, <3>4, PlaceType
    <2> QED  BY <2>1, <2>2, <2>3, <2>4
  <1> QED  BY <1>11, <1>12, <1>13 DEF q, r, maps, count

\* The dictionary makes a PDO valid.
validIn(od, isRPDO) == od.cobId.valid /\ od.cobId.id # "zero" /\ od.count # 0 /\ usable(od, isRPDO)

\* An identifier with the node-ID, or without it, is an identifier.
LEMMA NodeIdNames ==
    ASSUME NEW id \in PdoNames
    PROVE  with_nodeId(id) \in PdoNames /\ without_nodeId(id) \in PdoNames
  BY DEF with_nodeId, without_nodeId, PdoNames

\* An RPDO after its initialization.
LEMMA RpdoInit ==
    ASSUME NEW od \in PdoOd, NEW errors
    PROVE  LET i == CO_RPDO_init(od, errors)
               r == i.rpdo
           IN  /\ RpdoOK(r) /\ r.od = od /\ r.timeoutTimer = 0
               /\ \A b \in 0..1 : ~r.CANrxNew[b]
               /\ r.valid <=> validIn(od, TRUE)
               /\ i.errs \subseteq errors \cup {"PDO_WRONG_MAPPING"}
  <1> DEFINE p == rpdo_blank(od)
             m == PDO_initMapping(p, od.maps, od.count, TRUE)
             q == m.pdo
             valid == init_valid(q)
             id == init_CAN_ID(q)
             r == [q EXCEPT !.valid = valid, !.ident = id, !.configuredCanId = id]
             i == CO_RPDO_init(od, errors)
  <1>1. /\ p \in RpdoType /\ p.od = od /\ p.mappedObjectsCount = 0 /\ p.timeoutTimer = 0
        /\ p.CANrxNew = [b \in 0..1 |-> FALSE]
    <2>1. unmapped \in Io
      BY DEF unmapped, Io, PdoNames
    <2>2. od.event \in Nat /\ isSynchronous(od.type) \in BOOLEAN
      BY DEF PdoOd, isSynchronous
    <2>3. RxNoError \in PdoNames /\ "zero" \in PdoNames /\ 0 \in 0..MaxMapped
      BY MaxMappedAssumption DEF PdoNames
    <2> QED  BY <2>1, <2>2, <2>3 DEF rpdo_blank, RpdoType
  <1>2. p \in PdoType(TRUE)
    BY <1>1 DEF PdoType
  <1>3. i = [rpdo |-> r, errs |-> IF m.bad \/ init_wrong(q) THEN errors \cup {"PDO_WRONG_MAPPING"} ELSE errors]
    BY DEF CO_RPDO_init, rpdo_configured, rpdo_mapped
  <1> HIDE DEF p
  <1>4. /\ q \in PdoType(TRUE) /\ MappedFrom(q, p, TRUE) /\ q.od = p.od
        /\ Reflects(q, TRUE) /\ Counted(q)
        /\ q.mappedObjectsCount = IF usable(p.od, TRUE) THEN p.od.count ELSE 0
    BY <1>1, <1>2, MappingInit
  <1> HIDE DEF i, q
  <1>5. q \in RpdoType /\ q.CANrxNew = p.CANrxNew /\ q.timeoutTimer = 0
    <2>1. q \in RpdoType /\ q = [p EXCEPT !.OD_IO = q.OD_IO, !.dataLength = q.dataLength,
                                         !.mappedObjectsCount = q.mappedObjectsCount]
      BY <1>4 DEF PdoType, MappedFrom
    <2> QED  BY <1>1, <2>1 DEF RpdoType
  <1>6. valid <=> validIn(od, TRUE)
    BY <1>1, <1>4 DEF init_valid, validIn
  <1>7. valid \in BOOLEAN
    BY <1>1, <1>4 DEF init_valid, PdoOd, PdoCobIds
  <1>8. q.od.cobId \in PdoCobIds /\ q.od.cobId.id \in PdoNames
    BY <1>1, <1>4 DEF PdoOd, PdoCobIds
  <1>9. id \in PdoNames /\ (~valid => id = "zero") /\ (valid => id = with_nodeId(q.od.cobId.id))
    <2>1. "zero" \in PdoNames
      BY DEF PdoNames
    <2> QED  BY <1>8, <2>1, NodeIdNames DEF init_CAN_ID
  <1>10. valid => q.od.cobId.valid /\ q.mappedObjectsCount # 0 /\ q.od.cobId.id # "zero"
    BY DEF init_valid
  <1> HIDE DEF valid, id
  <1>11. /\ r \in RpdoType /\ r.valid = valid /\ r.ident = id /\ r.configuredCanId = id
         /\ r.od = q.od /\ r.OD_IO = q.OD_IO /\ r.dataLength = q.dataLength
         /\ r.mappedObjectsCount = q.mappedObjectsCount /\ r.CANrxNew = q.CANrxNew /\ r.timeoutTimer = q.timeoutTimer
    BY <1>5, <1>7, <1>9 DEF RpdoType
  <1> HIDE DEF r
  <1>12. mappedBytes(r, r.mappedObjectsCount) = mappedBytes(q, q.mappedObjectsCount)
    BY <1>11, BytesSame
  <1>13. PdoOK(r, TRUE)
    <2>1. Reflects(r, TRUE)
      BY <1>4, <1>11 DEF Reflects
    <2>2. Counted(r)
      BY <1>4, <1>11, <1>12 DEF Counted
    <2>3. Identified(r)
      BY <1>9, <1>10, <1>11 DEF Identified
    <2> QED  BY <2>1, <2>2, <2>3 DEF PdoOK
  <1>14. RpdoOK(r)
    BY <1>1, <1>5, <1>9, <1>11, <1>13 DEF RpdoOK
  <1>15. i.rpdo = r /\ i.errs \subseteq errors \cup {"PDO_WRONG_MAPPING"}
    BY <1>3
  <1>16. \A b \in 0..1 : ~r.CANrxNew[b]
    BY <1>1, <1>5, <1>11
  <1> QED  BY <1>1, <1>4, <1>5, <1>6, <1>11, <1>14, <1>15, <1>16 DEF i

\* A TPDO that has not begun to send, with the times of the dictionary.
TpdoIsNew(t, od) ==
    /\ t.sendRequest /\ t.syncCounter = 255 /\ t.inhibitTimer = 0 /\ t.eventTimer = 0
    /\ t.inhibitTime = od.inhibit /\ t.eventTime = od.event

\* A TPDO after its initialization.
LEMMA TpdoInit ==
    ASSUME NEW od \in PdoOd, NEW errors
    PROVE  LET i == CO_TPDO_init(od, errors)
               t == i.tpdo
           IN  /\ TpdoOK(t) /\ t.od = od /\ TpdoIsNew(t, od)
               /\ t.valid <=> validIn(od, FALSE)
               /\ i.errs \subseteq errors \cup {"PDO_WRONG_MAPPING"}
  <1> DEFINE type == IF isReserved(od.type) THEN EVENT_LO ELSE od.type
             p == tpdo_blank(od, type)
             m == PDO_initMapping(p, od.maps, od.count, FALSE)
             q == m.pdo
             valid == init_valid(q)
             id == init_CAN_ID(q)
             tb == CO_CANtxBufferInit(id, q.dataLength, q.transmissionType)
             t == [q EXCEPT !.valid = valid, !.configuredCanId = id, !.tx = tb]
             i == CO_TPDO_init(od, errors)
  <1>0. type \in 0..255
    BY DEF PdoOd, EVENT_LO
  <1>1. p \in TpdoType /\ p.od = od /\ p.mappedObjectsCount = 0
    <2>1. unmapped \in Io
      BY DEF unmapped, Io, PdoNames
    <2>2. od.event \in Nat /\ od.start \in Nat /\ od.inhibit \in Nat
      BY DEF PdoOd
    <2>3. "none" \in PdoNames /\ "zero" \in PdoNames /\ 0 \in 0..MaxMapped
      BY MaxMappedAssumption DEF PdoNames
    <2> HIDE DEF type
    <2>4. CO_CANtxBufferInit("zero", 0, type) \in TxType
      BY <2>3 DEF CO_CANtxBufferInit, TxType, isSynchronous
    <2> QED  BY <1>0, <2>1, <2>2, <2>3, <2>4 DEF tpdo_blank, TpdoType
  <1>2. p \in PdoType(FALSE)
    BY <1>1 DEF PdoType
  <1>3. i = [tpdo |-> t, errs |-> IF m.bad \/ init_wrong(q) THEN errors \cup {"PDO_WRONG_MAPPING"} ELSE errors]
    BY DEF CO_TPDO_init, tpdo_configured, tpdo_mapped
  <1>17. /\ p.sendRequest /\ p.syncCounter = 255 /\ p.inhibitTimer = 0 /\ p.eventTimer = 0
         /\ p.inhibitTime = od.inhibit /\ p.eventTime = od.event
    BY DEF tpdo_blank
  <1> HIDE DEF p, type
  <1>4. /\ q \in PdoType(FALSE) /\ MappedFrom(q, p, FALSE) /\ q.od = p.od
        /\ Reflects(q, FALSE) /\ Counted(q)
        /\ q.mappedObjectsCount = IF usable(p.od, FALSE) THEN p.od.count ELSE 0
    BY <1>1, <1>2, MappingInit
  <1> HIDE DEF i, q
  <1>5. q \in TpdoType
    BY <1>4 DEF PdoType
  <1>6. valid <=> validIn(od, FALSE)
    BY <1>1, <1>4 DEF init_valid, validIn
  <1>7. valid \in BOOLEAN
    BY <1>1, <1>4 DEF init_valid, PdoOd, PdoCobIds
  <1>8. q.od.cobId \in PdoCobIds /\ q.od.cobId.id \in PdoNames
    BY <1>1, <1>4 DEF PdoOd, PdoCobIds
  <1>9. id \in PdoNames /\ (valid => id = with_nodeId(q.od.cobId.id))
    <2>1. "zero" \in PdoNames
      BY DEF PdoNames
    <2> QED  BY <1>8, <2>1, NodeIdNames DEF init_CAN_ID
  <1>10. valid => q.od.cobId.valid /\ q.mappedObjectsCount # 0 /\ q.od.cobId.id # "zero"
    BY DEF init_valid
  <1> HIDE DEF valid, id
  <1>18. /\ q.sendRequest /\ q.syncCounter = 255 /\ q.inhibitTimer = 0 /\ q.eventTimer = 0
         /\ q.inhibitTime = od.inhibit /\ q.eventTime = od.event
    <2>1. q = [p EXCEPT !.OD_IO = q.OD_IO, !.flagPDO = q.flagPDO, !.dataLength = q.dataLength,
                        !.mappedObjectsCount = q.mappedObjectsCount]
      BY <1>4 DEF MappedFrom
    <2>2. /\ q.sendRequest = p.sendRequest /\ q.syncCounter = p.syncCounter /\ q.inhibitTimer = p.inhibitTimer
          /\ q.eventTimer = p.eventTimer /\ q.inhibitTime = p.inhibitTime /\ q.eventTime = p.eventTime
      BY <1>1, <2>1 DEF TpdoType
    <2> QED  BY <1>17, <2>2
  <1>11. tb \in TxType
    BY <1>5, <1>9 DEF CO_CANtxBufferInit, TxType, isSynchronous, TpdoType
  <1> HIDE DEF tb
  <1>12. /\ t \in TpdoType /\ t.valid = valid /\ t.configuredCanId = id /\ t.tx = tb
         /\ t.od = q.od /\ t.OD_IO = q.OD_IO /\ t.dataLength = q.dataLength
         /\ t.mappedObjectsCount = q.mappedObjectsCount /\ t.transmissionType = q.transmissionType
    BY <1>5, <1>7, <1>9, <1>11 DEF TpdoType
  <1>19. TpdoIsNew(t, od)
    BY <1>5, <1>18 DEF TpdoType, TpdoIsNew
  <1> HIDE DEF t
  <1>13. mappedBytes(t, t.mappedObjectsCount) = mappedBytes(q, q.mappedObjectsCount)
    BY <1>12, BytesSame
  <1>14. PdoOK(t, FALSE)
    <2>1. Reflects(t, FALSE)
      BY <1>4, <1>12 DEF Reflects
    <2>2. Counted(t)
      BY <1>4, <1>12, <1>13 DEF Counted
    <2>3. Identified(t)
      BY <1>9, <1>10, <1>12 DEF Identified
    <2> QED  BY <2>1, <2>2, <2>3 DEF PdoOK
  <1>15. TpdoOK(t)
    BY <1>12, <1>14 DEF TpdoOK, tb
  <1>16. i.tpdo = t /\ i.errs \subseteq errors \cup {"PDO_WRONG_MAPPING"}
    BY <1>3
  <1> QED  BY <1>1, <1>4, <1>6, <1>12, <1>15, <1>16, <1>19 DEF i
-----------------------------------------------------------------------------
(* What a PDO in good order means                                           *)

\* The fields that the proofs look at, of a PDO of either direction.
LEMMA PdoFields ==
    ASSUME NEW isRPDO \in BOOLEAN, NEW p \in PdoType(isRPDO)
    PROVE  /\ p.od \in PdoOd /\ p.OD_IO \in [1..MaxMapped -> Io] /\ p.valid \in BOOLEAN /\ p.dataLength \in Nat
           /\ p.mappedObjectsCount \in 0..MaxMapped /\ p.configuredCanId \in PdoNames
           /\ p.od.maps \in [1..MaxMapped -> PdoMaps] /\ p.od.cobId \in PdoCobIds /\ p.od.count \in 0..MaxMapped
           /\ p.od.cobId.id \in PdoNames /\ p.od.cobId.valid \in BOOLEAN
  <1>1. p \in RpdoType \/ p \in TpdoType
    BY DEF PdoType
  <1>2. p.od \in PdoOd
    BY <1>1 DEF RpdoType, TpdoType
  <1>3. p.od.cobId \in PdoCobIds
    BY <1>2 DEF PdoOd
  <1>4. /\ p.OD_IO \in [1..MaxMapped -> Io] /\ p.valid \in BOOLEAN /\ p.dataLength \in Nat
        /\ p.mappedObjectsCount \in 0..MaxMapped /\ p.configuredCanId \in PdoNames
    BY <1>1 DEF RpdoType, TpdoType
  <1> QED  BY <1>2, <1>3, <1>4 DEF PdoOd, PdoCobIds

\* It exchanges what the dictionary says, and would do so after a reset.
LEMMA SoundPdo ==
    ASSUME NEW isRPDO \in BOOLEAN, NEW p \in PdoType(isRPDO), PdoOK(p, isRPDO), p.valid
    PROVE  /\ soundMapping(p, isRPDO) /\ readBack(p)
           /\ entriesGood(p) => validIn(p.od, isRPDO)
  <1> DEFINE count == p.mappedObjectsCount
  <1>1. /\ p.od \in PdoOd /\ p.OD_IO \in [1..MaxMapped -> Io] /\ count \in 0..MaxMapped
        /\ p.od.maps \in [1..MaxMapped -> PdoMaps] /\ p.od.cobId \in PdoCobIds
    BY PdoFields
  <1>2. Reflects(p, isRPDO) /\ Counted(p) /\ Identified(p)
    BY DEF PdoOK
  <1>3. /\ count # 0 /\ p.od.cobId.valid /\ p.od.cobId.id # "zero"
        /\ p.configuredCanId = "base" \/ with_nodeId(p.od.cobId.id) = p.configuredCanId
    BY <1>2 DEF Identified
  <1>4. /\ count = p.od.count /\ p.dataLength = mappedBytes(p, count) /\ p.dataLength \in 1..MaxSize
        /\ \A i \in 1..count : p.OD_IO[i] # erroneous
    BY <1>2, <1>3 DEF Counted
  <1>5. ASSUME NEW i \in 1..MaxMapped, p.OD_IO[i] # erroneous
        PROVE  mappable(p.od.maps[i], isRPDO) /\ p.OD_IO[i] = placeFor(p.od.maps[i])
    BY <1>2, <1>5 DEF Reflects
  <1>6. soundMapping(p, isRPDO)
    <2>1. ASSUME NEW i \in 1..count
          PROVE  LET m == p.od.maps[i] IN
                 /\ p.OD_IO[i].obj = m.obj /\ p.OD_IO[i].dataOffset = m.len
                 /\ m.obj = "dummy" \/ /\ ~m.odd /\ m.len <= Objects[m.obj].dataLength
                                       /\ IF isRPDO THEN Objects[m.obj].rpdo ELSE Objects[m.obj].tpdo
      <3>1. i \in 1..MaxMapped
        BY <1>1, MaxMappedAssumption
      <3>2. mappable(p.od.maps[i], isRPDO) /\ p.OD_IO[i] = placeFor(p.od.maps[i])
        BY <1>4, <1>5, <3>1
      <3> QED  BY <3>2 DEF mappable, placeFor
    <2> QED  BY <1>4, <2>1 DEF soundMapping
  <1>7. readBack(p)
    BY <1>3 DEF readBack, OD_read_PDO_commParam
  <1>8. ASSUME entriesGood(p)
        PROVE  validIn(p.od, isRPDO)
    <2> DEFINE io == places(p.od.maps, isRPDO)
               only == [OD_IO |-> io]
    <2>1. \A i \in 1..MaxMapped : p.OD_IO[i] # erroneous
      <3>1. DOMAIN p.od.maps = 1..MaxMapped
        BY <1>1
      <3> QED  BY <1>8, <3>1 DEF entriesGood
    <2>2. ~refusedOne(p.od.maps, isRPDO)
      BY <1>5, <2>1 DEF refusedOne
    <2>3. \A i \in 1..MaxMapped : p.OD_IO[i] = io[i]
      BY <1>5, <2>1 DEF places, place
    <2>4. p.OD_IO = io
      BY <1>1, <2>3 DEF places
    <2>5. mappedBytes(only, p.od.count) = p.dataLength
      <3>1. only.OD_IO = p.OD_IO
        BY <2>4
      <3> HIDE DEF only
      <3> QED  BY <1>4, <3>1, BytesSame
    <2>6. usable(p.od, isRPDO)
      BY <1>4, <2>2, <2>5 DEF usable, MaxSize
    <2> QED  BY <1>3, <1>4, <2>6 DEF validIn
  <1> QED  BY <1>6, <1>7, <1>8

\* Both PDOs are in good order, and no error of the software was seen.
PdoInv ==
    /\ RpdoOK(rpdo) /\ TpdoOK(tpdo) /\ "GENERIC_SOFTWARE_ERROR" \notin errs
    /\ scenario \in DOMAIN Scenarios /\ messages \in Nat

\* The invariant says what MappingIsSound asks of valid PDOs.
LEMMA PdoSound == PdoInv => MappingIsSound
  <1> SUFFICES ASSUME PdoInv PROVE MappingIsSound
    OBVIOUS
  <1>1. rpdo \in PdoType(TRUE) /\ PdoOK(rpdo, TRUE) /\ tpdo \in PdoType(FALSE) /\ PdoOK(tpdo, FALSE)
    BY DEF PdoInv, RpdoOK, TpdoOK, PdoType
  <1>2. /\ rpdo.valid \in BOOLEAN /\ rpdo.od \in PdoOd /\ tpdo.od \in PdoOd
    BY <1>1, PdoFields
  <1>3. ASSUME rpdo.valid
        PROVE  /\ soundMapping(rpdo, TRUE) /\ readBack(rpdo) /\ rpdo.ident = rpdo.configuredCanId
               /\ entriesGood(rpdo) => CO_RPDO_init(rpdo.od, {}).rpdo.valid
    <2>1. /\ soundMapping(rpdo, TRUE) /\ readBack(rpdo)
          /\ entriesGood(rpdo) => validIn(rpdo.od, TRUE)
      BY <1>1, <1>3, SoundPdo
    <2>2. CO_RPDO_init(rpdo.od, {}).rpdo.valid <=> validIn(rpdo.od, TRUE)
      BY <1>2, RpdoInit
    <2>3. rpdo.ident = rpdo.configuredCanId
      BY <1>3 DEF PdoInv, RpdoOK
    <2> QED  BY <2>1, <2>2, <2>3
  <1>4. ASSUME ~rpdo.valid
        PROVE  rpdo.ident = "zero" /\ ~pending
    BY <1>4 DEF PdoInv, RpdoOK, pending
  <1>5. ASSUME tpdo.valid
        PROVE  /\ soundMapping(tpdo, FALSE) /\ readBack(tpdo)
               /\ tpdo.tx = CO_CANtxBufferInit(tpdo.configuredCanId, tpdo.dataLength, tpdo.transmissionType)
               /\ entriesGood(tpdo) => CO_TPDO_init(tpdo.od, {}).tpdo.valid
    <2>1. /\ soundMapping(tpdo, FALSE) /\ readBack(tpdo)
          /\ entriesGood(tpdo) => validIn(tpdo.od, FALSE)
      BY <1>1, <1>5, SoundPdo
    <2>2. CO_TPDO_init(tpdo.od, {}).tpdo.valid <=> validIn(tpdo.od, FALSE)
      BY <1>2, TpdoInit
    <2>3. tpdo.tx = CO_CANtxBufferInit(tpdo.configuredCanId, tpdo.dataLength, tpdo.transmissionType)
      BY <1>5 DEF PdoInv, TpdoOK
    <2> QED  BY <2>1, <2>2, <2>3
  <1> QED  BY <1>3, <1>4, <1>5 DEF MappingIsSound, PdoInv

\* The TPDO is sent in the same way, and at the same times.
SameSending(q, p) ==
    /\ q.transmissionType = p.transmissionType /\ q.sendRequest = p.sendRequest /\ q.syncCounter = p.syncCounter
    /\ q.inhibitTime = p.inhibitTime /\ q.inhibitTimer = p.inhibitTimer /\ q.od.inhibit = p.od.inhibit
    /\ q.eventTime = p.eventTime /\ q.eventTimer = p.eventTimer /\ q.od.event = p.od.event

\* What is written to the mapping keeps it in order.
SameButMapping(q, p, isRPDO) ==
    /\ q.valid = p.valid /\ q.configuredCanId = p.configuredCanId /\ q.od.cobId = p.od.cobId
    /\ IF isRPDO THEN q.ident = p.ident /\ q.CANrxNew = p.CANrxNew /\ q.timeoutTimer = p.timeoutTimer
                      /\ q.synchronous = p.synchronous /\ q.timeoutTime = p.timeoutTime
       ELSE q.tx = p.tx /\ SameSending(q, p)

\* An entry that is written sets its place in the mapping and in the dictionary.
LEMMA PlaceWritten ==
    ASSUME NEW isRPDO \in BOOLEAN, NEW p \in PdoType(isRPDO), NEW i \in 1..MaxMapped, NEW map \in PdoMaps,
           mappable(map, isRPDO)
    PROVE  LET q == [placed(p, map, i, isRPDO) EXCEPT !.od.maps[i] = map] IN
           /\ q \in PdoType(isRPDO) /\ SameButMapping(q, p, isRPDO)
           /\ q.OD_IO = [p.OD_IO EXCEPT ![i] = placeFor(map)]
           /\ q.od.maps = [p.od.maps EXCEPT ![i] = map]
           /\ q.mappedObjectsCount = p.mappedObjectsCount
  <1> DEFINE f == placed(p, map, i, isRPDO)
             maps == [p.od.maps EXCEPT ![i] = map]
             od == [p.od EXCEPT !.maps = maps]
             q == [f EXCEPT !.od.maps[i] = map]
  <1>1. f \in PdoType(isRPDO) /\ Alike(f, p, isRPDO) /\ f.OD_IO = [p.OD_IO EXCEPT ![i] = placeFor(map)]
    BY PlacedAs
  <1> HIDE DEF f
  <1>2. p.od \in PdoOd /\ p.od.maps \in [1..MaxMapped -> PdoMaps]
    BY PdoFields
  <1>3. maps \in [1..MaxMapped -> PdoMaps]
    BY <1>2
  <1> HIDE DEF maps
  <1>4. /\ od \in PdoOd /\ od.maps = maps /\ od.cobId = p.od.cobId
        /\ od.event = p.od.event /\ od.inhibit = p.od.inhibit
    BY <1>2, <1>3 DEF PdoOd
  <1> HIDE DEF od
  <1>5. f.od = p.od => q = [f EXCEPT !.od = od]
    BY DEF od, maps
  <1> HIDE DEF q
  <1>6. CASE isRPDO
    <2>1. p \in RpdoType /\ f \in RpdoType /\ f = [p EXCEPT !.OD_IO = f.OD_IO]
      BY <1>1, <1>6 DEF PdoType, Alike
    <2>2. /\ f.od = p.od /\ f.valid = p.valid /\ f.configuredCanId = p.configuredCanId /\ f.ident = p.ident
          /\ f.CANrxNew = p.CANrxNew /\ f.timeoutTimer = p.timeoutTimer /\ f.mappedObjectsCount = p.mappedObjectsCount
          /\ f.synchronous = p.synchronous /\ f.timeoutTime = p.timeoutTime
      BY <2>1 DEF RpdoType
    <2>3. q = [f EXCEPT !.od = od]
      BY <1>5, <2>2
    <2>4. /\ q \in RpdoType /\ q.od = od /\ q.valid = f.valid /\ q.configuredCanId = f.configuredCanId
          /\ q.ident = f.ident /\ q.CANrxNew = f.CANrxNew /\ q.timeoutTimer = f.timeoutTimer /\ q.OD_IO = f.OD_IO
          /\ q.mappedObjectsCount = f.mappedObjectsCount
          /\ q.synchronous = f.synchronous /\ q.timeoutTime = f.timeoutTime
      BY <1>4, <2>1, <2>3 DEF RpdoType
    <2> QED  BY <1>1, <1>4, <1>6, <2>2, <2>4 DEF PdoType, SameButMapping, q, f, maps
  <1>7. CASE ~isRPDO
    <2>1. /\ p \in TpdoType /\ f \in TpdoType
          /\ f = [p EXCEPT !.OD_IO = f.OD_IO, !.flagPDO = f.flagPDO]
      BY <1>1, <1>7 DEF PdoType, Alike
    <2>2. /\ f.od = p.od /\ f.valid = p.valid /\ f.configuredCanId = p.configuredCanId /\ f.tx = p.tx
          /\ f.transmissionType = p.transmissionType /\ f.mappedObjectsCount = p.mappedObjectsCount
      BY <2>1 DEF TpdoType
    <2>3. q = [f EXCEPT !.od = od]
      BY <1>5, <2>2
    <2>4. /\ q \in TpdoType /\ q.od = od /\ q.valid = f.valid /\ q.configuredCanId = f.configuredCanId
          /\ q.tx = f.tx /\ q.transmissionType = f.transmissionType /\ q.OD_IO = f.OD_IO
          /\ q.mappedObjectsCount = f.mappedObjectsCount
      BY <1>4, <2>1, <2>3 DEF TpdoType
    <2>5. SameSending(q, p)
      <3>1. SameSending(f, p)
        BY <2>1, <2>2 DEF TpdoType, SameSending
      <3>2. SameSending(q, f)
        BY <1>4, <2>1, <2>2, <2>3 DEF TpdoType, SameSending
      <3> QED  BY <3>1, <3>2 DEF SameSending
    <2> QED  BY <1>1, <1>4, <1>7, <2>2, <2>4, <2>5 DEF PdoType, SameButMapping, q, f, maps
  <1> QED  BY <1>6, <1>7
\* An entry is written while nothing is mapped.
LEMMA MapEntryWritten ==
    ASSUME NEW isRPDO \in BOOLEAN, NEW p \in PdoType(isRPDO), PdoOK(p, isRPDO), p.mappedObjectsCount = 0,
           NEW i \in 1..MaxMapped, NEW map \in PdoMaps, mappable(map, isRPDO)
    PROVE  LET q == [placed(p, map, i, isRPDO) EXCEPT !.od.maps[i] = map] IN
           q \in PdoType(isRPDO) /\ PdoOK(q, isRPDO) /\ SameButMapping(q, p, isRPDO)
  <1> DEFINE q == [placed(p, map, i, isRPDO) EXCEPT !.od.maps[i] = map]
  <1>1. /\ q \in PdoType(isRPDO) /\ SameButMapping(q, p, isRPDO)
        /\ q.OD_IO = [p.OD_IO EXCEPT ![i] = placeFor(map)]
        /\ q.od.maps = [p.od.maps EXCEPT ![i] = map]
        /\ q.mappedObjectsCount = p.mappedObjectsCount
    BY PlaceWritten
  <1> HIDE DEF q
  <1>2. p.OD_IO \in [1..MaxMapped -> Io] /\ p.od.maps \in [1..MaxMapped -> PdoMaps]
    BY PdoFields
  <1>3. Reflects(p, isRPDO) /\ ~p.valid
    BY DEF PdoOK, Identified
  <1>4. Reflects(q, isRPDO)
    <2> SUFFICES ASSUME NEW j \in 1..MaxMapped
                 PROVE  \/ q.OD_IO[j] = erroneous
                        \/ mappable(q.od.maps[j], isRPDO) /\ q.OD_IO[j] = placeFor(q.od.maps[j])
      BY DEF Reflects
    <2>1. CASE j = i
      BY <1>1, <1>2, <2>1
    <2>2. CASE j # i
      <3>1. q.OD_IO[j] = p.OD_IO[j] /\ q.od.maps[j] = p.od.maps[j]
        BY <1>1, <1>2, <2>2
      <3> QED  BY <1>3, <3>1 DEF Reflects
    <2> QED  BY <2>1, <2>2
  <1>5. Counted(q) /\ Identified(q)
    BY <1>1, <1>3 DEF Counted, Identified, SameButMapping
  <1> QED  BY <1>1, <1>4, <1>5 DEF PdoOK, q

\* What the number of entries sets.
recounted(p, bytes, value) == [p EXCEPT !.dataLength = bytes, !.mappedObjectsCount = value, !.od.count = value]

\* Only that.
LEMMA CountFields ==
    ASSUME NEW isRPDO \in BOOLEAN, NEW p \in PdoType(isRPDO), NEW bytes \in Nat, NEW value \in 0..MaxMapped
    PROVE  LET q == recounted(p, bytes, value) IN
           /\ q \in PdoType(isRPDO) /\ SameButMapping(q, p, isRPDO)
           /\ q.OD_IO = p.OD_IO /\ q.od.maps = p.od.maps /\ q.od.count = value
           /\ q.mappedObjectsCount = value /\ q.dataLength = bytes
  <1> DEFINE od == [p.od EXCEPT !.count = value]
             q  == recounted(p, bytes, value)
  <1>1. p.od \in PdoOd
    BY PdoFields
  <1>2. /\ od \in PdoOd /\ od.maps = p.od.maps /\ od.cobId = p.od.cobId /\ od.count = value
        /\ od.event = p.od.event /\ od.inhibit = p.od.inhibit
    BY <1>1 DEF PdoOd
  <1>3. CASE isRPDO
    <2>1. p \in RpdoType
      BY <1>3 DEF PdoType
    <2>2. q = [p EXCEPT !.dataLength = bytes, !.mappedObjectsCount = value, !.od = od]
      BY <2>1 DEF RpdoType, recounted
    <2> HIDE DEF od, q
    <2>3. /\ q \in RpdoType /\ q.od = od /\ q.valid = p.valid /\ q.configuredCanId = p.configuredCanId
          /\ q.ident = p.ident /\ q.CANrxNew = p.CANrxNew /\ q.timeoutTimer = p.timeoutTimer /\ q.OD_IO = p.OD_IO
          /\ q.synchronous = p.synchronous /\ q.timeoutTime = p.timeoutTime
          /\ q.mappedObjectsCount = value /\ q.dataLength = bytes
      BY <1>2, <2>1, <2>2 DEF RpdoType
    <2> QED  BY <1>2, <1>3, <2>3 DEF PdoType, SameButMapping, q
  <1>4. CASE ~isRPDO
    <2>1. p \in TpdoType
      BY <1>4 DEF PdoType
    <2>2. q = [p EXCEPT !.dataLength = bytes, !.mappedObjectsCount = value, !.od = od]
      BY <2>1 DEF TpdoType, recounted
    <2> HIDE DEF od, q
    <2>3. /\ q \in TpdoType /\ q.od = od /\ q.valid = p.valid /\ q.configuredCanId = p.configuredCanId
          /\ q.tx = p.tx /\ q.transmissionType = p.transmissionType /\ q.OD_IO = p.OD_IO
          /\ q.mappedObjectsCount = value /\ q.dataLength = bytes
      BY <1>2, <2>1, <2>2 DEF TpdoType
    <2>4. SameSending(q, p)
      BY <1>2, <2>1, <2>2 DEF TpdoType, SameSending
    <2> QED  BY <1>2, <1>4, <2>3, <2>4 DEF PdoType, SameButMapping, q
  <1> QED  BY <1>3, <1>4

\* The number of entries is written while the PDO is not valid.
LEMMA CountWritten ==
    ASSUME NEW isRPDO \in BOOLEAN, NEW p \in PdoType(isRPDO), PdoOK(p, isRPDO), ~p.valid,
           NEW value \in 0..MaxMapped, \A i \in 1..value : ~(p.OD_IO[i].dataOffset > p.OD_IO[i].dataLength),
           mappedBytes(p, value) <= MaxSize, mappedBytes(p, value) # 0 \/ value = 0
    PROVE  LET q == recounted(p, mappedBytes(p, value), value) IN
           q \in PdoType(isRPDO) /\ PdoOK(q, isRPDO) /\ SameButMapping(q, p, isRPDO)
  <1> DEFINE bytes == mappedBytes(p, value)
             q == recounted(p, bytes, value)
  <1>1. p.OD_IO \in [1..MaxMapped -> Io]
    BY PdoFields
  <1>2. bytes \in Nat
    BY <1>1, BytesOfMapped
  <1>3. /\ bytes <= MaxSize
        /\ bytes # 0 \/ value = 0
    OBVIOUS
  <1>4. mappedBytes(p, value) = bytes
    OBVIOUS
  <1> HIDE DEF bytes
  <1>5. /\ q \in PdoType(isRPDO) /\ SameButMapping(q, p, isRPDO)
        /\ q.OD_IO = p.OD_IO /\ q.od.maps = p.od.maps /\ q.od.count = value
        /\ q.mappedObjectsCount = value /\ q.dataLength = bytes
    BY <1>2, CountFields
  <1> HIDE DEF q
  <1>6. Reflects(q, isRPDO)
    BY <1>5 DEF PdoOK, Reflects
  <1>7. Counted(q)
    <2> SUFFICES ASSUME value # 0
                 PROVE  /\ bytes = mappedBytes(q, value) /\ bytes \in 1..MaxSize
                        /\ \A i \in 1..value : q.OD_IO[i] # erroneous
      BY <1>5 DEF Counted
    <2>1. bytes = mappedBytes(q, value)
      BY <1>4, <1>5, BytesSame
    <2>2. bytes \in 1..MaxSize
      BY <1>2, <1>3 DEF MaxSize
    <2>3. ASSUME NEW i \in 1..value
          PROVE  q.OD_IO[i] # erroneous
      <3>1. ~(p.OD_IO[i].dataOffset > p.OD_IO[i].dataLength)
        OBVIOUS
      <3>2. erroneous.dataOffset = 255 /\ erroneous.dataLength = 0
        BY DEF erroneous
      <3> QED  BY <1>5, <3>1, <3>2
    <2> QED  BY <2>1, <2>2, <2>3
  <1>8. Identified(q)
    BY <1>5 DEF Identified, SameButMapping
  <1> QED  BY <1>5, <1>6, <1>7, <1>8 DEF PdoOK, q, bytes

\* OD_write_PDO_mapping keeps a PDO in good order.
LEMMA PdoMappingWritten ==
    ASSUME NEW isRPDO \in BOOLEAN, NEW p \in PdoType(isRPDO), PdoOK(p, isRPDO), NEW w \in MappingWrites
    PROVE  LET q == OD_write_PDO_mapping(p, w[1], w[2], isRPDO).pdo IN
           /\ q \in PdoType(isRPDO) /\ PdoOK(q, isRPDO)
           /\ q = p \/ (~p.valid /\ SameButMapping(q, p, isRPDO))
  <1> DEFINE subIndex == w[1]
             value == w[2]
             res == OD_write_PDO_mapping(p, subIndex, value, isRPDO)
             fine(q) == /\ q \in PdoType(isRPDO) /\ PdoOK(q, isRPDO)
                        /\ q = p \/ (~p.valid /\ SameButMapping(q, p, isRPDO))
  <1>1. /\ p.OD_IO \in [1..MaxMapped -> Io] /\ p.valid \in BOOLEAN /\ p.mappedObjectsCount \in 0..MaxMapped
        /\ MaxMapped \in Nat
    BY PdoFields, MaxMappedAssumption
  <1>2. \/ subIndex = 0 /\ value \in Nat
        \/ subIndex \in 1..MaxMapped /\ value \in PdoMaps
    BY DEF MappingWrites, Maps, PdoMaps, PdoNames
  <1> HIDE DEF subIndex, value
  <1>3. CASE mapping_locked(p, subIndex)
    <2>1. res.pdo = p
      BY <1>3 DEF OD_write_PDO_mapping, refused
    <2> QED  BY <2>1 DEF subIndex, value
  <1>4. CASE ~mapping_locked(p, subIndex) /\ subIndex # 0
    <2> DEFINE r == PDOconfigMap(p, value, subIndex, isRPDO)
    <2>1. ~p.valid /\ p.mappedObjectsCount = 0 /\ subIndex \in 1..MaxMapped /\ subIndex > 0 /\ value \in PdoMaps
      BY <1>1, <1>2, <1>4 DEF mapping_locked
    <2>2. res = IF r.ret # "OK" THEN r ELSE [r EXCEPT !.pdo.od.maps[subIndex] = value]
      BY <1>4, <2>1 DEF OD_write_PDO_mapping
    <2>3. IF mappable(value, isRPDO) THEN r.ret = "OK" /\ r.pdo = placed(p, value, subIndex, isRPDO)
          ELSE r.ret # "OK" /\ r.pdo = p
      BY <2>1, ConfigMap
    <2>4. DOMAIN r = {"ret", "pdo"}
      BY DEF PDOconfigMap, refused, accepted
    <2> HIDE DEF r, res
    <2>5. CASE mappable(value, isRPDO)
      <3> DEFINE q == [placed(p, value, subIndex, isRPDO) EXCEPT !.od.maps[subIndex] = value]
      <3>1. res.pdo = [r.pdo EXCEPT !.od.maps[subIndex] = value]
        BY <2>2, <2>3, <2>4, <2>5
      <3>2. res.pdo = q
        BY <2>3, <2>5, <3>1
      <3>3. q \in PdoType(isRPDO) /\ PdoOK(q, isRPDO) /\ SameButMapping(q, p, isRPDO)
        BY <2>1, <2>5, MapEntryWritten
      <3> HIDE DEF q
      <3> QED  BY <2>1, <3>2, <3>3 DEF res, subIndex, value
    <2>6. CASE ~mappable(value, isRPDO)
      BY <2>2, <2>3, <2>6 DEF res, subIndex, value
    <2> QED  BY <2>5, <2>6
  <1>5. CASE ~mapping_locked(p, subIndex) /\ subIndex = 0
    <2> DEFINE bytes == mappedBytes(p, value)
               short == \E i \in 1..value : p.OD_IO[i].dataOffset > p.OD_IO[i].dataLength
               q == recounted(p, bytes, value)
    <2>1. ~p.valid /\ value \in Nat
      BY <1>1, <1>2, <1>5 DEF mapping_locked
    <2>2. res = IF value > MaxMapped THEN refused(p, "MAP_LEN")
                ELSE IF short THEN refused(p, "NO_MAP")
                ELSE IF bytes > MaxSize THEN refused(p, "MAP_LEN")
                ELSE IF bytes = 0 /\ value > 0 THEN refused(p, "INVALID_VALUE")
                ELSE [ret |-> "OK", pdo |-> q]
      BY <1>5 DEF OD_write_PDO_mapping, recounted
    <2> DEFINE good == ~(value > MaxMapped \/ short \/ bytes > MaxSize \/ (bytes = 0 /\ value > 0))
    <2>3. CASE ~good
      <3>1. res.pdo = p
        <4> HIDE DEF res, q, short, bytes
        <4> QED  BY <2>2, <2>3 DEF refused
      <3> QED  BY <3>1 DEF subIndex, value
    <2>4. CASE good
      <3>1. value \in 0..MaxMapped
        BY <1>1, <2>1, <2>4
      <3>2. bytes \in Nat
        BY <1>1, <3>1, BytesOfMapped
      <3>3. \A i \in 1..value : ~(p.OD_IO[i].dataOffset > p.OD_IO[i].dataLength)
        BY <2>4
      <3>4. bytes <= MaxSize
        <4> HIDE DEF bytes
        <4> QED  BY <2>4, <3>2 DEF MaxSize
      <3>5. bytes # 0 \/ value = 0
        <4> HIDE DEF bytes
        <4> QED  BY <2>1, <2>4
      <3>6. res.pdo = q
        <4> HIDE DEF res, q, short, bytes
        <4> QED  BY <2>2, <2>4
      <3>7. q \in PdoType(isRPDO) /\ PdoOK(q, isRPDO) /\ SameButMapping(q, p, isRPDO)
        BY <2>1, <3>1, <3>3, <3>4, <3>5, CountWritten
      <3> HIDE DEF q, res
      <3> QED  BY <2>1, <3>6, <3>7 DEF res, subIndex, value
    <2> QED  BY <2>3, <2>4
  <1> QED  BY <1>3, <1>4, <1>5
\* The same mapping, COB-ID and identifier.
SamePdo(q, p) ==
    /\ q.valid = p.valid /\ q.configuredCanId = p.configuredCanId /\ q.OD_IO = p.OD_IO
    /\ q.dataLength = p.dataLength /\ q.mappedObjectsCount = p.mappedObjectsCount
    /\ q.od.maps = p.od.maps /\ q.od.count = p.od.count /\ q.od.cobId = p.od.cobId

\* The order of a PDO rests on nothing else.
LEMMA PdoKept ==
    ASSUME NEW isRPDO, NEW p, NEW q, PdoOK(p, isRPDO), SamePdo(q, p)
    PROVE  PdoOK(q, isRPDO)
  <1>1. mappedBytes(q, q.mappedObjectsCount) = mappedBytes(p, p.mappedObjectsCount)
    BY BytesSame DEF SamePdo
  <1>2. Reflects(q, isRPDO)
    BY DEF PdoOK, Reflects, SamePdo
  <1>3. Counted(q)
    BY <1>1 DEF PdoOK, Counted, SamePdo
  <1>4. Identified(q)
    BY DEF PdoOK, Identified, SamePdo
  <1> QED  BY <1>2, <1>3, <1>4 DEF PdoOK

\* OD_write_PDO_mapping keeps an RPDO ...
LEMMA RpdoMapped ==
    ASSUME NEW r, RpdoOK(r), NEW w \in MappingWrites
    PROVE  RpdoOK(OD_write_PDO_mapping(r, w[1], w[2], TRUE).pdo)
  <1> DEFINE q == OD_write_PDO_mapping(r, w[1], w[2], TRUE).pdo
  <1>1. r \in PdoType(TRUE) /\ PdoOK(r, TRUE)
    BY DEF RpdoOK, PdoType
  <1>2. /\ q \in PdoType(TRUE) /\ PdoOK(q, TRUE)
        /\ q = r \/ (~r.valid /\ SameButMapping(q, r, TRUE))
    BY <1>1, PdoMappingWritten
  <1> HIDE DEF q
  <1>3. CASE q = r
    BY <1>3 DEF q
  <1>4. CASE ~r.valid /\ SameButMapping(q, r, TRUE)
    <2>1. ~q.valid /\ q.ident = "zero" /\ q.CANrxNew = [b \in 0..1 |-> FALSE]
      BY <1>4 DEF RpdoOK, SameButMapping
    <2> QED  BY <1>2, <2>1 DEF RpdoOK, PdoType, q
  <1> QED  BY <1>2, <1>3, <1>4

\* ... and a TPDO in good order.
LEMMA TpdoMapped ==
    ASSUME NEW t, TpdoOK(t), NEW w \in MappingWrites
    PROVE  TpdoOK(OD_write_PDO_mapping(t, w[1], w[2], FALSE).pdo)
  <1> DEFINE q == OD_write_PDO_mapping(t, w[1], w[2], FALSE).pdo
  <1>1. t \in PdoType(FALSE) /\ PdoOK(t, FALSE)
    BY DEF TpdoOK, PdoType
  <1>2. /\ q \in PdoType(FALSE) /\ PdoOK(q, FALSE)
        /\ q = t \/ (~t.valid /\ SameButMapping(q, t, FALSE))
    BY <1>1, PdoMappingWritten
  <1> HIDE DEF q
  <1>3. CASE q = t
    BY <1>3 DEF q
  <1>4. CASE ~t.valid /\ SameButMapping(q, t, FALSE)
    <2>1. ~q.valid
      BY <1>4 DEF SameButMapping
    <2> QED  BY <1>2, <2>1 DEF TpdoOK, PdoType, q
  <1> QED  BY <1>2, <1>3, <1>4

-----------------------------------------------------------------------------
(* The COB-ID of a PDO that runs                                            *)

\* A COB-ID that is taken: the identifier is the one that is read back.
LEMMA CobIdTaken ==
    ASSUME NEW isRPDO \in BOOLEAN, NEW p \in PdoType(isRPDO), PdoOK(p, isRPDO), NEW cobId \in PdoCobIds,
           ~cobId_refused(p, cobId)
    PROVE  /\ stored(p, cobId) \in PdoCobIds
           /\ stored(p, cobId).valid <=> cobId.valid
           /\ cobId.valid => /\ p.mappedObjectsCount # 0 /\ stored(p, cobId).id # "zero" /\ cobId.id # "zero"
                             /\ cobId.id = "base" \/ with_nodeId(stored(p, cobId).id) = cobId.id
           /\ ~cobId_changed(p, cobId) => (cobId.valid <=> p.valid) /\ cobId.id = p.configuredCanId
  <1> DEFINE s == stored(p, cobId)
             id == without_nodeId(cobId.id)
  <1>1. cobId.id \in PdoNames /\ cobId.valid \in BOOLEAN /\ p.valid \in BOOLEAN
    BY PdoFields DEF PdoCobIds
  <1>2. id \in PdoNames
    BY <1>1, NodeIdNames
  <1>3. CASE cobId_changed(p, cobId)
    <2>1. s = [cobId EXCEPT !.id = id]
      BY <1>3 DEF stored
    <2>2. s \in PdoCobIds /\ s.valid = cobId.valid /\ s.id = id
      <3> HIDE DEF id
      <3> QED  BY <1>2, <2>1 DEF PdoCobIds
    <2>3. cobId.valid => p.mappedObjectsCount # 0 /\ cobId.id # "zero"
      BY DEF cobId_refused
    <2>4. cobId.id # "zero" => id # "zero" /\ (cobId.id = "base" \/ with_nodeId(id) = cobId.id)
      BY DEF without_nodeId, with_nodeId
    <2> HIDE DEF s, id
    <2> QED  BY <1>3, <2>2, <2>3, <2>4 DEF s
  <1>4. CASE ~cobId_changed(p, cobId)
    <2>1. s = cobId
      BY <1>4 DEF stored
    <2>2. cobId.valid = p.valid /\ cobId.id = p.configuredCanId
      BY <1>4 DEF cobId_changed
    <2>3. cobId.valid => p.mappedObjectsCount # 0 /\ cobId.id # "zero"
      BY <1>1, <2>2 DEF cobId_refused, PdoOK, Identified
    <2>4. cobId.id = "base" \/ with_nodeId(cobId.id) = cobId.id
      BY DEF with_nodeId
    <2> HIDE DEF s
    <2> QED  BY <1>4, <2>1, <2>2, <2>3, <2>4 DEF s
  <1> QED  BY <1>3, <1>4
\* The RPDO with another COB-ID in the dictionary and another identifier.
rpdoWith(r, valid, id, ident, news, cobId) ==
    [r EXCEPT !.valid = valid, !.configuredCanId = id, !.ident = ident, !.CANrxNew = news, !.od.cobId = cobId]

\* Only that.
LEMMA RpdoWith ==
    ASSUME NEW r \in RpdoType, NEW valid \in BOOLEAN, NEW id \in PdoNames, NEW ident \in PdoNames,
           NEW news \in [0..1 -> BOOLEAN], NEW cobId \in PdoCobIds
    PROVE  LET q == rpdoWith(r, valid, id, ident, news, cobId) IN
           /\ q \in RpdoType /\ q.valid = valid /\ q.configuredCanId = id /\ q.ident = ident
           /\ q.CANrxNew = news /\ q.od.cobId = cobId /\ q.OD_IO = r.OD_IO /\ q.dataLength = r.dataLength
           /\ q.mappedObjectsCount = r.mappedObjectsCount /\ q.od.maps = r.od.maps /\ q.od.count = r.od.count
  <1> DEFINE od == [r.od EXCEPT !.cobId = cobId]
             q == rpdoWith(r, valid, id, ident, news, cobId)
  <1>1. r.od \in PdoOd
    BY DEF RpdoType
  <1>2. od \in PdoOd /\ od.cobId = cobId /\ od.maps = r.od.maps /\ od.count = r.od.count
    BY <1>1 DEF PdoOd
  <1>3. q = [r EXCEPT !.valid = valid, !.configuredCanId = id, !.ident = ident, !.CANrxNew = news, !.od = od]
    BY DEF RpdoType, rpdoWith
  <1> HIDE DEF od, q
  <1>4. /\ q \in RpdoType /\ q.valid = valid /\ q.configuredCanId = id /\ q.ident = ident
        /\ q.CANrxNew = news /\ q.od = od /\ q.OD_IO = r.OD_IO /\ q.dataLength = r.dataLength
        /\ q.mappedObjectsCount = r.mappedObjectsCount
    BY <1>2, <1>3 DEF RpdoType
  <1> QED  BY <1>2, <1>4 DEF q

\* The COB-ID of an RPDO is written.
LEMMA RpdoCobId ==
    ASSUME NEW r, RpdoOK(r), NEW cobId \in PdoCobIds
    PROVE  RpdoOK(OD_write_14xx(r, 1, cobId))
  <1> DEFINE new == OD_write_14xx(r, 1, cobId)
             s   == stored(r, cobId)
             none == [b \in 0..1 |-> FALSE]
             changed == cobId_changed(r, cobId)
             valid == IF changed THEN cobId.valid ELSE r.valid
             id    == IF changed /\ cobId.valid THEN cobId.id ELSE r.configuredCanId
             ident == IF ~changed THEN r.ident ELSE IF cobId.valid THEN cobId.id ELSE "zero"
             news  == IF changed /\ ~cobId.valid THEN none ELSE r.CANrxNew
             q     == rpdoWith(r, valid, id, ident, news, s)
  <1>1. r \in RpdoType /\ r \in PdoType(TRUE) /\ PdoOK(r, TRUE)
    BY DEF RpdoOK, PdoType
  <1>2. new = IF cobId_refused(r, cobId) THEN r
              ELSE [(IF ~changed THEN r
                     ELSE IF cobId.valid
                     THEN [r EXCEPT !.ident = cobId.id, !.valid = TRUE, !.configuredCanId = cobId.id]
                     ELSE no_messages([r EXCEPT !.ident = "zero", !.valid = FALSE]))
                    EXCEPT !.od.cobId = s]
    BY DEF OD_write_14xx
  <1>3. CASE cobId_refused(r, cobId)
    BY <1>2, <1>3
  <1>4. CASE ~cobId_refused(r, cobId)
    <2>1. /\ s \in PdoCobIds
          /\ s.valid <=> cobId.valid
          /\ cobId.valid => /\ r.mappedObjectsCount # 0 /\ s.id # "zero" /\ cobId.id # "zero"
                            /\ cobId.id = "base" \/ with_nodeId(s.id) = cobId.id
          /\ ~changed => (cobId.valid <=> r.valid) /\ cobId.id = r.configuredCanId
      BY <1>1, <1>4, CobIdTaken
    <2>2. /\ r.valid \in BOOLEAN /\ r.configuredCanId \in PdoNames /\ r.ident \in PdoNames
          /\ r.CANrxNew \in [0..1 -> BOOLEAN] /\ cobId.id \in PdoNames /\ cobId.valid \in BOOLEAN
          /\ none \in [0..1 -> BOOLEAN] /\ "zero" \in PdoNames
      BY <1>1 DEF RpdoType, PdoCobIds, PdoNames
    <2> HIDE DEF s, changed, new
    <2>3. new = q
      <3>1. r = [r EXCEPT !.valid = r.valid, !.configuredCanId = r.configuredCanId, !.ident = r.ident,
                          !.CANrxNew = r.CANrxNew]
        BY <1>1 DEF RpdoType
      <3>2. CASE ~changed
        <4>1. new = [r EXCEPT !.od.cobId = s]
          BY <1>2, <1>4, <3>2
        <4>2. q = rpdoWith(r, r.valid, r.configuredCanId, r.ident, r.CANrxNew, s)
          BY <3>2
        <4>3. rpdoWith(r, r.valid, r.configuredCanId, r.ident, r.CANrxNew, s) = [r EXCEPT !.od.cobId = s]
          BY <1>1 DEF rpdoWith, RpdoType
        <4> HIDE DEF q
        <4> QED  BY <4>1, <4>2, <4>3
      <3>3. CASE changed /\ cobId.valid
        <4>1. new = [[r EXCEPT !.ident = cobId.id, !.valid = TRUE, !.configuredCanId = cobId.id] EXCEPT !.od.cobId = s]
          BY <1>2, <1>4, <3>3
        <4>2. q = rpdoWith(r, TRUE, cobId.id, cobId.id, r.CANrxNew, s)
          BY <2>2, <3>3
        <4> QED  BY <1>1, <4>1, <4>2 DEF rpdoWith, RpdoType
      <3>4. CASE changed /\ ~cobId.valid
        <4>1. new = [no_messages([r EXCEPT !.ident = "zero", !.valid = FALSE]) EXCEPT !.od.cobId = s]
          BY <1>2, <1>4, <3>4
        <4>2. q = rpdoWith(r, FALSE, r.configuredCanId, "zero", none, s)
          BY <2>2, <3>4
        <4> QED  BY <1>1, <4>1, <4>2 DEF rpdoWith, RpdoType, no_messages
      <3> QED  BY <3>2, <3>3, <3>4
    <2>4. valid \in BOOLEAN /\ id \in PdoNames /\ ident \in PdoNames /\ news \in [0..1 -> BOOLEAN]
      BY <2>2
    <2>5. valid <=> cobId.valid
      BY <2>1
    <2>6. cobId.valid => id = cobId.id /\ ident = cobId.id
      BY <1>1, <2>1, <2>2 DEF RpdoOK
    <2>7. ~cobId.valid => ident = "zero" /\ news = none
      BY <2>1, <2>2 DEF RpdoOK
    <2> HIDE DEF valid, id, ident, news, none
    <2>8. /\ q \in RpdoType /\ q.valid = valid /\ q.configuredCanId = id /\ q.ident = ident
          /\ q.CANrxNew = news /\ q.od.cobId = s /\ q.OD_IO = r.OD_IO /\ q.dataLength = r.dataLength
          /\ q.mappedObjectsCount = r.mappedObjectsCount /\ q.od.maps = r.od.maps /\ q.od.count = r.od.count
      BY <1>1, <2>1, <2>4, RpdoWith
    <2> HIDE DEF q
    <2>9. Reflects(q, TRUE) /\ Counted(q)
      <3>1. mappedBytes(q, q.mappedObjectsCount) = mappedBytes(r, r.mappedObjectsCount)
        BY <2>8, BytesSame
      <3> QED  BY <1>1, <2>8, <3>1 DEF PdoOK, Reflects, Counted
    <2>10. Identified(q)
      BY <2>1, <2>5, <2>6, <2>8 DEF Identified
    <2> QED  BY <2>3, <2>5, <2>6, <2>7, <2>8, <2>9, <2>10 DEF RpdoOK, PdoOK, new, none
  <1> QED  BY <1>3, <1>4
\* An RPDO of which neither mapping nor COB-ID changes, and that has no
\* message while it is not valid.
LEMMA RpdoKept ==
    ASSUME NEW r, RpdoOK(r), NEW q \in RpdoType, SamePdo(q, r), q.ident = r.ident,
           ~r.valid => q.CANrxNew = r.CANrxNew \/ q.CANrxNew = [b \in 0..1 |-> FALSE]
    PROVE  RpdoOK(q)
  <1>1. PdoOK(q, TRUE)
    BY PdoKept DEF RpdoOK
  <1>2. q.valid = r.valid /\ q.configuredCanId = r.configuredCanId
    BY DEF SamePdo
  <1> QED  BY <1>1, <1>2 DEF RpdoOK

\* What is written to the communication parameters.
LEMMA CommunicationWrite ==
    ASSUME NEW timers, NEW w \in CommunicationWrites(timers)
    PROVE  \/ w[1] = 1 /\ w[2] \in PdoCobIds
           \/ w[1] = 2 /\ w[2] \in 0..255
           \/ w[1] \in timers /\ w[2] \in Nat
  <1>1. w \in {1} \X CobIds \/ w \in {2} \X (0..255) \/ w \in timers \X Nat
    BY DEF CommunicationWrites
  <1>2. CASE w \in {1} \X CobIds
    <2>1. w[1] = 1 /\ w[2] \in CobIds
      BY <1>2
    <2>2. CobIds \subseteq PdoCobIds
      BY DEF CobIds, PdoCobIds, PdoNames
    <2>3. w[2] \in PdoCobIds
      BY <2>1, <2>2
    <2> QED  BY <2>1, <2>3
  <1>3. CASE w \in {2} \X (0..255)
    <2>1. w[1] = 2 /\ w[2] \in 0..255
      BY <1>3
    <2> QED  BY <2>1, Zenon
  <1>4. CASE w \in timers \X Nat
    <2>1. w[1] \in timers /\ w[2] \in Nat
      BY <1>4
    <2> QED  BY <2>1
  <1> QED  BY <1>1, <1>2, <1>3, <1>4

\* The communication parameters of an RPDO are written.
LEMMA RpdoWritten ==
    ASSUME NEW r, RpdoOK(r), NEW w \in CommunicationWrites({5})
    PROVE  RpdoOK(OD_write_14xx(r, w[1], w[2]))
  <1> DEFINE subIndex == w[1]
             value == w[2]
             q == OD_write_14xx(r, subIndex, value)
  <1>1. \/ subIndex = 1 /\ value \in PdoCobIds
        \/ subIndex = 2 /\ value \in 0..255
        \/ subIndex = 5 /\ value \in Nat
    BY CommunicationWrite
  <1>2. r \in RpdoType /\ r.od \in PdoOd /\ r.CANrxNew \in [0..1 -> BOOLEAN] /\ r.synchronous \in BOOLEAN
    BY DEF RpdoOK, RpdoType
  <1> HIDE DEF subIndex, value
  <1>3. CASE subIndex = 1
    <2>1. RpdoOK(OD_write_14xx(r, 1, value))
      BY <1>1, <1>3, RpdoCobId
    <2> QED  BY <1>3, <2>1 DEF subIndex, value
  <1>4. CASE subIndex = 2
    <2> DEFINE syn == isSynchronous(value)
               news == [r.CANrxNew EXCEPT ![1] = r.CANrxNew[1] /\ r.synchronous = syn]
               od == [r.od EXCEPT !.type = value]
               n == [r EXCEPT !.CANrxNew = news, !.synchronous = syn, !.od = od]
    <2>1. CASE isReserved(value)
      <3>1. q = r
        BY <1>4, <2>1 DEF OD_write_14xx
      <3> QED  BY <3>1 DEF subIndex, value
    <2>2. CASE ~isReserved(value)
      <3>1. q = [r EXCEPT !.CANrxNew[1] = @ /\ r.synchronous = syn, !.synchronous = syn, !.od.type = value]
        BY <1>4, <2>2 DEF OD_write_14xx
      <3>2. syn \in BOOLEAN /\ (r.CANrxNew[1] /\ r.synchronous = syn) \in BOOLEAN
        BY DEF isSynchronous
      <3> HIDE DEF syn
      <3>3. q = n
        BY <1>2, <3>1 DEF RpdoType
      <3>4. news \in [0..1 -> BOOLEAN]
        BY <1>2, <3>2
      <3>5. r.CANrxNew = [b \in 0..1 |-> FALSE] => news = [b \in 0..1 |-> FALSE]
        BY <1>2, <3>2
      <3>6. od \in PdoOd /\ od.cobId = r.od.cobId /\ od.maps = r.od.maps /\ od.count = r.od.count
        <4>1. value \in 0..255
          BY <1>1, <1>4
        <4> QED  BY <1>2, <4>1 DEF PdoOd
      <3> HIDE DEF news, od, q
      <3>7. /\ n \in RpdoType /\ n.valid = r.valid /\ n.configuredCanId = r.configuredCanId /\ n.OD_IO = r.OD_IO
            /\ n.dataLength = r.dataLength /\ n.mappedObjectsCount = r.mappedObjectsCount /\ n.od = od
            /\ n.ident = r.ident /\ n.CANrxNew = news
        BY <1>2, <3>2, <3>4, <3>6 DEF RpdoType
      <3> HIDE DEF n
      <3>8. SamePdo(n, r)
        BY <3>6, <3>7 DEF SamePdo
      <3>9. ~r.valid => n.CANrxNew = [b \in 0..1 |-> FALSE]
        BY <3>5, <3>7 DEF RpdoOK
      <3>10. RpdoOK(n)
        BY <3>7, <3>8, <3>9, RpdoKept
      <3> QED  BY <3>3, <3>10 DEF q, subIndex, value
    <2> QED  BY <2>1, <2>2
  <1>5. CASE subIndex = 5
    <2> DEFINE od == [r.od EXCEPT !.event = value]
               n == [r EXCEPT !.timeoutTime = value, !.timeoutTimer = 0, !.od = od]
    <2>1. q = [r EXCEPT !.timeoutTime = value, !.timeoutTimer = 0, !.od.event = value]
      BY <1>5 DEF OD_write_14xx
    <2>2. q = n
      BY <1>2, <2>1 DEF RpdoType
    <2>3. value \in Nat /\ od \in PdoOd /\ od.cobId = r.od.cobId /\ od.maps = r.od.maps /\ od.count = r.od.count
      <3>1. value \in Nat
        BY <1>1, <1>5
      <3> QED  BY <1>2, <3>1 DEF PdoOd
    <2> HIDE DEF od, q
    <2>4. /\ n \in RpdoType /\ n.valid = r.valid /\ n.configuredCanId = r.configuredCanId /\ n.OD_IO = r.OD_IO
          /\ n.dataLength = r.dataLength /\ n.mappedObjectsCount = r.mappedObjectsCount /\ n.od = od
          /\ n.ident = r.ident /\ n.CANrxNew = r.CANrxNew
      BY <1>2, <2>3 DEF RpdoType
    <2> HIDE DEF n
    <2>5. SamePdo(n, r)
      BY <2>3, <2>4 DEF SamePdo
    <2>6. RpdoOK(n)
      BY <2>4, <2>5, RpdoKept
    <2> QED  BY <2>2, <2>6 DEF q, subIndex, value
  <1> QED  BY <1>1, <1>3, <1>4, <1>5

\* A message comes in.
LEMMA RpdoReceived ==
    ASSUME NEW r, RpdoOK(r), NEW sy, NEW DLC \in Nat, NEW data \in Nat
    PROVE  RpdoOK(CO_PDO_receive(r, sy, DLC, data))
  <1> DEFINE b == rxBuffer(r, sy)
             err == CASE r.receiveError = "ACK_ERROR" /\ DLC = r.dataLength -> "OK"
                      [] r.receiveError = RxNoError /\ DLC > r.dataLength -> "LONG"
                      [] r.receiveError = RxNoError /\ DLC < r.dataLength -> "SHORT"
                      [] OTHER -> r.receiveError
             q == CO_PDO_receive(r, sy, DLC, data)
  <1>1. r \in RpdoType
    BY DEF RpdoOK
  <1>2. b \in 0..1
    BY DEF rxBuffer
  <1>3. err \in PdoNames
    <2>1. r.receiveError \in PdoNames
      BY <1>1 DEF RpdoType
    <2>2. \A x : x = "ACK_ERROR" => x # RxNoError
      BY DEF RxNoError
    <2>3. \/ err = r.receiveError \/ err = "OK" \/ err = "LONG" \/ err = "SHORT"
      <3>1. r.dataLength \in Nat
        BY <1>1 DEF RpdoType
      <3>2. CASE r.receiveError = "ACK_ERROR"
        BY <3>2 DEF RxNoError
      <3>3. CASE r.receiveError = RxNoError
        BY <3>1, <3>3 DEF RxNoError
      <3>4. CASE r.receiveError # "ACK_ERROR" /\ r.receiveError # RxNoError
        BY <3>4
      <3> QED  BY <3>2, <3>3, <3>4
    <2> HIDE DEF err
    <2> QED  BY <2>1, <2>3 DEF PdoNames
  <1>4. q = IF ~r.valid THEN r
            ELSE IF DLC < r.dataLength THEN [r EXCEPT !.receiveError = err]
            ELSE [r EXCEPT !.receiveError = err, !.CANrxData[b] = data, !.CANrxNew[b] = TRUE]
    BY DEF CO_PDO_receive
  <1> HIDE DEF b, err, q
  <1>5. CASE ~r.valid
    BY <1>4, <1>5 DEF q
  <1>6. CASE r.valid /\ DLC < r.dataLength
    <2>1. q = [r EXCEPT !.receiveError = err]
      BY <1>4, <1>6
    <2>2. q \in RpdoType /\ SamePdo(q, r) /\ q.ident = r.ident
      BY <1>1, <1>3, <2>1 DEF RpdoType, SamePdo
    <2> QED  BY <1>6, <2>2, RpdoKept DEF q
  <1>7. CASE r.valid /\ ~(DLC < r.dataLength)
    <2> DEFINE datas == [r.CANrxData EXCEPT ![b] = data]
               news == [r.CANrxNew EXCEPT ![b] = TRUE]
    <2>1. q = [r EXCEPT !.receiveError = err, !.CANrxData[b] = data, !.CANrxNew[b] = TRUE]
      BY <1>4, <1>7
    <2>2. q = [r EXCEPT !.receiveError = err, !.CANrxData = datas, !.CANrxNew = news]
      BY <1>1, <2>1 DEF RpdoType
    <2>3. datas \in [0..1 -> Nat] /\ news \in [0..1 -> BOOLEAN]
      BY <1>1, <1>2 DEF RpdoType
    <2> HIDE DEF datas, news
    <2>4. q \in RpdoType /\ SamePdo(q, r) /\ q.ident = r.ident
      BY <1>1, <1>3, <2>2, <2>3 DEF RpdoType, SamePdo
    <2> QED  BY <1>7, <2>4, RpdoKept DEF q
  <1> QED  BY <1>5, <1>6, <1>7
-----------------------------------------------------------------------------
(* One call of CO_RPDO_process                                              *)

\* The RPDO has its order, and no error of the software was seen.
RpdoReady(t) ==
    /\ t = [rpdo |-> t.rpdo, vals |-> t.vals, errs |-> t.errs]
    /\ RpdoOK(t.rpdo) /\ t.rpdo.valid /\ "GENERIC_SOFTWARE_ERROR" \notin t.errs

\* The length of the last message is reported ...
LEMMA RpdoLength ==
    ASSUME NEW t, RpdoReady(t)
    PROVE  RpdoReady(rpdo_length_error(t))
  <1> DEFINE r == t.rpdo
             q(x) == [r EXCEPT !.receiveError = x]
             n == rpdo_length_error(t)
             good == t.errs \ {"RPDO_WRONG_LENGTH"}
             wrong == t.errs \cup {"RPDO_WRONG_LENGTH"}
  <1>1. r \in RpdoType /\ RpdoOK(r) /\ r.valid
    BY DEF RpdoReady, RpdoOK
  <1>2. ASSUME NEW x \in PdoNames
        PROVE  RpdoOK(q(x)) /\ q(x).valid
    <2>1. q(x) \in RpdoType /\ SamePdo(q(x), r) /\ q(x).ident = r.ident /\ q(x).valid = r.valid
      BY <1>1 DEF RpdoType, SamePdo
    <2> HIDE DEF q, r
    <2> QED  BY <1>1, <2>1, RpdoKept
  <1>3. /\ t = [rpdo |-> t.rpdo, vals |-> t.vals, errs |-> t.errs]
        /\ "GENERIC_SOFTWARE_ERROR" \notin t.errs
    BY DEF RpdoReady
  <1>4. \/ n = t
        \/ n = [rpdo |-> q(RxNoError), vals |-> t.vals, errs |-> good]
        \/ n = [rpdo |-> q("ACK_ERROR"), vals |-> t.vals, errs |-> wrong]
    BY <1>3 DEF rpdo_length_error
  <1>5. RxNoError \in PdoNames /\ "ACK_ERROR" \in PdoNames
    BY DEF PdoNames
  <1>6. "GENERIC_SOFTWARE_ERROR" \notin good /\ "GENERIC_SOFTWARE_ERROR" \notin wrong
    BY <1>3
  <1>7. RpdoOK(q(RxNoError)) /\ q(RxNoError).valid /\ RpdoOK(q("ACK_ERROR")) /\ q("ACK_ERROR").valid
    BY <1>2, <1>5
  <1> HIDE DEF q, good, wrong, n
  <1> QED  BY <1>4, <1>6, <1>7 DEF RpdoReady, n

\* ... the message is written, and its length is the sum of the places ...
LEMMA RpdoWrites ==
    ASSUME NEW t, RpdoReady(t), NEW b \in 0..1
    PROVE  RpdoReady(rpdo_written(t, b))
  <1> DEFINE r == t.rpdo
             news == [r.CANrxNew EXCEPT ![b] = FALSE]
             q == [r EXCEPT !.CANrxNew = news]
             vs == [x \in DOMAIN t.vals |-> IF x \in mappedObjects(r) THEN r.CANrxData[b] ELSE t.vals[x]]
             n == rpdo_written(t, b)
  <1>1. r \in RpdoType /\ RpdoOK(r) /\ r.valid /\ r.CANrxNew \in [0..1 -> BOOLEAN]
    BY DEF RpdoReady, RpdoOK, RpdoType
  <1>2. mappedBytes(r, r.mappedObjectsCount) = r.dataLength
    BY <1>1 DEF RpdoOK, PdoOK, Counted, Identified
  <1>3. /\ t = [rpdo |-> t.rpdo, vals |-> t.vals, errs |-> t.errs]
        /\ "GENERIC_SOFTWARE_ERROR" \notin t.errs
    BY DEF RpdoReady
  <1>4. CASE ~r.CANrxNew[b]
    BY <1>4 DEF rpdo_written
  <1>5. CASE r.CANrxNew[b]
    <2>1. n = [t EXCEPT !.rpdo.CANrxNew[b] = FALSE, !.vals = vs, !.errs = t.errs]
      BY <1>2, <1>3, <1>5 DEF rpdo_written
    <2>2. [r EXCEPT !.CANrxNew[b] = FALSE] = q
      BY <1>1 DEF RpdoType
    <2> HIDE DEF vs, q, n
    <2>3. n = [rpdo |-> q, vals |-> vs, errs |-> t.errs]
      BY <1>3, <2>1, <2>2
    <2>4. news \in [0..1 -> BOOLEAN]
      BY <1>1
    <2> HIDE DEF news
    <2>5. q \in RpdoType /\ SamePdo(q, r) /\ q.ident = r.ident /\ q.valid = r.valid
      BY <1>1, <2>4 DEF RpdoType, SamePdo, q
    <2>6. RpdoOK(q)
      BY <1>1, <2>5, RpdoKept
    <2>7. q.valid /\ "GENERIC_SOFTWARE_ERROR" \notin t.errs
      BY <1>1, <1>3, <2>5
    <2>8. n = [rpdo |-> n.rpdo, vals |-> n.vals, errs |-> n.errs] /\ n.rpdo = q /\ n.errs = t.errs
      BY <2>3
    <2> QED  BY <2>6, <2>7, <2>8 DEF RpdoReady, n
  <1> QED  BY <1>4, <1>5

\* ... and the timer runs.
LEMMA RpdoTimes ==
    ASSUME NEW t, RpdoReady(t), NEW isReceived, NEW dt \in Nat
    PROVE  RpdoReady(rpdo_timeout(t, isReceived, dt))
  <1> DEFINE r == t.rpdo
             q(x) == [r EXCEPT !.timeoutTimer = x]
             n == rpdo_timeout(t, isReceived, dt)
             es(b) == IF b THEN t.errs \ {"RPDO_TIME_OUT"} ELSE t.errs
             fs(b) == IF b THEN t.errs \cup {"RPDO_TIME_OUT"} ELSE t.errs
             timer == r.timeoutTimer
  <1>1. r \in RpdoType /\ RpdoOK(r) /\ r.valid /\ timer \in Nat
    BY DEF RpdoReady, RpdoOK, RpdoType
  <1>2. ASSUME NEW x \in Nat
        PROVE  RpdoOK(q(x)) /\ q(x).valid
    <2>1. q(x) \in RpdoType /\ SamePdo(q(x), r) /\ q(x).ident = r.ident /\ q(x).valid = r.valid
      BY <1>1 DEF RpdoType, SamePdo
    <2> HIDE DEF q, r
    <2> QED  BY <1>1, <2>1, RpdoKept
  <1>3. /\ t = [rpdo |-> t.rpdo, vals |-> t.vals, errs |-> t.errs]
        /\ "GENERIC_SOFTWARE_ERROR" \notin t.errs
    BY DEF RpdoReady
  <1>4. \/ n = t
        \/ n = [rpdo |-> q(1), vals |-> t.vals, errs |-> es(timer > r.timeoutTime)]
        \/ n = [rpdo |-> q(timer + dt), vals |-> t.vals, errs |-> fs(timer + dt > r.timeoutTime)]
    BY <1>3 DEF rpdo_timeout
  <1>5. \A b : "GENERIC_SOFTWARE_ERROR" \notin es(b) /\ "GENERIC_SOFTWARE_ERROR" \notin fs(b)
    BY <1>3
  <1>6. RpdoOK(q(1)) /\ q(1).valid /\ RpdoOK(q(timer + dt)) /\ q(timer + dt).valid
    <2>1. 1 \in Nat /\ timer + dt \in Nat
      BY <1>1
    <2> HIDE DEF q, timer
    <2> QED  BY <1>2, <2>1
  <1> HIDE DEF q, es, fs, n, timer
  <1> QED  BY <1>4, <1>5, <1>6 DEF RpdoReady, n

\* CO_RPDO_process keeps the order of the RPDO.
LEMMA RpdoProcessed ==
    ASSUME NEW r, RpdoOK(r), NEW vs, NEW es, "GENERIC_SOFTWARE_ERROR" \notin es, NEW sy, NEW dt \in Nat,
           NEW operates, NEW syncWas
    PROVE  LET n == CO_RPDO_process(r, vs, es, sy, dt, operates, syncWas) IN
           RpdoOK(n.rpdo) /\ "GENERIC_SOFTWARE_ERROR" \notin n.errs
  <1> DEFINE t == [rpdo |-> r, vals |-> vs, errs |-> es]
             b == processBuffer(r, sy)
             n == CO_RPDO_process(r, vs, es, sy, dt, operates, syncWas)
             idle == [no_messages(r) EXCEPT !.timeoutTimer = 0]
             done == rpdo_timeout(rpdo_written(rpdo_length_error(t), b), r.CANrxNew[b], dt)
  <1>1. r \in RpdoType
    BY DEF RpdoOK
  <1>2. b \in 0..1
    BY DEF processBuffer
  <1>3. n = IF ~r.valid \/ ~operates THEN [t EXCEPT !.rpdo = [no_messages(@) EXCEPT !.timeoutTimer = 0]]
            ELSE IF r.synchronous /\ ~syncWas THEN t
            ELSE done
    BY DEF CO_RPDO_process
  <1>4. [t EXCEPT !.rpdo = [no_messages(@) EXCEPT !.timeoutTimer = 0]] = [rpdo |-> idle, vals |-> vs, errs |-> es]
    OBVIOUS
  <1>5. RpdoOK(idle)
    <2> DEFINE none == [x \in 0..1 |-> FALSE]
    <2>1. idle = [r EXCEPT !.CANrxNew = none, !.timeoutTimer = 0]
      BY <1>1 DEF no_messages, RpdoType
    <2>2. none \in [0..1 -> BOOLEAN]
      OBVIOUS
    <2> HIDE DEF none, idle
    <2>3. idle \in RpdoType /\ SamePdo(idle, r) /\ idle.ident = r.ident /\ idle.CANrxNew = none
      BY <1>1, <2>1, <2>2 DEF RpdoType, SamePdo
    <2> QED  BY <2>3, RpdoKept DEF none
  <1>6. ASSUME r.valid
        PROVE  RpdoReady(done)
    <2>1. t = [rpdo |-> t.rpdo, vals |-> t.vals, errs |-> t.errs] /\ t.rpdo = r /\ t.errs = es
      OBVIOUS
    <2> HIDE DEF t, b
    <2>2. RpdoReady(t)
      BY <1>6, <2>1 DEF RpdoReady
    <2>3. RpdoReady(rpdo_length_error(t))
      BY <2>2, RpdoLength
    <2>4. RpdoReady(rpdo_written(rpdo_length_error(t), b))
      BY <1>2, <2>3, RpdoWrites
    <2> QED  BY <2>4, RpdoTimes
  <1> HIDE DEF idle, done
  <1>7. CASE ~r.valid \/ ~operates
    <2>1. n = [rpdo |-> idle, vals |-> vs, errs |-> es]
      <3> HIDE DEF t, n
      <3> QED  BY <1>3, <1>4, <1>7
    <2> HIDE DEF n
    <2> QED  BY <1>5, <2>1 DEF n
  <1>8. CASE r.valid /\ operates /\ r.synchronous /\ ~syncWas
    <2>1. n = t
      <3> HIDE DEF t, n
      <3> QED  BY <1>3, <1>8
    <2> HIDE DEF n
    <2> QED  BY <2>1 DEF n
  <1>9. CASE r.valid /\ operates /\ ~(r.synchronous /\ ~syncWas)
    <2>1. n = done
      <3> HIDE DEF t, n
      <3> QED  BY <1>3, <1>9
    <2> HIDE DEF n
    <2> QED  BY <1>6, <1>9, <2>1 DEF n, RpdoReady
  <1> QED  BY <1>7, <1>8, <1>9
-----------------------------------------------------------------------------
(* A TPDO that runs                                                         *)

\* A TPDO of which neither mapping, nor COB-ID, nor what is sent changes.
LEMMA TpdoKept ==
    ASSUME NEW t, TpdoOK(t), NEW q \in TpdoType, SamePdo(q, t), q.tx = t.tx,
           q.transmissionType = t.transmissionType
    PROVE  TpdoOK(q)
  <1>1. PdoOK(q, FALSE)
    BY PdoKept DEF TpdoOK
  <1>2. q.valid = t.valid /\ q.configuredCanId = t.configuredCanId /\ q.dataLength = t.dataLength
    BY DEF SamePdo
  <1> QED  BY <1>1, <1>2 DEF TpdoOK

\* The TPDO with another COB-ID in the dictionary and another identifier.
tpdoWith(t, valid, id, tb, cobId) ==
    [t EXCEPT !.valid = valid, !.configuredCanId = id, !.tx = tb, !.od.cobId = cobId]

\* Only that.
LEMMA TpdoWith ==
    ASSUME NEW t \in TpdoType, NEW valid \in BOOLEAN, NEW id \in PdoNames, NEW tb \in TxType, NEW cobId \in PdoCobIds
    PROVE  LET q == tpdoWith(t, valid, id, tb, cobId) IN
           /\ q \in TpdoType /\ q.valid = valid /\ q.configuredCanId = id /\ q.tx = tb
           /\ q.od.cobId = cobId /\ q.OD_IO = t.OD_IO /\ q.dataLength = t.dataLength
           /\ q.mappedObjectsCount = t.mappedObjectsCount /\ q.od.maps = t.od.maps /\ q.od.count = t.od.count
           /\ q.transmissionType = t.transmissionType
  <1> DEFINE od == [t.od EXCEPT !.cobId = cobId]
             q == tpdoWith(t, valid, id, tb, cobId)
  <1>1. t.od \in PdoOd
    BY DEF TpdoType
  <1>2. od \in PdoOd /\ od.cobId = cobId /\ od.maps = t.od.maps /\ od.count = t.od.count
    BY <1>1 DEF PdoOd
  <1>3. q = [t EXCEPT !.valid = valid, !.configuredCanId = id, !.tx = tb, !.od = od]
    BY DEF TpdoType, tpdoWith
  <1> HIDE DEF od, q
  <1>4. /\ q \in TpdoType /\ q.valid = valid /\ q.configuredCanId = id /\ q.tx = tb
        /\ q.od = od /\ q.OD_IO = t.OD_IO /\ q.dataLength = t.dataLength
        /\ q.mappedObjectsCount = t.mappedObjectsCount /\ q.transmissionType = t.transmissionType
    BY <1>2, <1>3 DEF TpdoType
  <1> QED  BY <1>2, <1>4 DEF q

\* The COB-ID of a TPDO is written.
LEMMA TpdoCobId ==
    ASSUME NEW t, TpdoOK(t), NEW cobId \in PdoCobIds
    PROVE  TpdoOK(OD_write_18xx(t, 1, cobId))
  <1> DEFINE new == OD_write_18xx(t, 1, cobId)
             s   == stored(t, cobId)
             CAN_ID == IF cobId.valid THEN cobId.id ELSE "zero"
             buffer == CO_CANtxBufferInit(CAN_ID, t.dataLength, t.transmissionType)
             changed == cobId_changed(t, cobId)
             valid == IF changed THEN cobId.valid ELSE t.valid
             id    == IF changed THEN CAN_ID ELSE t.configuredCanId
             tb    == IF changed THEN buffer ELSE t.tx
             q     == tpdoWith(t, valid, id, tb, s)
  <1>1. t \in TpdoType /\ t \in PdoType(FALSE) /\ PdoOK(t, FALSE)
    BY DEF TpdoOK, PdoType
  <1>2. new = IF cobId_refused(t, cobId) THEN t
              ELSE [(IF ~changed THEN t
                     ELSE [t EXCEPT !.tx = buffer, !.valid = cobId.valid, !.configuredCanId = CAN_ID])
                    EXCEPT !.od.cobId = s]
    BY DEF OD_write_18xx
  <1>3. CASE cobId_refused(t, cobId)
    BY <1>2, <1>3
  <1>4. CASE ~cobId_refused(t, cobId)
    <2>1. /\ s \in PdoCobIds
          /\ s.valid <=> cobId.valid
          /\ cobId.valid => /\ t.mappedObjectsCount # 0 /\ s.id # "zero" /\ cobId.id # "zero"
                            /\ cobId.id = "base" \/ with_nodeId(s.id) = cobId.id
          /\ ~changed => (cobId.valid <=> t.valid) /\ cobId.id = t.configuredCanId
      BY <1>1, <1>4, CobIdTaken
    <2>2. /\ t.valid \in BOOLEAN /\ t.configuredCanId \in PdoNames /\ cobId.id \in PdoNames /\ cobId.valid \in BOOLEAN
          /\ t.tx \in TxType /\ "zero" \in PdoNames /\ t.dataLength \in Nat /\ t.transmissionType \in 0..255
      BY <1>1 DEF TpdoType, PdoCobIds, PdoNames
    <2>3. CAN_ID \in PdoNames
      BY <2>2
    <2>4. buffer \in TxType
      <3> HIDE DEF CAN_ID
      <3> QED  BY <2>2, <2>3 DEF CO_CANtxBufferInit, TxType, isSynchronous
    <2> HIDE DEF s, changed, new
    <2>5. new = q
      <3> HIDE DEF buffer, CAN_ID
      <3>1. CASE ~changed
        <4>1. new = [t EXCEPT !.od.cobId = s]
          BY <1>2, <1>4, <3>1
        <4>2. q = tpdoWith(t, t.valid, t.configuredCanId, t.tx, s)
          BY <3>1
        <4>3. tpdoWith(t, t.valid, t.configuredCanId, t.tx, s) = [t EXCEPT !.od.cobId = s]
          BY <1>1 DEF tpdoWith, TpdoType
        <4> HIDE DEF q
        <4> QED  BY <4>1, <4>2, <4>3
      <3>2. CASE changed
        <4>1. new = [[t EXCEPT !.tx = buffer, !.valid = cobId.valid, !.configuredCanId = CAN_ID] EXCEPT !.od.cobId = s]
          BY <1>2, <1>4, <3>2
        <4>2. q = tpdoWith(t, cobId.valid, CAN_ID, buffer, s)
          BY <3>2
        <4>3. tpdoWith(t, cobId.valid, CAN_ID, buffer, s)
                = [[t EXCEPT !.tx = buffer, !.valid = cobId.valid, !.configuredCanId = CAN_ID] EXCEPT !.od.cobId = s]
          BY <1>1 DEF tpdoWith, TpdoType
        <4> HIDE DEF q
        <4> QED  BY <4>1, <4>2, <4>3
      <3> QED  BY <3>1, <3>2
    <2>6. valid \in BOOLEAN /\ id \in PdoNames /\ tb \in TxType
      <3> HIDE DEF buffer, CAN_ID
      <3> QED  BY <2>2, <2>3, <2>4
    <2>7. valid <=> cobId.valid
      BY <2>1
    <2>8. cobId.valid => id = cobId.id /\ tb = CO_CANtxBufferInit(id, t.dataLength, t.transmissionType)
      BY <1>1, <2>1, <2>2 DEF TpdoOK
    <2> HIDE DEF valid, id, tb
    <2>9. /\ q \in TpdoType /\ q.valid = valid /\ q.configuredCanId = id /\ q.tx = tb
          /\ q.od.cobId = s /\ q.OD_IO = t.OD_IO /\ q.dataLength = t.dataLength
          /\ q.mappedObjectsCount = t.mappedObjectsCount /\ q.od.maps = t.od.maps /\ q.od.count = t.od.count
          /\ q.transmissionType = t.transmissionType
      BY <1>1, <2>1, <2>6, TpdoWith
    <2> HIDE DEF q
    <2>10. Reflects(q, FALSE) /\ Counted(q)
      <3>1. mappedBytes(q, q.mappedObjectsCount) = mappedBytes(t, t.mappedObjectsCount)
        BY <2>9, BytesSame
      <3> QED  BY <1>1, <2>9, <3>1 DEF PdoOK, Reflects, Counted
    <2>11. Identified(q)
      BY <2>1, <2>7, <2>8, <2>9 DEF Identified
    <2> QED  BY <2>5, <2>7, <2>8, <2>9, <2>10, <2>11 DEF TpdoOK, PdoOK, new
  <1> QED  BY <1>3, <1>4

\* A TPDO with another value of a field about its sending.
withRequest(t, v) == [t EXCEPT !.sendRequest = v]
withCounter(t, v) == [t EXCEPT !.syncCounter = v]
withInhibitTimer(t, v) == [t EXCEPT !.inhibitTimer = v]
withEventTimer(t, v) == [t EXCEPT !.eventTimer = v]
withInhibitTime(t, v) == [t EXCEPT !.inhibitTime = v]
withEventTime(t, v) == [t EXCEPT !.eventTime = v]
withStart(t, v) == [t EXCEPT !.syncStartValue = v]

\* What a TPDO remembers about its sending is not what it sends.
LEMMA TpdoTimed ==
    ASSUME NEW t, TpdoOK(t), NEW v
    PROVE  LET kept(q) == TpdoOK(q) /\ q.valid = t.valid /\ q.od = t.od /\ q.tx = t.tx
                          /\ q.transmissionType = t.transmissionType IN
           /\ v \in BOOLEAN => kept(withRequest(t, v))
           /\ v \in Int => kept(withCounter(t, v))
           /\ v \in Nat => kept(withInhibitTimer(t, v))
           /\ v \in Nat => kept(withEventTimer(t, v))
           /\ v \in Nat => kept(withInhibitTime(t, v))
           /\ v \in Nat => kept(withEventTime(t, v))
           /\ v \in Nat => kept(withStart(t, v))
  <1> DEFINE same(q) == q \in TpdoType /\ SamePdo(q, t) /\ q.tx = t.tx /\ q.od = t.od
                        /\ q.transmissionType = t.transmissionType
             kept(q) == TpdoOK(q) /\ q.valid = t.valid /\ q.od = t.od /\ q.tx = t.tx
                        /\ q.transmissionType = t.transmissionType
  <1>1. t \in TpdoType
    BY DEF TpdoOK
  <1>2. ASSUME NEW q, same(q)
        PROVE  kept(q)
    BY <1>2, TpdoKept DEF SamePdo
  <1>3. v \in BOOLEAN => same(withRequest(t, v))
    BY <1>1 DEF TpdoType, SamePdo, withRequest
  <1>4. v \in Int => same(withCounter(t, v))
    BY <1>1 DEF TpdoType, SamePdo, withCounter
  <1>5. v \in Nat => same(withInhibitTimer(t, v))
    BY <1>1 DEF TpdoType, SamePdo, withInhibitTimer
  <1>6. v \in Nat => same(withEventTimer(t, v))
    BY <1>1 DEF TpdoType, SamePdo, withEventTimer
  <1>7. v \in Nat => same(withInhibitTime(t, v))
    BY <1>1 DEF TpdoType, SamePdo, withInhibitTime
  <1>8. v \in Nat => same(withEventTime(t, v))
    BY <1>1 DEF TpdoType, SamePdo, withEventTime
  <1>9. v \in Nat => same(withStart(t, v))
    BY <1>1 DEF TpdoType, SamePdo, withStart
  <1> HIDE DEF same, kept
  <1>10. /\ v \in BOOLEAN => kept(withRequest(t, v))
         /\ v \in Int => kept(withCounter(t, v))
         /\ v \in Nat => kept(withInhibitTimer(t, v)) /\ kept(withEventTimer(t, v)) /\ kept(withInhibitTime(t, v))
                          /\ kept(withEventTime(t, v)) /\ kept(withStart(t, v))
    BY <1>2, <1>3, <1>4, <1>5, <1>6, <1>7, <1>8, <1>9
  <1> QED  BY <1>10 DEF kept

\* The TPDO with other parameters in the dictionary, of the same mapping and
\* COB-ID.
withOd(t, od) == [t EXCEPT !.od = od]

\* They are not what it sends either.
LEMMA TpdoOd ==
    ASSUME NEW t, TpdoOK(t), NEW od \in PdoOd, od.maps = t.od.maps, od.count = t.od.count, od.cobId = t.od.cobId
    PROVE  TpdoOK(withOd(t, od))
  <1> DEFINE q == withOd(t, od)
  <1>1. t \in TpdoType
    BY DEF TpdoOK
  <1>2. q \in TpdoType /\ SamePdo(q, t) /\ q.tx = t.tx /\ q.transmissionType = t.transmissionType
    BY <1>1 DEF TpdoType, SamePdo, withOd
  <1> HIDE DEF q
  <1>3. TpdoOK(q)
    BY <1>2, TpdoKept
  <1> QED  BY <1>3 DEF q

\* The transmission type of a TPDO is written.
LEMMA TpdoTypeWritten ==
    ASSUME NEW t, TpdoOK(t), NEW value \in 0..255
    PROVE  TpdoOK([t EXCEPT !.syncCounter = 255, !.sendRequest = TRUE, !.inhibitTimer = 0, !.eventTimer = 0,
                            !.tx.syncFlag = isSynchronous(value), !.transmissionType = value,
                            !.od.type = value])
  <1> DEFINE m1 == withCounter(t, 255)
             m2 == withRequest(m1, TRUE)
             m3 == withInhibitTimer(m2, 0)
             m  == withEventTimer(m3, 0)
             flag == isSynchronous(value)
             tb == [m.tx EXCEPT !.syncFlag = flag]
             od == [m.od EXCEPT !.type = value]
             n == [m EXCEPT !.tx = tb, !.transmissionType = value, !.od = od]
             q == [m EXCEPT !.tx.syncFlag = flag, !.transmissionType = value, !.od.type = value]
  <1>1. q = [t EXCEPT !.syncCounter = 255, !.sendRequest = TRUE, !.inhibitTimer = 0, !.eventTimer = 0,
                      !.tx.syncFlag = flag, !.transmissionType = value, !.od.type = value]
    BY DEF withCounter, withRequest, withInhibitTimer, withEventTimer
  <1>2. TpdoOK(m)
    <2>1. TpdoOK(m1)
      BY TpdoTimed
    <2> HIDE DEF m1
    <2>2. TpdoOK(m2)
      BY <2>1, TpdoTimed
    <2> HIDE DEF m2
    <2>3. TpdoOK(m3)
      BY <2>2, TpdoTimed
    <2> HIDE DEF m3
    <2> QED  BY <2>3, TpdoTimed
  <1> HIDE DEF m
  <1>3. m \in TpdoType /\ m.tx \in TxType /\ m.od \in PdoOd
    BY <1>2 DEF TpdoOK, TpdoType
  <1>4. q = n
    BY <1>3 DEF TpdoType
  <1>5. flag \in BOOLEAN
    BY DEF isSynchronous
  <1>6. tb \in TxType /\ tb = [ident |-> m.tx.ident, DLC |-> m.tx.DLC, syncFlag |-> flag]
    <2> HIDE DEF flag
    <2> QED  BY <1>3, <1>5 DEF TxType
  <1>7. od \in PdoOd /\ od.maps = m.od.maps /\ od.count = m.od.count /\ od.cobId = m.od.cobId
    BY <1>3 DEF PdoOd
  <1> HIDE DEF tb, od, q
  <1>8. /\ n \in TpdoType /\ n.od = od /\ n.tx = tb /\ n.transmissionType = value /\ n.valid = m.valid
        /\ n.configuredCanId = m.configuredCanId /\ n.OD_IO = m.OD_IO /\ n.dataLength = m.dataLength
        /\ n.mappedObjectsCount = m.mappedObjectsCount
    BY <1>3, <1>6, <1>7 DEF TpdoType
  <1> HIDE DEF n
  <1>9. SamePdo(n, m)
    BY <1>7, <1>8 DEF SamePdo
  <1>10. PdoOK(n, FALSE)
    BY <1>2, <1>9, PdoKept DEF TpdoOK
  <1>11. m.valid => n.tx = CO_CANtxBufferInit(n.configuredCanId, n.dataLength, n.transmissionType)
    BY <1>2, <1>6, <1>8 DEF TpdoOK, CO_CANtxBufferInit
  <1>12. TpdoOK(n)
    BY <1>8, <1>10, <1>11 DEF TpdoOK
  <1>13. TpdoOK(q)
    BY <1>4, <1>12
  <1> QED  BY <1>1, <1>13 DEF flag

\* The communication parameters of a TPDO are written.
LEMMA TpdoWritten ==
    ASSUME NEW t, TpdoOK(t), NEW w \in CommunicationWrites({3, 5, 6})
    PROVE  TpdoOK(OD_write_18xx(t, w[1], w[2]))
  <1> DEFINE subIndex == w[1]
             value == w[2]
             new == OD_write_18xx(t, subIndex, value)
  <1>1. \/ subIndex = 1 /\ value \in PdoCobIds
        \/ subIndex = 2 /\ value \in 0..255
        \/ subIndex \in {3, 5, 6} /\ value \in Nat
    BY CommunicationWrite
  <1>2. t \in TpdoType /\ t.od \in PdoOd
    BY DEF TpdoOK, TpdoType
  <1> HIDE DEF subIndex, value
  <1>3. CASE subIndex = 1
    <2>1. TpdoOK(OD_write_18xx(t, 1, value))
      BY <1>1, <1>3, TpdoCobId
    <2> QED  BY <1>3, <2>1 DEF subIndex, value
  <1>4. CASE subIndex = 2
    <2>1. value \in 0..255
      BY <1>1, <1>4
    <2> DEFINE q == [t EXCEPT !.syncCounter = 255, !.sendRequest = TRUE, !.inhibitTimer = 0, !.eventTimer = 0,
                              !.tx.syncFlag = isSynchronous(value), !.transmissionType = value,
                              !.od.type = value]
    <2>2. new = IF isReserved(value) THEN t ELSE q
      BY <1>4 DEF OD_write_18xx
    <2>3. TpdoOK(q)
      BY <2>1, TpdoTypeWritten
    <2> HIDE DEF q, new
    <2> QED  BY <2>2, <2>3 DEF new, subIndex, value
  <1>5. CASE subIndex \in {3, 5, 6}
    <2>1. value \in Nat
      BY <1>1, <1>5
    <2> DEFINE od3 == [t.od EXCEPT !.inhibit = value]
               od5 == [t.od EXCEPT !.event = value]
               od6 == [t.od EXCEPT !.start = value]
               n3 == withOd(withInhibitTimer(withInhibitTime(t, value), 0), od3)
               n5 == withOd(withEventTimer(withEventTime(t, value), 0), od5)
               n6 == withOd(withStart(t, value), od6)
    <2>2. new \in {t, n3, n5, n6}
      <3>1. CASE subIndex = 3
        <4>1. new = t \/ new = [t EXCEPT !.inhibitTime = value, !.inhibitTimer = 0, !.od.inhibit = value]
          BY <3>1 DEF OD_write_18xx
        <4>2. [t EXCEPT !.inhibitTime = value, !.inhibitTimer = 0, !.od.inhibit = value] = n3
          BY <1>2 DEF TpdoType, withOd, withInhibitTimer, withInhibitTime
        <4> QED  BY <4>1, <4>2, Zenon
      <3>2. CASE subIndex = 5
        <4>1. new = [t EXCEPT !.eventTime = value, !.eventTimer = 0, !.od.event = value]
          BY <3>2 DEF OD_write_18xx
        <4>2. [t EXCEPT !.eventTime = value, !.eventTimer = 0, !.od.event = value] = n5
          BY <1>2 DEF TpdoType, withOd, withEventTimer, withEventTime
        <4> QED  BY <4>1, <4>2, Zenon
      <3>3. CASE subIndex = 6
        <4>1. new = t \/ new = [t EXCEPT !.syncStartValue = value, !.od.start = value]
          BY <3>3 DEF OD_write_18xx
        <4>2. [t EXCEPT !.syncStartValue = value, !.od.start = value] = n6
          BY <1>2 DEF TpdoType, withOd, withStart
        <4> QED  BY <4>1, <4>2, Zenon
      <3> QED  BY <1>5, <3>1, <3>2, <3>3
    <2>3. /\ od3 \in PdoOd /\ od3.maps = t.od.maps /\ od3.count = t.od.count /\ od3.cobId = t.od.cobId
          /\ od5 \in PdoOd /\ od5.maps = t.od.maps /\ od5.count = t.od.count /\ od5.cobId = t.od.cobId
          /\ od6 \in PdoOd /\ od6.maps = t.od.maps /\ od6.count = t.od.count /\ od6.cobId = t.od.cobId
      BY <1>2, <2>1 DEF PdoOd
    <2> HIDE DEF od3, od5, od6
    <2>4. TpdoOK(n3)
      <3> DEFINE a == withInhibitTime(t, value)
                 b == withInhibitTimer(a, 0)
      <3>1. TpdoOK(a) /\ a.od = t.od
        BY <2>1, TpdoTimed
      <3> HIDE DEF a
      <3>2. TpdoOK(b) /\ b.od = t.od
        BY <3>1, TpdoTimed
      <3> HIDE DEF b
      <3> QED  BY <2>3, <3>2, TpdoOd DEF b, a
    <2>5. TpdoOK(n5)
      <3> DEFINE a == withEventTime(t, value)
                 b == withEventTimer(a, 0)
      <3>1. TpdoOK(a) /\ a.od = t.od
        BY <2>1, TpdoTimed
      <3> HIDE DEF a
      <3>2. TpdoOK(b) /\ b.od = t.od
        BY <3>1, TpdoTimed
      <3> HIDE DEF b
      <3> QED  BY <2>3, <3>2, TpdoOd DEF b, a
    <2>6. TpdoOK(n6)
      <3> DEFINE a == withStart(t, value)
      <3>1. TpdoOK(a) /\ a.od = t.od
        BY <2>1, TpdoTimed
      <3> HIDE DEF a
      <3> QED  BY <2>3, <3>1, TpdoOd DEF a
    <2> HIDE DEF n3, n5, n6, new
    <2> QED  BY <2>2, <2>4, <2>5, <2>6 DEF new, subIndex, value
  <1> QED  BY <1>1, <1>3, <1>4, <1>5
-----------------------------------------------------------------------------
(* One call of CO_TPDO_process                                              *)

\* The TPDO has its order, and no error of the software was seen.
TpdoReady(t) ==
    /\ t = [tpdo |-> t.tpdo, flagged |-> t.flagged, errs |-> t.errs, sent |-> t.sent]
    /\ TpdoOK(t.tpdo) /\ t.tpdo.valid /\ "GENERIC_SOFTWARE_ERROR" \notin t.errs

\* The same with another TPDO, set of flags or answer.
txWith(t, q, flags, sent) == [tpdo |-> q, flagged |-> flags, errs |-> t.errs, sent |-> sent]

\* What another TPDO in good order, flag or answer leaves in good order.
LEMMA TxWith ==
    ASSUME NEW t, TpdoReady(t), NEW q, TpdoOK(q), q.valid, NEW flags, NEW sent
    PROVE  TpdoReady(txWith(t, q, flags, sent))
  <1> DEFINE n == txWith(t, q, flags, sent)
  <1>1. n.tpdo = q /\ n.flagged = flags /\ n.errs = t.errs /\ n.sent = sent
    BY DEF txWith
  <1>2. n = [tpdo |-> n.tpdo, flagged |-> n.flagged, errs |-> n.errs, sent |-> n.sent]
    BY DEF txWith
  <1>3. "GENERIC_SOFTWARE_ERROR" \notin t.errs
    BY DEF TpdoReady
  <1> HIDE DEF n
  <1> QED  BY <1>1, <1>2, <1>3 DEF TpdoReady, n

\* A frame is sent: its length is the sum of the places.
LEMMA TpdoSends ==
    ASSUME NEW t, TpdoReady(t)
    PROVE  TpdoReady(CO_TPDOsend(t))
  <1> DEFINE p == t.tpdo
             flags == IF isEventDriven(p.transmissionType) THEN t.flagged \cup ownFlags(p) ELSE t.flagged
             r == tpdo_read(t)
             q1 == withRequest(p, FALSE)
             q2 == withEventTimer(q1, p.eventTime)
             q == withInhibitTimer(q2, p.inhibitTime)
             n == CO_TPDOsend(t)
  <1>1. p \in TpdoType /\ TpdoOK(p) /\ p.valid
    BY DEF TpdoReady, TpdoOK
  <1>2. mappedBytes(p, p.mappedObjectsCount) = p.dataLength
    BY <1>1 DEF TpdoOK, PdoOK, Counted, Identified
  <1>3. p.eventTime \in Nat /\ p.inhibitTime \in Nat
    BY <1>1 DEF TpdoType
  <1>4. t = [tpdo |-> t.tpdo, flagged |-> t.flagged, errs |-> t.errs, sent |-> t.sent]
    BY DEF TpdoReady
  <1> HIDE DEF p
  <1>5. r = [tpdo |-> p, flagged |-> flags, errs |-> t.errs, sent |-> t.sent]
    BY <1>4 DEF tpdo_read, p
  <1> HIDE DEF r, flags
  <1>6. r.tpdo = p
    BY <1>5
  <1>7. n = [r EXCEPT !.tpdo.sendRequest = FALSE, !.tpdo.eventTimer = p.eventTime,
                      !.tpdo.inhibitTimer = p.inhibitTime, !.sent = TRUE]
    BY <1>2, <1>6 DEF CO_TPDOsend, tpdo_sent, r
  <1> HIDE DEF n
  <1>8. n = txWith(t, q, flags, TRUE)
    BY <1>5, <1>7 DEF txWith, withRequest, withEventTimer, withInhibitTimer
  <1>9. TpdoOK(q) /\ q.valid
    <2>1. TpdoOK(q1) /\ q1.valid
      BY <1>1, TpdoTimed
    <2> HIDE DEF q1
    <2>2. TpdoOK(q2) /\ q2.valid
      BY <1>3, <2>1, TpdoTimed
    <2> HIDE DEF q2
    <2> QED  BY <1>3, <2>2, TpdoTimed
  <1> HIDE DEF q
  <1> QED  BY <1>8, <1>9, TxWith DEF n

\* The events of a TPDO and its timers.
LEMMA TpdoEvents ==
    ASSUME NEW t, TpdoReady(t), NEW dt \in Nat
    PROVE  TpdoReady(tpdo_events(t, dt)) /\ TpdoReady(tpdo_inhibited(t, dt))
  <1> DEFINE p == t.tpdo
             timer == IF p.eventTime # 0 THEN countdown(p.eventTimer, dt) ELSE p.eventTimer
             request == \/ p.sendRequest
                        \/ p.eventTime # 0 /\ timer = 0
                        \/ ownFlags(p) \ t.flagged # {}
             q1 == withEventTimer(p, timer)
             q2 == withRequest(q1, request)
             left == countdown(p.inhibitTimer, dt)
             q3 == withInhibitTimer(p, left)
  <1>1. p \in TpdoType /\ TpdoOK(p) /\ p.valid
    BY DEF TpdoReady, TpdoOK
  <1>2. p.eventTimer \in Nat /\ p.inhibitTimer \in Nat
    BY <1>1 DEF TpdoType
  <1>3. t = [tpdo |-> t.tpdo, flagged |-> t.flagged, errs |-> t.errs, sent |-> t.sent]
    BY DEF TpdoReady
  <1>4. timer \in Nat /\ left \in Nat
    BY <1>2 DEF countdown
  <1>5. request \in BOOLEAN
    <2>1. p.sendRequest \in BOOLEAN
      BY <1>1 DEF TpdoType
    <2> HIDE DEF timer, p
    <2> QED  BY <2>1
  <1>6. tpdo_events(t, dt) = t \/ tpdo_events(t, dt) = [t EXCEPT !.tpdo.eventTimer = timer, !.tpdo.sendRequest = request]
    BY <1>1 DEF tpdo_events, TpdoType
  <1> HIDE DEF timer, request
  <1>7. [t EXCEPT !.tpdo.eventTimer = timer, !.tpdo.sendRequest = request] = txWith(t, q2, t.flagged, t.sent)
    <2> DEFINE k == [t EXCEPT !.tpdo = q1]
    <2>1. [t EXCEPT !.tpdo.eventTimer = timer, !.tpdo.sendRequest = request]
            = [k EXCEPT !.tpdo = withRequest(k.tpdo, request)]
      BY DEF withEventTimer, withRequest
    <2> HIDE DEF q1
    <2>2. k = [tpdo |-> q1, flagged |-> t.flagged, errs |-> t.errs, sent |-> t.sent]
      BY <1>3
    <2> HIDE DEF k
    <2>3. k.tpdo = q1
      BY <2>2
    <2>4. [k EXCEPT !.tpdo = q2] = [tpdo |-> q2, flagged |-> t.flagged, errs |-> t.errs, sent |-> t.sent]
      <3> HIDE DEF q2
      <3> QED  BY <2>2
    <2> QED  BY <2>1, <2>3, <2>4 DEF txWith
  <1>8. tpdo_inhibited(t, dt) = txWith(t, q3, t.flagged, t.sent)
    BY <1>3 DEF txWith, withInhibitTimer, tpdo_inhibited
  <1> HIDE DEF left
  <1>9. TpdoOK(q2) /\ q2.valid
    <2>1. TpdoOK(q1) /\ q1.valid
      BY <1>1, <1>4, TpdoTimed
    <2> HIDE DEF q1
    <2> QED  BY <1>5, <2>1, TpdoTimed
  <1>10. TpdoOK(q3) /\ q3.valid
    BY <1>1, <1>4, TpdoTimed
  <1> HIDE DEF q2, q3
  <1>11. TpdoReady(txWith(t, q2, t.flagged, t.sent)) /\ TpdoReady(txWith(t, q3, t.flagged, t.sent))
    BY <1>9, <1>10, TxWith
  <1> QED  BY <1>6, <1>7, <1>8, <1>11

\* The cycle of a TPDO.
LEMMA TpdoCycles ==
    ASSUME NEW t, TpdoReady(t), NEW sy
    PROVE  TpdoReady(tpdo_cycle(t, sy))
  <1> DEFINE p == t.tpdo
             begun == IF p.syncCounter # 255 THEN p.syncCounter
                      ELSE IF sy.counterOverflowValue # 0 /\ p.syncStartValue # 0 THEN 254
                      ELSE p.transmissionType \div 2 + 1
             again == reloaded(p)
             less  == IF begun = 254 THEN 254 ELSE begun - 1
             ready == txWith(t, withCounter(p, again), t.flagged, t.sent)
             wait  == txWith(t, withCounter(p, less), t.flagged, t.sent)
             n == tpdo_cycle(t, sy)
  <1>1. p \in TpdoType /\ TpdoOK(p) /\ p.valid
    BY DEF TpdoReady, TpdoOK
  <1>2. p.syncCounter \in Int /\ p.transmissionType \in 0..255
    BY <1>1 DEF TpdoType
  <1>3. t = [tpdo |-> t.tpdo, flagged |-> t.flagged, errs |-> t.errs, sent |-> t.sent]
    BY DEF TpdoReady
  <1>4. begun \in Int
    <2>1. p.transmissionType \div 2 + 1 \in Int
      BY <1>2
    <2> HIDE DEF p
    <2> QED  BY <1>2, <2>1
  <1>5. again \in Int /\ less \in Int
    <2> HIDE DEF begun
    <2> QED  BY <1>2, <1>4 DEF reloaded
  <1>6. \/ n = CO_TPDOsend([t EXCEPT !.tpdo.syncCounter = again])
        \/ n = [t EXCEPT !.tpdo.syncCounter = less]
    BY DEF tpdo_cycle
  <1> HIDE DEF again, less, begun
  <1>7. [t EXCEPT !.tpdo.syncCounter = again] = ready /\ [t EXCEPT !.tpdo.syncCounter = less] = wait
    BY <1>3 DEF txWith, withCounter
  <1>8. /\ TpdoOK(withCounter(p, again)) /\ withCounter(p, again).valid
        /\ TpdoOK(withCounter(p, less)) /\ withCounter(p, less).valid
    BY <1>1, <1>5, TpdoTimed
  <1>9. TpdoReady(ready) /\ TpdoReady(wait)
    BY <1>8, TxWith
  <1> HIDE DEF ready, wait
  <1>10. TpdoReady(CO_TPDOsend(ready))
    BY <1>9, TpdoSends
  <1> QED  BY <1>6, <1>7, <1>9, <1>10

\* CO_TPDO_process keeps the order of the TPDO.
LEMMA TpdoProcessed ==
    ASSUME NEW p, TpdoOK(p), NEW flags, NEW es, "GENERIC_SOFTWARE_ERROR" \notin es, NEW sy, NEW dt \in Nat,
           NEW operates, NEW syncWas
    PROVE  LET n == CO_TPDO_process(p, flags, es, sy, dt, operates, syncWas) IN
           TpdoOK(n.tpdo) /\ "GENERIC_SOFTWARE_ERROR" \notin n.errs
  <1> DEFINE t == [tpdo |-> p, flagged |-> flags, errs |-> es, sent |-> FALSE]
             n == CO_TPDO_process(p, flags, es, sy, dt, operates, syncWas)
             idle == tpdo_idle(p)
             e == tpdo_events(t, dt)
             done == tpdo_sending(e, sy, dt, syncWas)
  <1>1. n = IF ~p.valid \/ ~operates THEN [t EXCEPT !.tpdo = tpdo_idle(@)] ELSE done
    BY DEF CO_TPDO_process
  <1>2. [t EXCEPT !.tpdo = tpdo_idle(@)] = [tpdo |-> idle, flagged |-> flags, errs |-> es, sent |-> FALSE]
    <2>1. t.tpdo = p
      OBVIOUS
    <2>2. [t EXCEPT !.tpdo = idle] = [tpdo |-> idle, flagged |-> flags, errs |-> es, sent |-> FALSE]
      <3> HIDE DEF idle
      <3>1. \A s : [[tpdo |-> p, flagged |-> flags, errs |-> es, sent |-> s] EXCEPT !.tpdo = idle]
                     = [tpdo |-> idle, flagged |-> flags, errs |-> es, sent |-> s]
        OBVIOUS
      <3> QED  BY <3>1, Zenon
    <2> HIDE DEF t
    <2>3. [t EXCEPT !.tpdo = tpdo_idle(@)] = [t EXCEPT !.tpdo = idle]
      BY <2>1
    <2> HIDE DEF idle
    <2> QED  BY <2>2, <2>3
  <1>3. TpdoOK(idle)
    <2> DEFINE m1 == withRequest(p, TRUE)
               m2 == withInhibitTimer(m1, 0)
               m3 == withEventTimer(m2, 0)
               m  == withCounter(m3, 255)
    <2>1. idle = m
      BY DEF tpdo_idle, withRequest, withInhibitTimer, withEventTimer, withCounter
    <2>2. TpdoOK(m1)
      BY TpdoTimed
    <2> HIDE DEF m1
    <2>3. TpdoOK(m2)
      BY <2>2, TpdoTimed
    <2> HIDE DEF m2
    <2>4. TpdoOK(m3)
      BY <2>3, TpdoTimed
    <2> HIDE DEF m3
    <2>5. TpdoOK(m)
      BY <2>4, TpdoTimed
    <2> HIDE DEF m, idle
    <2> QED  BY <2>1, <2>5
  <1>4. ASSUME p.valid
        PROVE  TpdoReady(done)
    <2>1. t = [tpdo |-> t.tpdo, flagged |-> t.flagged, errs |-> t.errs, sent |-> t.sent] /\ t.tpdo = p /\ t.errs = es
      OBVIOUS
    <2> HIDE DEF t
    <2>2. TpdoReady(t)
      BY <1>4, <2>1 DEF TpdoReady
    <2>3. TpdoReady(e)
      BY <2>2, TpdoEvents
    <2> HIDE DEF e
    <2> DEFINE h == tpdo_inhibited(e, dt)
               a == countdown(e.tpdo.inhibitTimer, dt) = 0
    <2>4. TpdoReady(h)
      BY <2>3, TpdoEvents
    <2>5. TpdoReady(CO_TPDOsend(h)) /\ TpdoReady(CO_TPDOsend(e)) /\ TpdoReady(tpdo_cycle(e, sy))
      BY <2>3, <2>4, TpdoSends, TpdoCycles
    <2>6. e.tpdo.transmissionType \in 0..255
      BY <2>3 DEF TpdoReady, TpdoOK, TpdoType
    <2> DEFINE type == e.tpdo.transmissionType
    <2>7. done \in {tpdo_requested(h, a), e, tpdo_requested(e, TRUE), tpdo_cycle(e, sy)}
      <3> HIDE DEF h, a
      <3>1. CASE type >= EVENT_LO
        <4>1. ~(type < EVENT_LO) /\ type # SYNC_ACYCLIC
          BY <2>6, <3>1 DEF EVENT_LO, SYNC_ACYCLIC
        <4>2. done = tpdo_requested(h, a)
          BY <3>1, <4>1 DEF tpdo_sending, h, a
        <4> HIDE DEF done
        <4> QED  BY <4>2
      <3>2. CASE type < EVENT_LO /\ ~syncWas
        <4>1. ~(type >= EVENT_LO)
          BY <2>6, <3>2 DEF EVENT_LO
        <4>2. done = e
          BY <3>2, <4>1 DEF tpdo_sending
        <4> HIDE DEF done
        <4> QED  BY <4>2
      <3>3. CASE type < EVENT_LO /\ syncWas /\ type = SYNC_ACYCLIC
        <4>1. ~(type >= EVENT_LO)
          BY <2>6, <3>3 DEF EVENT_LO
        <4>2. done = tpdo_requested(e, TRUE)
          BY <3>3, <4>1 DEF tpdo_sending
        <4> HIDE DEF done
        <4> QED  BY <4>2
      <3>4. CASE type < EVENT_LO /\ syncWas /\ type # SYNC_ACYCLIC
        <4>1. ~(type >= EVENT_LO)
          BY <2>6, <3>4 DEF EVENT_LO
        <4>2. done = tpdo_cycle(e, sy)
          BY <3>4, <4>1 DEF tpdo_sending
        <4> HIDE DEF done
        <4> QED  BY <4>2
      <3>5. type >= EVENT_LO \/ type < EVENT_LO
        BY <2>6 DEF EVENT_LO
      <3> QED  BY <3>1, <3>2, <3>3, <3>4, <3>5
    <2>8. tpdo_requested(h, a) \in {h, CO_TPDOsend(h)} /\ tpdo_requested(e, TRUE) \in {e, CO_TPDOsend(e)}
      <3> HIDE DEF h, a
      <3> QED  BY DEF tpdo_requested
    <2> HIDE DEF h, a, done
    <2> QED  BY <2>3, <2>4, <2>5, <2>7, <2>8
  <1> HIDE DEF idle, done
  <1>5. CASE ~p.valid \/ ~operates
    <2>1. n = [tpdo |-> idle, flagged |-> flags, errs |-> es, sent |-> FALSE]
      <3> HIDE DEF t, n
      <3> QED  BY <1>1, <1>2, <1>5
    <2> HIDE DEF n
    <2> QED  BY <1>3, <2>1 DEF n
  <1>6. CASE p.valid /\ operates
    <2>1. n = done
      <3> HIDE DEF t, n
      <3> QED  BY <1>1, <1>6
    <2> HIDE DEF n
    <2> QED  BY <1>4, <1>6, <2>1 DEF n, TpdoReady
  <1> QED  BY <1>5, <1>6
-----------------------------------------------------------------------------
(* The process data of a device                                             *)

\* What a scenario has is of its type.
LEMMA ScenarioTypes ==
    ASSUME scenario \in DOMAIN Scenarios
    PROVE  /\ Here.rpdo \subseteq PdoOd /\ Here.tpdo \subseteq PdoOd
           /\ Here.r14xx \subseteq CommunicationWrites({5}) /\ Here.r16xx \subseteq MappingWrites
           /\ Here.t18xx \subseteq CommunicationWrites({3, 5, 6}) /\ Here.t1Axx \subseteq MappingWrites
           /\ Here.sync \in SyncParameters /\ Here.SYNCs \subseteq [DLC : Nat, counter : Nat]
           /\ Here.s1005 \subseteq SyncCobIds /\ Here.s1006 \subseteq Nat /\ Here.s1019 \subseteq Nat
           /\ Here.DLCs \subseteq Nat /\ Here.times \subseteq Nat
  <1>1. PdoParameters \subseteq PdoOd
    <2>1. Maps \subseteq PdoMaps /\ CobIds \subseteq PdoCobIds
      BY DEF Maps, PdoMaps, CobIds, PdoCobIds, PdoNames
    <2>2. [1..MaxMapped -> Maps] \subseteq [1..MaxMapped -> PdoMaps]
      BY <2>1
    <2> QED  BY <2>1, <2>2 DEF PdoParameters, PdoOd
  <1>2. /\ Here.rpdo \subseteq PdoParameters /\ Here.tpdo \subseteq PdoParameters
        /\ Here.r14xx \subseteq CommunicationWrites({5}) /\ Here.r16xx \subseteq MappingWrites
        /\ Here.t18xx \subseteq CommunicationWrites({3, 5, 6}) /\ Here.t1Axx \subseteq MappingWrites
        /\ Here.sync \in SyncParameters /\ Here.SYNCs \subseteq [DLC : Nat, counter : Nat]
        /\ Here.s1005 \subseteq SyncCobIds /\ Here.s1006 \subseteq Nat /\ Here.s1019 \subseteq Nat
        /\ Here.DLCs \subseteq Nat /\ Here.times \subseteq Nat
    BY ScenariosAssumption, Zenon DEF Here
  <1> QED  BY <1>1, <1>2

\* CO_SYNC_process reports errors of SYNC messages only.
LEMMA SyncErrors ==
    ASSUME NEW sy, NEW es, "GENERIC_SOFTWARE_ERROR" \notin es, NEW active, NEW dt
    PROVE  "GENERIC_SOFTWARE_ERROR" \notin CO_SYNC_process(sy, es, active, dt).errs
  <1> DEFINE r == IF active THEN sync_window(sync_due(sync_taken(sy, dt))) ELSE sync_idle(sy)
  <1>1. CO_SYNC_process(sy, es, active, dt) = sync_reported(r, es, active)
    BY DEF CO_SYNC_process
  <1> HIDE DEF r
  <1>2. "GENERIC_SOFTWARE_ERROR" \notin sync_reported(r, es, active).errs
    BY DEF sync_reported
  <1> QED  BY <1>1, <1>2

\* The device is set up.
LEMMA PdoSetUp ==
    ASSUME NEW od1 \in PdoOd, NEW od2 \in PdoOd
    PROVE  LET r == CO_RPDO_init(od1, {}).rpdo
               t == CO_TPDO_init(od2, {}).tpdo
           IN  /\ RpdoOK(r) /\ TpdoOK(t)
               /\ "GENERIC_SOFTWARE_ERROR" \notin CO_TPDO_init(t.od, CO_RPDO_init(r.od, {}).errs).errs
  <1> DEFINE r == CO_RPDO_init(od1, {}).rpdo
             t == CO_TPDO_init(od2, {}).tpdo
             es == CO_RPDO_init(r.od, {}).errs
  <1>1. RpdoOK(r) /\ r.od = od1
    BY RpdoInit
  <1>2. TpdoOK(t) /\ t.od = od2
    BY TpdoInit
  <1>3. es \subseteq {"PDO_WRONG_MAPPING"}
    <2>1. es = CO_RPDO_init(od1, {}).errs
      BY <1>1
    <2>2. CO_RPDO_init(od1, {}).errs \subseteq {} \cup {"PDO_WRONG_MAPPING"}
      BY RpdoInit
    <2> HIDE DEF es
    <2> QED  BY <2>1, <2>2
  <1> HIDE DEF es
  <1>4. CO_TPDO_init(t.od, es).errs \subseteq es \cup {"PDO_WRONG_MAPPING"}
    <2>1. CO_TPDO_init(od2, es).errs \subseteq es \cup {"PDO_WRONG_MAPPING"}
      BY TpdoInit
    <2> QED  BY <1>2, <2>1
  <1> HIDE DEF r, t
  <1> QED  BY <1>1, <1>2, <1>3, <1>4 DEF r, t, es

\* The first state.
LEMMA PdoInit == Init => PdoInv
  <1> SUFFICES ASSUME Init PROVE PdoInv
    OBVIOUS
  <1>1. scenario \in DOMAIN Scenarios /\ messages = 0
    BY DEF Init
  <1>2. PICK od1 \in Here.rpdo : rpdo = CO_RPDO_init(od1, {}).rpdo
    BY DEF Init
  <1>3. PICK od2 \in Here.tpdo : tpdo = CO_TPDO_init(od2, {}).tpdo
    BY DEF Init
  <1>4. od1 \in PdoOd /\ od2 \in PdoOd
    BY <1>1, ScenarioTypes
  <1>5. errs = CO_TPDO_init(tpdo.od, CO_RPDO_init(rpdo.od, {}).errs).errs
    BY DEF Init
  <1> QED  BY <1>1, <1>2, <1>3, <1>4, <1>5, PdoSetUp DEF PdoInv

\* A call of the three functions.
LEMMA PdoProcess ==
    ASSUME PdoInv, NEW dt \in Nat, Process(dt)
    PROVE  PdoInv'
  <1> DEFINE s == CO_SYNC_process(sync, errs, nmt # "STOPPED", dt)
             was == s.status = "RX_TX"
             r == CO_RPDO_process(rpdo, vals, s.errs, s.sync, dt, operational, was)
             t == CO_TPDO_process(tpdo, flagged, r.errs, s.sync, dt, operational, was)
  <1>1. RpdoOK(rpdo) /\ TpdoOK(tpdo) /\ "GENERIC_SOFTWARE_ERROR" \notin errs
    BY DEF PdoInv
  <1>2. rpdo' = r.rpdo /\ tpdo' = t.tpdo /\ errs' = t.errs /\ UNCHANGED <<scenario, messages>>
    BY DEF Process
  <1>3. "GENERIC_SOFTWARE_ERROR" \notin s.errs
    BY <1>1, SyncErrors
  <1> HIDE DEF s, was
  <1>4. RpdoOK(r.rpdo) /\ "GENERIC_SOFTWARE_ERROR" \notin r.errs
    BY <1>1, <1>3, RpdoProcessed
  <1> HIDE DEF r
  <1>5. TpdoOK(t.tpdo) /\ "GENERIC_SOFTWARE_ERROR" \notin t.errs
    BY <1>1, <1>4, TpdoProcessed
  <1> HIDE DEF t
  <1> QED  BY <1>2, <1>4, <1>5 DEF PdoInv

\* What the surroundings do.
LEMMA PdoSurroundings ==
    ASSUME PdoInv, Surroundings, UNCHANGED scenario
    PROVE  PdoInv'
  <1>1. /\ RpdoOK(rpdo) /\ TpdoOK(tpdo) /\ "GENERIC_SOFTWARE_ERROR" \notin errs
        /\ scenario \in DOMAIN Scenarios /\ messages \in Nat
    BY DEF PdoInv
  <1>2. rpdo.od \in PdoOd /\ tpdo.od \in PdoOd
    BY <1>1 DEF RpdoOK, RpdoType, TpdoOK, TpdoType
  <1>3. CASE \E x \in Here.states \ {nmt} : Command(x)
    BY <1>1, <1>3 DEF Command, objects, rpdoGhosts, PdoInv
  <1>4. CASE \E m \in Here.SYNCs : Sync(m)
    BY <1>1, <1>4 DEF Sync, PdoInv
  <1>5. ASSUME NEW DLC \in Here.DLCs, Message(DLC)
        PROVE  PdoInv'
    <2>1. DLC \in Nat /\ messages + 1 \in Nat
      BY <1>1, ScenarioTypes
    <2>2. /\ rpdo' = CO_PDO_receive(rpdo, sync, DLC, messages + 1) /\ messages' = messages + 1
          /\ UNCHANGED <<tpdo, errs>>
      BY <1>5 DEF Message
    <2>3. RpdoOK(rpdo')
      BY <1>1, <2>1, <2>2, RpdoReceived
    <2> QED  BY <1>1, <2>1, <2>2, <2>3 DEF PdoInv
  <1>6. CASE WriteRpdo
    <2>1. UNCHANGED <<tpdo, errs, messages>>
      BY <1>6 DEF WriteRpdo
    <2>2. \/ \E w \in Here.r14xx : rpdo' = OD_write_14xx(rpdo, w[1], w[2])
          \/ \E w \in Here.r16xx : rpdo' = OD_write_PDO_mapping(rpdo, w[1], w[2], TRUE).pdo
      BY <1>6 DEF WriteRpdo
    <2>3. RpdoOK(rpdo')
      <3>1. ASSUME NEW w \in Here.r14xx, rpdo' = OD_write_14xx(rpdo, w[1], w[2])
            PROVE  RpdoOK(rpdo')
        <4>1. w \in CommunicationWrites({5})
          BY <1>1, ScenarioTypes
        <4>2. RpdoOK(OD_write_14xx(rpdo, w[1], w[2]))
          BY <1>1, <4>1, RpdoWritten
        <4> QED  BY <3>1, <4>2
      <3>2. ASSUME NEW w \in Here.r16xx, rpdo' = OD_write_PDO_mapping(rpdo, w[1], w[2], TRUE).pdo
            PROVE  RpdoOK(rpdo')
        <4>1. w \in MappingWrites
          BY <1>1, ScenarioTypes
        <4>2. RpdoOK(OD_write_PDO_mapping(rpdo, w[1], w[2], TRUE).pdo)
          BY <1>1, <4>1, RpdoMapped
        <4> QED  BY <3>2, <4>2
      <3> QED  BY <2>2, <3>1, <3>2
    <2> QED  BY <1>1, <2>1, <2>3 DEF PdoInv
  <1>7. CASE WriteTpdo
    <2>1. UNCHANGED <<rpdo, errs, messages>>
      BY <1>7 DEF WriteTpdo, rpdoGhosts
    <2>2. \/ \E w \in Here.t18xx : tpdo' = OD_write_18xx(tpdo, w[1], w[2])
          \/ \E w \in Here.t1Axx : tpdo' = OD_write_PDO_mapping(tpdo, w[1], w[2], FALSE).pdo
      BY <1>7 DEF WriteTpdo
    <2>3. TpdoOK(tpdo')
      <3>1. ASSUME NEW w \in Here.t18xx, tpdo' = OD_write_18xx(tpdo, w[1], w[2])
            PROVE  TpdoOK(tpdo')
        <4>1. w \in CommunicationWrites({3, 5, 6})
          BY <1>1, ScenarioTypes
        <4>2. TpdoOK(OD_write_18xx(tpdo, w[1], w[2]))
          BY <1>1, <4>1, TpdoWritten
        <4> QED  BY <3>1, <4>2
      <3>2. ASSUME NEW w \in Here.t1Axx, tpdo' = OD_write_PDO_mapping(tpdo, w[1], w[2], FALSE).pdo
            PROVE  TpdoOK(tpdo')
        <4>1. w \in MappingWrites
          BY <1>1, ScenarioTypes
        <4>2. TpdoOK(OD_write_PDO_mapping(tpdo, w[1], w[2], FALSE).pdo)
          BY <1>1, <4>1, TpdoMapped
        <4> QED  BY <3>2, <4>2
      <3> QED  BY <2>2, <3>1, <3>2
    <2> QED  BY <1>1, <2>1, <2>3 DEF PdoInv
  <1>8. CASE WriteSync
    BY <1>1, <1>8 DEF WriteSync, rpdoGhosts, PdoInv
  <1>9. CASE Request
    <2>1. UNCHANGED <<rpdo, errs, messages>>
      BY <1>9 DEF Request, rpdoGhosts
    <2>2. tpdo' = tpdo \/ tpdo' = withRequest(tpdo, TRUE)
      BY <1>9 DEF Request, CO_TPDOsendRequest, withRequest
    <2>3. TpdoOK(withRequest(tpdo, TRUE))
      BY <1>1, TpdoTimed
    <2> QED  BY <1>1, <2>1, <2>2, <2>3 DEF PdoInv
  <1>10. CASE ResetCommunication
    <2>1. /\ rpdo' = CO_RPDO_init(rpdo.od, {}).rpdo /\ tpdo' = CO_TPDO_init(tpdo.od, {}).tpdo
          /\ errs' = CO_TPDO_init(tpdo.od, CO_RPDO_init(rpdo.od, {}).errs).errs
          /\ UNCHANGED messages
      BY <1>10 DEF ResetCommunication
    <2>2. /\ RpdoOK(rpdo') /\ TpdoOK(tpdo')
          /\ "GENERIC_SOFTWARE_ERROR" \notin CO_TPDO_init(tpdo'.od, CO_RPDO_init(rpdo'.od, {}).errs).errs
      BY <1>2, <2>1, PdoSetUp
    <2>3. rpdo'.od = rpdo.od /\ tpdo'.od = tpdo.od
      <3>1. rpdo'.od = rpdo.od
        BY <1>2, <2>1, RpdoInit
      <3>2. tpdo'.od = tpdo.od
        BY <1>2, <2>1, TpdoInit
      <3> QED  BY <3>1, <3>2
    <2>4. "GENERIC_SOFTWARE_ERROR" \notin errs'
      BY <2>1, <2>2, <2>3
    <2> QED  BY <1>1, <2>1, <2>2, <2>4 DEF PdoInv
  <1> QED  BY <1>3, <1>4, <1>5, <1>6, <1>7, <1>8, <1>9, <1>10 DEF Surroundings

\* Whatever was written in whichever order, a valid PDO exchanges exactly the
\* objects that the dictionary says, under the identifier that is read back,
\* and the code's own test of the lengths never fails (OD_write_PDO_mapping,
\* OD_write_14xx, OD_write_18xx, PDO_initMapping).
THEOREM PdoMapping == Spec => []MappingIsSound
  <1>1. PdoInv /\ [Next]_vars => PdoInv'
    <2> SUFFICES ASSUME PdoInv, [Next]_vars
                 PROVE  PdoInv'
      OBVIOUS
    <2>1. ASSUME NEW dt \in Here.times, Process(dt)
          PROVE  PdoInv'
      <3>1. dt \in Nat
        BY ScenarioTypes DEF PdoInv
      <3> QED  BY <2>1, <3>1, PdoProcess
    <2>2. CASE Surroundings /\ UNCHANGED scenario
      BY <2>2, PdoSurroundings
    <2>3. CASE UNCHANGED vars
      BY <2>3 DEF vars, objects, rpdoGhosts, PdoInv
    <2> QED  BY <2>1, <2>2, <2>3 DEF Next
  <1> QED  BY <1>1, PdoInit, PdoSound, PTL DEF Spec

-----------------------------------------------------------------------------
(* SYNC                                                                     *)

SyncType ==
    [counterOverflowValue : Nat, counter : Nat, CANrxToggle : BOOLEAN, CANrxNew : BOOLEAN,
     receiveError : BOOLEAN, timer : Nat, timeoutError : Nat, syncIsOutsideWindow : BOOLEAN,
     isProducer : BOOLEAN, CAN_ID : PdoNames, ident : PdoNames, DLC : Nat, period : Nat, window : Nat]

\* SYNC with another counter, choice of buffers, message, timer and window.
syncWith(sy, counter, toggle, new, timer, late, outside) ==
    [sy EXCEPT !.counter = counter, !.CANrxToggle = toggle, !.CANrxNew = new, !.timer = timer,
               !.timeoutError = late, !.syncIsOutsideWindow = outside]

\* Only that.
LEMMA SyncWith ==
    ASSUME NEW sy \in SyncType, NEW counter \in Nat, NEW toggle \in BOOLEAN, NEW new \in BOOLEAN, NEW timer \in Nat,
           NEW late \in Nat, NEW outside \in BOOLEAN
    PROVE  LET q == syncWith(sy, counter, toggle, new, timer, late, outside) IN
           /\ q \in SyncType
           /\ q.CANrxToggle <=> toggle
           /\ q.CANrxNew <=> new
  BY DEF syncWith, SyncType

\* The timer is the new one.
LEMMA SyncTimer ==
    ASSUME NEW sy \in SyncType, NEW counter, NEW toggle, NEW new, NEW timer, NEW late, NEW outside
    PROVE  syncWith(sy, counter, toggle, new, timer, late, outside).timer = timer
  BY DEF syncWith, SyncType

\* SYNC after its initialization.
LEMMA SyncInit ==
    ASSUME NEW cobId \in [producer : BOOLEAN, id : PdoNames], NEW period \in Nat, NEW window \in Nat, NEW ovf \in Nat
    PROVE  LET sy == CO_SYNC_init(cobId, period, window, ovf) IN sy \in SyncType /\ ~sy.CANrxNew
  BY DEF CO_SYNC_init, SyncType

\* A SYNC message is taken or refused.
LEMMA SyncReceived ==
    ASSUME NEW sy \in SyncType, NEW msg \in [DLC : Nat, counter : Nat]
    PROVE  LET q == CO_SYNC_receive(sy, msg) IN
           /\ q \in SyncType
           /\ \/ (q.CANrxToggle <=> sy.CANrxToggle) /\ (q.CANrxNew <=> sy.CANrxNew)
              \/ (q.CANrxToggle <=> ~sy.CANrxToggle) /\ q.CANrxNew
  <1> DEFINE q == CO_SYNC_receive(sy, msg)
             wanted == IF sy.counterOverflowValue = 0 THEN 0 ELSE 1
             counter == IF wanted = 1 THEN msg.counter ELSE sy.counter
             taken == [sy EXCEPT !.counter = counter, !.CANrxToggle = ~sy.CANrxToggle, !.CANrxNew = TRUE]
  <1>1. counter \in Nat
    <2>1. sy.counter \in Nat /\ msg.counter \in Nat
      BY DEF SyncType
    <2> QED  BY <2>1
  <1>2. q = IF msg.DLC # wanted THEN [sy EXCEPT !.receiveError = TRUE] ELSE taken
    BY DEF CO_SYNC_receive
  <1> HIDE DEF counter, q, wanted
  <1>3. CASE q = [sy EXCEPT !.receiveError = TRUE]
    BY <1>3 DEF SyncType, q
  <1>4. CASE q = taken
    <2>1. taken = syncWith(sy, counter, ~sy.CANrxToggle, TRUE, sy.timer, sy.timeoutError, sy.syncIsOutsideWindow)
      BY <1>1 DEF SyncType, syncWith
    <2>2. /\ (~sy.CANrxToggle) \in BOOLEAN /\ sy.timer \in Nat /\ sy.timeoutError \in Nat
          /\ sy.syncIsOutsideWindow \in BOOLEAN
      BY DEF SyncType
    <2> DEFINE toggle == ~sy.CANrxToggle
    <2>3. taken \in SyncType /\ (taken.CANrxToggle <=> toggle) /\ taken.CANrxNew
      <3>1. toggle \in BOOLEAN /\ TRUE \in BOOLEAN
        BY <2>2
      <3> HIDE DEF taken, toggle
      <3>2. taken = syncWith(sy, counter, toggle, TRUE, sy.timer, sy.timeoutError, sy.syncIsOutsideWindow)
        BY <2>1 DEF toggle
      <3> QED  BY <1>1, <2>2, <3>1, <3>2, SyncWith, Zenon
    <2> HIDE DEF taken
    <2> QED  BY <1>4, <2>3 DEF q
  <1> QED  BY <1>2, <1>3, <1>4

\* The same message and the same choice of buffers.
SameToggle(q, sy) == (q.CANrxToggle <=> sy.CANrxToggle) /\ (q.CANrxNew <=> sy.CANrxNew)

\* A write to SYNC leaves the messages alone.
LEMMA SyncWritten ==
    ASSUME NEW sy \in SyncType
    PROVE  /\ \A cobId \in [producer : BOOLEAN, id : PdoNames] :
                 OD_write_1005(sy, cobId) \in SyncType /\ SameToggle(OD_write_1005(sy, cobId), sy)
           /\ \A t \in Nat : LET q == [sy EXCEPT !.period = t] IN q \in SyncType /\ SameToggle(q, sy)
           /\ \A ovf \in Nat : OD_write_1019(sy, ovf) \in SyncType /\ SameToggle(OD_write_1019(sy, ovf), sy)
  <1>1. ASSUME NEW cobId \in [producer : BOOLEAN, id : PdoNames]
        PROVE  OD_write_1005(sy, cobId) \in SyncType /\ SameToggle(OD_write_1005(sy, cobId), sy)
    BY DEF OD_write_1005, SyncType, SameToggle
  <1>2. ASSUME NEW t \in Nat
        PROVE  LET q == [sy EXCEPT !.period = t] IN q \in SyncType /\ SameToggle(q, sy)
    BY DEF SyncType, SameToggle
  <1>3. ASSUME NEW ovf \in Nat
        PROVE  OD_write_1019(sy, ovf) \in SyncType /\ SameToggle(OD_write_1019(sy, ovf), sy)
    BY DEF OD_write_1019, SyncType, SameToggle
  <1> QED  BY <1>1, <1>2, <1>3

\* What the blocks of CO_SYNC_process hand on.
SyncStep(r, status) ==
    /\ r = [sync |-> r.sync, status |-> r.status, late |-> r.late]
    /\ r.sync \in SyncType /\ ~r.sync.CANrxNew /\ r.status = status

\* A call takes the message that came ...
LEMMA SyncTaken ==
    ASSUME NEW sy \in SyncType, NEW dt \in Nat
    PROVE  LET r == sync_taken(sy, dt) IN
           /\ SyncStep(r, IF sy.CANrxNew THEN "RX_TX" ELSE "NONE")
           /\ sy.CANrxNew => r.sync.timer = 0
           /\ r.sync.CANrxToggle <=> sy.CANrxToggle
  <1> DEFINE r == sync_taken(sy, dt)
             w(t) == syncWith(sy, sy.counter, sy.CANrxToggle, FALSE, t, sy.timeoutError, sy.syncIsOutsideWindow)
  <1>1. TimerLimit \in Nat
    BY TimerLimitAssumption
  <1>2. /\ sy.counter \in Nat /\ sy.CANrxToggle \in BOOLEAN /\ FALSE \in BOOLEAN /\ sy.timeoutError \in Nat
        /\ sy.syncIsOutsideWindow \in BOOLEAN /\ advanced(sy.timer, dt) \in Nat
    BY <1>1 DEF SyncType, advanced
  <1>3. ASSUME NEW t \in Nat
        PROVE  w(t) \in SyncType /\ (w(t).CANrxToggle <=> sy.CANrxToggle) /\ ~w(t).CANrxNew /\ w(t).timer = t
    <2>1. w(t) \in SyncType /\ (w(t).CANrxToggle <=> sy.CANrxToggle) /\ ~w(t).CANrxNew
      BY <1>2, SyncWith, Zenon
    <2>2. w(t).timer = t
      BY DEF syncWith, SyncType
    <2> QED  BY <2>1, <2>2
  <1>4. CASE sy.CANrxNew
    <2>1. [sy EXCEPT !.timer = 0, !.CANrxNew = FALSE] = w(0)
      BY DEF syncWith, SyncType
    <2>2. r = [sync |-> [sy EXCEPT !.timer = 0, !.CANrxNew = FALSE], status |-> "RX_TX", late |-> FALSE]
      BY <1>4 DEF sync_taken
    <2> HIDE DEF w, r
    <2>3. r = [sync |-> w(0), status |-> "RX_TX", late |-> FALSE]
      BY <2>1, <2>2
    <2>4. r.sync = w(0) /\ r.status = "RX_TX" /\ r = [sync |-> r.sync, status |-> r.status, late |-> r.late]
      BY <2>3
    <2> QED  BY <1>3, <1>4, <2>4 DEF SyncStep, r
  <1>5. CASE ~sy.CANrxNew
    <2> DEFINE t == advanced(sy.timer, dt)
    <2>1. [sy EXCEPT !.timer = t] = w(t)
      <3> HIDE DEF t
      <3>1. sy.CANrxNew = FALSE
        BY <1>5 DEF SyncType
      <3> QED  BY <3>1 DEF syncWith, SyncType
    <2>2. r = [sync |-> [sy EXCEPT !.timer = t], status |-> "NONE", late |-> FALSE]
      BY <1>5 DEF sync_taken
    <2> HIDE DEF w, r, t
    <2>3. r = [sync |-> w(t), status |-> "NONE", late |-> FALSE]
      BY <2>1, <2>2
    <2>4. r.sync = w(t) /\ r.status = "NONE" /\ r = [sync |-> r.sync, status |-> r.status, late |-> r.late]
      BY <2>3
    <2>5. t \in Nat
      BY <1>2 DEF t
    <2> QED  BY <1>3, <1>5, <2>4, <2>5 DEF SyncStep, r
  <1> QED  BY <1>4, <1>5

\* ... or sends one when none came and it is time ...
LEMMA SyncDue ==
    ASSUME NEW r, NEW status, SyncStep(r, status)
    PROVE  LET n == sync_due(r) IN
           \/ SyncStep(n, status) /\ n.sync.timer = r.sync.timer /\ (n.sync.CANrxToggle <=> r.sync.CANrxToggle)
           \/ /\ r.sync.timer # 0 /\ SyncStep(n, "RX_TX") /\ n.sync.timer = 0
              /\ n.sync.CANrxToggle <=> ~r.sync.CANrxToggle
  <1> DEFINE n == sync_due(r)
             sy == r.sync
             next == (sy.counter + 1) % 256
             counter == IF next > sy.counterOverflowValue THEN 1 ELSE next
             toggle == ~sy.CANrxToggle
             w(c, b, t, e) == syncWith(sy, c, b, FALSE, t, e, sy.syncIsOutsideWindow)
  <1>1. sy \in SyncType /\ ~sy.CANrxNew /\ r.status = status
    BY DEF SyncStep
  <1>2. r = [sync |-> sy, status |-> r.status, late |-> r.late]
    BY DEF SyncStep
  <1>3. /\ counter \in Nat /\ toggle \in BOOLEAN /\ sy.timer \in Nat /\ sy.timeoutError \in Nat /\ sy.counter \in Nat
        /\ sy.syncIsOutsideWindow \in BOOLEAN /\ sy.CANrxToggle \in BOOLEAN /\ sy.period \in Nat
        /\ sy.CANrxNew = FALSE
    BY <1>1 DEF SyncType
  <1>5. \/ n = r
        \/ n = [r EXCEPT !.sync.timeoutError = 2, !.late = TRUE]
        \/ n = [r EXCEPT !.sync = CO_SYNCsend(sy), !.status = "RX_TX"] /\ sy.period # 0 /\ ~(sy.timer < sy.period)
    BY DEF sync_due
  <1>6. [sy EXCEPT !.timeoutError = 2] = w(sy.counter, sy.CANrxToggle, sy.timer, 2)
    <2> HIDE DEF sy
    <2> QED  BY <1>1, <1>3 DEF syncWith, SyncType
  <1>7. CO_SYNCsend(sy) = w(counter, toggle, 0, sy.timeoutError)
    <2>1. CO_SYNCsend(sy) = [sy EXCEPT !.counter = counter, !.timer = 0, !.CANrxToggle = toggle]
      BY DEF CO_SYNCsend
    <2> HIDE DEF sy, counter, toggle
    <2> QED  BY <1>1, <1>3, <2>1 DEF syncWith, SyncType
  <1> HIDE DEF n, w, counter, toggle
  <1>8. CASE n = r
    BY <1>1, <1>2, <1>8 DEF SyncStep, n
  <1>9. CASE n = [r EXCEPT !.sync.timeoutError = 2, !.late = TRUE]
    <2> DEFINE q == w(sy.counter, sy.CANrxToggle, sy.timer, 2)
    <2>1. n = [sync |-> q, status |-> r.status, late |-> TRUE]
      BY <1>2, <1>6, <1>9
    <2>2. q \in SyncType /\ (q.CANrxToggle <=> sy.CANrxToggle) /\ ~q.CANrxNew /\ q.timer = sy.timer
      <3>1. 2 \in Nat /\ FALSE \in BOOLEAN
        OBVIOUS
      <3> HIDE DEF sy
      <3>2. q \in SyncType /\ (q.CANrxToggle <=> sy.CANrxToggle) /\ ~q.CANrxNew
        BY <1>1, <1>3, <3>1, SyncWith, Zenon DEF w
      <3>3. q.timer = sy.timer
        BY <1>1 DEF w, syncWith, SyncType
      <3> HIDE DEF q
      <3> QED  BY <3>2, <3>3
    <2>3. n.sync = q /\ n.status = r.status /\ n = [sync |-> n.sync, status |-> n.status, late |-> n.late]
      <3> HIDE DEF q
      <3> QED  BY <2>1
    <2> HIDE DEF q
    <2> QED  BY <1>1, <2>2, <2>3 DEF SyncStep, n
  <1>10. CASE n = [r EXCEPT !.sync = CO_SYNCsend(sy), !.status = "RX_TX"] /\ sy.period # 0 /\ ~(sy.timer < sy.period)
    <2> DEFINE q == w(counter, toggle, 0, sy.timeoutError)
    <2>1. n = [sync |-> q, status |-> "RX_TX", late |-> r.late]
      BY <1>2, <1>7, <1>10
    <2>2. q \in SyncType /\ (q.CANrxToggle <=> toggle) /\ ~q.CANrxNew /\ q.timer = 0
      <3>1. 0 \in Nat /\ FALSE \in BOOLEAN
        OBVIOUS
      <3> HIDE DEF sy
      <3>2. counter \in Nat /\ toggle \in BOOLEAN
        BY <1>3 DEF counter, toggle
      <3>3. q \in SyncType /\ (q.CANrxToggle <=> toggle) /\ ~q.CANrxNew
        BY <1>1, <1>3, <3>1, <3>2, SyncWith, Zenon DEF w
      <3>4. q.timer = 0
        BY <1>1 DEF w, syncWith, SyncType
      <3> HIDE DEF q
      <3> QED  BY <3>3, <3>4
    <2>3. n.sync = q /\ n.status = "RX_TX" /\ n = [sync |-> n.sync, status |-> n.status, late |-> n.late]
      <3> HIDE DEF q
      <3> QED  BY <2>1
    <2>4. sy.timer # 0
      BY <1>3, <1>10
    <2> HIDE DEF q
    <2> QED  BY <1>1, <2>2, <2>3, <2>4 DEF SyncStep, n, toggle
  <1> QED  BY <1>5, <1>8, <1>9, <1>10

\* ... and the window does not end at once.
LEMMA SyncWindow ==
    ASSUME NEW r, NEW status, SyncStep(r, status)
    PROVE  LET n == sync_window(r) IN
           /\ SyncStep(n, status) \/ (SyncStep(n, "PASSED_WINDOW") /\ r.sync.timer # 0)
           /\ n.sync.CANrxToggle <=> r.sync.CANrxToggle
  <1> DEFINE n == sync_window(r)
             sy == r.sync
             outside == sy.window > 0 /\ sy.timer > sy.window
             st == IF outside /\ ~sy.syncIsOutsideWindow THEN "PASSED_WINDOW" ELSE r.status
             q == syncWith(sy, sy.counter, sy.CANrxToggle, FALSE, sy.timer, sy.timeoutError, outside)
  <1>1. sy \in SyncType /\ ~sy.CANrxNew /\ r.status = status
    BY DEF SyncStep
  <1>2. r = [sync |-> sy, status |-> r.status, late |-> r.late]
    BY DEF SyncStep
  <1>3. /\ outside \in BOOLEAN /\ sy.timer \in Nat /\ sy.timeoutError \in Nat /\ sy.counter \in Nat
        /\ sy.CANrxToggle \in BOOLEAN /\ sy.window \in Nat /\ sy.CANrxNew = FALSE
    BY <1>1 DEF SyncType
  <1>4. q \in SyncType /\ (q.CANrxToggle <=> sy.CANrxToggle) /\ ~q.CANrxNew
    <2> HIDE DEF sy, outside
    <2> QED  BY <1>1, <1>3, SyncWith
  <1>5. [sy EXCEPT !.syncIsOutsideWindow = outside] = q
    <2> HIDE DEF sy, outside
    <2> QED  BY <1>1, <1>3 DEF syncWith, SyncType
  <1>6. n = [r EXCEPT !.status = st, !.sync.syncIsOutsideWindow = outside]
    BY DEF sync_window
  <1>7. st = status \/ (st = "PASSED_WINDOW" /\ sy.timer # 0)
    BY <1>1, <1>3
  <1> HIDE DEF q, st, outside, n
  <1>8. n = [sync |-> q, status |-> st, late |-> r.late]
    BY <1>2, <1>5, <1>6
  <1>9. n.sync = q /\ n.status = st /\ n = [sync |-> n.sync, status |-> n.status, late |-> n.late]
    BY <1>8
  <1> QED  BY <1>4, <1>7, <1>9 DEF SyncStep, n

\* The PDOs are told of a message that came and of one that was sent.
LEMMA SyncProcessed ==
    ASSUME NEW sy \in SyncType, NEW es, NEW active \in BOOLEAN, NEW dt \in Nat
    PROVE  LET n == CO_SYNC_process(sy, es, active, dt) IN
           /\ n.sync \in SyncType /\ ~n.sync.CANrxNew
           /\ \/ n.sync.CANrxToggle <=> sy.CANrxToggle
              \/ (n.sync.CANrxToggle <=> ~sy.CANrxToggle) /\ active /\ ~sy.CANrxNew
           /\ active => (n.status = "RX_TX" <=> sy.CANrxNew \/ (n.sync.CANrxToggle <=> ~sy.CANrxToggle))
  <1> DEFINE n == CO_SYNC_process(sy, es, active, dt)
             r1 == sync_taken(sy, dt)
             r2 == sync_due(r1)
             r3 == sync_window(r2)
             idle == sync_idle(sy)
  <1>1. sy.CANrxToggle \in BOOLEAN /\ sy.CANrxNew \in BOOLEAN
    BY DEF SyncType
  <1>2. ASSUME NEW r, NEW a, r.sync \in SyncType, ~r.sync.CANrxNew
        PROVE  LET m == sync_reported(r, es, a) IN
               /\ m.sync \in SyncType /\ ~m.sync.CANrxNew /\ m.status = r.status
               /\ m.sync.CANrxToggle <=> r.sync.CANrxToggle
    <2> DEFINE m == sync_reported(r, es, a)
               late == IF r.status = "RX_TX" THEN 1 ELSE r.sync.timeoutError
    <2>1. m.sync = [r.sync EXCEPT !.receiveError = FALSE, !.timeoutError = late] /\ m.status = r.status
      BY DEF sync_reported
    <2>2. late \in Nat
      BY <1>2 DEF SyncType
    <2> HIDE DEF late, m
    <2> QED  BY <1>2, <2>1, <2>2 DEF SyncType, m
  <1>3. CASE active
    <2>1. n = sync_reported(r3, es, active)
      BY <1>3 DEF CO_SYNC_process
    <2>2. /\ SyncStep(r1, IF sy.CANrxNew THEN "RX_TX" ELSE "NONE")
          /\ sy.CANrxNew => r1.sync.timer = 0
          /\ r1.sync.CANrxToggle <=> sy.CANrxToggle
      BY SyncTaken
    <2> DEFINE st == IF sy.CANrxNew THEN "RX_TX" ELSE "NONE"
    <2> HIDE DEF r1
    <2>3. \/ SyncStep(r2, st) /\ r2.sync.timer = r1.sync.timer /\ (r2.sync.CANrxToggle <=> r1.sync.CANrxToggle)
          \/ /\ r1.sync.timer # 0 /\ SyncStep(r2, "RX_TX") /\ r2.sync.timer = 0
             /\ r2.sync.CANrxToggle <=> ~r1.sync.CANrxToggle
      BY <2>2, SyncDue
    <2> HIDE DEF r2
    <2>4. ASSUME NEW s, SyncStep(r2, s)
          PROVE  /\ SyncStep(r3, s) \/ (SyncStep(r3, "PASSED_WINDOW") /\ r2.sync.timer # 0)
                 /\ r3.sync.CANrxToggle <=> r2.sync.CANrxToggle
      BY <2>4, SyncWindow
    <2> HIDE DEF r3
    <2>5. r3.sync \in SyncType /\ ~r3.sync.CANrxNew
      BY <2>3, <2>4 DEF SyncStep
    <2>6. /\ n.sync \in SyncType /\ ~n.sync.CANrxNew /\ n.status = r3.status
          /\ n.sync.CANrxToggle <=> r3.sync.CANrxToggle
      BY <1>2, <2>1, <2>5
    <2>7. \A s : SyncStep(r3, s) => r3.status = s
      BY DEF SyncStep
    <2> HIDE DEF n
    <2>8. CASE sy.CANrxNew
      <3>1. st = "RX_TX" /\ r1.sync.timer = 0
        BY <2>2, <2>8
      <3>2. SyncStep(r2, "RX_TX") /\ r2.sync.timer = 0 /\ (r2.sync.CANrxToggle <=> r1.sync.CANrxToggle)
        BY <2>3, <3>1
      <3>3. SyncStep(r3, "RX_TX") /\ (r3.sync.CANrxToggle <=> r2.sync.CANrxToggle)
        BY <2>4, <3>2
      <3>4. n.status = "RX_TX" /\ (n.sync.CANrxToggle <=> sy.CANrxToggle)
        BY <2>2, <2>6, <2>7, <3>2, <3>3
      <3> QED  BY <2>6, <2>8, <3>4 DEF n
    <2>9. CASE ~sy.CANrxNew /\ SyncStep(r2, st) /\ (r2.sync.CANrxToggle <=> r1.sync.CANrxToggle)
      <3>1. st = "NONE"
        BY <2>9
      <3>2. r3.status \in {"NONE", "PASSED_WINDOW"} /\ (r3.sync.CANrxToggle <=> r2.sync.CANrxToggle)
        BY <2>4, <2>7, <2>9, <3>1
      <3>3. n.status # "RX_TX" /\ (n.sync.CANrxToggle <=> sy.CANrxToggle)
        BY <2>2, <2>6, <2>9, <3>2
      <3> QED  BY <2>6, <2>9, <3>3 DEF n
    <2>10. CASE ~sy.CANrxNew /\ SyncStep(r2, "RX_TX") /\ r2.sync.timer = 0 /\ (r2.sync.CANrxToggle <=> ~r1.sync.CANrxToggle)
      <3>1. r3.status = "RX_TX" /\ (r3.sync.CANrxToggle <=> r2.sync.CANrxToggle)
        BY <2>4, <2>7, <2>10
      <3>2. n.status = "RX_TX" /\ (n.sync.CANrxToggle <=> ~sy.CANrxToggle)
        BY <2>2, <2>6, <2>10, <3>1
      <3> QED  BY <1>3, <2>6, <2>10, <3>2 DEF n
    <2> QED  BY <2>3, <2>8, <2>9, <2>10
  <1>4. CASE ~active
    <2>1. n = sync_reported(idle, es, active)
      BY <1>4 DEF CO_SYNC_process
    <2>2. idle.sync \in SyncType /\ ~idle.sync.CANrxNew /\ (idle.sync.CANrxToggle <=> sy.CANrxToggle)
      <3>1. idle.sync = [sy EXCEPT !.CANrxNew = FALSE, !.receiveError = FALSE, !.counter = 0, !.timer = 0]
        BY DEF sync_idle
      <3> DEFINE base == [sy EXCEPT !.receiveError = FALSE]
                 w == syncWith(base, 0, sy.CANrxToggle, FALSE, 0, sy.timeoutError, sy.syncIsOutsideWindow)
      <3>2. idle.sync = w
        <4> HIDE DEF idle
        <4> QED  BY <3>1 DEF syncWith, SyncType
      <3>3. base \in SyncType
        BY DEF SyncType
      <3>4. 0 \in Nat /\ FALSE \in BOOLEAN /\ sy.timeoutError \in Nat /\ sy.syncIsOutsideWindow \in BOOLEAN
        BY DEF SyncType
      <3>5. w \in SyncType /\ (w.CANrxToggle <=> sy.CANrxToggle) /\ ~w.CANrxNew
        <4> HIDE DEF base
        <4> QED  BY <1>1, <3>3, <3>4, SyncWith, Zenon
      <3> HIDE DEF w, idle
      <3> QED  BY <3>2, <3>5
    <2> HIDE DEF idle
    <2>3. /\ n.sync \in SyncType /\ ~n.sync.CANrxNew /\ (n.sync.CANrxToggle <=> idle.sync.CANrxToggle)
      BY <1>2, <2>1, <2>2
    <2> HIDE DEF n
    <2> QED  BY <1>4, <2>2, <2>3 DEF n
  <1> QED  BY <1>3, <1>4

-----------------------------------------------------------------------------
(* The buffers of an RPDO                                                   *)

\* What is received, and for which objects, is the same.
SameReceiver(q, r) ==
    /\ q.valid <=> r.valid
    /\ q.synchronous <=> r.synchronous
    /\ q.CANrxData = r.CANrxData /\ q.OD_IO = r.OD_IO /\ q.mappedObjectsCount = r.mappedObjectsCount

SameBuffers(q, r) == SameReceiver(q, r) /\ q.CANrxNew = r.CANrxNew

\* The values of the objects after a message.
valuesWith(v, r, data) == [x \in DOMAIN v |-> IF x \in mappedObjects(r) THEN data ELSE v[x]]

\* The report of the length is not about the buffers ...
LEMMA LengthKeeps ==
    ASSUME NEW t, RpdoReady(t)
    PROVE  LET n == rpdo_length_error(t) IN SameBuffers(n.rpdo, t.rpdo) /\ n.vals = t.vals
  <1> DEFINE r == t.rpdo
             q(x) == [r EXCEPT !.receiveError = x]
             n == rpdo_length_error(t)
  <1>1. r \in RpdoType /\ t = [rpdo |-> t.rpdo, vals |-> t.vals, errs |-> t.errs]
    BY DEF RpdoReady, RpdoOK
  <1>2. SameBuffers(r, r) /\ \A x : SameBuffers(q(x), r)
    BY <1>1 DEF RpdoType, SameBuffers, SameReceiver
  <1>3. (n.rpdo = r \/ n.rpdo = q(RxNoError) \/ n.rpdo = q("ACK_ERROR")) /\ n.vals = t.vals
    BY <1>1 DEF rpdo_length_error
  <1> HIDE DEF n, q
  <1> QED  BY <1>2, <1>3 DEF n

\* ... a message leaves its buffer for the objects ...
LEMMA BufferTaken ==
    ASSUME NEW t, RpdoReady(t), NEW b \in 0..1
    PROVE  LET n == rpdo_written(t, b) IN
           /\ SameReceiver(n.rpdo, t.rpdo)
           /\ \A c \in 0..1 : n.rpdo.CANrxNew[c] <=> t.rpdo.CANrxNew[c] /\ c # b
           /\ n.vals = IF t.rpdo.CANrxNew[b] THEN valuesWith(t.vals, t.rpdo, t.rpdo.CANrxData[b]) ELSE t.vals
  <1> DEFINE r == t.rpdo
             news == [r.CANrxNew EXCEPT ![b] = FALSE]
             q == [r EXCEPT !.CANrxNew = news]
             vs == valuesWith(t.vals, r, r.CANrxData[b])
             n == rpdo_written(t, b)
  <1>1. r \in RpdoType /\ r.CANrxNew \in [0..1 -> BOOLEAN]
    BY DEF RpdoReady, RpdoOK, RpdoType
  <1>2. t = [rpdo |-> t.rpdo, vals |-> t.vals, errs |-> t.errs]
    BY DEF RpdoReady
  <1>3. CASE ~r.CANrxNew[b]
    <2>1. n = t
      BY <1>3 DEF rpdo_written
    <2>2. SameReceiver(r, r) /\ \A c \in 0..1 : r.CANrxNew[c] <=> r.CANrxNew[c] /\ c # b
      BY <1>3 DEF SameReceiver
    <2> HIDE DEF n
    <2> QED  BY <1>3, <2>1, <2>2 DEF n
  <1>4. CASE r.CANrxNew[b]
    <2>1. [r EXCEPT !.CANrxNew[b] = FALSE] = q
      BY <1>1 DEF RpdoType
    <2>2. n.rpdo = q /\ n.vals = vs
      <3>1. n.rpdo = [r EXCEPT !.CANrxNew[b] = FALSE] /\ n.vals = vs
        BY <1>2, <1>4 DEF rpdo_written, valuesWith
      <3> QED  BY <2>1, <3>1
    <2>3. SameReceiver(q, r) /\ q.CANrxNew = news
      <3> HIDE DEF news
      <3> QED  BY <1>1 DEF RpdoType, SameReceiver
    <2>4. \A c \in 0..1 : news[c] <=> r.CANrxNew[c] /\ c # b
      BY <1>1
    <2> HIDE DEF n, q, news, vs
    <2> QED  BY <1>4, <2>2, <2>3, <2>4 DEF n, vs
  <1> QED  BY <1>3, <1>4

\* ... and the timer has nothing to do with them.
LEMMA TimerKeeps ==
    ASSUME NEW t, RpdoReady(t), NEW isReceived, NEW dt
    PROVE  LET n == rpdo_timeout(t, isReceived, dt) IN SameBuffers(n.rpdo, t.rpdo) /\ n.vals = t.vals
  <1> DEFINE r == t.rpdo
             q(x) == [r EXCEPT !.timeoutTimer = x]
             n == rpdo_timeout(t, isReceived, dt)
  <1>1. r \in RpdoType /\ t = [rpdo |-> t.rpdo, vals |-> t.vals, errs |-> t.errs]
    BY DEF RpdoReady, RpdoOK
  <1>2. SameBuffers(r, r) /\ \A x : SameBuffers(q(x), r)
    BY <1>1 DEF RpdoType, SameBuffers, SameReceiver
  <1>3. (n.rpdo = r \/ n.rpdo = q(1) \/ n.rpdo = q(r.timeoutTimer + dt)) /\ n.vals = t.vals
    BY <1>1 DEF rpdo_timeout
  <1> HIDE DEF n, q
  <1> QED  BY <1>2, <1>3 DEF n

\* A call empties both buffers, leaves them alone, or takes the message of one.
TakesOne(n, r, v, b, operates, was) ==
    /\ SameReceiver(n.rpdo, r)
    /\ ~r.valid \/ ~operates => n.vals = v /\ \A c \in 0..1 : ~n.rpdo.CANrxNew[c]
    /\ r.valid /\ operates /\ r.synchronous /\ ~was => n.vals = v /\ n.rpdo.CANrxNew = r.CANrxNew
    /\ r.valid /\ operates /\ ~(r.synchronous /\ ~was) =>
         /\ \A c \in 0..1 : n.rpdo.CANrxNew[c] <=> r.CANrxNew[c] /\ c # b
         /\ n.vals = IF r.CANrxNew[b] THEN valuesWith(v, r, r.CANrxData[b]) ELSE v

\* So does CO_RPDO_process.
LEMMA RpdoTakes ==
    ASSUME NEW r, RpdoOK(r), NEW vs, NEW es, "GENERIC_SOFTWARE_ERROR" \notin es, NEW sy, NEW dt \in Nat,
           NEW operates, NEW syncWas
    PROVE  TakesOne(CO_RPDO_process(r, vs, es, sy, dt, operates, syncWas), r, vs, processBuffer(r, sy),
                    operates, syncWas)
  <1> DEFINE t == [rpdo |-> r, vals |-> vs, errs |-> es]
             b == processBuffer(r, sy)
             n == CO_RPDO_process(r, vs, es, sy, dt, operates, syncWas)
             idle == [no_messages(r) EXCEPT !.timeoutTimer = 0]
             t1 == rpdo_length_error(t)
             t2 == rpdo_written(t1, b)
             done == rpdo_timeout(t2, r.CANrxNew[b], dt)
  <1>1. r \in RpdoType
    BY DEF RpdoOK
  <1>2. b \in 0..1
    BY DEF processBuffer
  <1>3. n = IF ~r.valid \/ ~operates THEN [t EXCEPT !.rpdo = [no_messages(@) EXCEPT !.timeoutTimer = 0]]
            ELSE IF r.synchronous /\ ~syncWas THEN t
            ELSE done
    BY DEF CO_RPDO_process
  <1>4. [t EXCEPT !.rpdo = [no_messages(@) EXCEPT !.timeoutTimer = 0]] = [rpdo |-> idle, vals |-> vs, errs |-> es]
    OBVIOUS
  <1>5. SameReceiver(idle, r) /\ \A c \in 0..1 : ~idle.CANrxNew[c]
    BY <1>1 DEF no_messages, RpdoType, SameReceiver
  <1>6. ASSUME r.valid
        PROVE  /\ SameReceiver(done.rpdo, r)
               /\ \A c \in 0..1 : done.rpdo.CANrxNew[c] <=> r.CANrxNew[c] /\ c # b
               /\ done.vals = IF r.CANrxNew[b] THEN valuesWith(vs, r, r.CANrxData[b]) ELSE vs
    <2>1. t = [rpdo |-> t.rpdo, vals |-> t.vals, errs |-> t.errs] /\ t.rpdo = r /\ t.errs = es /\ t.vals = vs
      OBVIOUS
    <2> HIDE DEF t, b
    <2>2. RpdoReady(t)
      BY <1>6, <2>1 DEF RpdoReady
    <2>3. RpdoReady(t1) /\ SameBuffers(t1.rpdo, r) /\ t1.vals = vs
      BY <2>1, <2>2, RpdoLength, LengthKeeps
    <2> HIDE DEF t1
    <2>4. /\ RpdoReady(t2) /\ SameReceiver(t2.rpdo, t1.rpdo)
          /\ \A c \in 0..1 : t2.rpdo.CANrxNew[c] <=> t1.rpdo.CANrxNew[c] /\ c # b
          /\ t2.vals = IF t1.rpdo.CANrxNew[b] THEN valuesWith(t1.vals, t1.rpdo, t1.rpdo.CANrxData[b]) ELSE t1.vals
      BY <1>2, <2>3, RpdoWrites, BufferTaken
    <2> HIDE DEF t2
    <2>5. SameBuffers(done.rpdo, t2.rpdo) /\ done.vals = t2.vals
      BY <2>4, TimerKeeps
    <2> HIDE DEF done
    <2>6. SameReceiver(done.rpdo, r)
      BY <2>3, <2>4, <2>5 DEF SameBuffers, SameReceiver
    <2>7. \A c \in 0..1 : done.rpdo.CANrxNew[c] <=> r.CANrxNew[c] /\ c # b
      BY <2>3, <2>4, <2>5 DEF SameBuffers
    <2>8. valuesWith(vs, t1.rpdo, t1.rpdo.CANrxData[b]) = valuesWith(vs, r, r.CANrxData[b])
      BY <2>3 DEF valuesWith, mappedObjects, SameBuffers, SameReceiver
    <2>9. t1.rpdo.CANrxNew = r.CANrxNew
      BY <2>3 DEF SameBuffers
    <2> QED  BY <2>3, <2>4, <2>5, <2>6, <2>7, <2>8, <2>9
  <1>7. SameReceiver(r, r)
    BY DEF SameReceiver
  <1> HIDE DEF idle, done
  <1>8. CASE ~r.valid \/ ~operates
    <2>1. n = [rpdo |-> idle, vals |-> vs, errs |-> es]
      <3> HIDE DEF t, n
      <3> QED  BY <1>3, <1>4, <1>8
    <2>2. n.rpdo = idle /\ n.vals = vs
      <3> HIDE DEF n
      <3> QED  BY <2>1
    <2> HIDE DEF n
    <2> QED  BY <1>5, <1>8, <2>2 DEF n, TakesOne
  <1>9. CASE r.valid /\ operates /\ r.synchronous /\ ~syncWas
    <2>1. n = t
      <3> HIDE DEF t, n
      <3> QED  BY <1>3, <1>9
    <2>2. n.rpdo = r /\ n.vals = vs
      <3> HIDE DEF n
      <3> QED  BY <2>1
    <2> HIDE DEF n
    <2> QED  BY <1>7, <1>9, <2>2 DEF n, TakesOne
  <1>10. CASE r.valid /\ operates /\ ~(r.synchronous /\ ~syncWas)
    <2>1. n = done
      <3> HIDE DEF t, n
      <3> QED  BY <1>3, <1>10
    <2> HIDE DEF n
    <2> QED  BY <1>6, <1>10, <2>1 DEF n, TakesOne
  <1> QED  BY <1>8, <1>9, <1>10

\* A message goes to one buffer.
LEMMA BufferFilled ==
    ASSUME NEW r \in RpdoType, NEW sy, NEW DLC \in Nat, NEW data \in Nat
    PROVE  LET q == CO_PDO_receive(r, sy, DLC, data)
               b == rxBuffer(r, sy)
           IN  /\ SameReceiver([q EXCEPT !.CANrxData = r.CANrxData], r)
               /\ ~(r.valid /\ DLC >= r.dataLength) => SameBuffers(q, r)
               /\ r.valid /\ DLC >= r.dataLength =>
                    \A c \in 0..1 : /\ q.CANrxNew[c] <=> r.CANrxNew[c] \/ c = b
                                    /\ q.CANrxData[c] = IF c = b THEN data ELSE r.CANrxData[c]
  <1> DEFINE b == rxBuffer(r, sy)
             err == CASE r.receiveError = "ACK_ERROR" /\ DLC = r.dataLength -> "OK"
                      [] r.receiveError = RxNoError /\ DLC > r.dataLength -> "LONG"
                      [] r.receiveError = RxNoError /\ DLC < r.dataLength -> "SHORT"
                      [] OTHER -> r.receiveError
             q == CO_PDO_receive(r, sy, DLC, data)
  <1>1. b \in 0..1
    BY DEF rxBuffer
  <1>2. q = IF ~r.valid THEN r
            ELSE IF DLC < r.dataLength THEN [r EXCEPT !.receiveError = err]
            ELSE [r EXCEPT !.receiveError = err, !.CANrxData[b] = data, !.CANrxNew[b] = TRUE]
    BY DEF CO_PDO_receive
  <1>3. (DLC < r.dataLength) <=> ~(DLC >= r.dataLength)
    BY DEF RpdoType
  <1> HIDE DEF b, err, q
  <1>4. CASE ~r.valid
    <2>1. q = r /\ [q EXCEPT !.CANrxData = r.CANrxData] = r
      BY <1>2, <1>4 DEF RpdoType
    <2> QED  BY <1>4, <2>1 DEF SameReceiver, SameBuffers, q
  <1>5. CASE r.valid /\ DLC < r.dataLength
    <2>1. q = [r EXCEPT !.receiveError = err]
      BY <1>2, <1>5
    <2>2. SameReceiver([q EXCEPT !.CANrxData = r.CANrxData], r) /\ SameBuffers(q, r)
      BY <2>1 DEF SameReceiver, SameBuffers, RpdoType
    <2> QED  BY <1>3, <1>5, <2>2 DEF q
  <1>6. CASE r.valid /\ ~(DLC < r.dataLength)
    <2> DEFINE datas == [r.CANrxData EXCEPT ![b] = data]
               news == [r.CANrxNew EXCEPT ![b] = TRUE]
    <2>1. q = [r EXCEPT !.receiveError = err, !.CANrxData[b] = data, !.CANrxNew[b] = TRUE]
      BY <1>2, <1>6
    <2>2. q = [r EXCEPT !.receiveError = err, !.CANrxData = datas, !.CANrxNew = news]
      BY <2>1 DEF RpdoType
    <2>3. \A c \in 0..1 : (news[c] <=> r.CANrxNew[c] \/ c = b) /\ datas[c] = IF c = b THEN data ELSE r.CANrxData[c]
      BY <1>1 DEF RpdoType
    <2> HIDE DEF datas, news
    <2>4. SameReceiver([q EXCEPT !.CANrxData = r.CANrxData], r)
      BY <2>2 DEF SameReceiver, RpdoType
    <2>5. q.CANrxData = datas /\ q.CANrxNew = news
      BY <2>2 DEF RpdoType
    <2> QED  BY <1>3, <1>6, <2>3, <2>4, <2>5 DEF q, b
  <1> QED  BY <1>4, <1>5, <1>6

\* Only the transmission type of a valid RPDO has to do with the buffers; a
\* COB-ID can make the RPDO valid or not.
LEMMA BuffersWritten ==
    ASSUME NEW r, RpdoOK(r), NEW w \in CommunicationWrites({5})
    PROVE  LET q == OD_write_14xx(r, w[1], w[2]) IN
           \/ SameBuffers(q, r)
           \/ ~q.valid
           \/ ~r.valid /\ q.CANrxNew = r.CANrxNew
           \/ /\ q.valid /\ (q.synchronous <=> ~r.synchronous) /\ ~q.CANrxNew[1] /\ (q.CANrxNew[0] <=> r.CANrxNew[0])
              /\ SameReceiver([q EXCEPT !.synchronous = r.synchronous], r)
  <1> DEFINE subIndex == w[1]
             value == w[2]
             q == OD_write_14xx(r, subIndex, value)
  <1>1. \/ subIndex = 1 /\ value \in PdoCobIds
        \/ subIndex = 2 /\ value \in 0..255
        \/ subIndex = 5 /\ value \in Nat
    BY CommunicationWrite
  <1>2. r \in RpdoType /\ r.CANrxNew \in [0..1 -> BOOLEAN] /\ r.synchronous \in BOOLEAN /\ r.od \in PdoOd
    BY DEF RpdoOK, RpdoType
  <1>3. SameBuffers(r, r)
    BY DEF SameBuffers, SameReceiver
  <1> HIDE DEF subIndex, value
  <1>4. CASE subIndex = 1
    <2> DEFINE od == [r.od EXCEPT !.cobId = stored(r, value)]
               none == [b \in 0..1 |-> FALSE]
    <2>1. \/ q = r
          \/ q = [r EXCEPT !.od.cobId = stored(r, value)]
          \/ q = [[r EXCEPT !.ident = value.id, !.valid = TRUE, !.configuredCanId = value.id]
                  EXCEPT !.od.cobId = stored(r, value)]
          \/ q = [no_messages([r EXCEPT !.ident = "zero", !.valid = FALSE]) EXCEPT !.od.cobId = stored(r, value)]
      <3> DEFINE m == IF ~cobId_changed(r, value) THEN r
                      ELSE IF value.valid
                      THEN [r EXCEPT !.ident = value.id, !.valid = TRUE, !.configuredCanId = value.id]
                      ELSE no_messages([r EXCEPT !.ident = "zero", !.valid = FALSE])
      <3>1. q = IF cobId_refused(r, value) THEN r ELSE [m EXCEPT !.od.cobId = stored(r, value)]
        BY <1>4 DEF OD_write_14xx
      <3>2. \/ m = r
            \/ m = [r EXCEPT !.ident = value.id, !.valid = TRUE, !.configuredCanId = value.id]
            \/ m = no_messages([r EXCEPT !.ident = "zero", !.valid = FALSE])
        OBVIOUS
      <3> HIDE DEF q, m
      <3> QED  BY <3>1, <3>2
    <2>2. \/ q = r
          \/ q = [r EXCEPT !.od = od]
          \/ q = [r EXCEPT !.ident = value.id, !.valid = TRUE, !.configuredCanId = value.id, !.od = od]
          \/ q = [r EXCEPT !.CANrxNew = none, !.ident = "zero", !.valid = FALSE, !.od = od]
      <3> HIDE DEF q
      <3>1. [r EXCEPT !.od.cobId = stored(r, value)] = [r EXCEPT !.od = od]
        BY <1>2 DEF RpdoType
      <3>2. [[r EXCEPT !.ident = value.id, !.valid = TRUE, !.configuredCanId = value.id]
              EXCEPT !.od.cobId = stored(r, value)]
            = [r EXCEPT !.ident = value.id, !.valid = TRUE, !.configuredCanId = value.id, !.od = od]
        <4> DEFINE m == [r EXCEPT !.ident = value.id, !.valid = TRUE, !.configuredCanId = value.id]
        <4>1. m.od = r.od
          BY <1>2 DEF RpdoType
        <4>2. [m EXCEPT !.od.cobId = stored(r, value)] = [m EXCEPT !.od = [m.od EXCEPT !.cobId = stored(r, value)]]
          BY <1>2 DEF RpdoType
        <4>3. [m EXCEPT !.od = od] = [r EXCEPT !.ident = value.id, !.valid = TRUE, !.configuredCanId = value.id, !.od = od]
          <5> HIDE DEF od
          <5> QED  BY <1>2 DEF RpdoType
        <4> HIDE DEF m
        <4> QED  BY <4>1, <4>2, <4>3 DEF m
      <3>3. [no_messages([r EXCEPT !.ident = "zero", !.valid = FALSE]) EXCEPT !.od.cobId = stored(r, value)]
            = [r EXCEPT !.CANrxNew = none, !.ident = "zero", !.valid = FALSE, !.od = od]
        BY <1>2 DEF RpdoType, no_messages
      <3> QED  BY <2>1, <3>1, <3>2, <3>3
    <2> HIDE DEF od, none, q
    <2>3. CASE q = [r EXCEPT !.od = od]
      <3>1. SameBuffers(q, r)
        BY <1>2, <2>3 DEF SameBuffers, SameReceiver, RpdoType
      <3> QED  BY <3>1 DEF q, subIndex, value
    <2>4. CASE q = [r EXCEPT !.ident = value.id, !.valid = TRUE, !.configuredCanId = value.id, !.od = od]
      <3>1. CASE r.valid
        <4>1. SameBuffers(q, r)
          BY <1>2, <2>4, <3>1 DEF SameBuffers, SameReceiver, RpdoType
        <4> QED  BY <4>1 DEF q, subIndex, value
      <3>2. CASE ~r.valid
        <4>1. q.CANrxNew = r.CANrxNew
          BY <1>2, <2>4 DEF RpdoType
        <4> QED  BY <3>2, <4>1 DEF q, subIndex, value
      <3> QED  BY <3>1, <3>2
    <2>5. CASE q = [r EXCEPT !.CANrxNew = none, !.ident = "zero", !.valid = FALSE, !.od = od]
      <3>1. ~q.valid
        BY <1>2, <2>5 DEF RpdoType
      <3> QED  BY <3>1 DEF q, subIndex, value
    <2> QED  BY <1>3, <2>2, <2>3, <2>4, <2>5 DEF q, subIndex, value
  <1>5. CASE subIndex = 2 /\ ~isReserved(value)
    <2> DEFINE syn == isSynchronous(value)
               news == [r.CANrxNew EXCEPT ![1] = r.CANrxNew[1] /\ r.synchronous = syn]
               od == [r.od EXCEPT !.type = value]
               n == [r EXCEPT !.CANrxNew = news, !.synchronous = syn, !.od = od]
    <2>1. q = [r EXCEPT !.CANrxNew[1] = @ /\ r.synchronous = syn, !.synchronous = syn, !.od.type = value]
      BY <1>5 DEF OD_write_14xx
    <2>2. syn \in BOOLEAN
      BY DEF isSynchronous
    <2> HIDE DEF syn
    <2>3. q = n
      BY <1>2, <2>1 DEF RpdoType
    <2>4. /\ r.synchronous = syn => news = r.CANrxNew
          /\ r.synchronous # syn => ~news[1] /\ (news[0] <=> r.CANrxNew[0])
      BY <1>2, <2>2
    <2> HIDE DEF news, od, q
    <2>5. CASE r.synchronous = syn
      <3>1. SameBuffers(n, r)
        BY <1>2, <2>2, <2>4, <2>5 DEF SameBuffers, SameReceiver, RpdoType
      <3> QED  BY <2>3, <3>1 DEF q, subIndex, value
    <2>6. CASE r.synchronous # syn
      <3>1. /\ n.synchronous <=> ~r.synchronous
            /\ n.CANrxNew = news
            /\ n.valid <=> r.valid
            /\ SameReceiver([n EXCEPT !.synchronous = r.synchronous], r)
        BY <1>2, <2>2, <2>6 DEF SameReceiver, RpdoType
      <3> HIDE DEF n
      <3> QED  BY <2>3, <2>4, <2>6, <3>1 DEF q, subIndex, value
    <2> QED  BY <2>5, <2>6
  <1>6. CASE subIndex = 2 /\ isReserved(value)
    <2>1. q = r
      BY <1>6 DEF OD_write_14xx
    <2> QED  BY <1>3, <2>1 DEF subIndex, value
  <1>7. CASE subIndex = 5
    <2> DEFINE od == [r.od EXCEPT !.event = value]
    <2>1. q = [r EXCEPT !.timeoutTime = value, !.timeoutTimer = 0, !.od.event = value]
      BY <1>7 DEF OD_write_14xx
    <2>2. q = [r EXCEPT !.timeoutTime = value, !.timeoutTimer = 0, !.od = od]
      BY <1>2, <2>1 DEF RpdoType
    <2> HIDE DEF od, q
    <2>3. SameBuffers(q, r)
      BY <1>2, <2>2 DEF SameBuffers, SameReceiver, RpdoType
    <2> QED  BY <2>3 DEF q, subIndex, value
  <1> QED  BY <1>1, <1>4, <1>5, <1>6, <1>7

-----------------------------------------------------------------------------
(* An RPDO follows SYNC                                                     *)

\* The mapped objects have the value of message m, which was the last taken.
hasTaken(r, v, m) == m = 0 \/ \A x \in DOMAIN v \cap mappedObjects(r) : v[x] = m

\* Buffer b holds message m, or it has been taken.
holds(r, v, b, m) == IF r.CANrxNew[b] THEN r.CANrxData[b] = m /\ m # 0 ELSE hasTaken(r, v, m)

\* The buffer that is being filled holds the last message, the other one the
\* last before the last SYNC, which was taken unless a SYNC waits for a call.
Follows(r, sy, v, last, before, waiting) ==
    IF ~r.synchronous THEN holds(r, v, 0, last)
    ELSE LET f == rxBuffer(r, sy)
             p == processBuffer(r, sy)
         IN  /\ IF r.CANrxNew[f] THEN r.CANrxData[f] = last /\ last # 0 ELSE last = before
             /\ holds(r, v, p, before)
             /\ waiting = 0 => ~r.CANrxNew[p]

FollowInv ==
    /\ sync \in SyncType /\ latest \in Nat /\ atSync \in Nat
    /\ syncs = IF sync.CANrxNew THEN 1 ELSE 0
    /\ ~rpdo.valid => latest = 0 /\ atSync = 0
    /\ rpdo.valid /\ ~disturbed => Follows(rpdo, sync, vals, latest, atSync, syncs)

\* Without messages there is nothing to follow.
LEMMA FollowsNothing ==
    ASSUME NEW r, NEW sy, NEW v, NEW waiting, \A b \in 0..1 : ~r.CANrxNew[b]
    PROVE  Follows(r, sy, v, 0, 0, waiting)
  BY DEF Follows, holds, hasTaken, rxBuffer, processBuffer

\* The buffers depend on the transmission type and on the number of SYNCs.
LEMMA BufferPair ==
    ASSUME NEW r, NEW q, NEW sy, NEW next, q.synchronous <=> r.synchronous
    PROVE  /\ rxBuffer(r, sy) \in 0..1 /\ processBuffer(r, sy) \in 0..1
           /\ ~r.synchronous => rxBuffer(r, sy) = 0 /\ processBuffer(r, sy) = 0
           /\ r.synchronous => rxBuffer(r, sy) # processBuffer(r, sy)
           /\ (next.CANrxToggle <=> sy.CANrxToggle) =>
                rxBuffer(q, next) = rxBuffer(r, sy) /\ processBuffer(q, next) = processBuffer(r, sy)
           /\ r.synchronous /\ (next.CANrxToggle <=> ~sy.CANrxToggle) =>
                rxBuffer(q, next) = processBuffer(r, sy) /\ processBuffer(q, next) = rxBuffer(r, sy)
  BY DEF rxBuffer, processBuffer

\* The objects of the same receiver.
LEMMA SameObjects ==
    ASSUME NEW r, NEW q, q.OD_IO = r.OD_IO, q.mappedObjectsCount = r.mappedObjectsCount
    PROVE  /\ mappedObjects(q) = mappedObjects(r)
           /\ \A v, m : hasTaken(q, v, m) <=> hasTaken(r, v, m)
  BY DEF mappedObjects, hasTaken

\* What is received is followed the same with the same buffers.
LEMMA FollowsSame ==
    ASSUME NEW r, NEW q, SameBuffers(q, r), NEW sy, NEW next, next.CANrxToggle <=> sy.CANrxToggle,
           NEW v, NEW last, NEW before, NEW waiting, Follows(r, sy, v, last, before, waiting)
    PROVE  Follows(q, next, v, last, before, waiting)
  <1>1. /\ q.synchronous <=> r.synchronous
        /\ q.CANrxNew = r.CANrxNew /\ q.CANrxData = r.CANrxData
        /\ q.OD_IO = r.OD_IO /\ q.mappedObjectsCount = r.mappedObjectsCount
    BY DEF SameBuffers, SameReceiver
  <1>2. rxBuffer(q, next) = rxBuffer(r, sy) /\ processBuffer(q, next) = processBuffer(r, sy)
    BY <1>1, BufferPair
  <1>3. \A m : hasTaken(q, v, m) <=> hasTaken(r, v, m)
    BY <1>1, SameObjects
  <1> QED  BY <1>1, <1>2, <1>3 DEF Follows, holds

\* A buffer is taken.
LEMMA TakenFrom ==
    ASSUME NEW r, NEW v, NEW b, NEW m, holds(r, v, b, m), NEW w,
           w = IF r.CANrxNew[b] THEN valuesWith(v, r, r.CANrxData[b]) ELSE v
    PROVE  /\ hasTaken(r, w, m)
           /\ \A x \in DOMAIN v : w[x] = IF m # 0 /\ x \in mappedObjects(r) THEN m ELSE v[x]
  <1>1. CASE r.CANrxNew[b]
    <2>1. w = [x \in DOMAIN v |-> IF x \in mappedObjects(r) THEN m ELSE v[x]] /\ m # 0
      BY <1>1 DEF holds, valuesWith
    <2> QED  BY <2>1 DEF hasTaken
  <1>2. CASE ~r.CANrxNew[b]
    <2>1. w = v /\ hasTaken(r, v, m)
      BY <1>2 DEF holds
    <2> QED  BY <2>1 DEF hasTaken
  <1> QED  BY <1>1, <1>2

\* A call writes the message that is due, and follows on.
FollowsCall(n, r, v, sy, next, was, last, before) ==
    LET new == IF next.CANrxToggle # sy.CANrxToggle THEN last ELSE before
        now == IF ~r.synchronous THEN last ELSE IF was THEN new ELSE 0
    IN  /\ Follows(n.rpdo, next, n.vals, last, new, 0)
        /\ \A x \in DOMAIN v : n.vals[x] = IF now # 0 /\ x \in mappedObjects(r) THEN now ELSE v[x]

\* So does a call of an operational device.
LEMMA FollowsProcess ==
    ASSUME NEW r, RpdoOK(r), r.valid, NEW v, NEW es, "GENERIC_SOFTWARE_ERROR" \notin es, NEW dt \in Nat,
           NEW operates, operates, NEW sy \in SyncType, NEW next \in SyncType, NEW was,
           \/ next.CANrxToggle <=> sy.CANrxToggle
           \/ (next.CANrxToggle <=> ~sy.CANrxToggle) /\ ~sy.CANrxNew,
           was <=> sy.CANrxNew \/ (next.CANrxToggle <=> ~sy.CANrxToggle),
           NEW last, NEW before, NEW waiting, waiting = IF sy.CANrxNew THEN 1 ELSE 0,
           Follows(r, sy, v, last, before, waiting)
    PROVE  FollowsCall(CO_RPDO_process(r, v, es, next, dt, operates, was), r, v, sy, next, was, last, before)
  <1> DEFINE n == CO_RPDO_process(r, v, es, next, dt, operates, was)
             new == IF next.CANrxToggle # sy.CANrxToggle THEN last ELSE before
             now == IF ~r.synchronous THEN last ELSE IF was THEN new ELSE 0
             f == rxBuffer(r, sy)
             p == processBuffer(r, sy)
             g == rxBuffer(r, next)
             b == processBuffer(r, next)
             q == n.rpdo
             w == n.vals
  <1>1. /\ SameReceiver(q, r)
        /\ r.synchronous /\ ~was => w = v /\ q.CANrxNew = r.CANrxNew
        /\ ~(r.synchronous /\ ~was) =>
             /\ \A c \in 0..1 : q.CANrxNew[c] <=> r.CANrxNew[c] /\ c # b
             /\ w = IF r.CANrxNew[b] THEN valuesWith(v, r, r.CANrxData[b]) ELSE v
    <2>1. TakesOne(n, r, v, b, operates, was)
      BY RpdoTakes, Zenon
    <2> HIDE DEF n, b
    <2> QED  BY <2>1 DEF TakesOne
  <1>2. /\ f \in 0..1 /\ p \in 0..1 /\ g \in 0..1 /\ b \in 0..1
        /\ ~r.synchronous => b = 0
        /\ r.synchronous => f # p /\ g # b
        /\ (next.CANrxToggle <=> sy.CANrxToggle) => g = f /\ b = p
        /\ r.synchronous /\ (next.CANrxToggle <=> ~sy.CANrxToggle) => g = p /\ b = f
    BY BufferPair
  <1>3. IF next.CANrxToggle <=> sy.CANrxToggle THEN new = before ELSE new = last
    BY DEF SyncType
  <1>4. Follows(r, sy, v, last, before, waiting) <=>
          IF ~r.synchronous THEN holds(r, v, 0, last)
          ELSE /\ IF r.CANrxNew[f] THEN r.CANrxData[f] = last /\ last # 0 ELSE last = before
               /\ holds(r, v, p, before)
               /\ waiting = 0 => ~r.CANrxNew[p]
    BY DEF Follows
  <1> HIDE DEF n, f, p, g, b, new
  <1>5. /\ rxBuffer(q, next) = g /\ processBuffer(q, next) = b
        /\ q.synchronous <=> r.synchronous
        /\ q.CANrxData = r.CANrxData
        /\ \A x, m : hasTaken(q, x, m) <=> hasTaken(r, x, m)
    <2>1. /\ q.synchronous <=> r.synchronous
          /\ q.CANrxData = r.CANrxData
          /\ q.OD_IO = r.OD_IO /\ q.mappedObjectsCount = r.mappedObjectsCount
      BY <1>1 DEF SameReceiver
    <2>2. rxBuffer(q, next) = g /\ processBuffer(q, next) = b
      BY <2>1, BufferPair DEF g, b
    <2>3. \A x, m : hasTaken(q, x, m) <=> hasTaken(r, x, m)
      BY <2>1, SameObjects
    <2> QED  BY <2>1, <2>2, <2>3
  <1>6. Follows(q, next, w, last, new, 0) <=>
          IF ~q.synchronous THEN holds(q, w, 0, last)
          ELSE /\ IF q.CANrxNew[g] THEN q.CANrxData[g] = last /\ last # 0 ELSE last = new
               /\ holds(q, w, b, new)
               /\ ~q.CANrxNew[b]
    BY <1>5 DEF Follows
  <1> HIDE DEF q, w
  <1>7. CASE ~r.synchronous
    <2>1. holds(r, v, b, last) /\ b = 0
      BY <1>2, <1>4, <1>7
    <2>2. /\ hasTaken(r, w, last)
          /\ \A x \in DOMAIN v : w[x] = IF last # 0 /\ x \in mappedObjects(r) THEN last ELSE v[x]
      BY <1>1, <1>7, <2>1, TakenFrom
    <2>3. ~q.CANrxNew[0]
      BY <1>1, <1>7, <2>1
    <2>4. Follows(q, next, w, last, new, 0)
      BY <1>5, <1>6, <1>7, <2>2, <2>3 DEF holds
    <2> QED  BY <1>7, <2>2, <2>4 DEF q, w, n, new, FollowsCall
  <1>8. CASE r.synchronous /\ was
    <2>1. holds(r, v, b, new) /\ (IF r.CANrxNew[g] THEN r.CANrxData[g] = last /\ last # 0 ELSE last = new)
      <3>1. CASE next.CANrxToggle <=> sy.CANrxToggle
        BY <1>2, <1>3, <1>4, <1>8, <3>1
      <3>2. CASE (next.CANrxToggle <=> ~sy.CANrxToggle) /\ ~sy.CANrxNew
        <4>1. waiting = 0 /\ g = p /\ b = f /\ new = last
          BY <1>2, <1>3, <1>8, <3>2
        <4> QED  BY <1>4, <1>8, <4>1 DEF holds
      <3> QED  BY <3>1, <3>2
    <2>2. /\ hasTaken(r, w, new)
          /\ \A x \in DOMAIN v : w[x] = IF new # 0 /\ x \in mappedObjects(r) THEN new ELSE v[x]
      BY <1>1, <1>8, <2>1, TakenFrom
    <2>3. ~q.CANrxNew[b] /\ (q.CANrxNew[g] <=> r.CANrxNew[g])
      BY <1>1, <1>2, <1>8
    <2>4. Follows(q, next, w, last, new, 0)
      BY <1>5, <1>6, <1>8, <2>1, <2>2, <2>3 DEF holds
    <2> QED  BY <1>8, <2>2, <2>4 DEF q, w, n, new, FollowsCall
  <1>9. CASE r.synchronous /\ ~was
    <2>1. /\ next.CANrxToggle <=> sy.CANrxToggle
          /\ waiting = 0
          /\ new = before /\ w = v /\ q.CANrxNew = r.CANrxNew
      BY <1>1, <1>3, <1>9
    <2>2. SameBuffers(q, r)
      BY <1>1, <2>1 DEF SameBuffers
    <2>3. Follows(q, next, w, last, new, 0)
      BY <2>1, <2>2, FollowsSame
    <2> QED  BY <1>9, <2>1, <2>3 DEF q, w, n, new, FollowsCall
  <1> QED  BY <1>7, <1>8, <1>9

\* What a device has after its initialization.
LEMMA FollowSetUp ==
    ASSUME NEW od \in PdoOd, rpdo' = CO_RPDO_init(od, {}).rpdo,
           sync' \in SyncType, ~sync'.CANrxNew, latest' = 0, atSync' = 0, syncs' = 0
    PROVE  FollowInv'
  <1>1. \A b \in 0..1 : ~rpdo'.CANrxNew[b]
    BY RpdoInit
  <1>2. Follows(rpdo', sync', vals', 0, 0, syncs')
    BY <1>1, FollowsNothing
  <1> QED  BY <1>2 DEF FollowInv

\* Before anything happens.
LEMMA FollowInit == Init => FollowInv
  <1> SUFFICES ASSUME Init PROVE FollowInv
    OBVIOUS
  <1>1. PICK od \in Here.rpdo : rpdo = CO_RPDO_init(od, {}).rpdo
    BY DEF Init
  <1>2. scenario \in DOMAIN Scenarios /\ sync = StartSync /\ latest = 0 /\ atSync = 0 /\ syncs = 0
    BY DEF Init
  <1>3. od \in PdoOd /\ Here.sync \in SyncParameters
    BY <1>2, ScenarioTypes
  <1>4. sync \in SyncType /\ ~sync.CANrxNew
    <2>1. /\ Here.sync.cobId \in [producer : BOOLEAN, id : PdoNames] /\ Here.sync.period \in Nat
          /\ Here.sync.window \in Nat /\ Here.sync.ovf \in Nat
      BY <1>3 DEF SyncParameters, SyncCobIds, PdoNames
    <2> QED  BY <1>2, <2>1, SyncInit DEF StartSync
  <1>5. \A b \in 0..1 : ~rpdo.CANrxNew[b]
    BY <1>1, <1>3, RpdoInit
  <1>6. Follows(rpdo, sync, vals, 0, 0, syncs)
    BY <1>5, FollowsNothing
  <1> QED  BY <1>2, <1>4, <1>6 DEF FollowInv

\* What RpdoFollowsSync says of a step.
RpdoStep ==
    call'.dt > 0 /\ rpdo.valid /\ operational /\ ~disturbed =>
         LET now == IF ~rpdo.synchronous THEN latest ELSE IF call'.syncWas THEN atSync' ELSE 0 IN
         \A x \in DOMAIN vals :
            vals'[x] = IF now # 0 /\ x \in mappedObjects(rpdo) THEN now ELSE vals[x]

\* A call writes the message that is due, and nothing else.
LEMMA FollowProcess ==
    ASSUME PdoInv, FollowInv, NEW dt \in Nat, Process(dt)
    PROVE  FollowInv' /\ RpdoStep
  <1> DEFINE s == CO_SYNC_process(sync, errs, nmt # "STOPPED", dt)
             was == s.status = "RX_TX"
             r == CO_RPDO_process(rpdo, vals, s.errs, s.sync, dt, operational, was)
             active == rpdo.valid /\ operational
             own == s.sync.CANrxToggle # sync.CANrxToggle
             empty == r.rpdo.CANrxNew = [b \in 0..1 |-> FALSE]
  <1>1. RpdoOK(rpdo) /\ "GENERIC_SOFTWARE_ERROR" \notin errs
    BY DEF PdoInv
  <1>2. /\ rpdo' = r.rpdo /\ sync' = s.sync /\ vals' = r.vals
        /\ RpdoRemembered(s.sync, r.rpdo, dt)
        /\ call'.syncWas = was
    <2>1. call' = [dt |-> dt, syncWas |-> was, sent |-> call'.sent]
      BY DEF Process
    <2> QED  BY <2>1 DEF Process
  <1>3. /\ latest' = IF active /\ ~(disturbed /\ empty) THEN latest ELSE 0
        /\ atSync' = IF ~active \/ (disturbed /\ empty) THEN 0 ELSE IF own THEN latest ELSE atSync
        /\ disturbed' = (active /\ disturbed /\ ~empty)
        /\ syncs' = 0
    BY <1>2 DEF RpdoRemembered
  <1>4. "GENERIC_SOFTWARE_ERROR" \notin s.errs
    BY <1>1, SyncErrors
  <1>5. /\ sync \in SyncType /\ latest \in Nat /\ atSync \in Nat /\ syncs = IF sync.CANrxNew THEN 1 ELSE 0
        /\ rpdo.valid /\ ~disturbed => Follows(rpdo, sync, vals, latest, atSync, syncs)
    BY DEF FollowInv
  <1>6. /\ s.sync \in SyncType /\ ~s.sync.CANrxNew
        /\ \/ s.sync.CANrxToggle <=> sync.CANrxToggle
           \/ (s.sync.CANrxToggle <=> ~sync.CANrxToggle) /\ ~sync.CANrxNew
        /\ nmt # "STOPPED" => (was <=> sync.CANrxNew \/ (s.sync.CANrxToggle <=> ~sync.CANrxToggle))
    <2>1. (nmt # "STOPPED") \in BOOLEAN
      OBVIOUS
    <2> DEFINE isRunning == nmt # "STOPPED"
    <2> HIDE DEF isRunning
    <2>2. LET n == CO_SYNC_process(sync, errs, isRunning, dt) IN
          /\ n.sync \in SyncType /\ ~n.sync.CANrxNew
          /\ \/ n.sync.CANrxToggle <=> sync.CANrxToggle
             \/ (n.sync.CANrxToggle <=> ~sync.CANrxToggle) /\ isRunning /\ ~sync.CANrxNew
          /\ isRunning => (n.status = "RX_TX" <=> sync.CANrxNew \/ (n.sync.CANrxToggle <=> ~sync.CANrxToggle))
      BY <1>5, <2>1, SyncProcessed, Zenon DEF isRunning
    <2> QED  BY <2>2 DEF isRunning
  <1> HIDE DEF s, was
  <1>7. TakesOne(r, rpdo, vals, processBuffer(rpdo, s.sync), operational, was)
    BY <1>1, <1>4, RpdoTakes, Zenon
  <1>8. rpdo'.valid <=> rpdo.valid
    BY <1>2, <1>7 DEF TakesOne, SameReceiver
  <1>9. CASE active /\ ~disturbed
    <2>1. operational => nmt # "STOPPED"
      BY DEF operational
    <2>2. /\ Follows(r.rpdo, s.sync, r.vals, latest, IF own THEN latest ELSE atSync, 0)
          /\ LET new == IF own THEN latest ELSE atSync
                 now == IF ~rpdo.synchronous THEN latest ELSE IF was THEN new ELSE 0
             IN \A x \in DOMAIN vals : r.vals[x] = IF now # 0 /\ x \in mappedObjects(rpdo) THEN now ELSE vals[x]
      <3>1. /\ Follows(rpdo, sync, vals, latest, atSync, syncs)
            /\ rpdo.valid /\ operational
            /\ was <=> sync.CANrxNew \/ (s.sync.CANrxToggle <=> ~sync.CANrxToggle)
        BY <1>5, <1>6, <1>9, <2>1
      <3>2. FollowsCall(r, rpdo, vals, sync, s.sync, was, latest, atSync)
        BY <1>1, <1>4, <1>5, <1>6, <3>1, FollowsProcess, Zenon
      <3> HIDE DEF r
      <3> QED  BY <3>2 DEF FollowsCall
    <2>3. latest' = latest /\ atSync' = IF own THEN latest ELSE atSync
      BY <1>3, <1>9
    <2> HIDE DEF r, own, active
    <2>4. Follows(rpdo', sync', vals', latest', atSync', syncs')
      BY <1>2, <1>3, <2>2, <2>3
    <2>5. FollowInv'
      BY <1>2, <1>3, <1>5, <1>6, <1>8, <1>9, <2>3, <2>4 DEF FollowInv, active
    <2>6. RpdoStep
      BY <1>2, <2>2, <2>3 DEF RpdoStep
    <2> QED  BY <2>5, <2>6
  <1>10. CASE ~(active /\ ~disturbed)
    <2>1. ~active \/ (disturbed /\ empty) => \A b \in 0..1 : ~r.rpdo.CANrxNew[b]
      BY <1>7 DEF TakesOne
    <2>2. /\ latest' \in Nat /\ atSync' \in Nat
          /\ disturbed' \/ (latest' = 0 /\ atSync' = 0 /\ \A b \in 0..1 : ~r.rpdo.CANrxNew[b])
          /\ ~rpdo.valid => latest' = 0 /\ atSync' = 0
      <3> HIDE DEF r, own, empty
      <3> QED  BY <1>3, <1>5, <1>10, <2>1
    <2> HIDE DEF r, active, empty, own
    <2>3. disturbed' \/ Follows(rpdo', sync', vals', latest', atSync', syncs')
      BY <1>2, <2>2, FollowsNothing
    <2>4. FollowInv'
      BY <1>2, <1>3, <1>6, <1>8, <2>2, <2>3 DEF FollowInv
    <2>5. RpdoStep
      BY <1>10 DEF RpdoStep, active
    <2> QED  BY <2>4, <2>5
  <1> QED  BY <1>9, <1>10

\* The conditions of the invariant, for a step that leaves SYNC alone.
LEMMA FollowKept ==
    ASSUME FollowInv, UNCHANGED <<sync, syncs>>, latest' \in Nat, atSync' \in Nat,
           ~rpdo'.valid => latest' = 0 /\ atSync' = 0,
           rpdo'.valid /\ ~disturbed' => Follows(rpdo', sync, vals', latest', atSync', syncs)
    PROVE  FollowInv'
  BY DEF FollowInv

\* A SYNC message swaps the buffers.
LEMMA FollowSync ==
    ASSUME PdoInv, FollowInv, NEW msg \in [DLC : Nat, counter : Nat], Sync(msg)
    PROVE  FollowInv'
  <1> DEFINE f == rxBuffer(rpdo, sync)
             p == processBuffer(rpdo, sync)
             g == rxBuffer(rpdo, sync')
             b == processBuffer(rpdo, sync')
  <1>1. /\ sync \in SyncType /\ latest \in Nat /\ atSync \in Nat /\ syncs = IF sync.CANrxNew THEN 1 ELSE 0
        /\ ~rpdo.valid => latest = 0 /\ atSync = 0
        /\ rpdo.valid /\ ~disturbed => Follows(rpdo, sync, vals, latest, atSync, syncs)
    BY DEF FollowInv
  <1>2. /\ sync' = CO_SYNC_receive(sync, msg) /\ UNCHANGED <<rpdo, vals, latest>>
        /\ IF sync'.CANrxToggle = sync.CANrxToggle THEN UNCHANGED <<atSync, syncs, disturbed>>
           ELSE atSync' = latest /\ syncs' = 1 /\ disturbed' = (disturbed \/ (syncs = 1 /\ pending))
    BY DEF Sync
  <1>3. /\ sync' \in SyncType
        /\ \/ (sync'.CANrxToggle <=> sync.CANrxToggle) /\ (sync'.CANrxNew <=> sync.CANrxNew)
           \/ (sync'.CANrxToggle <=> ~sync.CANrxToggle) /\ sync'.CANrxNew
    BY <1>1, <1>2, SyncReceived
  <1>4. (sync'.CANrxToggle = sync.CANrxToggle) <=> (sync'.CANrxToggle <=> sync.CANrxToggle)
    BY <1>1, <1>3 DEF SyncType
  <1>5. CASE (sync'.CANrxToggle <=> sync.CANrxToggle) /\ (sync'.CANrxNew <=> sync.CANrxNew)
    <2>1. UNCHANGED <<atSync, syncs, disturbed>>
      BY <1>2, <1>4, <1>5
    <2>2. SameBuffers(rpdo', rpdo)
      BY <1>2 DEF SameBuffers, SameReceiver
    <2>3. rpdo.valid /\ ~disturbed => Follows(rpdo', sync', vals, latest, atSync, syncs)
      BY <1>1, <1>5, <2>2, FollowsSame
    <2> QED  BY <1>1, <1>2, <1>3, <1>5, <2>1, <2>3 DEF FollowInv
  <1>6. CASE (sync'.CANrxToggle <=> ~sync.CANrxToggle) /\ sync'.CANrxNew
    <2>1. atSync' = latest /\ syncs' = 1 /\ (disturbed' <=> disturbed \/ (syncs = 1 /\ pending))
      BY <1>2, <1>4, <1>6
    <2>2. ASSUME rpdo.valid, ~disturbed'
          PROVE  Follows(rpdo, sync', vals, latest, latest, 1)
      <3>1. Follows(rpdo, sync, vals, latest, atSync, syncs) /\ (syncs = 1 => ~pending)
        BY <1>1, <2>1, <2>2
      <3>2. pending \/ \A c \in 0..1 : ~rpdo.CANrxNew[c]
        BY DEF pending
      <3>3. CASE ~rpdo.synchronous
        BY <3>1, <3>3 DEF Follows
      <3>4. CASE rpdo.synchronous
        <4>1. f \in 0..1 /\ p \in 0..1 /\ g = p /\ b = f
          BY <1>6, <3>4, BufferPair
        <4>2. /\ IF rpdo.CANrxNew[f] THEN rpdo.CANrxData[f] = latest /\ latest # 0 ELSE latest = atSync
              /\ holds(rpdo, vals, p, atSync)
              /\ syncs = 0 => ~rpdo.CANrxNew[p]
          BY <3>1, <3>4 DEF Follows
        <4> HIDE DEF f, p
        <4>3. ~rpdo.CANrxNew[p]
          BY <1>1, <3>1, <3>2, <4>1, <4>2
        <4>4. holds(rpdo, vals, f, latest)
          BY <4>2, <4>3 DEF holds
        <4> QED  BY <3>4, <4>1, <4>3, <4>4 DEF Follows
      <3> QED  BY <3>3, <3>4
    <2>3. rpdo'.valid /\ ~disturbed' => Follows(rpdo', sync', vals', latest', atSync', syncs')
      BY <1>2, <2>1, <2>2
    <2> QED  BY <1>1, <1>2, <1>3, <1>6, <2>1, <2>3 DEF FollowInv
  <1> QED  BY <1>3, <1>5, <1>6

\* A message goes to the buffer that is being filled.
LEMMA FollowMessage ==
    ASSUME PdoInv, FollowInv, NEW DLC \in Nat, Message(DLC)
    PROVE  FollowInv'
  <1> DEFINE m == messages + 1
             f == rxBuffer(rpdo, sync)
             p == processBuffer(rpdo, sync)
             good == rpdo.valid /\ DLC >= rpdo.dataLength
  <1>1. rpdo \in RpdoType /\ m \in Nat /\ m # 0
    BY DEF PdoInv, RpdoOK
  <1>2. /\ rpdo' = CO_PDO_receive(rpdo, sync, DLC, m) /\ UNCHANGED <<sync, syncs, vals, atSync, disturbed>>
        /\ latest' = IF good THEN m ELSE latest
    BY DEF Message
  <1>3. /\ sync \in SyncType /\ latest \in Nat /\ atSync \in Nat
        /\ ~rpdo.valid => latest = 0 /\ atSync = 0
        /\ rpdo.valid /\ ~disturbed => Follows(rpdo, sync, vals, latest, atSync, syncs)
    BY DEF FollowInv
  <1> HIDE DEF m
  <1>4. /\ SameReceiver([rpdo' EXCEPT !.CANrxData = rpdo.CANrxData], rpdo)
        /\ ~good => SameBuffers(rpdo', rpdo)
        /\ good => \A c \in 0..1 : /\ rpdo'.CANrxNew[c] <=> rpdo.CANrxNew[c] \/ c = f
                                   /\ rpdo'.CANrxData[c] = IF c = f THEN m ELSE rpdo.CANrxData[c]
    BY <1>1, <1>2, BufferFilled
  <1>5. /\ rpdo'.valid <=> rpdo.valid
        /\ rpdo'.synchronous <=> rpdo.synchronous
        /\ rpdo'.OD_IO = rpdo.OD_IO /\ rpdo'.mappedObjectsCount = rpdo.mappedObjectsCount
    <2>1. RpdoOK(rpdo')
      BY <1>1, <1>2, RpdoReceived DEF PdoInv
    <2>2. rpdo' \in RpdoType
      BY <2>1 DEF RpdoOK
    <2> QED  BY <1>4, <2>2 DEF SameReceiver, RpdoType
  <1>6. CASE ~good
    <2>1. rpdo.valid /\ ~disturbed => Follows(rpdo', sync, vals, latest, atSync, syncs)
      BY <1>3, <1>4, <1>6, FollowsSame
    <2>2. latest' = latest
      BY <1>2, <1>6
    <2> HIDE DEF good
    <2> QED  BY <1>2, <1>3, <1>5, <2>1, <2>2, FollowKept
  <1>7. CASE good
    <2>1. latest' = m /\ rpdo.valid /\ rpdo'.valid
      BY <1>2, <1>5, <1>7
    <2>2. /\ f \in 0..1 /\ p \in 0..1
          /\ ~rpdo.synchronous => f = 0
          /\ rpdo.synchronous => f # p
          /\ rxBuffer(rpdo', sync) = f /\ processBuffer(rpdo', sync) = p
      BY <1>5, BufferPair
    <2>3. \A c \in 0..1 : /\ rpdo'.CANrxNew[c] <=> rpdo.CANrxNew[c] \/ c = f
                          /\ rpdo'.CANrxData[c] = IF c = f THEN m ELSE rpdo.CANrxData[c]
      BY <1>4, <1>7
    <2>4. \A x : hasTaken(rpdo', vals, x) <=> hasTaken(rpdo, vals, x)
      BY <1>5, SameObjects
    <2>5. ASSUME ~disturbed
          PROVE  Follows(rpdo', sync, vals, m, atSync, syncs)
      <3>1. Follows(rpdo, sync, vals, latest, atSync, syncs)
        BY <1>3, <2>1, <2>5
      <3>2. CASE ~rpdo.synchronous
        <4>1. rpdo'.CANrxNew[0] /\ rpdo'.CANrxData[0] = m
          BY <2>2, <2>3, <3>2
        <4> QED  BY <1>1, <1>5, <3>2, <4>1 DEF Follows, holds
      <3>3. CASE rpdo.synchronous
        <4>1. holds(rpdo, vals, p, atSync) /\ (syncs = 0 => ~rpdo.CANrxNew[p])
          BY <3>1, <3>3 DEF Follows
        <4>2. rxBuffer(rpdo', sync) = f /\ processBuffer(rpdo', sync) = p
          BY <2>2
        <4>3. (f \in 0..1 /\ p \in 0..1 /\ f # p)
          BY <2>2, <3>3
        <4> HIDE DEF f, p
        <4>4. /\ rpdo'.CANrxNew[f] /\ rpdo'.CANrxData[f] = m
              /\ rpdo'.CANrxNew[p] <=> rpdo.CANrxNew[p]
              /\ rpdo'.CANrxData[p] = rpdo.CANrxData[p]
          BY <2>3, <4>3
        <4>5. holds(rpdo', vals, p, atSync)
          BY <2>4, <4>1, <4>4 DEF holds
        <4> QED  BY <1>1, <1>5, <3>3, <4>1, <4>2, <4>4, <4>5 DEF Follows
      <3> QED  BY <3>2, <3>3
    <2>6. rpdo'.valid /\ ~disturbed' => Follows(rpdo', sync, vals', latest', atSync', syncs)
      BY <1>2, <2>1, <2>5
    <2>7. latest' \in Nat /\ atSync' \in Nat
      BY <1>1, <1>2, <1>3, <2>1
    <2> HIDE DEF good
    <2> QED  BY <1>2, <2>1, <2>6, <2>7, FollowKept
  <1> QED  BY <1>6, <1>7

\* With empty buffers the last message has been taken, and that is all.
LEMMA FollowsEmpty ==
    ASSUME NEW r, NEW sy, NEW v, NEW last, NEW before, NEW waiting, \A b \in 0..1 : ~r.CANrxNew[b]
    PROVE  /\ Follows(r, sy, v, last, before, waiting) => hasTaken(r, v, last)
           /\ hasTaken(r, v, last) => Follows(r, sy, v, last, last, waiting)
  <1>1. rxBuffer(r, sy) \in 0..1 /\ processBuffer(r, sy) \in 0..1
    BY BufferPair
  <1>2. Follows(r, sy, v, last, before, waiting) => hasTaken(r, v, last)
    BY <1>1 DEF Follows, holds
  <1>3. hasTaken(r, v, last) => Follows(r, sy, v, last, last, waiting)
    BY <1>1 DEF Follows, holds
  <1> QED  BY <1>2, <1>3

\* The parameters of the RPDO are written.
LEMMA FollowWriteRpdo ==
    ASSUME PdoInv, FollowInv, WriteRpdo
    PROVE  FollowInv'
  <1> DEFINE changed == rpdo'.synchronous # rpdo.synchronous
  <1>1. RpdoOK(rpdo) /\ scenario \in DOMAIN Scenarios
    BY DEF PdoInv
  <1>2. /\ UNCHANGED <<sync, syncs, vals>>
        /\ disturbed' = (disturbed \/ (changed /\ pending))
        /\ latest' = IF rpdo'.valid THEN latest ELSE 0
        /\ atSync' = IF ~rpdo'.valid THEN 0 ELSE IF changed THEN latest ELSE atSync
    BY DEF WriteRpdo
  <1>3. /\ latest \in Nat /\ atSync \in Nat
        /\ ~rpdo.valid => latest = 0 /\ atSync = 0
        /\ rpdo.valid /\ ~disturbed => Follows(rpdo, sync, vals, latest, atSync, syncs)
    BY DEF FollowInv
  <1>4. /\ rpdo' \in RpdoType
        /\ \/ SameBuffers(rpdo', rpdo)
           \/ ~rpdo'.valid
           \/ ~rpdo.valid /\ rpdo'.CANrxNew = rpdo.CANrxNew
           \/ /\ rpdo'.valid /\ (rpdo'.synchronous <=> ~rpdo.synchronous)
              /\ ~rpdo'.CANrxNew[1] /\ (rpdo'.CANrxNew[0] <=> rpdo.CANrxNew[0])
              /\ SameReceiver([rpdo' EXCEPT !.synchronous = rpdo.synchronous], rpdo)
    <2>1. ASSUME NEW w \in Here.r14xx, rpdo' = OD_write_14xx(rpdo, w[1], w[2])
          PROVE  <1>4!:
      <3>1. w \in CommunicationWrites({5})
        BY <1>1, ScenarioTypes
      <3>2. RpdoOK(rpdo')
        BY <1>1, <2>1, <3>1, RpdoWritten
      <3> QED  BY <1>1, <2>1, <3>1, <3>2, BuffersWritten DEF RpdoOK
    <2>2. ASSUME NEW w \in Here.r16xx, rpdo' = OD_write_PDO_mapping(rpdo, w[1], w[2], TRUE).pdo
          PROVE  <1>4!:
      <3>1. w \in MappingWrites
        BY <1>1, ScenarioTypes
      <3>2. rpdo \in PdoType(TRUE) /\ PdoOK(rpdo, TRUE)
        BY <1>1 DEF RpdoOK, PdoType
      <3>3. rpdo' \in PdoType(TRUE) /\ (rpdo' = rpdo \/ (~rpdo.valid /\ SameButMapping(rpdo', rpdo, TRUE)))
        BY <2>2, <3>1, <3>2, PdoMappingWritten
      <3>4. SameBuffers(rpdo', rpdo) \/ ~rpdo'.valid
        BY <3>3 DEF SameBuffers, SameReceiver, SameButMapping
      <3> QED  BY <3>3, <3>4 DEF PdoType
    <2> QED  BY <2>1, <2>2 DEF WriteRpdo
  <1>5. latest' \in Nat /\ atSync' \in Nat /\ (~rpdo'.valid => latest' = 0 /\ atSync' = 0)
    BY <1>2, <1>3
  <1>6. ASSUME rpdo'.valid, ~disturbed'
        PROVE  Follows(rpdo', sync, vals, latest', atSync', syncs)
    <2>1. latest' = latest /\ (atSync' = IF changed THEN latest ELSE atSync) /\ ~disturbed /\ ~(changed /\ pending)
      BY <1>2, <1>6
    <2>2. rpdo.synchronous \in BOOLEAN /\ rpdo'.synchronous \in BOOLEAN
      BY <1>1, <1>4 DEF RpdoOK, RpdoType
    <2>3. CASE SameBuffers(rpdo', rpdo)
      <3>1. rpdo.valid /\ ~changed
        BY <1>6, <2>2, <2>3 DEF SameBuffers, SameReceiver
      <3>2. Follows(rpdo, sync, vals, latest, atSync, syncs) /\ atSync' = atSync
        BY <1>3, <2>1, <3>1
      <3>3. Follows(rpdo', sync, vals, latest, atSync, syncs)
        BY <2>3, <3>2, FollowsSame
      <3> QED  BY <2>1, <3>2, <3>3
    <2>4. CASE ~rpdo.valid /\ rpdo'.CANrxNew = rpdo.CANrxNew
      <3>1. \A b \in 0..1 : ~rpdo'.CANrxNew[b]
        BY <1>1, <2>4 DEF RpdoOK
      <3>2. latest' = 0 /\ atSync' = 0
        BY <1>3, <2>1, <2>4
      <3> QED  BY <3>1, <3>2, FollowsNothing
    <2>5. CASE /\ rpdo'.valid /\ (rpdo'.synchronous <=> ~rpdo.synchronous)
               /\ ~rpdo'.CANrxNew[1] /\ (rpdo'.CANrxNew[0] <=> rpdo.CANrxNew[0])
               /\ SameReceiver([rpdo' EXCEPT !.synchronous = rpdo.synchronous], rpdo)
      <3>1. changed /\ atSync' = latest
        BY <2>1, <2>2, <2>5
      <3>2. \A b \in 0..1 : ~rpdo.CANrxNew[b]
        BY <2>1, <3>1 DEF pending
      <3>3. \A b \in 0..1 : ~rpdo'.CANrxNew[b]
        BY <2>5, <3>2
      <3>4. rpdo.valid /\ rpdo'.OD_IO = rpdo.OD_IO /\ rpdo'.mappedObjectsCount = rpdo.mappedObjectsCount
        BY <1>4, <2>5 DEF SameReceiver, RpdoType
      <3>5. hasTaken(rpdo, vals, latest)
        BY <1>3, <2>1, <3>2, <3>4, FollowsEmpty
      <3>6. hasTaken(rpdo', vals, latest)
        BY <3>4, <3>5, SameObjects
      <3> QED  BY <2>1, <3>1, <3>3, <3>6, FollowsEmpty
    <2> QED  BY <1>4, <1>6, <2>3, <2>4, <2>5
  <1> QED  BY <1>2, <1>5, <1>6, FollowKept

\* What else the surroundings do.
LEMMA FollowSurroundings ==
    ASSUME PdoInv, FollowInv, Surroundings
    PROVE  FollowInv'
  <1>1. scenario \in DOMAIN Scenarios /\ rpdo.od \in PdoOd /\ RpdoOK(rpdo)
    BY DEF PdoInv, RpdoOK, RpdoType
  <1>2. ASSUME UNCHANGED <<sync, rpdo, vals, latest, atSync, syncs, disturbed>>
        PROVE  FollowInv'
    BY <1>2 DEF FollowInv
  <1>3. CASE \E x \in Here.states \ {nmt} : Command(x)
    BY <1>2, <1>3 DEF Command, objects, rpdoGhosts
  <1>4. CASE \E m \in Here.SYNCs : Sync(m)
    BY <1>1, <1>4, FollowSync, ScenarioTypes
  <1>5. CASE \E DLC \in Here.DLCs : Message(DLC)
    BY <1>1, <1>5, FollowMessage, ScenarioTypes
  <1>6. CASE WriteRpdo
    BY <1>6, FollowWriteRpdo
  <1>7. CASE WriteTpdo
    BY <1>2, <1>7 DEF WriteTpdo, rpdoGhosts
  <1>8. CASE WriteSync
    <2>1. UNCHANGED <<rpdo, vals, latest, atSync, syncs, disturbed>>
      BY <1>8 DEF WriteSync, rpdoGhosts
    <2>2. sync \in SyncType
      BY DEF FollowInv
    <2>3. sync' \in SyncType /\ SameToggle(sync', sync)
      <3>1. /\ Here.s1005 \subseteq [producer : BOOLEAN, id : PdoNames]
            /\ Here.s1006 \subseteq Nat /\ Here.s1019 \subseteq Nat
        BY <1>1, ScenarioTypes DEF SyncCobIds, PdoNames
      <3>2. \/ \E c \in Here.s1005 : sync' = OD_write_1005(sync, c)
            \/ \E t \in Here.s1006 : sync' = [sync EXCEPT !.period = t]
            \/ \E o \in Here.s1019 : sync' = OD_write_1019(sync, o)
        BY <1>8 DEF WriteSync
      <3> QED  BY <2>2, <3>1, <3>2, SyncWritten
    <2>4. SameBuffers(rpdo', rpdo)
      BY <2>1 DEF SameBuffers, SameReceiver
    <2>5. rpdo.valid /\ ~disturbed => Follows(rpdo', sync', vals, latest, atSync, syncs)
      BY <2>3, <2>4, FollowsSame DEF FollowInv, SameToggle
    <2> QED  BY <2>1, <2>3, <2>5 DEF FollowInv, SameToggle
  <1>9. CASE Request
    BY <1>2, <1>9 DEF Request, rpdoGhosts
  <1>10. CASE ResetCommunication
    <2>1. /\ rpdo' = CO_RPDO_init(rpdo.od, {}).rpdo
          /\ sync' = CO_SYNC_init([producer |-> sync.isProducer, id |-> sync.CAN_ID], sync.period,
                                  sync.window, sync.counterOverflowValue)
          /\ latest' = 0 /\ atSync' = 0 /\ syncs' = 0
      BY <1>10 DEF ResetCommunication
    <2>2. /\ [producer |-> sync.isProducer, id |-> sync.CAN_ID] \in [producer : BOOLEAN, id : PdoNames]
          /\ sync.period \in Nat /\ sync.window \in Nat /\ sync.counterOverflowValue \in Nat
      BY DEF FollowInv, SyncType
    <2>3. sync' \in SyncType /\ ~sync'.CANrxNew
      BY <2>1, <2>2, SyncInit
    <2> QED  BY <1>1, <2>1, <2>3, FollowSetUp
  <1> QED  BY <1>3, <1>4, <1>5, <1>6, <1>7, <1>8, <1>9, <1>10 DEF Surroundings

\* A call of CO_process gives the mapped objects the last message of good
\* length, with a synchronous RPDO the last before the SYNC that the call acts
\* on, and nothing else (CO_PDO_receive, CO_RPDO_process).
THEOREM RpdoSync == Spec => RpdoFollowsSync
  <1> DEFINE Inv == PdoInv /\ FollowInv
  <1>1. Init => Inv
    BY PdoInit, FollowInit
  <1>2. Inv /\ [Next]_vars => Inv' /\ (RpdoStep \/ UNCHANGED vars)
    <2> SUFFICES ASSUME Inv, [Next]_vars
                 PROVE  Inv' /\ (RpdoStep \/ UNCHANGED vars)
      OBVIOUS
    <2>1. ASSUME NEW dt \in Here.times, Process(dt)
          PROVE  Inv' /\ RpdoStep
      <3>1. dt \in Nat
        BY ScenarioTypes DEF PdoInv
      <3> QED  BY <2>1, <3>1, PdoProcess, FollowProcess
    <2>2. CASE Surroundings /\ UNCHANGED scenario /\ call' = NoCall
      <3>1. Inv'
        BY <2>2, PdoSurroundings, FollowSurroundings
      <3>2. RpdoStep
        BY <2>2 DEF RpdoStep, NoCall
      <3> QED  BY <3>1, <3>2
    <2>3. CASE UNCHANGED vars
      BY <2>3 DEF vars, objects, rpdoGhosts, PdoInv, FollowInv
    <2> QED  BY <2>1, <2>2, <2>3 DEF Next
  <1>3. RpdoStep \/ UNCHANGED vars => [RpdoStep]_vars
    OBVIOUS
  <1> QED  BY <1>1, <1>2, <1>3, PTL DEF Spec, RpdoFollowsSync, RpdoStep

-----------------------------------------------------------------------------
(* What one call of CO_TPDO_process does to the timers                      *)

\* The TPDO with these values of what it remembers about its sending.
TpdoTimers(q, p, request, counter, inhibit, event) ==
    /\ q \in TpdoType /\ q.valid = p.valid /\ q.od = p.od /\ q.transmissionType = p.transmissionType
    /\ q.eventTime = p.eventTime /\ q.inhibitTime = p.inhibitTime /\ q.syncStartValue = p.syncStartValue
    /\ q.flagPDO = p.flagPDO /\ q.mappedObjectsCount = p.mappedObjectsCount
    /\ (q.sendRequest <=> request) /\ q.syncCounter = counter /\ q.inhibitTimer = inhibit /\ q.eventTimer = event

\* One of them is changed.
LEMMA TimersWith ==
    ASSUME NEW p \in TpdoType, NEW v
    PROVE  /\ v \in BOOLEAN => TpdoTimers(withRequest(p, v), p, v, p.syncCounter, p.inhibitTimer, p.eventTimer)
           /\ v \in Int => TpdoTimers(withCounter(p, v), p, p.sendRequest, v, p.inhibitTimer, p.eventTimer)
           /\ v \in Nat => TpdoTimers(withInhibitTimer(p, v), p, p.sendRequest, p.syncCounter, v, p.eventTimer)
           /\ v \in Nat => TpdoTimers(withEventTimer(p, v), p, p.sendRequest, p.syncCounter, p.inhibitTimer, v)
  <1>1. v \in BOOLEAN => TpdoTimers(withRequest(p, v), p, v, p.syncCounter, p.inhibitTimer, p.eventTimer)
    BY DEF TpdoType, TpdoTimers, withRequest
  <1>2. v \in Int => TpdoTimers(withCounter(p, v), p, p.sendRequest, v, p.inhibitTimer, p.eventTimer)
    BY DEF TpdoType, TpdoTimers, withCounter
  <1>3. v \in Nat => TpdoTimers(withInhibitTimer(p, v), p, p.sendRequest, p.syncCounter, v, p.eventTimer)
    BY DEF TpdoType, TpdoTimers, withInhibitTimer
  <1>4. v \in Nat => TpdoTimers(withEventTimer(p, v), p, p.sendRequest, p.syncCounter, p.inhibitTimer, v)
    BY DEF TpdoType, TpdoTimers, withEventTimer
  <1> QED  BY <1>1, <1>2, <1>3, <1>4

\* After a frame was sent, and the flags then.
sentTpdo(p) == withInhibitTimer(withEventTimer(withRequest(p, FALSE), p.eventTime), p.inhibitTime)
takenFlags(p, flags) == IF isEventDriven(p.transmissionType) THEN flags \cup ownFlags(p) ELSE flags

\* The timers start again.
LEMMA SentTimers ==
    ASSUME NEW p \in TpdoType
    PROVE  TpdoTimers(sentTpdo(p), p, FALSE, p.syncCounter, p.inhibitTime, p.eventTime)
  <1> DEFINE q1 == withRequest(p, FALSE)
             q2 == withEventTimer(q1, p.eventTime)
             q  == withInhibitTimer(q2, p.inhibitTime)
  <1>1. p.eventTime \in Nat /\ p.inhibitTime \in Nat
    BY DEF TpdoType
  <1>0. q = sentTpdo(p)
    BY DEF sentTpdo
  <1>2. TpdoTimers(q1, p, FALSE, p.syncCounter, p.inhibitTimer, p.eventTimer)
    BY TimersWith
  <1> HIDE DEF q1
  <1>3. TpdoTimers(q2, q1, q1.sendRequest, q1.syncCounter, q1.inhibitTimer, p.eventTime)
    BY <1>1, <1>2, TimersWith DEF TpdoTimers
  <1> HIDE DEF q2
  <1>4. TpdoTimers(q, q2, q2.sendRequest, q2.syncCounter, p.inhibitTime, q2.eventTimer)
    <2>1. q2 \in TpdoType
      BY <1>3 DEF TpdoTimers
    <2> QED  BY <1>1, <2>1, TimersWith
  <1> HIDE DEF q
  <1>5. TpdoTimers(q, p, FALSE, p.syncCounter, p.inhibitTime, p.eventTime)
    BY <1>2, <1>3, <1>4 DEF TpdoTimers
  <1> QED  BY <1>0, <1>5

\* CO_TPDOsend sends: the sum of the places is the length.
LEMMA SendsAs ==
    ASSUME NEW t, TpdoReady(t)
    PROVE  CO_TPDOsend(t) = txWith(t, sentTpdo(t.tpdo), takenFlags(t.tpdo, t.flagged), TRUE)
  <1> DEFINE p == t.tpdo
             flags == takenFlags(p, t.flagged)
             r == tpdo_read(t)
             q1 == withRequest(p, FALSE)
             q2 == withEventTimer(q1, p.eventTime)
             q == withInhibitTimer(q2, p.inhibitTime)
             n == CO_TPDOsend(t)
  <1>1. p \in TpdoType /\ TpdoOK(p) /\ p.valid
    BY DEF TpdoReady, TpdoOK
  <1>2. mappedBytes(p, p.mappedObjectsCount) = p.dataLength
    BY <1>1 DEF TpdoOK, PdoOK, Counted, Identified
  <1>4. t = [tpdo |-> t.tpdo, flagged |-> t.flagged, errs |-> t.errs, sent |-> t.sent]
    BY DEF TpdoReady
  <1> HIDE DEF p
  <1>5. r = [tpdo |-> p, flagged |-> flags, errs |-> t.errs, sent |-> t.sent]
    BY <1>4 DEF tpdo_read, p, takenFlags
  <1> HIDE DEF r, flags
  <1>6. r.tpdo = p
    BY <1>5
  <1>7. n = [r EXCEPT !.tpdo.sendRequest = FALSE, !.tpdo.eventTimer = p.eventTime,
                      !.tpdo.inhibitTimer = p.inhibitTime, !.sent = TRUE]
    BY <1>2, <1>6 DEF CO_TPDOsend, tpdo_sent, r
  <1> HIDE DEF n
  <1>8. n = txWith(t, q, flags, TRUE)
    BY <1>5, <1>7 DEF txWith, withRequest, withEventTimer, withInhibitTimer
  <1> QED  BY <1>8 DEF n, q, q2, q1, flags, p, sentTpdo

\* What is left of the event timer and of the inhibit timer, and whether a
\* frame is asked for.
eventLeft(p, dt) ==
    IF isEventDriven(p.transmissionType) /\ p.eventTime # 0 THEN countdown(p.eventTimer, dt) ELSE p.eventTimer
inhibitLeft(p, dt) ==
    IF p.transmissionType >= EVENT_LO THEN countdown(p.inhibitTimer, dt) ELSE p.inhibitTimer
asksNow(p, flags, dt) ==
    \/ p.sendRequest
    \/ /\ isEventDriven(p.transmissionType)
       /\ (p.eventTime # 0 /\ eventLeft(p, dt) = 0) \/ ownFlags(p) \ flags # {}

\* The events of a TPDO.
LEMMA EventsAs ==
    ASSUME NEW t, TpdoReady(t), NEW dt \in Nat
    PROVE  \E q : /\ tpdo_events(t, dt) = txWith(t, q, t.flagged, t.sent)
                  /\ TpdoTimers(q, t.tpdo, asksNow(t.tpdo, t.flagged, dt), t.tpdo.syncCounter,
                                t.tpdo.inhibitTimer, eventLeft(t.tpdo, dt))
  <1> DEFINE p == t.tpdo
             timer == eventLeft(p, dt)
             request == asksNow(p, t.flagged, dt)
             q1 == withEventTimer(p, timer)
             q2 == withRequest(q1, request)
             timed(q) == TpdoTimers(q, p, request, p.syncCounter, p.inhibitTimer, timer)
  <1>1. p \in TpdoType
    BY DEF TpdoReady, TpdoOK
  <1>2. t = [tpdo |-> p, flagged |-> t.flagged, errs |-> t.errs, sent |-> t.sent]
    BY DEF TpdoReady
  <1>3. CASE ~isEventDriven(p.transmissionType)
    <2>1. tpdo_events(t, dt) = t
      BY <1>3 DEF tpdo_events
    <2>2. t = txWith(t, p, t.flagged, t.sent)
      BY <1>2 DEF txWith
    <2>3. timed(p)
      BY <1>1, <1>3 DEF TpdoTimers, asksNow, eventLeft
    <2> QED  BY <2>1, <2>2, <2>3
  <1>4. CASE isEventDriven(p.transmissionType)
    <2>1. timer \in Nat
      BY <1>1 DEF TpdoType, eventLeft, countdown
    <2>2. request \in BOOLEAN
      BY <1>1 DEF TpdoType, asksNow
    <2>3. tpdo_events(t, dt) = [t EXCEPT !.tpdo.eventTimer = timer, !.tpdo.sendRequest = request]
      BY <1>4 DEF tpdo_events, eventLeft, asksNow
    <2> HIDE DEF timer, request
    <2> DEFINE k == [t EXCEPT !.tpdo = q1]
    <2>4. [t EXCEPT !.tpdo.eventTimer = timer, !.tpdo.sendRequest = request]
            = [k EXCEPT !.tpdo = withRequest(k.tpdo, request)]
      BY DEF withEventTimer, withRequest
    <2>5. TpdoTimers(q1, p, p.sendRequest, p.syncCounter, p.inhibitTimer, timer)
      BY <1>1, <2>1, TimersWith
    <2> HIDE DEF q1
    <2>6. k = [tpdo |-> q1, flagged |-> t.flagged, errs |-> t.errs, sent |-> t.sent]
      BY <1>2
    <2> HIDE DEF k
    <2>7. k.tpdo = q1
      BY <2>6
    <2>8. [k EXCEPT !.tpdo = q2] = txWith(t, q2, t.flagged, t.sent)
      <3> HIDE DEF q2
      <3> QED  BY <2>6 DEF txWith
    <2>9. TpdoTimers(q2, q1, request, q1.syncCounter, q1.inhibitTimer, q1.eventTimer)
      BY <2>2, <2>5, TimersWith DEF TpdoTimers
    <2> HIDE DEF q2
    <2>10. timed(q2)
      BY <2>5, <2>9 DEF TpdoTimers
    <2>11. tpdo_events(t, dt) = txWith(t, q2, t.flagged, t.sent)
      BY <2>3, <2>4, <2>7, <2>8 DEF q2
    <2> HIDE DEF timed
    <2> QED  BY <2>10, <2>11 DEF timed, timer, request
  <1> QED  BY <1>3, <1>4

\* Where the cycle stands at a SYNC.
begunAt(p, sy) == IF p.syncCounter # 255 THEN p.syncCounter
                  ELSE IF sy.counterOverflowValue # 0 /\ p.syncStartValue # 0 THEN 254
                  ELSE p.transmissionType \div 2 + 1
cycleSends(p, sy) == IF begunAt(p, sy) = 254 THEN sy.counter = p.syncStartValue ELSE begunAt(p, sy) = 1
waitsOn(p, sy) == IF begunAt(p, sy) = 254 THEN 254 ELSE begunAt(p, sy) - 1

\* The answer of a call that sends.
SentAs(n, p, flags, counter) ==
    /\ n.sent /\ n.flagged = takenFlags(p, flags)
    /\ TpdoTimers(n.tpdo, p, FALSE, counter, p.inhibitTime, p.eventTime)

\* The answer of one that does not.
UnsentAs(n, p, flags, request, counter, inhibit, event) ==
    ~n.sent /\ n.flagged = flags /\ TpdoTimers(n.tpdo, p, request, counter, inhibit, event)

\* A TPDO that was made ready is sent.
LEMMA SendsReady ==
    ASSUME NEW t, TpdoReady(t), NEW p, NEW request, NEW inhibit, NEW event, NEW counter,
           TpdoTimers(t.tpdo, p, request, counter, inhibit, event)
    PROVE  SentAs(CO_TPDOsend(t), p, t.flagged, counter)
  <1> DEFINE n == CO_TPDOsend(t)
             q == sentTpdo(t.tpdo)
             flags == takenFlags(t.tpdo, t.flagged)
  <1>1. n = txWith(t, q, flags, TRUE)
    BY SendsAs
  <1>2. TpdoTimers(q, t.tpdo, FALSE, t.tpdo.syncCounter, t.tpdo.inhibitTime, t.tpdo.eventTime)
    BY SentTimers DEF TpdoTimers
  <1>3. flags = takenFlags(p, t.flagged)
    BY DEF TpdoTimers, takenFlags, ownFlags
  <1> HIDE DEF q, flags
  <1>4. n.sent = TRUE /\ n.flagged = flags /\ n.tpdo = q
    BY <1>1 DEF txWith
  <1>5. TpdoTimers(q, p, FALSE, counter, p.inhibitTime, p.eventTime)
    BY <1>2 DEF TpdoTimers
  <1> HIDE DEF n
  <1> QED  BY <1>3, <1>4, <1>5 DEF SentAs, n

\* The cycle of a TPDO.
LEMMA CycleAs ==
    ASSUME NEW t, TpdoReady(t), NEW sy, ~t.sent
    PROVE  LET p == t.tpdo
               n == tpdo_cycle(t, sy)
           IN  IF cycleSends(p, sy) THEN SentAs(n, p, t.flagged, p.transmissionType)
               ELSE UnsentAs(n, p, t.flagged, p.sendRequest, waitsOn(p, sy), p.inhibitTimer, p.eventTimer)
  <1> DEFINE p == t.tpdo
             again == p.transmissionType
             less  == waitsOn(p, sy)
             q1 == withCounter(p, again)
             q2 == withCounter(p, less)
             ready == txWith(t, q1, t.flagged, t.sent)
             wait  == txWith(t, q2, t.flagged, t.sent)
             n == tpdo_cycle(t, sy)
  <1>1. p \in TpdoType /\ TpdoOK(p) /\ p.valid
    BY DEF TpdoReady, TpdoOK
  <1>2. p.syncCounter \in Int /\ p.transmissionType \in 0..255
    BY <1>1 DEF TpdoType
  <1>3. t = [tpdo |-> t.tpdo, flagged |-> t.flagged, errs |-> t.errs, sent |-> t.sent]
    BY DEF TpdoReady
  <1>4. begunAt(p, sy) \in Int
    <2>1. p.transmissionType \div 2 + 1 \in Int
      BY <1>2
    <2> HIDE DEF p
    <2> QED  BY <1>2, <2>1 DEF begunAt
  <1>5. again \in Int /\ less \in Int
    BY <1>2, <1>4 DEF waitsOn
  <1>6. n = IF cycleSends(p, sy) THEN CO_TPDOsend([t EXCEPT !.tpdo.syncCounter = again])
            ELSE [t EXCEPT !.tpdo.syncCounter = less]
    BY DEF tpdo_cycle, reloaded, cycleSends, waitsOn, begunAt
  <1> HIDE DEF again, less
  <1>7. [t EXCEPT !.tpdo.syncCounter = again] = ready /\ [t EXCEPT !.tpdo.syncCounter = less] = wait
    BY <1>3 DEF txWith, withCounter
  <1>8. /\ TpdoOK(q1) /\ q1.valid
        /\ TpdoTimers(q1, p, p.sendRequest, again, p.inhibitTimer, p.eventTimer)
        /\ TpdoTimers(q2, p, p.sendRequest, less, p.inhibitTimer, p.eventTimer)
    BY <1>1, <1>5, TpdoTimed, TimersWith
  <1> HIDE DEF q1, q2
  <1>9. TpdoReady(ready)
    BY <1>8, TxWith
  <1>10. ready.tpdo = q1 /\ ready.flagged = t.flagged /\ wait.tpdo = q2 /\ wait.flagged = t.flagged /\ wait.sent = t.sent
    BY DEF txWith
  <1> HIDE DEF ready, wait, n, p
  <1>11. CASE cycleSends(p, sy)
    <2>1. n = CO_TPDOsend(ready)
      BY <1>6, <1>7, <1>11
    <2>2. SentAs(CO_TPDOsend(ready), p, t.flagged, again)
      BY <1>8, <1>9, <1>10, SendsReady
    <2> QED  BY <1>11, <2>1, <2>2 DEF again, n, p
  <1>12. CASE ~cycleSends(p, sy)
    <2>1. n = wait
      BY <1>6, <1>7, <1>12
    <2>2. UnsentAs(n, p, t.flagged, p.sendRequest, less, p.inhibitTimer, p.eventTimer)
      BY <1>8, <1>10, <2>1 DEF UnsentAs
    <2> QED  BY <1>12, <2>2 DEF less, n, p
  <1> QED  BY <1>11, <1>12

\* Whether a call sends, and where it leaves the cycle.
sendsNow(p, flags, sy, dt, syncWas) ==
    IF p.transmissionType >= EVENT_LO THEN asksNow(p, flags, dt) /\ inhibitLeft(p, dt) = 0
    ELSE syncWas /\ IF p.transmissionType = SYNC_ACYCLIC THEN asksNow(p, flags, dt) ELSE cycleSends(p, sy)
counterSent(p) == IF isEventDriven(p.transmissionType) THEN p.syncCounter ELSE p.transmissionType
counterLeft(p, sy, syncWas) ==
    IF isEventDriven(p.transmissionType) \/ ~syncWas THEN p.syncCounter ELSE waitsOn(p, sy)

\* A call of CO_TPDO_process, as a whole.
CallAs(n, p, flags, sy, dt, operates, syncWas) ==
    IF ~p.valid \/ ~operates THEN UnsentAs(n, p, flags, TRUE, 255, 0, 0)
    ELSE IF sendsNow(p, flags, sy, dt, syncWas) THEN SentAs(n, p, flags, counterSent(p))
    ELSE UnsentAs(n, p, flags, asksNow(p, flags, dt), counterLeft(p, sy, syncWas), inhibitLeft(p, dt), eventLeft(p, dt))

\* An answer to what a TPDO has become is one to the TPDO.
LEMMA AnswersFrom ==
    ASSUME NEW p, NEW q, NEW request, NEW counter, NEW inhibit, NEW event,
           TpdoTimers(q, p, request, counter, inhibit, event), NEW n, NEW flags,
           NEW r2, NEW c2, NEW i2, NEW e2
    PROVE  /\ SentAs(n, q, flags, c2) => SentAs(n, p, flags, c2)
           /\ UnsentAs(n, q, flags, r2, c2, i2, e2) => UnsentAs(n, p, flags, r2, c2, i2, e2)
  <1>1. takenFlags(q, flags) = takenFlags(p, flags)
    BY DEF TpdoTimers, takenFlags, ownFlags
  <1> QED  BY <1>1 DEF SentAs, UnsentAs, TpdoTimers

\* A TPDO that may not send is made ready for the next time.
LEMMA IdleAs ==
    ASSUME NEW p \in TpdoType
    PROVE  TpdoTimers(tpdo_idle(p), p, TRUE, 255, 0, 0)
  <1> DEFINE m1 == withRequest(p, TRUE)
             m2 == withInhibitTimer(m1, 0)
             m3 == withEventTimer(m2, 0)
             m  == withCounter(m3, 255)
  <1>1. tpdo_idle(p) = m
    BY DEF tpdo_idle, withRequest, withInhibitTimer, withEventTimer, withCounter
  <1>2. TpdoTimers(m1, p, TRUE, p.syncCounter, p.inhibitTimer, p.eventTimer)
    BY TimersWith
  <1> HIDE DEF m1
  <1>3. m1 \in TpdoType
    BY <1>2 DEF TpdoTimers
  <1>4. TpdoTimers(m2, m1, m1.sendRequest, m1.syncCounter, 0, m1.eventTimer)
    BY <1>3, TimersWith
  <1> HIDE DEF m2
  <1>5. m2 \in TpdoType
    BY <1>4 DEF TpdoTimers
  <1>6. TpdoTimers(m3, m2, m2.sendRequest, m2.syncCounter, m2.inhibitTimer, 0)
    BY <1>5, TimersWith
  <1> HIDE DEF m3
  <1>7. m3 \in TpdoType
    BY <1>6 DEF TpdoTimers
  <1>8. TpdoTimers(m, m3, m3.sendRequest, 255, m3.inhibitTimer, m3.eventTimer)
    BY <1>7, TimersWith
  <1> HIDE DEF m
  <1>9. TpdoTimers(m, p, TRUE, 255, 0, 0)
    BY <1>2, <1>4, <1>6, <1>8 DEF TpdoTimers
  <1> QED  BY <1>1, <1>9

\* A request is sent if it is allowed.
LEMMA RequestedAs ==
    ASSUME NEW t, TpdoReady(t), ~t.sent, NEW allowed,
           NEW p, NEW request, NEW counter, NEW inhibit, NEW event,
           TpdoTimers(t.tpdo, p, request, counter, inhibit, event)
    PROVE  LET n == tpdo_requested(t, allowed) IN
           IF request /\ allowed THEN SentAs(n, p, t.flagged, counter)
           ELSE UnsentAs(n, p, t.flagged, request, counter, inhibit, event)
  <1>1. t.tpdo.sendRequest <=> request
    BY DEF TpdoTimers
  <1>2. CASE request /\ allowed
    <2>1. tpdo_requested(t, allowed) = CO_TPDOsend(t)
      BY <1>1, <1>2 DEF tpdo_requested
    <2>2. SentAs(CO_TPDOsend(t), p, t.flagged, counter)
      BY SendsReady
    <2> QED  BY <1>2, <2>1, <2>2
  <1>3. CASE ~(request /\ allowed)
    <2>1. tpdo_requested(t, allowed) = t
      BY <1>1, <1>3 DEF tpdo_requested
    <2>2. UnsentAs(t, p, t.flagged, request, counter, inhibit, event)
      BY DEF UnsentAs
    <2> QED  BY <1>3, <2>1, <2>2
  <1> QED  BY <1>2, <1>3

\* With less of the inhibit time left.
LEMMA InhibitedAs ==
    ASSUME NEW t, TpdoReady(t), NEW dt \in Nat,
           NEW p, NEW request, NEW counter, NEW inhibit, NEW event,
           TpdoTimers(t.tpdo, p, request, counter, inhibit, event)
    PROVE  LET n == tpdo_inhibited(t, dt) IN
           /\ TpdoTimers(n.tpdo, p, request, counter, countdown(inhibit, dt), event)
           /\ n.flagged = t.flagged /\ n.sent = t.sent
  <1> DEFINE left == countdown(inhibit, dt)
             q == withInhibitTimer(t.tpdo, left)
  <1>1. t = [tpdo |-> t.tpdo, flagged |-> t.flagged, errs |-> t.errs, sent |-> t.sent]
    BY DEF TpdoReady
  <1>2. t.tpdo \in TpdoType /\ t.tpdo.inhibitTimer = inhibit /\ inhibit \in Nat
    BY DEF TpdoTimers, TpdoType
  <1>3. tpdo_inhibited(t, dt) = txWith(t, q, t.flagged, t.sent)
    BY <1>1, <1>2 DEF txWith, withInhibitTimer, tpdo_inhibited
  <1>4. left \in Nat
    BY <1>2 DEF countdown
  <1> HIDE DEF left
  <1>5. TpdoTimers(q, t.tpdo, t.tpdo.sendRequest, t.tpdo.syncCounter, left, t.tpdo.eventTimer)
    BY <1>2, <1>4, TimersWith
  <1> HIDE DEF q
  <1>6. TpdoTimers(q, p, request, counter, left, event)
    BY <1>5 DEF TpdoTimers
  <1> QED  BY <1>3, <1>6 DEF txWith, left

\* CO_TPDO_process does what CallAs says.
LEMMA TpdoProcessAs ==
    ASSUME NEW p, TpdoOK(p), NEW flags, NEW es, "GENERIC_SOFTWARE_ERROR" \notin es, NEW sy, NEW dt \in Nat,
           NEW operates, NEW syncWas \in BOOLEAN
    PROVE  CallAs(CO_TPDO_process(p, flags, es, sy, dt, operates, syncWas), p, flags, sy, dt, operates, syncWas)
  <1> DEFINE t == [tpdo |-> p, flagged |-> flags, errs |-> es, sent |-> FALSE]
             n == CO_TPDO_process(p, flags, es, sy, dt, operates, syncWas)
             idle == tpdo_idle(p)
             stopped == [tpdo |-> idle, flagged |-> flags, errs |-> es, sent |-> FALSE]
             e == tpdo_events(t, dt)
             done == tpdo_sending(e, sy, dt, syncWas)
  <1>1. p \in TpdoType /\ p.transmissionType \in 0..255
    BY DEF TpdoOK, TpdoType
  <1>2. CASE ~p.valid \/ ~operates
    <2>1. n = stopped
      <3>1. n = [t EXCEPT !.tpdo = tpdo_idle(@)]
        BY <1>2 DEF CO_TPDO_process
      <3>2. t.tpdo = p
        OBVIOUS
      <3>3. [t EXCEPT !.tpdo = idle] = stopped
        <4> HIDE DEF idle
        <4>1. \A s : [[tpdo |-> p, flagged |-> flags, errs |-> es, sent |-> s] EXCEPT !.tpdo = idle]
                       = [tpdo |-> idle, flagged |-> flags, errs |-> es, sent |-> s]
          OBVIOUS
        <4> QED  BY <4>1, Zenon
      <3> HIDE DEF t
      <3>4. [t EXCEPT !.tpdo = tpdo_idle(@)] = [t EXCEPT !.tpdo = idle]
        BY <3>2
      <3> HIDE DEF idle, n, stopped
      <3> QED  BY <3>1, <3>3, <3>4
    <2>2. TpdoTimers(idle, p, TRUE, 255, 0, 0)
      BY <1>1, IdleAs
    <2> HIDE DEF idle
    <2>3. UnsentAs(stopped, p, flags, TRUE, 255, 0, 0)
      BY <2>2 DEF UnsentAs
    <2> HIDE DEF n, stopped
    <2> QED  BY <1>2, <2>1, <2>3 DEF CallAs, n
  <1>3. CASE p.valid /\ operates
    <2> DEFINE request == asksNow(p, flags, dt)
               inhibit == p.inhibitTimer
               left == inhibitLeft(p, dt)
               event == eventLeft(p, dt)
               type == p.transmissionType
               fine(x) == IF sendsNow(p, flags, sy, dt, syncWas) THEN SentAs(x, p, flags, counterSent(p))
                          ELSE UnsentAs(x, p, flags, request, counterLeft(p, sy, syncWas), left, event)
    <2>1. n = done
      BY <1>3 DEF CO_TPDO_process
    <2>2. /\ t = [tpdo |-> t.tpdo, flagged |-> t.flagged, errs |-> t.errs, sent |-> t.sent]
          /\ t.tpdo = p /\ t.flagged = flags /\ t.errs = es /\ t.sent = FALSE
      OBVIOUS
    <2> HIDE DEF t
    <2>3. TpdoReady(t)
      BY <1>3, <2>2 DEF TpdoReady
    <2>4. PICK q : /\ e = txWith(t, q, flags, FALSE)
                   /\ TpdoTimers(q, p, request, p.syncCounter, inhibit, event)
      BY <2>2, <2>3, EventsAs
    <2>5. TpdoReady(e)
      BY <2>3, TpdoEvents
    <2>6. e.tpdo = q /\ e.flagged = flags /\ e.sent = FALSE
      BY <2>4 DEF txWith
    <2> HIDE DEF e, request, event
    <2>7. TpdoTimers(e.tpdo, p, request, p.syncCounter, inhibit, event)
      BY <2>4, <2>6
    <2>8. e.tpdo.transmissionType = type
      BY <2>7 DEF TpdoTimers
    <2>9. ASSUME type >= EVENT_LO
          PROVE  fine(done)
      <3> DEFINE h == tpdo_inhibited(e, dt)
                 a == countdown(e.tpdo.inhibitTimer, dt) = 0
      <3>1. ~(type < EVENT_LO) /\ type # SYNC_ACYCLIC /\ isEventDriven(type)
        BY <1>1, <2>9 DEF EVENT_LO, SYNC_ACYCLIC, isEventDriven
      <3>2. done = tpdo_requested(h, a)
        BY <2>8, <2>9, <3>1 DEF tpdo_sending
      <3>3. left = countdown(inhibit, dt) /\ (a <=> left = 0)
        BY <2>7, <2>9 DEF inhibitLeft, TpdoTimers
      <3>4. /\ TpdoTimers(h.tpdo, p, request, p.syncCounter, countdown(inhibit, dt), event)
            /\ h.flagged = flags /\ h.sent = FALSE
        BY <2>5, <2>6, <2>7, InhibitedAs
      <3>5. TpdoReady(h)
        BY <2>5, TpdoEvents
      <3> HIDE DEF h, a, left, inhibit
      <3>6. IF request /\ a THEN SentAs(done, p, flags, p.syncCounter)
            ELSE UnsentAs(done, p, flags, request, p.syncCounter, left, event)
        BY <3>2, <3>3, <3>4, <3>5, RequestedAs
      <3>7. /\ sendsNow(p, flags, sy, dt, syncWas) <=> request /\ a
            /\ counterSent(p) = p.syncCounter /\ counterLeft(p, sy, syncWas) = p.syncCounter
        BY <2>9, <3>1, <3>3 DEF sendsNow, counterSent, counterLeft, request, left
      <3> HIDE DEF done, type
      <3> QED  BY <3>6, <3>7
    <2>10. ASSUME type < EVENT_LO /\ ~syncWas
          PROVE  fine(done)
      <3>1. ~(type >= EVENT_LO)
        BY <1>1, <2>10 DEF EVENT_LO
      <3>2. done = e
        BY <2>8, <2>10, <3>1 DEF tpdo_sending
      <3>3. ~sendsNow(p, flags, sy, dt, syncWas) /\ counterLeft(p, sy, syncWas) = p.syncCounter /\ left = inhibit
        BY <2>10, <3>1 DEF sendsNow, counterLeft, inhibitLeft
      <3>4. UnsentAs(e, p, flags, request, p.syncCounter, inhibit, event)
        BY <2>6, <2>7 DEF UnsentAs
      <3> HIDE DEF done, left, inhibit
      <3> QED  BY <3>2, <3>3, <3>4
    <2>11. ASSUME type < EVENT_LO /\ syncWas /\ type = SYNC_ACYCLIC
          PROVE  fine(done)
      <3>1. ~(type >= EVENT_LO) /\ isEventDriven(type)
        BY <1>1, <2>11 DEF EVENT_LO, isEventDriven
      <3>2. done = tpdo_requested(e, TRUE)
        BY <2>8, <2>11, <3>1 DEF tpdo_sending
      <3>3. /\ sendsNow(p, flags, sy, dt, syncWas) <=> request
            /\ counterSent(p) = p.syncCounter /\ counterLeft(p, sy, syncWas) = p.syncCounter /\ left = inhibit
        BY <2>11, <3>1 DEF sendsNow, counterLeft, counterSent, inhibitLeft, request
      <3> HIDE DEF left, inhibit
      <3>4. IF request THEN SentAs(done, p, flags, p.syncCounter)
            ELSE UnsentAs(done, p, flags, request, p.syncCounter, inhibit, event)
        BY <2>5, <2>6, <2>7, <3>2, RequestedAs
      <3> HIDE DEF done
      <3> QED  BY <3>3, <3>4
    <2>12. ASSUME type < EVENT_LO /\ syncWas /\ type # SYNC_ACYCLIC
          PROVE  fine(done)
      <3>1. ~(type >= EVENT_LO) /\ ~isEventDriven(type)
        BY <1>1, <2>12 DEF EVENT_LO, isEventDriven
      <3>2. done = tpdo_cycle(e, sy)
        BY <2>8, <2>12, <3>1 DEF tpdo_sending
      <3>3. /\ sendsNow(p, flags, sy, dt, syncWas) <=> cycleSends(p, sy)
            /\ counterSent(p) = type /\ counterLeft(p, sy, syncWas) = waitsOn(p, sy) /\ left = inhibit
        BY <2>12, <3>1 DEF sendsNow, counterLeft, counterSent, inhibitLeft
      <3>4. (cycleSends(e.tpdo, sy) <=> cycleSends(p, sy)) /\ waitsOn(e.tpdo, sy) = waitsOn(p, sy)
        BY <2>7 DEF cycleSends, waitsOn, begunAt, TpdoTimers
      <3>5. IF cycleSends(p, sy) THEN SentAs(done, e.tpdo, flags, type)
            ELSE UnsentAs(done, e.tpdo, flags, request, waitsOn(p, sy), inhibit, event)
        <4>1. IF cycleSends(e.tpdo, sy) THEN SentAs(done, e.tpdo, flags, e.tpdo.transmissionType)
              ELSE UnsentAs(done, e.tpdo, flags, e.tpdo.sendRequest, waitsOn(e.tpdo, sy), e.tpdo.inhibitTimer, e.tpdo.eventTimer)
          BY <2>5, <2>6, <3>2, CycleAs
        <4> HIDE DEF done
        <4> QED  BY <2>7, <2>8, <3>4, <4>1 DEF UnsentAs, TpdoTimers
      <3> HIDE DEF left, inhibit, done, type
      <3>6. IF cycleSends(p, sy) THEN SentAs(done, p, flags, type)
            ELSE UnsentAs(done, p, flags, request, waitsOn(p, sy), inhibit, event)
        BY <2>7, <3>5, AnswersFrom
      <3> QED  BY <3>3, <3>6
    <2>13. type >= EVENT_LO \/ type < EVENT_LO
      BY <1>1 DEF EVENT_LO
    <2>14. fine(done)
      BY <2>9, <2>10, <2>11, <2>12, <2>13
    <2> HIDE DEF done
    <2> QED  BY <1>3, <2>1, <2>14 DEF CallAs, request, event
  <1> QED  BY <1>2, <1>3

-----------------------------------------------------------------------------
(* When the TPDO is due                                                     *)

\* What asks for the TPDO among the objects are those whose flag is cleared.
AskedOK == asked \cap DOMAIN Objects = DOMAIN Objects \ flagged

\* The counter of the cycle counts the SYNCs from where the cycle began.
CycleOK ==
    ~isEventDriven(tpdo.transmissionType) =>
      IF ~first THEN tpdo.syncCounter = tpdo.transmissionType - cycles /\ cycles < tpdo.transmissionType
      ELSE IF "start" \in noted THEN tpdo.syncCounter = 254
      ELSE IF cycles = 0 THEN tpdo.syncCounter = 255
      ELSE tpdo.syncCounter = tpdo.transmissionType \div 2 + 1 - cycles /\ cycles <= tpdo.transmissionType \div 2

\* The request and the timers tell what asked for the TPDO and how long ago
\* the last one was.
RequestOK ==
    isEventDriven(tpdo.transmissionType) /\ ~first =>
      /\ "stale" \notin noted => (tpdo.sendRequest <=> "request" \in asked)
      /\ "timer" \in asked => tpdo.eventTime # 0 /\ tpdo.eventTimer = 0
      /\ tpdo.eventTime # 0 /\ "timer" \notin asked =>
           tpdo.sendRequest \/ tpdo.eventTimer = countdown(tpdo.eventTime, since)
      /\ tpdo.transmissionType >= EVENT_LO =>
           tpdo.inhibitTimer = IF "free" \in noted THEN 0 ELSE countdown(tpdo.inhibitTime, since)

\* The times are counted far enough.
TimesOK ==
    /\ tpdo.eventTime <= MaxAge /\ tpdo.inhibitTime <= MaxAge
    /\ tpdo.od.event <= MaxAge /\ tpdo.od.inhibit <= MaxAge
    /\ since \in 0..MaxAge /\ cycles \in Nat /\ first \in BOOLEAN

\* The timers and counters of the TPDO agree with what is remembered of it.
WhenInv ==
    /\ AskedOK /\ CycleOK /\ RequestOK /\ TimesOK
    /\ first => tpdo.sendRequest /\ tpdo.inhibitTimer = 0

\* A timer that runs twice.
LEMMA CountdownTwice ==
    ASSUME NEW t \in Nat, NEW a \in Nat, NEW b \in Nat
    PROVE  /\ countdown(t, 0) = t /\ countdown(0, a) = 0
           /\ countdown(countdown(t, a), b) = countdown(t, a + b)
           /\ countdown(countdown(t, a), b) = 0 <=> a + b >= t
           /\ t <= MaxAge => countdown(t, capped(a + b)) = countdown(t, a + b)
           /\ a <= MaxAge => capped(a + b) \in 0..MaxAge
  BY MaxAgeAssumption DEF countdown, capped

\* It asks for a frame when one is due.
LEMMA AsksWhenDue ==
    ASSUME PdoInv, WhenInv, NEW dt \in Nat, isEventDriven(tpdo.transmissionType), ~staleAsks
    PROVE  asksNow(tpdo, flagged, dt) <=> due(dt)
  <1>1. /\ tpdo.eventTime \in Nat /\ tpdo.eventTimer \in Nat /\ tpdo.sendRequest \in BOOLEAN
        /\ since \in Nat
    BY DEF PdoInv, TpdoOK, TpdoType, WhenInv, TimesOK
  <1>2. CASE first
    BY <1>2 DEF WhenInv, asksNow, due
  <1>3. CASE ~first
    <2>1. "stale" \notin noted /\ ownFlags(tpdo) = askingObjects
      BY <1>3 DEF staleAsks, noStaleFlag
    <2>2. ownFlags(tpdo) \ flagged # {} <=> asked \cap askingObjects # {}
      <3>1. askingObjects \subseteq DOMAIN Objects
        BY DEF askingObjects
      <3>2. asked \cap DOMAIN Objects = DOMAIN Objects \ flagged
        BY DEF WhenInv, AskedOK
      <3> QED  BY <2>1, <3>1, <3>2
    <2>3. /\ tpdo.sendRequest <=> "request" \in asked
          /\ "timer" \in asked => tpdo.eventTime # 0 /\ tpdo.eventTimer = 0
          /\ tpdo.eventTime # 0 /\ "timer" \notin asked =>
               tpdo.sendRequest \/ tpdo.eventTimer = countdown(tpdo.eventTime, since)
      BY <1>3, <2>1 DEF WhenInv, RequestOK
    <2> DEFINE over == tpdo.eventTime # 0 /\ eventLeft(tpdo, dt) = 0
               past == tpdo.eventTime # 0 /\ since + dt >= tpdo.eventTime
    <2>4. eventLeft(tpdo, dt) = IF tpdo.eventTime # 0 THEN countdown(tpdo.eventTimer, dt) ELSE tpdo.eventTimer
      BY DEF eventLeft
    <2>5. "timer" \in asked => over
      BY <2>3, <2>4, CountdownTwice
    <2>6. "timer" \notin asked /\ ~tpdo.sendRequest => (over <=> past)
      <3>1. CASE tpdo.eventTime = 0
        BY <3>1
      <3>2. ASSUME tpdo.eventTime # 0, "timer" \notin asked, ~tpdo.sendRequest
            PROVE  over <=> past
        <4>1. eventLeft(tpdo, dt) = countdown(countdown(tpdo.eventTime, since), dt)
          BY <2>3, <2>4, <3>2
        <4>2. countdown(countdown(tpdo.eventTime, since), dt) = 0 <=> since + dt >= tpdo.eventTime
          BY <1>1, CountdownTwice
        <4> QED  BY <3>2, <4>1, <4>2
      <3> QED  BY <3>1, <3>2
    <2>7. due(dt) <=> \/ "request" \in asked \/ "timer" \in asked \/ asked \cap askingObjects # {} \/ past
      BY <1>3 DEF due
    <2>8. asksNow(tpdo, flagged, dt) <=> tpdo.sendRequest \/ over \/ ownFlags(tpdo) \ flagged # {}
      BY DEF asksNow
    <2> HIDE DEF over, past
    <2> QED  BY <1>1, <2>2, <2>3, <2>5, <2>6, <2>7, <2>8
  <1> QED  BY <1>2, <1>3

\* The cycle sends when it begins or begins again.
LEMMA SendsWhenDue ==
    ASSUME PdoInv, WhenInv, ~isEventDriven(tpdo.transmissionType), NEW sy,
           sy.counterOverflowValue = sync.counterOverflowValue
    PROVE  /\ begunAt(tpdo, sy) = IF ~first THEN tpdo.transmissionType - cycles
                                  ELSE IF startAwaited THEN 254
                                  ELSE tpdo.transmissionType \div 2 + 1 - cycles
           /\ cycleSends(tpdo, sy) <=>
                IF ~first THEN cycles + 1 = tpdo.transmissionType
                ELSE IF startAwaited THEN sy.counter = tpdo.syncStartValue
                ELSE cycles = tpdo.transmissionType \div 2
  <1> DEFINE type == tpdo.transmissionType
             half == type \div 2
  <1>1. type \in 1..253 /\ half \in 0..126 /\ cycles \in Nat
    <2>1. type \in 0..255
      BY DEF PdoInv, TpdoOK, TpdoType
    <2>2. type \in 1..253 /\ cycles \in Nat
      BY <2>1 DEF isEventDriven, SYNC_ACYCLIC, EVENT_LO, WhenInv, TimesOK
    <2> QED  BY <2>2
  <1>2. IF ~first THEN tpdo.syncCounter = type - cycles /\ cycles < type
        ELSE IF "start" \in noted THEN tpdo.syncCounter = 254
        ELSE IF cycles = 0 THEN tpdo.syncCounter = 255
        ELSE tpdo.syncCounter = half + 1 - cycles /\ cycles <= half
    BY DEF WhenInv, CycleOK
  <1>3. begunAt(tpdo, sy) = IF tpdo.syncCounter # 255 THEN tpdo.syncCounter
                            ELSE IF sync.counterOverflowValue # 0 /\ tpdo.syncStartValue # 0 THEN 254
                            ELSE half + 1
    BY DEF begunAt
  <1>4. startAwaited <=> /\ first
                         /\ \/ "start" \in noted
                            \/ cycles = 0 /\ sync.counterOverflowValue # 0 /\ tpdo.syncStartValue # 0
    BY DEF startAwaited
  <1> HIDE DEF type, half
  <1>5. begunAt(tpdo, sy) = IF ~first THEN type - cycles ELSE IF startAwaited THEN 254 ELSE half + 1 - cycles
    BY <1>1, <1>2, <1>3, <1>4
  <1>6. /\ ~first => type - cycles # 254
        /\ first /\ ~startAwaited => half + 1 - cycles # 254
    BY <1>1
  <1>7. cycleSends(tpdo, sy) <=>
                IF ~first THEN cycles + 1 = type ELSE IF startAwaited THEN sy.counter = tpdo.syncStartValue
                ELSE cycles = half
    BY <1>1, <1>5, <1>6 DEF cycleSends
  <1> QED  BY <1>5, <1>7 DEF type, half

\* SYNC messages are counted to the same value.
LEMMA SyncOverflow ==
    ASSUME NEW sy \in SyncType, NEW es, NEW active \in BOOLEAN, NEW dt \in Nat
    PROVE  CO_SYNC_process(sy, es, active, dt).sync.counterOverflowValue = sy.counterOverflowValue
  <1> DEFINE n == CO_SYNC_process(sy, es, active, dt)
             r1 == sync_taken(sy, dt)
             r2 == sync_due(r1)
             r3 == sync_window(r2)
             idle == sync_idle(sy)
             same(r) == r.sync \in SyncType /\ r.sync.counterOverflowValue = sy.counterOverflowValue
  <1>1. ASSUME NEW r, same(r)
        PROVE  sync_reported(r, es, active).sync.counterOverflowValue = sy.counterOverflowValue
    <2>1. sync_reported(r, es, active).sync
            = [r.sync EXCEPT !.receiveError = FALSE,
                             !.timeoutError = IF r.status = "RX_TX" THEN 1 ELSE r.sync.timeoutError]
      BY DEF sync_reported
    <2> QED  BY <1>1, <2>1 DEF SyncType
  <1>2. CASE active
    <2>0. n = sync_reported(r3, es, active)
      BY <1>2 DEF CO_SYNC_process
    <2>1. SyncStep(r1, IF sy.CANrxNew THEN "RX_TX" ELSE "NONE")
      BY SyncTaken
    <2>2. r1.sync = [sy EXCEPT !.timer = 0, !.CANrxNew = FALSE] \/ r1.sync = [sy EXCEPT !.timer = advanced(sy.timer, dt)]
      BY DEF sync_taken
    <2>3. same(r1) /\ r1 = [sync |-> r1.sync, status |-> r1.status, late |-> r1.late]
      BY <2>1, <2>2 DEF SyncStep, SyncType
    <2> HIDE DEF r1
    <2>4. SyncStep(r2, r1.status) \/ SyncStep(r2, "RX_TX")
      <3>1. SyncStep(r1, r1.status)
        BY <2>1 DEF SyncStep
      <3> QED  BY <3>1, SyncDue
    <2>5. r2.sync.counterOverflowValue = sy.counterOverflowValue
      <3>1. \/ r2 = r1
            \/ r2 = [r1 EXCEPT !.sync = CO_SYNCsend(r1.sync), !.status = "RX_TX"]
            \/ r2 = [r1 EXCEPT !.sync.timeoutError = 2, !.late = TRUE]
        BY DEF sync_due
      <3>2. CO_SYNCsend(r1.sync).counterOverflowValue = sy.counterOverflowValue
        BY <2>3 DEF CO_SYNCsend, SyncType
      <3>3. [r1.sync EXCEPT !.timeoutError = 2].counterOverflowValue = sy.counterOverflowValue
        BY <2>3 DEF SyncType
      <3> HIDE DEF r2
      <3> QED  BY <2>3, <3>1, <3>2, <3>3
    <2>6. r2.sync \in SyncType /\ r2 = [sync |-> r2.sync, status |-> r2.status, late |-> r2.late]
      BY <2>4 DEF SyncStep
    <2> HIDE DEF r2
    <2>7. same(r3)
      <3> DEFINE outside == r2.sync.window > 0 /\ r2.sync.timer > r2.sync.window
      <3>1. r3.sync = [r2.sync EXCEPT !.syncIsOutsideWindow = outside]
        BY <2>6 DEF sync_window
      <3>2. outside \in BOOLEAN
        OBVIOUS
      <3> HIDE DEF outside, r3
      <3> QED  BY <2>5, <2>6, <3>1, <3>2 DEF SyncType
    <2> HIDE DEF r3, same, n
    <2> QED  BY <1>1, <2>7, <2>0 DEF n
  <1>3. CASE ~active
    <2>1. idle.sync = [sy EXCEPT !.CANrxNew = FALSE, !.receiveError = FALSE, !.counter = 0, !.timer = 0]
      BY DEF sync_idle
    <2>2. same(idle)
      <3> DEFINE w == syncWith(sy, 0, sy.CANrxToggle, FALSE, 0, sy.timeoutError, sy.syncIsOutsideWindow)
      <3>1. w \in SyncType
        <4>1. sy.CANrxToggle \in BOOLEAN /\ sy.timeoutError \in Nat /\ sy.syncIsOutsideWindow \in BOOLEAN
          BY DEF SyncType
        <4> QED  BY <4>1, SyncWith
      <3>2. idle.sync = [w EXCEPT !.receiveError = FALSE]
        BY <2>1 DEF syncWith, SyncType
      <3>3. w.counterOverflowValue = sy.counterOverflowValue
        BY DEF syncWith, SyncType
      <3> HIDE DEF idle, w
      <3> QED  BY <3>1, <3>2, <3>3 DEF SyncType
    <2>3. n = sync_reported(idle, es, active)
      BY <1>3 DEF CO_SYNC_process
    <2> HIDE DEF idle, same, n
    <2> QED  BY <1>1, <2>2, <2>3 DEF n
  <1> QED  BY <1>2, <1>3

\* A call sends the TPDO when it is due.
LEMMA CallsWhenDue ==
    ASSUME PdoInv, WhenInv, NEW dt \in Nat, NEW syncWas \in BOOLEAN, ~staleAsks,
           sync'.counterOverflowValue = sync.counterOverflowValue
    PROVE  sendsNow(tpdo, flagged, sync', dt, syncWas) <=>
             CASE tpdo.transmissionType >= EVENT_LO ->
                    due(dt) /\ (first \/ "free" \in noted \/ since + dt >= tpdo.inhibitTime)
               [] tpdo.transmissionType = SYNC_ACYCLIC -> due(dt) /\ syncWas
               [] OTHER -> syncWas /\ cycleBegins
  <1> DEFINE type == tpdo.transmissionType
  <1>1. /\ type \in 0..255 /\ tpdo.inhibitTime \in Nat /\ tpdo.inhibitTimer \in Nat /\ since \in Nat
    BY DEF PdoInv, TpdoOK, TpdoType, WhenInv, TimesOK
  <1>2. isEventDriven(type) <=> type = SYNC_ACYCLIC \/ type >= EVENT_LO
    BY DEF isEventDriven
  <1>3. isEventDriven(type) => (asksNow(tpdo, flagged, dt) <=> due(dt))
    BY AsksWhenDue
  <1>4. CASE type >= EVENT_LO
    <2>1. sendsNow(tpdo, flagged, sync', dt, syncWas) <=> due(dt) /\ inhibitLeft(tpdo, dt) = 0
      BY <1>2, <1>3, <1>4 DEF sendsNow
    <2>2. inhibitLeft(tpdo, dt) = countdown(tpdo.inhibitTimer, dt)
      BY <1>4 DEF inhibitLeft
    <2>3. first \/ "free" \in noted => tpdo.inhibitTimer = 0
      BY <1>2, <1>4 DEF WhenInv, RequestOK
    <2>4. ~first /\ "free" \notin noted => tpdo.inhibitTimer = countdown(tpdo.inhibitTime, since)
      BY <1>2, <1>4 DEF WhenInv, RequestOK
    <2>5. countdown(0, dt) = 0
      BY CountdownTwice
    <2>6. countdown(countdown(tpdo.inhibitTime, since), dt) = 0 <=> since + dt >= tpdo.inhibitTime
      BY <1>1, CountdownTwice
    <2>7. inhibitLeft(tpdo, dt) = 0 <=> first \/ "free" \in noted \/ since + dt >= tpdo.inhibitTime
      BY <2>2, <2>3, <2>4, <2>5, <2>6
    <2>8. type # SYNC_ACYCLIC
      BY <1>1, <1>4 DEF SYNC_ACYCLIC, EVENT_LO
    <2> QED  BY <1>4, <2>1, <2>7, <2>8
  <1>5. CASE type = SYNC_ACYCLIC
    <2>1. ~(type >= EVENT_LO)
      BY <1>5 DEF SYNC_ACYCLIC, EVENT_LO
    <2> QED  BY <1>2, <1>3, <1>5, <2>1 DEF sendsNow
  <1>6. CASE type # SYNC_ACYCLIC /\ ~(type >= EVENT_LO)
    <2>1. cycleSends(tpdo, sync') <=> cycleBegins
      BY <1>2, <1>6, SendsWhenDue DEF cycleBegins
    <2> QED  BY <1>6, <2>1 DEF sendsNow
  <1> QED  BY <1>4, <1>5, <1>6

\* One call, with what is remembered of it.
WhenCall(n, dt, syncWas) ==
    /\ dt \in Nat /\ syncWas \in BOOLEAN /\ tpdo' = n.tpdo /\ flagged' = n.flagged
    /\ TpdoRemembered(n.sent, syncWas, dt)
    /\ sync'.counterOverflowValue = sync.counterOverflowValue
    /\ CallAs(n, tpdo, flagged, sync', dt, operational, syncWas)

\* What the memory of the TPDO is about, field by field.
LEMMA WhenFields ==
    ASSUME PdoInv, WhenInv
    PROVE  /\ tpdo.transmissionType \in 0..255 /\ tpdo.sendRequest \in BOOLEAN /\ tpdo.valid \in BOOLEAN
           /\ tpdo.eventTime \in 0..MaxAge /\ tpdo.inhibitTime \in 0..MaxAge
           /\ tpdo.eventTimer \in Nat /\ tpdo.inhibitTimer \in Nat
           /\ since \in 0..MaxAge /\ cycles \in Nat /\ MaxAge \in Nat
           /\ isEventDriven(tpdo.transmissionType) <=> ~(tpdo.transmissionType \in 1..253)
  <1>1. tpdo \in TpdoType
    BY DEF PdoInv, TpdoOK
  <1>2. /\ tpdo.transmissionType \in 0..255 /\ tpdo.sendRequest \in BOOLEAN /\ tpdo.valid \in BOOLEAN
        /\ tpdo.eventTime \in Nat /\ tpdo.inhibitTime \in Nat /\ tpdo.eventTimer \in Nat /\ tpdo.inhibitTimer \in Nat
    BY <1>1 DEF TpdoType
  <1>3. /\ tpdo.eventTime <= MaxAge /\ tpdo.inhibitTime <= MaxAge /\ since \in 0..MaxAge /\ cycles \in Nat
    BY DEF WhenInv, TimesOK
  <1>4. isEventDriven(tpdo.transmissionType) <=> ~(tpdo.transmissionType \in 1..253)
    BY <1>2 DEF isEventDriven, SYNC_ACYCLIC, EVENT_LO
  <1> QED  BY <1>2, <1>3, <1>4, MaxAgeAssumption

\* What asks for the TPDO besides objects is forgotten or renewed.
LEMMA AskedKept ==
    ASSUME NEW new \in SUBSET {"request"}, AskedOK, NEW taken,
           asked' = (asked \ ({"request", "timer"} \cup taken)) \cup new,
           flagged' = flagged \cup taken
    PROVE  AskedOK'
  <1>1. "request" \notin DOMAIN Objects /\ "timer" \notin DOMAIN Objects
    BY RequestsAssumption
  <1>2. asked \cap DOMAIN Objects = DOMAIN Objects \ flagged
    BY DEF AskedOK
  <1>3. asked' \cap DOMAIN Objects = DOMAIN Objects \ flagged'
    BY <1>1, <1>2
  <1> QED  BY <1>3 DEF AskedOK

\* After a call in which the TPDO may not be sent it is as set up.
LEMMA WhenIdle ==
    ASSUME PdoInv, WhenInv, NEW n, NEW dt, NEW syncWas, WhenCall(n, dt, syncWas), ~(tpdo.valid /\ operational)
    PROVE  WhenInv'
  <1>1. UnsentAs(n, tpdo, flagged, TRUE, 255, 0, 0)
    BY DEF WhenCall, CallAs
  <1>2. /\ tpdo'.sendRequest /\ tpdo'.syncCounter = 255 /\ tpdo'.inhibitTimer = 0 /\ tpdo'.od = tpdo.od
        /\ tpdo'.transmissionType = tpdo.transmissionType /\ tpdo'.eventTime = tpdo.eventTime
        /\ tpdo'.inhibitTime = tpdo.inhibitTime /\ flagged' = flagged /\ ~n.sent
    BY <1>1 DEF WhenCall, UnsentAs, TpdoTimers
  <1>3. first' = TRUE /\ asked' = (asked \ ({"request", "timer"} \cup {})) \cup {} /\ since' = 0 /\ cycles' = 0 /\ noted' = {}
    BY <1>2 DEF WhenCall, TpdoRemembered
  <1>4. AskedOK'
    <2>1. {} \in SUBSET {"request"} /\ AskedOK
      BY DEF WhenInv
    <2>2. flagged' = flagged \cup {}
      BY <1>2
    <2> QED  BY <1>3, <2>1, <2>2, AskedKept
  <1>5. CycleOK' /\ RequestOK'
    BY <1>2, <1>3 DEF CycleOK, RequestOK
  <1>6. TimesOK'
    BY <1>2, <1>3, MaxAgeAssumption DEF WhenInv, TimesOK
  <1> QED  BY <1>2, <1>4, <1>5, <1>6 DEF WhenInv

\* After a call that sends it the TPDO has been sent just now.
LEMMA WhenSent ==
    ASSUME PdoInv, WhenInv, NEW n, NEW dt, NEW syncWas, WhenCall(n, dt, syncWas), tpdo.valid, operational,
           sendsNow(tpdo, flagged, sync', dt, syncWas)
    PROVE  WhenInv' /\ n.sent
  <1> DEFINE type == tpdo.transmissionType
             taken == IF isEventDriven(type) THEN ownFlags(tpdo) ELSE {}
  <1>1. SentAs(n, tpdo, flagged, counterSent(tpdo))
    BY DEF WhenCall, CallAs
  <1>2. /\ tpdo'.sendRequest = FALSE /\ tpdo'.syncCounter = counterSent(tpdo) /\ tpdo'.inhibitTimer = tpdo.inhibitTime
        /\ tpdo'.eventTimer = tpdo.eventTime /\ tpdo'.od = tpdo.od
        /\ tpdo'.transmissionType = type /\ tpdo'.eventTime = tpdo.eventTime
        /\ tpdo'.inhibitTime = tpdo.inhibitTime /\ flagged' = takenFlags(tpdo, flagged) /\ n.sent
    BY <1>1 DEF WhenCall, SentAs, TpdoTimers, TpdoType
  <1>3. /\ first' = FALSE /\ asked' = (asked \ ({"request", "timer"} \cup taken)) \cup {} /\ since' = 0 /\ cycles' = 0
        /\ noted' = {}
    <2>1. first' = (first /\ ~n.sent)
      BY DEF WhenCall, TpdoRemembered
    <2>2. first' = FALSE
      BY <1>2, <2>1
    <2>3. asked' = (asked \ ({"request", "timer"} \cup taken)) \cup {} /\ since' = 0 /\ cycles' = 0 /\ noted' = {}
      BY <1>2 DEF WhenCall, TpdoRemembered
    <2> QED  BY <2>2, <2>3
  <1>4. AskedOK'
    <2>1. {} \in SUBSET {"request"} /\ AskedOK
      BY DEF WhenInv
    <2>2. flagged' = flagged \cup taken
      BY <1>2 DEF takenFlags
    <2> HIDE DEF taken
    <2> QED  BY <1>3, <2>1, <2>2, AskedKept
  <1>5. CycleOK'
    <2>1. ~isEventDriven(type) => tpdo'.syncCounter = type /\ type \in 1..253
      BY <1>2, WhenFields DEF counterSent
    <2>2. ~isEventDriven(type) => tpdo'.syncCounter = tpdo'.transmissionType - cycles' /\ cycles' < tpdo'.transmissionType
      BY <1>2, <1>3, <2>1
    <2> QED  BY <1>2, <1>3, <2>2 DEF CycleOK
  <1> HIDE DEF taken
  <1>6. RequestOK'
    <2>1. "request" \notin asked' /\ "timer" \notin asked'
      BY <1>3
    <2>2. tpdo'.eventTimer = countdown(tpdo'.eventTime, since') /\ tpdo'.inhibitTimer = countdown(tpdo'.inhibitTime, since')
      <3>1. tpdo.eventTime \in Nat /\ tpdo.inhibitTime \in Nat
        BY WhenFields
      <3>2. countdown(tpdo.eventTime, 0) = tpdo.eventTime /\ countdown(tpdo.inhibitTime, 0) = tpdo.inhibitTime
        BY <3>1, CountdownTwice
      <3> QED  BY <1>2, <1>3, <3>2
    <2> QED  BY <1>2, <1>3, <2>1, <2>2 DEF RequestOK
  <1>7. TimesOK'
    <2>1. TimesOK /\ first' = FALSE /\ since' = 0 /\ cycles' = 0
      BY <1>3 DEF WhenInv
    <2>2. tpdo'.eventTime = tpdo.eventTime /\ tpdo'.inhibitTime = tpdo.inhibitTime /\ tpdo'.od = tpdo.od
      BY <1>2
    <2>3. since' \in 0..MaxAge /\ cycles' \in Nat /\ first' \in BOOLEAN
      <3>1. since' = 0 /\ cycles' = 0 /\ MaxAge \in Nat
        BY <2>1, MaxAgeAssumption
      <3>2. since' \in 0..MaxAge /\ cycles' \in Nat
        BY <3>1
      <3>3. first' \in BOOLEAN
        BY <2>1, Zenon
      <3> QED  BY <3>2, <3>3
    <2>4. /\ tpdo.eventTime <= MaxAge /\ tpdo.inhibitTime <= MaxAge
          /\ tpdo.od.event <= MaxAge /\ tpdo.od.inhibit <= MaxAge
      BY <2>1 DEF TimesOK
    <2>5. /\ tpdo'.eventTime <= MaxAge /\ tpdo'.inhibitTime <= MaxAge
          /\ tpdo'.od.event <= MaxAge /\ tpdo'.od.inhibit <= MaxAge
      BY <2>2, <2>4
    <2> QED  BY <2>3, <2>5, Zenon DEF TimesOK
  <1> QED  BY <1>2, <1>3, <1>4, <1>5, <1>6, <1>7 DEF WhenInv

\* A timer that runs twice, up to the age that is counted.
LEMMA CountdownCapped ==
    ASSUME NEW t \in Nat, NEW a \in Nat, NEW b \in Nat, t <= MaxAge
    PROVE  countdown(countdown(t, a), b) = countdown(t, capped(a + b))
  <1>1. MaxAge \in Nat
    BY MaxAgeAssumption
  <1> QED  BY <1>1 DEF countdown, capped

\* A call that may send the TPDO and does not.
Unsent(n, dt, syncWas) ==
    /\ WhenCall(n, dt, syncWas) /\ tpdo.valid /\ operational
    /\ ~sendsNow(tpdo, flagged, sync', dt, syncWas)

\* What it leaves.
LEMMA UnsentFields ==
    ASSUME PdoInv, WhenInv, NEW n, NEW dt, NEW syncWas, Unsent(n, dt, syncWas)
    PROVE  /\ ~n.sent /\ (tpdo'.sendRequest <=> asksNow(tpdo, flagged, dt))
           /\ tpdo'.syncCounter = counterLeft(tpdo, sync', syncWas)
           /\ tpdo'.inhibitTimer = inhibitLeft(tpdo, dt) /\ tpdo'.eventTimer = eventLeft(tpdo, dt)
           /\ tpdo'.od = tpdo.od /\ tpdo'.transmissionType = tpdo.transmissionType
           /\ tpdo'.eventTime = tpdo.eventTime /\ tpdo'.inhibitTime = tpdo.inhibitTime
           /\ dt \in Nat /\ syncWas \in BOOLEAN
           /\ first' \in BOOLEAN /\ (first' <=> first)
           /\ asked' = (asked \ {"request", "timer"})
                       \cup (IF ~first /\ due(dt) /\ isEventDriven(tpdo.transmissionType) THEN {"request"} ELSE {})
           /\ since' = IF ~first /\ tpdo.eventTime + tpdo.inhibitTime > 0 THEN capped(since + dt) ELSE 0
           /\ cycles' = IF ~isEventDriven(tpdo.transmissionType) THEN cycles + (IF syncWas THEN 1 ELSE 0) ELSE 0
           /\ noted' = noted \cup (IF syncWas /\ startAwaited THEN {"start"} ELSE {})
                             \cup (IF staleAsks THEN {"stale"} ELSE {})
           /\ AskedOK' /\ TimesOK'
  <1>1. UnsentAs(n, tpdo, flagged, asksNow(tpdo, flagged, dt), counterLeft(tpdo, sync', syncWas),
                 inhibitLeft(tpdo, dt), eventLeft(tpdo, dt))
    BY DEF WhenCall, CallAs, Unsent
  <1>2. /\ ~n.sent /\ (tpdo'.sendRequest <=> asksNow(tpdo, flagged, dt))
        /\ tpdo'.syncCounter = counterLeft(tpdo, sync', syncWas)
        /\ tpdo'.inhibitTimer = inhibitLeft(tpdo, dt) /\ tpdo'.eventTimer = eventLeft(tpdo, dt)
        /\ tpdo'.od = tpdo.od /\ tpdo'.transmissionType = tpdo.transmissionType
        /\ tpdo'.eventTime = tpdo.eventTime /\ tpdo'.inhibitTime = tpdo.inhibitTime
        /\ flagged' = flagged
    BY <1>1 DEF WhenCall, UnsentAs, TpdoTimers, Unsent
  <1>3. /\ asked' = (asked \ {"request", "timer"})
                    \cup (IF ~first /\ due(dt) /\ isEventDriven(tpdo.transmissionType) THEN {"request"} ELSE {})
        /\ since' = IF ~first /\ tpdo.eventTime + tpdo.inhibitTime > 0 THEN capped(since + dt) ELSE 0
        /\ cycles' = IF ~isEventDriven(tpdo.transmissionType) THEN cycles + (IF syncWas THEN 1 ELSE 0) ELSE 0
        /\ noted' = noted \cup (IF syncWas /\ startAwaited THEN {"start"} ELSE {})
                          \cup (IF staleAsks THEN {"stale"} ELSE {})
    BY <1>2 DEF WhenCall, TpdoRemembered, Unsent
  <1>4. first' = (first /\ ~n.sent)
    BY DEF WhenCall, TpdoRemembered, Unsent
  <1>5. first' \in BOOLEAN /\ (first' <=> first)
    <2>1. (first /\ ~n.sent) \in BOOLEAN
      OBVIOUS
    <2>2. first' \in BOOLEAN
      BY <1>4, <2>1, Zenon
    <2>3. first' <=> first
      BY <1>2, <1>4, Zenon
    <2> QED  BY <2>2, <2>3
  <1>6. AskedOK'
    <2> DEFINE new == IF ~first /\ due(dt) /\ isEventDriven(tpdo.transmissionType) THEN {"request"} ELSE {}
    <2>1. new \in SUBSET {"request"} /\ AskedOK
      BY DEF WhenInv
    <2> HIDE DEF new
    <2>2. asked' = (asked \ ({"request", "timer"} \cup {})) \cup new /\ flagged' = flagged \cup {}
      BY <1>2, <1>3 DEF new
    <2> QED  BY <2>1, <2>2, AskedKept
  <1>7. dt \in Nat /\ syncWas \in BOOLEAN
    BY DEF WhenCall, Unsent
  <1>8. TimesOK'
    <2>1. since + dt \in Nat /\ capped(since + dt) \in 0..MaxAge /\ MaxAge \in Nat /\ cycles \in Nat
      <3>1. since \in Nat /\ since <= MaxAge /\ MaxAge \in Nat /\ cycles \in Nat
        BY WhenFields
      <3>2. capped(since + dt) \in 0..MaxAge
        BY <1>7, <3>1, CountdownTwice
      <3> QED  BY <1>7, <3>1, <3>2
    <2>2. since' \in 0..MaxAge
      <3>1. since' = capped(since + dt) \/ since' = 0
        BY <1>3
      <3> QED  BY <2>1, <3>1
    <2>3. cycles' \in Nat
      <3>1. cycles' = cycles + 1 \/ cycles' = cycles + 0 \/ cycles' = 0
        BY <1>3
      <3> QED  BY <2>1, <3>1
    <2>4. /\ tpdo.eventTime <= MaxAge /\ tpdo.inhibitTime <= MaxAge
          /\ tpdo.od.event <= MaxAge /\ tpdo.od.inhibit <= MaxAge
      BY DEF WhenInv, TimesOK
    <2>5. /\ tpdo'.eventTime <= MaxAge /\ tpdo'.inhibitTime <= MaxAge
          /\ tpdo'.od.event <= MaxAge /\ tpdo'.od.inhibit <= MaxAge
      BY <1>2, <2>4
    <2> QED  BY <1>5, <2>2, <2>3, <2>5, Zenon DEF TimesOK
  <1> QED  BY <1>2, <1>3, <1>5, <1>6, <1>7, <1>8, Zenon

\* An event-driven TPDO remembers the request, and time has passed.
LEMMA RequestUnsent ==
    ASSUME PdoInv, WhenInv, NEW n, NEW dt, NEW syncWas, Unsent(n, dt, syncWas), ~first
    PROVE  RequestOK'
  <1> SUFFICES ASSUME isEventDriven(tpdo.transmissionType)
               PROVE  RequestOK'
    BY UnsentFields DEF RequestOK
  <1> DEFINE asks == asksNow(tpdo, flagged, dt)
             now == since + dt
  <1>1. /\ tpdo.eventTime \in Nat /\ tpdo.inhibitTime \in Nat /\ tpdo.eventTime <= MaxAge /\ tpdo.inhibitTime <= MaxAge
        /\ since \in Nat /\ dt \in Nat /\ tpdo.eventTimer \in Nat /\ tpdo.inhibitTimer \in Nat
    BY WhenFields, UnsentFields
  <1>2. /\ "timer" \in asked => tpdo.eventTime # 0 /\ tpdo.eventTimer = 0
        /\ tpdo.eventTime # 0 /\ "timer" \notin asked =>
             tpdo.sendRequest \/ tpdo.eventTimer = countdown(tpdo.eventTime, since)
        /\ tpdo.transmissionType >= EVENT_LO =>
             tpdo.inhibitTimer = IF "free" \in noted THEN 0 ELSE countdown(tpdo.inhibitTime, since)
    BY DEF WhenInv, RequestOK
  <1>3. /\ tpdo'.sendRequest <=> asks
        /\ tpdo'.inhibitTimer = inhibitLeft(tpdo, dt) /\ tpdo'.eventTimer = eventLeft(tpdo, dt)
        /\ tpdo'.transmissionType = tpdo.transmissionType
        /\ tpdo'.eventTime = tpdo.eventTime /\ tpdo'.inhibitTime = tpdo.inhibitTime
        /\ since' = IF tpdo.eventTime + tpdo.inhibitTime > 0 THEN capped(now) ELSE 0
    BY UnsentFields
  <1>4. /\ "request" \in asked' <=> due(dt)
        /\ "timer" \notin asked'
    <2>1. asked' = (asked \ {"request", "timer"}) \cup (IF due(dt) THEN {"request"} ELSE {})
      BY UnsentFields
    <2> QED  BY <2>1
  <1>5. /\ "free" \in noted' <=> "free" \in noted
        /\ staleAsks => "stale" \in noted'
    <2>1. noted' = noted \cup (IF syncWas /\ startAwaited THEN {"start"} ELSE {}) \cup (IF staleAsks THEN {"stale"} ELSE {})
      BY UnsentFields
    <2> QED  BY <2>1
  <1>6. "stale" \notin noted' => (tpdo'.sendRequest <=> "request" \in asked')
    <2>1. ~staleAsks => (asks <=> due(dt))
      BY <1>1, AsksWhenDue
    <2> HIDE DEF asks
    <2> QED  BY <1>3, <1>4, <1>5, <2>1
  <1>7. ASSUME tpdo.eventTime # 0, ~asks
        PROVE  tpdo'.eventTimer = countdown(tpdo'.eventTime, since')
    <2>1. eventLeft(tpdo, dt) = countdown(tpdo.eventTimer, dt) /\ eventLeft(tpdo, dt) # 0 /\ ~tpdo.sendRequest
      BY <1>7 DEF eventLeft, asksNow
    <2>2. "timer" \notin asked
      <3>1. countdown(0, dt) = 0
        BY <1>1, CountdownTwice
      <3> QED  BY <1>2, <2>1, <3>1
    <2>3. tpdo.eventTimer = countdown(tpdo.eventTime, since)
      BY <1>2, <1>7, <2>1, <2>2
    <2>4. countdown(countdown(tpdo.eventTime, since), dt) = countdown(tpdo.eventTime, capped(now))
      BY <1>1, CountdownCapped
    <2>5. since' = capped(now)
      BY <1>1, <1>3, <1>7
    <2> QED  BY <1>3, <2>1, <2>3, <2>4, <2>5
  <1>8. ASSUME tpdo.transmissionType >= EVENT_LO
        PROVE  tpdo'.inhibitTimer = IF "free" \in noted' THEN 0 ELSE countdown(tpdo'.inhibitTime, since')
    <2>1. tpdo'.inhibitTimer = countdown(tpdo.inhibitTimer, dt)
      BY <1>3, <1>8 DEF inhibitLeft
    <2>2. CASE "free" \in noted
      <3>1. countdown(0, dt) = 0
        BY <1>1, CountdownTwice
      <3> QED  BY <1>2, <1>5, <1>8, <2>1, <2>2, <3>1
    <2>3. CASE "free" \notin noted
      <3>1. tpdo.inhibitTimer = countdown(tpdo.inhibitTime, since)
        BY <1>2, <1>8, <2>3
      <3>2. countdown(countdown(tpdo.inhibitTime, since), dt) = countdown(tpdo.inhibitTime, capped(now))
        BY <1>1, CountdownCapped
      <3>3. CASE since' = capped(now)
        BY <1>3, <1>5, <2>1, <2>3, <3>1, <3>2, <3>3
      <3>4. CASE since' = 0 /\ tpdo.inhibitTime = 0
        <4>1. countdown(0, since) = 0 /\ countdown(0, dt) = 0 /\ countdown(0, 0) = 0
          BY <1>1, CountdownTwice
        <4> QED  BY <1>3, <1>5, <2>1, <2>3, <3>1, <3>4, <4>1
      <3> QED  BY <1>1, <1>3, <3>3, <3>4
    <2> QED  BY <2>2, <2>3
  <1>9. tpdo'.eventTime # 0 => tpdo'.sendRequest \/ tpdo'.eventTimer = countdown(tpdo'.eventTime, since')
    <2> HIDE DEF asks, now
    <2> QED  BY <1>3, <1>7
  <1> HIDE DEF asks, now
  <1> QED  BY <1>3, <1>4, <1>6, <1>8, <1>9 DEF RequestOK

\* The cycle of a cyclic TPDO goes on.
LEMMA CycleUnsent ==
    ASSUME PdoInv, WhenInv, NEW n, NEW dt, NEW syncWas, Unsent(n, dt, syncWas)
    PROVE  CycleOK'
  <1> SUFFICES ASSUME ~isEventDriven(tpdo.transmissionType)
               PROVE  CycleOK'
    BY UnsentFields DEF CycleOK
  <1> DEFINE type == tpdo.transmissionType
             half == type \div 2
             begun == begunAt(tpdo, sync')
  <1>1. type \in 1..253 /\ half \in 0..126 /\ cycles \in Nat
    <2>1. type \in 1..253 /\ cycles \in Nat
      BY WhenFields
    <2> QED  BY <2>1
  <1>2. /\ tpdo'.syncCounter = IF syncWas THEN waitsOn(tpdo, sync') ELSE tpdo.syncCounter
        /\ tpdo'.transmissionType = type /\ (first' <=> first)
        /\ cycles' = cycles + (IF syncWas THEN 1 ELSE 0)
        /\ "start" \in noted' <=> "start" \in noted \/ (syncWas /\ startAwaited)
    <2>1. tpdo'.syncCounter = counterLeft(tpdo, sync', syncWas)
      BY UnsentFields
    <2>2. noted' = noted \cup (IF syncWas /\ startAwaited THEN {"start"} ELSE {}) \cup (IF staleAsks THEN {"stale"} ELSE {})
      BY UnsentFields
    <2>3. "start" \in noted' <=> "start" \in noted \/ (syncWas /\ startAwaited)
      BY <2>2
    <2>4. tpdo'.transmissionType = type /\ (first' <=> first) /\ cycles' = cycles + (IF syncWas THEN 1 ELSE 0)
      BY UnsentFields
    <2> QED  BY <2>1, <2>3, <2>4 DEF counterLeft
  <1>3. IF ~first THEN tpdo.syncCounter = type - cycles /\ cycles < type
        ELSE IF "start" \in noted THEN tpdo.syncCounter = 254
        ELSE IF cycles = 0 THEN tpdo.syncCounter = 255
        ELSE tpdo.syncCounter = half + 1 - cycles /\ cycles <= half
    BY DEF WhenInv, CycleOK
  <1>4. sync'.counterOverflowValue = sync.counterOverflowValue
    BY DEF Unsent, WhenCall
  <1>5. /\ begun = IF ~first THEN type - cycles ELSE IF startAwaited THEN 254 ELSE half + 1 - cycles
        /\ cycleSends(tpdo, sync') <=>
             IF ~first THEN cycles + 1 = type ELSE IF startAwaited THEN sync'.counter = tpdo.syncStartValue
             ELSE cycles = half
    BY <1>4, SendsWhenDue
  <1>6. syncWas => ~cycleSends(tpdo, sync')
    BY <1>1 DEF Unsent, sendsNow, isEventDriven, SYNC_ACYCLIC, EVENT_LO
  <1>7. waitsOn(tpdo, sync') = IF begun = 254 THEN 254 ELSE begun - 1
    BY DEF waitsOn
  <1>8. "start" \in noted /\ first => startAwaited
    BY DEF startAwaited
  <1> DEFINE counter == tpdo'.syncCounter
             goesOn == IF ~first THEN counter = type - cycles' /\ cycles' < type
                       ELSE IF "start" \in noted' THEN counter = 254
                       ELSE IF cycles' = 0 THEN counter = 255
                       ELSE counter = half + 1 - cycles' /\ cycles' <= half
  <1>9. goesOn
    <2> HIDE DEF type, half, begun, counter
    <2>1. CASE ~syncWas
      <3>1. counter = tpdo.syncCounter /\ cycles' = cycles /\ ("start" \in noted' <=> "start" \in noted)
        BY <1>1, <1>2, <2>1 DEF counter
      <3> QED  BY <1>3, <3>1
    <2>2. CASE syncWas /\ ~first
      <3>1. begun = type - cycles /\ cycles + 1 # type /\ cycles < type
        BY <1>3, <1>5, <1>6, <2>2
      <3>2. counter = type - cycles - 1 /\ cycles' = cycles + 1
        BY <1>1, <1>2, <1>7, <2>2, <3>1 DEF counter
      <3> QED  BY <1>1, <2>2, <3>1, <3>2
    <2>3. CASE syncWas /\ first /\ startAwaited
      <3>1. counter = 254 /\ "start" \in noted'
        BY <1>2, <1>5, <1>7, <2>3 DEF counter
      <3> QED  BY <2>3, <3>1
    <2>4. CASE syncWas /\ first /\ ~startAwaited
      <3>1. begun = half + 1 - cycles /\ cycles # half /\ "start" \notin noted'
        BY <1>2, <1>5, <1>6, <1>8, <2>4
      <3>2. cycles <= half
        BY <1>1, <1>3, <1>8, <2>4
      <3>3. counter = half - cycles /\ cycles' = cycles + 1
        BY <1>1, <1>2, <1>7, <2>4, <3>1 DEF counter
      <3>4. half + 1 - (cycles + 1) = half - cycles /\ cycles + 1 <= half /\ cycles + 1 # 0
        BY <1>1, <3>1, <3>2
      <3> QED  BY <2>4, <3>1, <3>3, <3>4
    <2> QED  BY <2>1, <2>2, <2>3, <2>4
  <1> QED  BY <1>2, <1>9 DEF CycleOK

\* After a call that does not send the TPDO although it may.
LEMMA WhenUnsent ==
    ASSUME PdoInv, WhenInv, NEW n, NEW dt, NEW syncWas, Unsent(n, dt, syncWas)
    PROVE  WhenInv' /\ ~n.sent
  <1>1. ~n.sent /\ AskedOK' /\ TimesOK' /\ (first' <=> first)
    BY UnsentFields
  <1>2. CycleOK'
    BY CycleUnsent
  <1>3. RequestOK'
    <2>1. CASE first
      BY <1>1, <2>1 DEF RequestOK
    <2>2. CASE ~first
      BY <2>2, RequestUnsent
    <2> QED  BY <2>1, <2>2
  <1>4. ASSUME first'
        PROVE  tpdo'.sendRequest /\ tpdo'.inhibitTimer = 0
    <2>1. first /\ tpdo.sendRequest /\ tpdo.inhibitTimer = 0
      BY <1>1, <1>4 DEF WhenInv
    <2>2. tpdo'.sendRequest
      BY <2>1, UnsentFields DEF asksNow
    <2>3. tpdo'.inhibitTimer = inhibitLeft(tpdo, dt) /\ dt \in Nat
      BY UnsentFields
    <2>4. countdown(0, dt) = 0
      BY <2>3, CountdownTwice
    <2> QED  BY <2>1, <2>2, <2>3, <2>4 DEF inhibitLeft
  <1> QED  BY <1>1, <1>2, <1>3, <1>4 DEF WhenInv

\* What a step may do about the TPDO.
WhenStep ==
    call'.dt > 0 /\ tpdo.valid /\ operational /\ ~staleAsks =>
         call'.sent <=>
           CASE tpdo.transmissionType >= EVENT_LO ->
                  due(call'.dt) /\ (first \/ "free" \in noted \/ since + call'.dt >= tpdo.inhibitTime)
             [] tpdo.transmissionType = SYNC_ACYCLIC -> due(call'.dt) /\ call'.syncWas
             [] OTHER -> call'.syncWas /\ cycleBegins

\* A call sends the TPDO when it is due.
LEMMA WhenProcess ==
    ASSUME PdoInv, FollowInv, WhenInv, NEW dt \in Nat, Process(dt)
    PROVE  WhenInv' /\ WhenStep
  <1> DEFINE isRunning == nmt # "STOPPED"
             s == CO_SYNC_process(sync, errs, isRunning, dt)
             was == s.status = "RX_TX"
             r == CO_RPDO_process(rpdo, vals, s.errs, s.sync, dt, operational, was)
             n == CO_TPDO_process(tpdo, flagged, r.errs, s.sync, dt, operational, was)
  <1>1. RpdoOK(rpdo) /\ TpdoOK(tpdo) /\ "GENERIC_SOFTWARE_ERROR" \notin errs /\ sync \in SyncType
    BY DEF PdoInv, FollowInv
  <1>2. /\ sync' = s.sync /\ tpdo' = n.tpdo /\ flagged' = n.flagged
        /\ TpdoRemembered(n.sent, was, dt)
        /\ call' = [dt |-> dt, syncWas |-> was, sent |-> n.sent]
    BY DEF Process
  <1>3. isRunning \in BOOLEAN /\ was \in BOOLEAN
    OBVIOUS
  <1>4. "GENERIC_SOFTWARE_ERROR" \notin s.errs
    BY <1>1, SyncErrors
  <1>5. s.sync.counterOverflowValue = sync.counterOverflowValue
    <2> HIDE DEF isRunning
    <2> QED  BY <1>1, <1>3, SyncOverflow
  <1> HIDE DEF s, was, isRunning
  <1>6. "GENERIC_SOFTWARE_ERROR" \notin r.errs
    BY <1>1, <1>3, <1>4, RpdoProcessed
  <1> HIDE DEF r
  <1>7. CallAs(n, tpdo, flagged, s.sync, dt, operational, was)
    BY <1>1, <1>3, <1>6, TpdoProcessAs
  <1> HIDE DEF n
  <1>8. WhenCall(n, dt, was)
    BY <1>2, <1>3, <1>5, <1>7 DEF WhenCall
  <1>9. CASE ~(tpdo.valid /\ operational)
    <2>1. WhenInv'
      BY <1>8, <1>9, WhenIdle
    <2> QED  BY <1>9, <2>1 DEF WhenStep
  <1>10. CASE tpdo.valid /\ operational
    <2>1. WhenInv' /\ (n.sent <=> sendsNow(tpdo, flagged, sync', dt, was))
      <3>1. CASE sendsNow(tpdo, flagged, sync', dt, was)
        BY <1>8, <1>10, <3>1, WhenSent
      <3>2. CASE ~sendsNow(tpdo, flagged, sync', dt, was)
        <4>1. Unsent(n, dt, was)
          BY <1>8, <1>10, <3>2 DEF Unsent
        <4> QED  BY <3>2, <4>1, WhenUnsent
      <3> QED  BY <3>1, <3>2
    <2>2. call'.dt = dt /\ call'.syncWas = was /\ call'.sent = n.sent
      BY <1>2
    <2>3. sync'.counterOverflowValue = sync.counterOverflowValue
      BY <1>2, <1>5
    <2>4. ASSUME ~staleAsks
          PROVE  n.sent <=>
                   CASE tpdo.transmissionType >= EVENT_LO ->
                          due(dt) /\ (first \/ "free" \in noted \/ since + dt >= tpdo.inhibitTime)
                     [] tpdo.transmissionType = SYNC_ACYCLIC -> due(dt) /\ was
                     [] OTHER -> was /\ cycleBegins
      BY <1>3, <2>1, <2>3, <2>4, CallsWhenDue
    <2>5. WhenStep
      BY <2>2, <2>4 DEF WhenStep
    <2> QED  BY <2>1, <2>5
  <1> QED  BY <1>9, <1>10

\* Nothing about the TPDO changes but the age that is counted.
LEMMA WhenKept ==
    ASSUME WhenInv, SameSending(tpdo', tpdo), UNCHANGED <<flagged, asked, cycles, noted>>,
           first' \in BOOLEAN, first' <=> first, since' = IF first' THEN 0 ELSE since
    PROVE  WhenInv'
  <1>1. AskedOK'
    BY DEF WhenInv, AskedOK
  <1>2. /\ tpdo'.transmissionType = tpdo.transmissionType /\ tpdo'.sendRequest = tpdo.sendRequest
        /\ tpdo'.syncCounter = tpdo.syncCounter /\ tpdo'.inhibitTime = tpdo.inhibitTime
        /\ tpdo'.inhibitTimer = tpdo.inhibitTimer /\ tpdo'.od.inhibit = tpdo.od.inhibit
        /\ tpdo'.eventTime = tpdo.eventTime /\ tpdo'.eventTimer = tpdo.eventTimer /\ tpdo'.od.event = tpdo.od.event
    BY DEF SameSending
  <1>3. CycleOK'
    BY <1>2 DEF WhenInv, CycleOK
  <1>4. RequestOK'
    BY <1>2 DEF WhenInv, RequestOK
  <1>5. TimesOK'
    <2>1. TimesOK /\ MaxAge \in Nat
      BY MaxAgeAssumption DEF WhenInv
    <2>2. since' \in 0..MaxAge /\ cycles' \in Nat
      BY <2>1 DEF TimesOK
    <2>3. /\ tpdo'.eventTime <= MaxAge /\ tpdo'.inhibitTime <= MaxAge
          /\ tpdo'.od.event <= MaxAge /\ tpdo'.od.inhibit <= MaxAge
      BY <1>2, <2>1 DEF TimesOK
    <2> QED  BY <2>2, <2>3, Zenon DEF TimesOK
  <1>6. first' => tpdo'.sendRequest /\ tpdo'.inhibitTimer = 0
    BY <1>2 DEF WhenInv
  <1> QED  BY <1>1, <1>3, <1>4, <1>5, <1>6 DEF WhenInv

\* What a write of a communication parameter does to the sending.
LEMMA TpdoWriteEffect ==
    ASSUME NEW t, TpdoOK(t), NEW w \in CommunicationWrites({3, 5, 6})
    PROVE  LET q == OD_write_18xx(t, w[1], w[2]) IN
           \/ SameSending(q, t) /\ (w[1] = 2 => isReserved(w[2])) /\ w[1] # 5 /\ (w[1] = 3 => t.valid)
           \/ /\ w[1] = 2 /\ ~isReserved(w[2])
              /\ q.syncCounter = 255 /\ q.sendRequest /\ q.inhibitTimer = 0
              /\ q.inhibitTime = t.inhibitTime /\ q.od.inhibit = t.od.inhibit
              /\ q.eventTime = t.eventTime /\ q.od.event = t.od.event
           \/ /\ w[1] = 3 /\ ~t.valid /\ w[2] \in Nat
              /\ q.transmissionType = t.transmissionType /\ q.sendRequest = t.sendRequest /\ q.syncCounter = t.syncCounter
              /\ q.eventTime = t.eventTime /\ q.eventTimer = t.eventTimer
              /\ q.inhibitTime = w[2] /\ q.inhibitTimer = 0 /\ q.od.inhibit = w[2] /\ q.od.event = t.od.event
           \/ /\ w[1] = 5 /\ w[2] \in Nat
              /\ q.transmissionType = t.transmissionType /\ q.sendRequest = t.sendRequest /\ q.syncCounter = t.syncCounter
              /\ q.inhibitTime = t.inhibitTime /\ q.inhibitTimer = t.inhibitTimer
              /\ q.eventTime = w[2] /\ q.eventTimer = 0 /\ q.od.event = w[2] /\ q.od.inhibit = t.od.inhibit
  <1> DEFINE value == w[2]
             q == OD_write_18xx(t, w[1], value)
  <1>1. \/ w[1] = 1 /\ value \in PdoCobIds
        \/ w[1] = 2 /\ value \in 0..255
        \/ w[1] \in {3, 5, 6} /\ value \in Nat
    BY CommunicationWrite
  <1>2. t \in TpdoType /\ t.od \in PdoOd
    BY DEF TpdoOK, TpdoType
  <1>3. SameSending(t, t)
    BY DEF SameSending
  <1> HIDE DEF value
  <1>4. CASE w[1] = 1
    <2> DEFINE id == IF value.valid THEN value.id ELSE "zero"
               buffer == CO_CANtxBufferInit(id, t.dataLength, t.transmissionType)
               s == stored(t, value)
               m == [t EXCEPT !.tx = buffer, !.valid = value.valid, !.configuredCanId = id]
    <2>1. q = IF cobId_refused(t, value) THEN t
              ELSE [(IF ~cobId_changed(t, value) THEN t ELSE m) EXCEPT !.od.cobId = s]
      BY <1>4 DEF OD_write_18xx
    <2> HIDE DEF id, buffer, s
    <2>2. SameSending(m, t) /\ m.od = t.od
      BY <1>2 DEF SameSending, TpdoType
    <2>3. DOMAIN m = DOMAIN t
      OBVIOUS
    <2>4. SameSending([t EXCEPT !.od.cobId = s], t)
      BY <1>2 DEF SameSending, TpdoType, PdoOd
    <2>5. SameSending([m EXCEPT !.od.cobId = s], t)
      <3>1. SameSending([m EXCEPT !.od.cobId = s], m)
        BY <1>2, <2>2, <2>3 DEF SameSending, TpdoType, PdoOd
      <3> HIDE DEF m
      <3> QED  BY <2>2, <3>1 DEF SameSending
    <2> HIDE DEF m, q
    <2> QED  BY <1>3, <1>4, <2>1, <2>4, <2>5 DEF q, value
  <1>5. CASE w[1] = 2
    <2> DEFINE new == [t EXCEPT !.syncCounter = 255, !.sendRequest = TRUE, !.inhibitTimer = 0, !.eventTimer = 0,
                                !.tx.syncFlag = isSynchronous(value), !.transmissionType = value, !.od.type = value]
    <2>1. q = IF isReserved(value) THEN t ELSE new
      BY <1>5 DEF OD_write_18xx
    <2>2. /\ new.syncCounter = 255 /\ new.sendRequest /\ new.inhibitTimer = 0
          /\ new.inhibitTime = t.inhibitTime /\ new.od.inhibit = t.od.inhibit
          /\ new.eventTime = t.eventTime /\ new.od.event = t.od.event
      BY <1>2 DEF TpdoType, PdoOd
    <2> HIDE DEF new, q
    <2> QED  BY <1>3, <1>5, <2>1, <2>2 DEF q, value
  <1>6. CASE w[1] = 3
    <2> DEFINE new == [t EXCEPT !.inhibitTime = value, !.inhibitTimer = 0, !.od.inhibit = value]
    <2>1. q = IF t.valid THEN t ELSE new
      BY <1>6 DEF OD_write_18xx
    <2>2. /\ new.transmissionType = t.transmissionType /\ new.sendRequest = t.sendRequest /\ new.syncCounter = t.syncCounter
          /\ new.eventTime = t.eventTime /\ new.eventTimer = t.eventTimer
          /\ new.inhibitTime = value /\ new.inhibitTimer = 0 /\ new.od.inhibit = value /\ new.od.event = t.od.event
      BY <1>2 DEF TpdoType, PdoOd
    <2>3. value \in Nat
      BY <1>1, <1>6
    <2> HIDE DEF new, q
    <2> QED  BY <1>3, <1>6, <2>1, <2>2, <2>3 DEF q, value
  <1>7. CASE w[1] = 5
    <2> DEFINE new == [t EXCEPT !.eventTime = value, !.eventTimer = 0, !.od.event = value]
    <2>1. q = new
      BY <1>7 DEF OD_write_18xx
    <2>2. /\ new.transmissionType = t.transmissionType /\ new.sendRequest = t.sendRequest /\ new.syncCounter = t.syncCounter
          /\ new.inhibitTime = t.inhibitTime /\ new.inhibitTimer = t.inhibitTimer
          /\ new.eventTime = value /\ new.eventTimer = 0 /\ new.od.event = value /\ new.od.inhibit = t.od.inhibit
      BY <1>2 DEF TpdoType, PdoOd
    <2>3. value \in Nat
      BY <1>1, <1>7
    <2> HIDE DEF new, q
    <2> QED  BY <1>7, <2>1, <2>2, <2>3 DEF q, value
  <1>8. CASE w[1] = 6
    <2> DEFINE new == [t EXCEPT !.syncStartValue = value, !.od.start = value]
    <2>1. q = t \/ q = new
      BY <1>8 DEF OD_write_18xx
    <2>2. SameSending(new, t)
      BY <1>2 DEF TpdoType, PdoOd, SameSending
    <2> HIDE DEF new, q
    <2> QED  BY <1>3, <1>8, <2>1, <2>2 DEF q, value
  <1> QED  BY <1>1, <1>4, <1>5, <1>6, <1>7, <1>8

\* Before anything happens.
LEMMA WhenInit == Init => WhenInv
  <1> SUFFICES ASSUME Init PROVE WhenInv
    OBVIOUS
  <1>1. PICK od \in Here.tpdo : tpdo = CO_TPDO_init(od, {}).tpdo
    BY DEF Init
  <1>2. /\ scenario \in DOMAIN Scenarios /\ flagged = {} /\ asked = DOMAIN Objects
        /\ first = TRUE /\ since = 0 /\ cycles = 0 /\ noted = {}
    BY DEF Init
  <1>3. od \in PdoOd /\ od.event <= MaxAge /\ od.inhibit <= MaxAge /\ MaxAge \in Nat
    BY <1>2, ScenarioTypes, MaxAgeAssumption DEF Here
  <1>4. TpdoIsNew(tpdo, od) /\ tpdo.od = od
    BY <1>1, <1>3, TpdoInit
  <1>5. AskedOK /\ CycleOK /\ RequestOK
    BY <1>2, <1>4 DEF AskedOK, CycleOK, RequestOK, TpdoIsNew
  <1>6. TimesOK
    BY <1>2, <1>3, <1>4 DEF TimesOK, TpdoIsNew
  <1> QED  BY <1>4, <1>5, <1>6 DEF WhenInv, TpdoIsNew

\* The device is set up again.
LEMMA WhenReset ==
    ASSUME PdoInv, WhenInv, ResetCommunication
    PROVE  WhenInv'
  <1>1. /\ tpdo' = CO_TPDO_init(tpdo.od, {}).tpdo /\ flagged' = {} /\ asked' = DOMAIN Objects
        /\ first' = TRUE /\ since' = 0 /\ cycles' = 0 /\ noted' = {}
    BY DEF ResetCommunication
  <1>2. tpdo.od \in PdoOd /\ tpdo.od.event <= MaxAge /\ tpdo.od.inhibit <= MaxAge /\ MaxAge \in Nat
    BY MaxAgeAssumption DEF PdoInv, TpdoOK, TpdoType, WhenInv, TimesOK
  <1>3. TpdoIsNew(tpdo', tpdo.od) /\ tpdo'.od = tpdo.od
    BY <1>1, <1>2, TpdoInit
  <1>4. AskedOK' /\ CycleOK' /\ RequestOK'
    BY <1>1, <1>3 DEF AskedOK, CycleOK, RequestOK, TpdoIsNew
  <1>5. TimesOK'
    BY <1>1, <1>2, <1>3 DEF TimesOK, TpdoIsNew
  <1> QED  BY <1>3, <1>4, <1>5 DEF WhenInv, TpdoIsNew

\* A communication parameter is written.
LEMMA WhenParameter ==
    ASSUME PdoInv, WhenInv, NEW w \in CommunicationWrites({3, 5, 6}), w[1] \in {3, 5} => w[2] <= MaxAge,
           NEW afresh, afresh = (w[1] = 2 /\ ~isReserved(w[2])),
           tpdo' = OD_write_18xx(tpdo, w[1], w[2]), UNCHANGED flagged,
           first' = (first \/ afresh),
           asked' = IF first' \/ w[1] # 5 THEN asked
                    ELSE (asked \ {"timer"}) \cup (IF w[2] # 0 THEN {"timer"} ELSE {}),
           cycles' = IF afresh THEN 0 ELSE cycles,
           noted' = IF afresh THEN {} ELSE noted \cup (IF w[1] = 3 /\ ~tpdo.valid THEN {"free"} ELSE {}),
           since' = IF first' THEN 0 ELSE since
    PROVE  WhenInv'
  <1> DEFINE value == w[2]
  <1>1. /\ TpdoOK(tpdo) /\ MaxAge \in Nat /\ first \in BOOLEAN /\ afresh \in BOOLEAN
        /\ since \in 0..MaxAge /\ cycles \in Nat
        /\ AskedOK /\ CycleOK /\ RequestOK /\ TimesOK
        /\ first => tpdo.sendRequest /\ tpdo.inhibitTimer = 0
    <2>1. afresh \in BOOLEAN
      <3>1. (w[1] = 2 /\ ~isReserved(w[2])) \in BOOLEAN
        OBVIOUS
      <3> QED  BY <3>1, Zenon
    <2>2. first \in BOOLEAN /\ since \in 0..MaxAge /\ cycles \in Nat
      BY Zenon DEF WhenInv, TimesOK
    <2>3. /\ AskedOK /\ CycleOK /\ RequestOK /\ TimesOK
          /\ first => tpdo.sendRequest /\ tpdo.inhibitTimer = 0
      BY Zenon DEF WhenInv
    <2> QED  BY <2>1, <2>2, <2>3, MaxAgeAssumption, Zenon DEF PdoInv
  <1>2. first' \in BOOLEAN /\ (first' <=> first \/ afresh)
    <2>1. (first \/ afresh) \in BOOLEAN
      BY <1>1
    <2>2. first' \in BOOLEAN
      BY <2>1, Zenon
    <2> QED  BY <2>2, Zenon
  <1>3. /\ since' \in 0..MaxAge /\ cycles' \in Nat
        /\ since' = 0 \/ since' = since
    BY <1>1
  <1>4. AskedOK'
    <2>1. "timer" \notin DOMAIN Objects
      BY RequestsAssumption
    <2>2. asked' \cap DOMAIN Objects = asked \cap DOMAIN Objects
      BY <2>1
    <2> QED  BY <1>1, <2>2 DEF AskedOK
  <1>5. afresh <=> w[1] = 2 /\ ~isReserved(value)
    BY Zenon
  <1>6. \/ SameSending(tpdo', tpdo) /\ (w[1] = 2 => isReserved(value)) /\ w[1] # 5 /\ (w[1] = 3 => tpdo.valid)
        \/ /\ w[1] = 2 /\ ~isReserved(value)
           /\ tpdo'.syncCounter = 255 /\ tpdo'.sendRequest /\ tpdo'.inhibitTimer = 0
           /\ tpdo'.inhibitTime = tpdo.inhibitTime /\ tpdo'.od.inhibit = tpdo.od.inhibit
           /\ tpdo'.eventTime = tpdo.eventTime /\ tpdo'.od.event = tpdo.od.event
        \/ /\ w[1] = 3 /\ ~tpdo.valid /\ value \in Nat
           /\ tpdo'.transmissionType = tpdo.transmissionType /\ tpdo'.sendRequest = tpdo.sendRequest
           /\ tpdo'.syncCounter = tpdo.syncCounter
           /\ tpdo'.eventTime = tpdo.eventTime /\ tpdo'.eventTimer = tpdo.eventTimer
           /\ tpdo'.inhibitTime = value /\ tpdo'.inhibitTimer = 0 /\ tpdo'.od.inhibit = value
           /\ tpdo'.od.event = tpdo.od.event
        \/ /\ w[1] = 5 /\ value \in Nat
           /\ tpdo'.transmissionType = tpdo.transmissionType /\ tpdo'.sendRequest = tpdo.sendRequest
           /\ tpdo'.syncCounter = tpdo.syncCounter
           /\ tpdo'.inhibitTime = tpdo.inhibitTime /\ tpdo'.inhibitTimer = tpdo.inhibitTimer
           /\ tpdo'.eventTime = value /\ tpdo'.eventTimer = 0 /\ tpdo'.od.event = value
           /\ tpdo'.od.inhibit = tpdo.od.inhibit
    BY <1>1, TpdoWriteEffect
  <1>7. TimesOK'
    <2>1. /\ tpdo.eventTime <= MaxAge /\ tpdo.inhibitTime <= MaxAge
          /\ tpdo.od.event <= MaxAge /\ tpdo.od.inhibit <= MaxAge
      BY <1>1 DEF TimesOK
    <2>2. w[1] = 3 \/ w[1] = 5 => value <= MaxAge
      OBVIOUS
    <2> HIDE DEF value
    <2>3. /\ tpdo'.eventTime <= MaxAge /\ tpdo'.inhibitTime <= MaxAge
          /\ tpdo'.od.event <= MaxAge /\ tpdo'.od.inhibit <= MaxAge
      BY <1>6, <2>1, <2>2 DEF SameSending
    <2> QED  BY <1>2, <1>3, <2>3, Zenon DEF TimesOK
  <1> HIDE DEF value
  <1>8. CASE afresh
    <2>1. /\ tpdo'.sendRequest /\ tpdo'.syncCounter = 255 /\ tpdo'.inhibitTimer = 0
          /\ first' /\ cycles' = 0 /\ noted' = {}
      BY <1>2, <1>5, <1>6, <1>8
    <2>2. CycleOK' /\ RequestOK'
      BY <2>1 DEF CycleOK, RequestOK
    <2> QED  BY <1>4, <1>7, <2>1, <2>2 DEF WhenInv
  <1>9. CASE ~afresh /\ w[1] # 5 /\ SameSending(tpdo', tpdo) /\ (w[1] = 3 => tpdo.valid)
    <2>1. (first' <=> first) /\ UNCHANGED <<asked, cycles, noted>>
      BY <1>2, <1>9
    <2> QED  BY <1>2, <1>9, <2>1, WhenKept
  <1>10. CASE /\ w[1] = 3 /\ ~tpdo.valid
              /\ tpdo'.transmissionType = tpdo.transmissionType /\ tpdo'.sendRequest = tpdo.sendRequest
              /\ tpdo'.syncCounter = tpdo.syncCounter
              /\ tpdo'.eventTime = tpdo.eventTime /\ tpdo'.eventTimer = tpdo.eventTimer
              /\ tpdo'.inhibitTime = value /\ tpdo'.inhibitTimer = 0
    <2>1. /\ (first' <=> first) /\ asked' = asked /\ cycles' = cycles /\ noted' = noted \cup {"free"}
          /\ ~first => since' = since
      BY <1>2, <1>5, <1>10
    <2>2. CycleOK'
      BY <1>1, <1>10, <2>1 DEF CycleOK
    <2>3. RequestOK'
      BY <1>1, <1>10, <2>1 DEF RequestOK
    <2>4. first' => tpdo'.sendRequest /\ tpdo'.inhibitTimer = 0
      BY <1>1, <1>10, <2>1
    <2> QED  BY <1>4, <1>7, <2>2, <2>3, <2>4 DEF WhenInv
  <1>11. CASE /\ w[1] = 5
              /\ tpdo'.transmissionType = tpdo.transmissionType /\ tpdo'.sendRequest = tpdo.sendRequest
              /\ tpdo'.syncCounter = tpdo.syncCounter
              /\ tpdo'.inhibitTime = tpdo.inhibitTime /\ tpdo'.inhibitTimer = tpdo.inhibitTimer
              /\ tpdo'.eventTime = value /\ tpdo'.eventTimer = 0
    <2>1. /\ (first' <=> first) /\ cycles' = cycles /\ noted' = noted
          /\ ~first => since' = since
                       /\ asked' = (asked \ {"timer"}) \cup (IF value # 0 THEN {"timer"} ELSE {})
      BY <1>2, <1>5, <1>11 DEF value
    <2>2. CycleOK'
      BY <1>1, <1>11, <2>1 DEF CycleOK
    <2>3. ~first => /\ "request" \in asked' <=> "request" \in asked
                    /\ "timer" \in asked' <=> value # 0
      BY <2>1
    <2>4. RequestOK'
      BY <1>1, <1>11, <2>1, <2>3 DEF RequestOK
    <2>5. first' => tpdo'.sendRequest /\ tpdo'.inhibitTimer = 0
      BY <1>1, <1>11, <2>1
    <2> QED  BY <1>4, <1>7, <2>2, <2>4, <2>5 DEF WhenInv
  <1> QED  BY <1>5, <1>6, <1>8, <1>9, <1>10, <1>11

\* The parameters of the TPDO are written.
LEMMA WhenWriteTpdo ==
    ASSUME PdoInv, WhenInv, WriteTpdo
    PROVE  WhenInv'
  <1>1. TpdoOK(tpdo) /\ scenario \in DOMAIN Scenarios
    BY DEF PdoInv
  <1>2. UNCHANGED flagged /\ since' = IF first' THEN 0 ELSE since
    BY DEF WriteTpdo
  <1>3. ASSUME NEW w \in Here.t18xx, NEW afresh, afresh = (w[1] = 2 /\ ~isReserved(w[2])),
               tpdo' = OD_write_18xx(tpdo, w[1], w[2]),
               first' = (first \/ afresh),
               asked' = IF first' \/ w[1] # 5 THEN asked
                        ELSE (asked \ {"timer"}) \cup (IF w[2] # 0 THEN {"timer"} ELSE {}),
               cycles' = IF afresh THEN 0 ELSE cycles,
               noted' = IF afresh THEN {} ELSE noted \cup (IF w[1] = 3 /\ ~tpdo.valid THEN {"free"} ELSE {})
        PROVE  WhenInv'
    <2>1. w \in CommunicationWrites({3, 5, 6})
      BY <1>1, ScenarioTypes
    <2>2. w[1] \in {3, 5} => w[2] <= MaxAge
      BY <1>1, MaxAgeAssumption DEF Here
    <2> QED  BY <1>2, <1>3, <2>1, <2>2, WhenParameter
  <1>4. ASSUME NEW w \in Here.t1Axx,
               tpdo' = OD_write_PDO_mapping(tpdo, w[1], w[2], FALSE).pdo,
               UNCHANGED <<first, asked, cycles, noted>>
        PROVE  WhenInv'
    <2>1. w \in MappingWrites
      BY <1>1, ScenarioTypes
    <2>2. tpdo \in PdoType(FALSE) /\ PdoOK(tpdo, FALSE)
      BY <1>1 DEF TpdoOK, PdoType
    <2>3. tpdo' = tpdo \/ SameButMapping(tpdo', tpdo, FALSE)
      BY <1>4, <2>1, <2>2, PdoMappingWritten
    <2>4. SameSending(tpdo', tpdo)
      BY <2>3 DEF SameButMapping, SameSending
    <2>5. first' \in BOOLEAN /\ (first' <=> first)
      BY <1>4, Zenon DEF WhenInv, TimesOK
    <2> QED  BY <1>2, <1>4, <2>4, <2>5, WhenKept
  <1>5. CASE \E w \in Here.t18xx : LET afresh == w[1] = 2 /\ ~isReserved(w[2]) IN
               /\ tpdo' = OD_write_18xx(tpdo, w[1], w[2])
               /\ first' = (first \/ afresh)
               /\ asked' = IF first' \/ w[1] # 5 THEN asked
                           ELSE (asked \ {"timer"}) \cup (IF w[2] # 0 THEN {"timer"} ELSE {})
               /\ cycles' = IF afresh THEN 0 ELSE cycles
               /\ noted' = IF afresh THEN {}
                           ELSE noted \cup (IF w[1] = 3 /\ ~tpdo.valid THEN {"free"} ELSE {})
    BY <1>3, <1>5
  <1>6. CASE \E w \in Here.t1Axx :
               /\ tpdo' = OD_write_PDO_mapping(tpdo, w[1], w[2], FALSE).pdo
               /\ UNCHANGED <<first, asked, cycles, noted>>
    BY <1>4, <1>6
  <1> QED  BY <1>5, <1>6 DEF WriteTpdo

\* The application asks for the TPDO.
LEMMA WhenRequest ==
    ASSUME PdoInv, WhenInv, Request
    PROVE  WhenInv'
  <1>1. /\ UNCHANGED <<first, since, cycles, noted>>
        /\ tpdo \in TpdoType /\ scenario \in DOMAIN Scenarios
    BY DEF Request, PdoInv, TpdoOK
  <1>2. AskedOK /\ CycleOK /\ RequestOK /\ TimesOK /\ (first => tpdo.sendRequest /\ tpdo.inhibitTimer = 0)
    BY DEF WhenInv
  <1>3. "request" \notin DOMAIN Objects /\ "timer" \notin DOMAIN Objects
    BY RequestsAssumption
  <1>4. CASE tpdo' = CO_TPDOsendRequest(tpdo) /\ UNCHANGED flagged /\ asked' = asked \cup {"request"}
    <2>1. /\ tpdo'.sendRequest = TRUE
          /\ tpdo'.transmissionType = tpdo.transmissionType /\ tpdo'.syncCounter = tpdo.syncCounter
          /\ tpdo'.inhibitTime = tpdo.inhibitTime /\ tpdo'.inhibitTimer = tpdo.inhibitTimer
          /\ tpdo'.eventTime = tpdo.eventTime /\ tpdo'.eventTimer = tpdo.eventTimer /\ tpdo'.od = tpdo.od
      BY <1>1, <1>4 DEF CO_TPDOsendRequest, TpdoType
    <2>2. AskedOK'
      <3>1. asked' \cap DOMAIN Objects = asked \cap DOMAIN Objects
        BY <1>3, <1>4
      <3> QED  BY <1>2, <1>4, <3>1 DEF AskedOK
    <2>3. CycleOK'
      BY <1>1, <1>2, <2>1 DEF CycleOK
    <2>4. "request" \in asked' /\ ("timer" \in asked' <=> "timer" \in asked)
      BY <1>4
    <2>5. RequestOK'
      BY <1>1, <1>2, <2>1, <2>4 DEF RequestOK
    <2>6. TimesOK'
      BY <1>1, <1>2, <2>1, Zenon DEF TimesOK
    <2> QED  BY <1>1, <1>2, <2>1, <2>2, <2>3, <2>5, <2>6 DEF WhenInv
  <1>5. ASSUME NEW x \in Here.requests, flagged' = OD_requestTPDO(flagged, x),
               UNCHANGED tpdo, asked' = asked \cup {x}
        PROVE  WhenInv'
    <2>1. x \in DOMAIN Objects
      BY <1>1, RequestsAssumption DEF Here
    <2>2. x # "request" /\ x # "timer"
      BY <1>3, <2>1
    <2>3. AskedOK'
      <3>1. flagged' = flagged \ {x}
        BY <1>5 DEF OD_requestTPDO
      <3> QED  BY <1>2, <1>5, <2>1, <3>1 DEF AskedOK
    <2>4. ("request" \in asked' <=> "request" \in asked) /\ ("timer" \in asked' <=> "timer" \in asked)
      BY <1>5, <2>2
    <2>5. RequestOK'
      BY <1>1, <1>2, <1>5, <2>4 DEF RequestOK
    <2>6. CycleOK' /\ TimesOK'
      BY <1>1, <1>2, <1>5 DEF CycleOK, TimesOK
    <2> QED  BY <1>1, <1>2, <1>5, <2>3, <2>5, <2>6 DEF WhenInv
  <1> QED  BY <1>4, <1>5 DEF Request

\* What else the surroundings do.
LEMMA WhenSurroundings ==
    ASSUME PdoInv, WhenInv, Surroundings
    PROVE  WhenInv'
  <1>1. ASSUME UNCHANGED <<tpdo, flagged, tpdoGhosts>>
        PROVE  WhenInv'
    BY <1>1 DEF tpdoGhosts, WhenInv, AskedOK, CycleOK, RequestOK, TimesOK
  <1>2. CASE \E x \in Here.states \ {nmt} : Command(x)
    BY <1>1, <1>2 DEF Command, objects
  <1>3. CASE \E m \in Here.SYNCs : Sync(m)
    BY <1>1, <1>3 DEF Sync
  <1>4. CASE \E DLC \in Here.DLCs : Message(DLC)
    BY <1>1, <1>4 DEF Message
  <1>5. CASE WriteRpdo
    BY <1>1, <1>5 DEF WriteRpdo
  <1>6. CASE WriteTpdo
    BY <1>6, WhenWriteTpdo
  <1>7. CASE WriteSync
    BY <1>1, <1>7 DEF WriteSync
  <1>8. CASE Request
    BY <1>8, WhenRequest
  <1>9. CASE ResetCommunication
    BY <1>9, WhenReset
  <1> QED  BY <1>2, <1>3, <1>4, <1>5, <1>6, <1>7, <1>8, <1>9 DEF Surroundings

\* A call of CO_process sends the TPDO when it is due and only then: at once
\* when it was set up, when it was asked for or the event time is over and not
\* before the inhibit time, at a SYNC, or at every N-th SYNC (CO_TPDO_process,
\* CO_TPDOsend, OD_write_18xx).
THEOREM TpdoWhen == Spec => TpdoWhenDue
  <1> DEFINE Inv == PdoInv /\ FollowInv /\ WhenInv
  <1>1. Init => Inv
    BY PdoInit, FollowInit, WhenInit
  <1>2. Inv /\ [Next]_vars => Inv' /\ (WhenStep \/ UNCHANGED vars)
    <2> SUFFICES ASSUME Inv, [Next]_vars
                 PROVE  Inv' /\ (WhenStep \/ UNCHANGED vars)
      OBVIOUS
    <2>1. ASSUME NEW dt \in Here.times, Process(dt)
          PROVE  Inv' /\ WhenStep
      <3>1. dt \in Nat
        BY ScenarioTypes DEF PdoInv
      <3> QED  BY <2>1, <3>1, PdoProcess, FollowProcess, WhenProcess
    <2>2. CASE Surroundings /\ UNCHANGED scenario /\ call' = NoCall
      <3>1. Inv'
        BY <2>2, PdoSurroundings, FollowSurroundings, WhenSurroundings
      <3>2. WhenStep
        <4>1. ~(call'.dt > 0)
          BY <2>2 DEF NoCall
        <4> QED  BY <4>1 DEF WhenStep
      <3> QED  BY <3>1, <3>2
    <2>3. CASE UNCHANGED vars
      <3>1. PdoInv' /\ FollowInv'
        BY <2>3 DEF vars, objects, rpdoGhosts, PdoInv, FollowInv
      <3>2. WhenInv'
        BY <2>3 DEF vars, objects, tpdoGhosts, WhenInv, AskedOK, CycleOK, RequestOK, TimesOK
      <3> QED  BY <2>3, <3>1, <3>2
    <2> QED  BY <2>1, <2>2, <2>3 DEF Next
  <1>3. WhenStep \/ UNCHANGED vars => [WhenStep]_vars
    OBVIOUS
  <1> QED  BY <1>1, <1>2, <1>3, PTL DEF Spec, TpdoWhenDue, WhenStep
=============================================================================

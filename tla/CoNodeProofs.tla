---------------------------- MODULE CoNodeProofs ----------------------------
(***************************************************************************)
(* What a node that runs CO_process promises, for every scenario of        *)
(* commands, errors, heartbeats and writes, every size of the emergency    *)
(* buffer and every cycle time.                                            *)
(***************************************************************************)
EXTENDS CoNode, SequenceTheorems, LoopProofs, TLAPS

-----------------------------------------------------------------------------
(* The emergency object: the history is in the buffer where OD_read_1003   *)
(* looks for it, and a listener of the messages knows the error            *)
(* conditions.                                                             *)

\* All names.  None of the provers knows that a string is in STRING.
Codes   == {"NO_ERROR", "SOFTWARE_INTERNAL", "GENERIC", "DEVICE_SPECIFIC", "HEARTBEAT",
            "COMMUNICATION", "MANUFACTURER", "CAN_PASSIVE", "BUS_OFF_RECOVERED", "CAN_OVERRUN"}
Names   == STRING \cup StatusBits \cup Codes \cup {"none", "own", "default"}
Slots   == 0..(fifoSize - 1)
Message == [bit : Names, code : Names, reg : SUBSET Names]
Entry   == [bit : Names, code : Names]
Buffer  == [ident : Names, bufferFull : BOOLEAN]
FULL    == "EMERGENCY_BUFFER_FULL"

EmType ==
    [errorStatusBits : SUBSET Names, errorRegister : SUBSET Names,
     CANerrorStatusOld : SUBSET Names, fifo : [Slots -> Message],
     fifoWrPtr : Slots, fifoPpPtr : Slots, fifoOverflow : 0..2, fifoCount : Slots,
     producerEnabled : BOOLEAN, producerCanId : Names, CANtxBuff : Buffer,
     inhibitEmTime : Nat, inhibitEmTimer : Nat,
     log : Seq(Entry), belief : SUBSET Names, unsure : SUBSET Names, lost : BOOLEAN]

\* Where the k-th newest message is, when the next one goes to slot w.
place(w, k) == IF w - k < 0 THEN w - k + fifoSize ELSE w - k

\* The history, object 0x1003.
History(e) ==
    /\ Len(e.log) = e.fifoCount
    /\ \A k \in 1..e.fifoCount : /\ e.fifo[place(e.fifoWrPtr, k)].bit = e.log[k].bit
                                 /\ e.fifo[place(e.fifoWrPtr, k)].code = e.log[k].code

\* The conditions whose messages say all there is to know.
Tracked == StatusBits \ {"CAN_BUS_WARNING", "WRONG_ERROR_REPORT"}

\* What a listener knows, and that the stack's own condition BUFFER_FULL is
\* always among it: it is announced only when there is room.
Tells(e) ==
    /\ \A b \in Tracked \ e.unsure : b \in e.belief <=> b \in e.errorStatusBits
    /\ FULL \notin e.unsure
    /\ e.fifoOverflow = 2 => FULL \in e.errorStatusBits
    /\ e.lost => e.fifoOverflow # 0

EmOK(e) == e \in EmType /\ History(e) /\ Tells(e)

\* Nothing but the heartbeat consumer ends the error of a silent peer.
PEER == "HEARTBEAT_CONSUMER"
Keeps(r, e) == PEER \in e.errorStatusBits => PEER \in r.errorStatusBits

-----------------------------------------------------------------------------
(* The ring *)

\* The next place is a place, and no two places share it.
LEMMA RingNext ==
    ASSUME NEW p \in Slots, NEW q \in Slots
    PROVE  /\ ring_next(p) \in Slots /\ ring_next(p) # p
           /\ p # q => ring_next(p) # ring_next(q)
  BY fifoSizeAssumption DEF Slots, ring_next

\* The places of the history, and what a new message does to them.
LEMMA Places ==
    ASSUME NEW w \in Slots, NEW k \in Slots, k # 0
    PROVE  /\ place(w, k) \in Slots
           /\ place(w, k) # w
           /\ k = 1 => place(ring_next(w), k) = w
           /\ k # 1 => /\ k - 1 \in Slots /\ k - 1 # 0
                       /\ place(ring_next(w), k) = place(w, k - 1)
  BY fifoSizeAssumption DEF Slots, ring_next, place

\* The count stays below the size.
LEMMA CountedSlots ==
    ASSUME NEW c \in Slots
    PROVE  counted(c) \in Slots /\ counted(c) # 0 /\ counted(c) <= c + 1
           /\ counted(c) = IF c < fifoSize - 1 THEN c + 1 ELSE fifoSize - 1
  BY fifoSizeAssumption DEF Slots, counted

\* A message in front of the log, cut to n.
LEMMA LogPush ==
    ASSUME NEW log \in Seq(Entry), NEW x \in Entry, NEW n \in Nat, n # 0, n <= Len(log) + 1
    PROVE  LET s == SubSeq(<<x>> \o log, 1, n)
           IN  /\ s \in Seq(Entry) /\ Len(s) = n /\ s[1] = x
               /\ \A k \in 1..n : k # 1 => s[k] = log[k - 1]
  <1> DEFINE t == <<x>> \o log
             s == SubSeq(t, 1, n)
  <1>1. <<x>> \in Seq(Entry) /\ Len(<<x>>) = 1 /\ <<x>>[1] = x /\ Len(log) \in Nat
    BY LenProperties
  <1>2. /\ t \in Seq(Entry) /\ Len(t) = Len(log) + 1
        /\ \A i \in 1..(Len(log) + 1) : t[i] = IF i <= 1 THEN <<x>>[i] ELSE log[i - 1]
    <2>1. /\ t \in Seq(Entry) /\ Len(t) = Len(<<x>>) + Len(log)
          /\ \A i \in 1..(Len(<<x>>) + Len(log)) :
                t[i] = IF i <= Len(<<x>>) THEN <<x>>[i] ELSE log[i - Len(<<x>>)]
      BY <1>1, ConcatProperties
    <2> QED  BY <1>1, <2>1
  <1> HIDE DEF t
  <1>3. \A i \in 1..n : t[i] \in Entry
    BY <1>1, <1>2, ElementOfSeq
  <1>4. /\ s \in Seq(Entry) /\ Len(s) = IF 1 <= n THEN n - 1 + 1 ELSE 0
        /\ \A i \in 1..(n - 1 + 1) : s[i] = t[1 + i - 1]
    BY <1>3, SubSeqProperties, 1 \in Int, n \in Int
  <1> HIDE DEF s
  <1>5. Len(s) = n /\ \A i \in 1..n : s[i] = t[i]
    BY <1>4
  <1> QED  BY <1>1, <1>2, <1>4, <1>5 DEF s, t

-----------------------------------------------------------------------------
(* One message *)

pushed(log, x) == SubSeq(<<x>> \o log, 1, IF Len(log) < fifoSize - 1 THEN Len(log) + 1
                                          ELSE fifoSize - 1)

\* r is e after a message was recorded, field by field.
Recorded(r, e, msg, bit) ==
    /\ r \in EmType
    /\ r.errorStatusBits = e.errorStatusBits
    /\ r.fifo = [e.fifo EXCEPT ![e.fifoWrPtr] = msg]
    /\ r.fifoWrPtr = ring_next(e.fifoWrPtr)
    /\ r.fifoCount = counted(e.fifoCount)
    /\ r.fifoOverflow = e.fifoOverflow
    /\ r.log = pushed(e.log, [bit |-> msg.bit, code |-> msg.code])
    /\ r.belief = IF msg.code = "NO_ERROR" THEN e.belief \ {msg.bit} ELSE e.belief \cup {msg.bit}
    /\ r.unsure = e.unsure \ {bit}
    /\ r.lost = (e.lost /\ ~(msg.bit = FULL /\ msg.code = "NO_ERROR"))

\* It is what record makes.
LEMMA RecordFields ==
    ASSUME NEW e \in EmType, History(e), NEW msg \in Message, NEW bit \in Names
    PROVE  Recorded(record(e, msg, bit), e, msg, bit)
  <1> DEFINE x      == [bit |-> msg.bit, code |-> msg.code]
             fifo   == [e.fifo EXCEPT ![e.fifoWrPtr] = msg]
             log    == pushed(e.log, x)
             belief == IF msg.code = "NO_ERROR" THEN e.belief \ {msg.bit}
                       ELSE e.belief \cup {msg.bit}
             unsure == e.unsure \ {bit}
             lost   == e.lost /\ ~(msg.bit = FULL /\ msg.code = "NO_ERROR")
             wr     == ring_next(e.fifoWrPtr)
             count  == counted(e.fifoCount)
             r      == record(e, msg, bit)
  <1>1. r = [e EXCEPT !.fifo = fifo, !.fifoWrPtr = wr, !.fifoCount = count, !.log = log,
                      !.belief = belief, !.unsure = unsure, !.lost = lost]
    BY DEF record, pushed, FULL, EmType
  <1>2. fifo \in [Slots -> Message]
    BY DEF EmType
  <1>3. wr \in Slots /\ count \in Slots
    BY RingNext, CountedSlots DEF EmType
  <1>4. log \in Seq(Entry)
    <2>1. x \in Entry /\ e.log \in Seq(Entry) /\ Len(e.log) \in Slots
      BY DEF Message, Entry, EmType, History
    <2> DEFINE n == IF Len(e.log) < fifoSize - 1 THEN Len(e.log) + 1 ELSE fifoSize - 1
    <2>2. n \in Nat /\ n # 0 /\ n <= Len(e.log) + 1
      BY <2>1, fifoSizeAssumption DEF Slots
    <2>3. log = SubSeq(<<x>> \o e.log, 1, n)
      BY DEF pushed
    <2> HIDE DEF n, x, log
    <2> QED  BY <2>1, <2>2, <2>3, LogPush
  <1>5. belief \in SUBSET Names /\ unsure \in SUBSET Names
    BY DEF EmType, Message
  <1>6. lost \in BOOLEAN
    OBVIOUS
  <1> HIDE DEF fifo, log, belief, unsure, lost, wr, count, r
  <1>7. /\ r \in EmType
        /\ r.errorStatusBits = e.errorStatusBits
        /\ r.fifo = fifo /\ r.fifoWrPtr = wr /\ r.fifoCount = count
        /\ r.fifoOverflow = e.fifoOverflow /\ r.log = log
        /\ r.belief = belief /\ r.unsure = unsure /\ r.lost = lost
    BY <1>1, <1>2, <1>3, <1>4, <1>5, <1>6, Zenon DEF EmType
  <1> QED  BY <1>7 DEF Recorded, fifo, log, belief, unsure, lost, wr, count, r

\* The new message becomes the newest of the history, and the others move on
\* by one place.
LEMMA RecordHistory ==
    ASSUME NEW e \in EmType, History(e), NEW msg \in Message, NEW bit \in Names
    PROVE  History(record(e, msg, bit))
  <1> DEFINE x == [bit |-> msg.bit, code |-> msg.code]
             w == e.fifoWrPtr
             c == e.fifoCount
             n == counted(c)
             f == [e.fifo EXCEPT ![w] = msg]
             s == SubSeq(<<x>> \o e.log, 1, n)
             r == record(e, msg, bit)
  <1>1. /\ w \in Slots /\ c \in Slots /\ e.log \in Seq(Entry) /\ Len(e.log) = c
        /\ e.fifo \in [Slots -> Message] /\ x \in Entry
        /\ x.bit = msg.bit /\ x.code = msg.code
    BY DEF EmType, History, Message, Entry
  <1>2. n \in Slots /\ n # 0 /\ n \in Nat /\ n <= Len(e.log) + 1 /\ n <= c + 1
    BY <1>1, CountedSlots DEF Slots
  <1>3. n = IF Len(e.log) < fifoSize - 1 THEN Len(e.log) + 1 ELSE fifoSize - 1
    BY <1>1, CountedSlots
  <1>4. /\ r.fifo = f /\ r.fifoWrPtr = ring_next(w) /\ r.fifoCount = n /\ r.log = s
    <2>1. s = pushed(e.log, x)
      BY <1>3 DEF pushed
    <2> DEFINE t == pushed(e.log, x)
    <2>2. /\ r.fifo = f /\ r.fifoWrPtr = ring_next(w) /\ r.fifoCount = counted(c)
          /\ r.log = t
      <3>1. Recorded(r, e, msg, bit)
        BY RecordFields
      <3> QED  BY <3>1 DEF Recorded
    <2> HIDE DEF t, s, r, f
    <2> QED  BY <2>1, <2>2 DEF t
  <1> HIDE DEF n, x, r
  <1>5. /\ Len(s) = n /\ s[1] = x
        /\ \A k \in 1..n : k # 1 => s[k] = e.log[k - 1]
    BY <1>1, <1>2, LogPush
  <1> HIDE DEF s
  <1>6. ASSUME NEW k \in 1..n
        PROVE  f[place(ring_next(w), k)].bit = s[k].bit
               /\ f[place(ring_next(w), k)].code = s[k].code
    <2>1. k \in Slots /\ k # 0
      BY <1>2, fifoSizeAssumption DEF Slots
    <2>2. CASE k = 1
      <3>1. place(ring_next(w), k) = w
        BY <1>1, <2>1, <2>2, Places
      <3>2. f[w] = msg
        BY <1>1
      <3> QED  BY <1>1, <1>5, <2>2, <3>1, <3>2
    <2>3. CASE k # 1
      <3>1. k - 1 \in Slots /\ k - 1 # 0 /\ place(ring_next(w), k) = place(w, k - 1)
        BY <1>1, <2>1, <2>3, Places
      <3>2. place(w, k - 1) \in Slots /\ place(w, k - 1) # w
        BY <1>1, <3>1, Places
      <3>3. f[place(w, k - 1)] = e.fifo[place(w, k - 1)]
        BY <1>1, <3>2
      <3>4. k - 1 \in 1..c
        BY <1>1, <1>2, <2>1, <2>3 DEF Slots
      <3>5. /\ e.fifo[place(w, k - 1)].bit = e.log[k - 1].bit
            /\ e.fifo[place(w, k - 1)].code = e.log[k - 1].code
        BY <3>4 DEF History
      <3> QED  BY <1>5, <2>3, <3>1, <3>3, <3>5
    <2> QED  BY <2>2, <2>3
  <1> HIDE DEF f, w
  <1> QED  BY <1>4, <1>5, <1>6 DEF History, r
-----------------------------------------------------------------------------
(* CO_error *)

\* r is e after a change that found the queue full.
Dropped(r, e, set, b) ==
    /\ r \in EmType /\ History(r)
    /\ r.errorStatusBits = with_bit(e.errorStatusBits, set, b)
    /\ r.fifoOverflow = 1
    /\ r.belief = e.belief /\ r.unsure = e.unsure \cup {b} /\ r.lost = TRUE

\* r is e after a change that was announced, as bit with code.
Announced(r, e, set, b, bit, code) ==
    /\ r \in EmType /\ History(r)
    /\ r.errorStatusBits = with_bit(e.errorStatusBits, set, b)
    /\ r.fifoOverflow = e.fifoOverflow
    /\ r.belief = IF code = "NO_ERROR" THEN e.belief \ {bit} ELSE e.belief \cup {bit}
    /\ r.unsure = e.unsure \ {b}
    /\ r.lost = (e.lost /\ ~(bit = FULL /\ code = "NO_ERROR"))

\* History depends on four fields.
LEMMA HistoryFields ==
    ASSUME NEW e \in EmType, NEW m \in EmType, History(e),
           m.fifo = e.fifo, m.fifoWrPtr = e.fifoWrPtr,
           m.fifoCount = e.fifoCount, m.log = e.log
    PROVE  History(m)
  BY DEF History

\* The three ways that a report or a reset of a condition takes.
LEMMA ErrorCases ==
    ASSUME NEW e \in EmType, History(e), NEW set \in BOOLEAN,
           NEW bit \in Names, NEW code \in Names
    PROVE  LET r == CO_error(e, set, bit, code)
               b == status_bit(bit)
               same == set = (b \in e.errorStatusBits)
               full == ring_next(e.fifoWrPtr) = e.fifoPpPtr
           IN  \/ same /\ r = e
               \/ ~same /\ full /\ Dropped(r, e, set, b)
               \/ ~same /\ ~full /\ Announced(r, e, set, b, bit, error_code(set, bit, code))
  <1> DEFINE b    == status_bit(bit)
             c    == error_code(set, bit, code)
             bits == with_bit(e.errorStatusBits, set, b)
             m    == marked(e, set, b)
             msg  == [bit |-> bit, code |-> c, reg |-> {}]
             r    == CO_error(e, set, bit, code)
             same == set = (b \in e.errorStatusBits)
             full == ring_next(e.fifoWrPtr) = e.fifoPpPtr
  <1>1. b \in Names /\ c \in Names /\ bits \in SUBSET Names
    <2>1. b \in Names /\ c \in Names
      <3>1. {"WRONG_ERROR_REPORT", "NO_ERROR", "SOFTWARE_INTERNAL"} \subseteq Names
        BY DEF Names, StatusBits, GenericBits, Codes
      <3> QED  BY <3>1 DEF status_bit, error_code
    <2>2. e.errorStatusBits \in SUBSET Names
      BY DEF EmType
    <2> HIDE DEF b, c
    <2> QED  BY <2>1, <2>2 DEF with_bit
  <1>2. r = IF same THEN e ELSE IF full THEN drop(m, b) ELSE record(m, msg, b)
    BY DEF CO_error
  <1> HIDE DEF b, c, bits, r
  <1>3. /\ m \in EmType /\ m.errorStatusBits = bits
        /\ m.fifo = e.fifo /\ m.fifoWrPtr = e.fifoWrPtr /\ m.fifoPpPtr = e.fifoPpPtr
        /\ m.fifoCount = e.fifoCount /\ m.log = e.log /\ m.fifoOverflow = e.fifoOverflow
        /\ m.belief = e.belief /\ m.unsure = e.unsure /\ m.lost = e.lost
    <2>1. m = [e EXCEPT !.errorStatusBits = bits]
      BY DEF marked, bits
    <2> HIDE DEF m
    <2> QED  BY <1>1, <2>1, Zenon DEF EmType
  <1>8. msg \in Message
    BY <1>1 DEF Message
  <1> HIDE DEF m, msg
  <1>4. History(m)
    BY <1>3, HistoryFields
  <1>5. CASE ~same /\ full
    <2> DEFINE unsure == m.unsure \cup {b}
    <2>1. r = [m EXCEPT !.fifoOverflow = 1, !.unsure = unsure, !.lost = TRUE]
      BY <1>2, <1>3, <1>5 DEF drop, EmType
    <2>2. unsure \in SUBSET Names /\ 1 \in 0..2 /\ TRUE \in BOOLEAN
      BY <1>1, <1>3 DEF EmType
    <2> HIDE DEF unsure
    <2>3. /\ r \in EmType /\ r.errorStatusBits = m.errorStatusBits
          /\ r.fifo = m.fifo /\ r.fifoWrPtr = m.fifoWrPtr
          /\ r.fifoCount = m.fifoCount /\ r.log = m.log /\ r.fifoOverflow = 1
          /\ r.belief = m.belief /\ r.unsure = unsure /\ r.lost = TRUE
      BY <1>3, <2>1, <2>2, Zenon DEF EmType
    <2>4. History(r)
      BY <1>3, <1>4, <2>3, HistoryFields
    <2>5. Dropped(r, e, set, b)
      BY <1>3, <2>3, <2>4 DEF Dropped, unsure, bits
    <2> QED  BY <1>5, <2>5 DEF b, r
  <1>6. CASE ~same /\ ~full
    <2>1. r = record(m, msg, b)
      BY <1>2, <1>3, <1>6
    <2>2. Recorded(r, m, msg, b) /\ History(r)
      BY <1>1, <1>3, <1>4, <1>8, <2>1, RecordFields, RecordHistory
    <2>3. msg.bit = bit /\ msg.code = c
      BY DEF msg
    <2>4. Announced(r, e, set, b, bit, c)
      <3>1. r.lost = (e.lost /\ ~(bit = FULL /\ c = "NO_ERROR"))
        BY <1>3, <2>2, <2>3, Zenon DEF Recorded
      <3> QED  BY <1>3, <2>2, <2>3, <3>1 DEF Announced, Recorded, bits
    <2> QED  BY <1>6, <2>4 DEF b, c, r
  <1>7. CASE same
    BY <1>2, <1>7 DEF b, r
  <1> QED  BY <1>5, <1>6, <1>7

\* Whoever reports a condition other than the stack's own BUFFER_FULL, with
\* a code that says that there is an error, keeps the object sound.
LEMMA ErrorOK ==
    ASSUME NEW e, EmOK(e), NEW set \in BOOLEAN, NEW bit \in Names, NEW code \in Names,
           bit # FULL, set /\ bit # "CAN_BUS_WARNING" => code # "NO_ERROR"
    PROVE  /\ EmOK(CO_error(e, set, bit, code))
           /\ set \/ bit # PEER => Keeps(CO_error(e, set, bit, code), e)
           /\ set /\ bit = PEER => PEER \in CO_error(e, set, bit, code).errorStatusBits
  <1> DEFINE b == status_bit(bit)
             c == error_code(set, bit, code)
             r == CO_error(e, set, bit, code)
  <1>1. e \in EmType /\ History(e) /\ Tells(e)
    BY DEF EmOK
  <1>2. /\ b # FULL
        /\ bit \in StatusBits => b = bit
        /\ bit \notin StatusBits => b \notin Tracked /\ bit \notin Tracked
    <2>1. CASE bit \in StatusBits
      BY <2>1 DEF status_bit
    <2>2. CASE bit \notin StatusBits
      <3>1. b = "WRONG_ERROR_REPORT"
        BY <2>2 DEF status_bit
      <3> HIDE DEF b
      <3> QED  BY <2>2, <3>1 DEF Tracked, FULL
    <2> QED  BY <2>1, <2>2
  <1>3. /\ ~set => c = "NO_ERROR"
        /\ set /\ bit \in Tracked => c # "NO_ERROR"
    BY DEF error_code, Tracked
  <1>4. \/ r = e \/ Dropped(r, e, set, b) \/ Announced(r, e, set, b, bit, c)
    BY <1>1, ErrorCases
  <1>8. /\ set \/ bit # PEER => Keeps(r, e)
        /\ set /\ bit = PEER => PEER \in r.errorStatusBits
    <2>1. PEER # "WRONG_ERROR_REPORT" /\ status_bit(PEER) = PEER /\ (b = PEER => bit = PEER)
      BY DEF PEER, status_bit, StatusBits, CommunicationBits
    <2>2. \/ (set = (b \in e.errorStatusBits)) /\ r = e
          \/ r.errorStatusBits = with_bit(e.errorStatusBits, set, b)
      <3>1. \/ (set = (b \in e.errorStatusBits)) /\ r = e
            \/ Dropped(r, e, set, b) \/ Announced(r, e, set, b, bit, c)
        BY <1>1, ErrorCases
      <3> HIDE DEF r, b, c
      <3> QED  BY <3>1 DEF Dropped, Announced
    <2>3. CASE (set = (b \in e.errorStatusBits)) /\ r = e
      <3>1. set => b \in r.errorStatusBits
        BY <2>3
      <3>2. Keeps(r, e)
        BY <2>3 DEF Keeps
      <3> HIDE DEF r
      <3> QED  BY <2>1, <3>1, <3>2
    <2>4. CASE r.errorStatusBits = with_bit(e.errorStatusBits, set, b)
      <3> HIDE DEF r
      <3> QED  BY <2>1, <2>4 DEF Keeps, with_bit
    <2> QED  BY <2>2, <2>3, <2>4
  <1> HIDE DEF b, c, r
  <1> SUFFICES EmOK(r)
    BY <1>8 DEF r
  <1>5. CASE r = e
    BY <1>5
  <1>6. CASE Dropped(r, e, set, b)
    <2>1. r \in EmType /\ History(r)
      BY <1>6 DEF Dropped
    <2>2. Tells(r)
      <3>1. \A x \in Tracked \ r.unsure : x \in r.belief <=> x \in r.errorStatusBits
        BY <1>1, <1>6 DEF Dropped, Tells, with_bit
      <3> QED  BY <1>1, <1>2, <1>6, <3>1 DEF Dropped, Tells
    <2> QED  BY <2>1, <2>2 DEF EmOK
  <1>7. CASE Announced(r, e, set, b, bit, c)
    <2>1. r \in EmType /\ History(r)
      BY <1>7 DEF Announced
    <2>2. ASSUME NEW x \in Tracked \ r.unsure
          PROVE  x \in r.belief <=> x \in r.errorStatusBits
      <3>1. CASE x # b
        <4>1. x # bit
          BY <1>2, <3>1 DEF Tracked
        <4>2. x \notin e.unsure
          BY <1>7, <2>2, <3>1 DEF Announced
        <4>3. x \in e.belief <=> x \in e.errorStatusBits
          BY <1>1, <4>2 DEF Tells
        <4> QED  BY <1>7, <3>1, <4>1, <4>3 DEF Announced, with_bit
      <3>2. CASE x = b
        <4>1. bit = b /\ bit \in Tracked
          BY <1>2, <3>2
        <4> QED  BY <1>3, <1>7, <3>2, <4>1 DEF Announced, with_bit
      <3> QED  BY <3>1, <3>2
    <2>3. FULL \in e.errorStatusBits => FULL \in r.errorStatusBits
      BY <1>2, <1>7 DEF Announced, with_bit
    <2>4. r.lost => e.lost
      BY <1>7, Zenon DEF Announced
    <2>5. Tells(r)
      BY <1>1, <1>7, <2>2, <2>3, <2>4 DEF Announced, Tells
    <2> QED  BY <2>1, <2>5 DEF EmOK
  <1> QED  BY <1>4, <1>5, <1>6, <1>7
-----------------------------------------------------------------------------
(* CO_EM_process *)

\* What the rest of the object says does not matter.
LEMMA SameOK ==
    ASSUME NEW e, EmOK(e), NEW m \in EmType,
           m.fifo = e.fifo, m.fifoWrPtr = e.fifoWrPtr, m.fifoCount = e.fifoCount,
           m.log = e.log, m.errorStatusBits = e.errorStatusBits, m.unsure = e.unsure,
           m.belief = e.belief, m.fifoOverflow = e.fifoOverflow, m.lost = e.lost
    PROVE  EmOK(m)
  BY HistoryFields DEF EmOK, Tells

\* The entries of CANerrors: none is about BUFFER_FULL, and the only one
\* with a code that says that an error is over is CAN_BUS_WARNING.
LEMMA CANerrorsOK ==
    /\ Len(CANerrors) = 7
    /\ \A i \in 1..7 : /\ CANerrors[i].bit \in Names /\ CANerrors[i].code \in Names
                       /\ CANerrors[i].bit # FULL /\ CANerrors[i].bit # PEER
                       /\ CANerrors[i].bit # "CAN_BUS_WARNING" => CANerrors[i].code # "NO_ERROR"
  <1>1. Len(CANerrors) = 7
    BY DEF CANerrors
  <1>2. ASSUME NEW i \in 1..7
        PROVE  /\ CANerrors[i].bit \in Names /\ CANerrors[i].code \in Names
               /\ CANerrors[i].bit # FULL /\ CANerrors[i].bit # PEER
               /\ CANerrors[i].bit # "CAN_BUS_WARNING" => CANerrors[i].code # "NO_ERROR"
    <2>1. {"NO_ERROR", "CAN_PASSIVE", "BUS_OFF_RECOVERED", "CAN_OVERRUN", "COMMUNICATION"} \subseteq Names
      BY DEF Names, Codes
    <2>2. {"CAN_BUS_WARNING", "CAN_TX_BUS_PASSIVE", "CAN_TX_BUS_OFF", "CAN_TX_OVERFLOW",
           "TPDO_OUTSIDE_WINDOW", "CAN_RX_BUS_PASSIVE", "CAN_RXB_OVERFLOW"} \subseteq Names
      BY DEF Names, StatusBits, CommunicationBits, InfoBits
    <2>3. i = 1 \/ i = 2 \/ i = 3 \/ i = 4 \/ i = 5 \/ i = 6 \/ i = 7
      OBVIOUS
    <2> QED  BY <2>1, <2>2, <2>3 DEF CANerrors, FULL, PEER
  <1> QED  BY <1>1, <1>2

\* One flag of the driver's error status.
LEMMA CANerrorOK ==
    ASSUME NEW e, EmOK(e), NEW i \in 1..7, NEW toggled, NEW status
    PROVE  EmOK(can_error(e, i, toggled, status)) /\ Keeps(can_error(e, i, toggled, status), e)
  <1> DEFINE c   == CANerrors[i]
             set == c.flags \cap status # {}
  <1>1. can_error(e, i, toggled, status) =
          IF c.flags \cap toggled = {} THEN e ELSE CO_error(e, set, c.bit, c.code)
    BY DEF can_error
  <1>2. set \in BOOLEAN
    OBVIOUS
  <1>3. /\ c.bit \in Names /\ c.code \in Names /\ c.bit # FULL /\ c.bit # PEER
        /\ c.bit # "CAN_BUS_WARNING" => c.code # "NO_ERROR"
    BY CANerrorsOK
  <1> HIDE DEF c, set
  <1>4. EmOK(CO_error(e, set, c.bit, c.code)) /\ Keeps(CO_error(e, set, c.bit, c.code), e)
    BY <1>2, <1>3, ErrorOK
  <1> QED  BY <1>1, <1>4 DEF Keeps

\* The flags one after the other.
LEMMA CANerrorsLoop ==
    ASSUME NEW e, EmOK(e), NEW status \in SUBSET STRING
    PROVE  EmOK(can_errors(e, status)) /\ Keeps(can_errors(e, status), e)
  <1> DEFINE start    == [e EXCEPT !.CANerrorStatusOld = status]
             toggled  == (status \ e.CANerrorStatusOld) \cup (e.CANerrorStatusOld \ status)
             Sound    == {x \in EmType : EmOK(x) /\ Keeps(x, e)}
             step     == [i \in 1..7 |-> [x \in Sound |-> can_error(x, i, toggled, status)]]
             pass(h)  == [i \in 0..7 |-> IF i = 0 THEN start ELSE can_error(h[i - 1], i, toggled, status)]
             run      == CHOOSE h : h = pass(h)
  <1>1. can_errors(e, status) = run[7]
    BY CANerrorsOK DEF can_errors
  <1>2. start \in Sound
    <2>1. /\ start \in EmType
          /\ start.fifo = e.fifo /\ start.fifoWrPtr = e.fifoWrPtr
          /\ start.fifoCount = e.fifoCount /\ start.log = e.log
          /\ start.errorStatusBits = e.errorStatusBits /\ start.unsure = e.unsure
          /\ start.belief = e.belief /\ start.fifoOverflow = e.fifoOverflow /\ start.lost = e.lost
      <3>1. status \in SUBSET Names /\ e \in EmType
        BY DEF Names, EmOK
      <3> QED  BY <3>1, Zenon DEF EmType
    <2> HIDE DEF start
    <2> QED  BY <2>1, SameOK DEF Keeps
  <1> HIDE DEF start, toggled
  <1>3. \A x, y : EmOK(x) /\ Keeps(x, y) /\ y \in Sound => x \in Sound
    BY DEF EmOK, Keeps
  <1>4. \A x \in Sound, i \in 1..7 : can_error(x, i, toggled, status) \in Sound
    BY <1>3, CANerrorOK
  <1> HIDE DEF Sound
  <1>5. step \in [1..7 -> [Sound -> Sound]]
    BY <1>4
  <1>6. PICK g \in [0..7 -> Sound] : IsLoop(g, 7, start, step)
    <2> HIDE DEF step
    <2> QED  BY <1>2, <1>5, LoopExists, 7 \in Nat
  <1>7. g = pass(g)
    <2>1. ASSUME NEW i \in 1..7
          PROVE  g[i] = can_error(g[i - 1], i, toggled, status)
      <3>1. g[i - 1] \in Sound
        OBVIOUS
      <3> QED  BY <1>6, <3>1 DEF IsLoop
    <2> QED  BY <1>6, <2>1 DEF IsLoop
  <1>8. run = pass(run)
    <2> HIDE DEF pass
    <2> QED  BY <1>7, Zenon
  <1> HIDE DEF run
  <1>9. run[0] \in Sound /\ \A i \in 1..7 : run[i] = can_error(run[i - 1], i, toggled, status)
    BY <1>2, <1>8
  <1>10. \A i \in 0..7 : run[i] \in Sound
    BY <1>4, <1>9, LoopInvariant, 7 \in Nat
  <1> QED  BY <1>1, <1>10 DEF Sound
\* The overflow is announced when there is room for it, and so is its end.
LEMMA OverflowOK ==
    ASSUME NEW e, EmOK(e), ring_next(e.fifoWrPtr) # e.fifoPpPtr
    PROVE  EmOK(overflow_step(e)) /\ Keeps(overflow_step(e), e)
  <1> DEFINE m(v) == [e EXCEPT !.fifoOverflow = v]
  <1>1. e \in EmType /\ History(e) /\ Tells(e)
    BY DEF EmOK
  <1>8. PEER # FULL
    BY DEF PEER, FULL
  <1>2. status_bit(FULL) = FULL /\ FULL \in Tracked /\ FULL \in Names /\ "GENERIC" \in Names
        /\ "NO_ERROR" \in Names
    BY DEF status_bit, Tracked, FULL, StatusBits, InfoBits, Names, Codes
  <1>3. /\ error_code(TRUE, FULL, "GENERIC") = "GENERIC"
        /\ error_code(FALSE, FULL, "NO_ERROR") = "NO_ERROR"
    BY DEF error_code, FULL, StatusBits, InfoBits
  <1>4. ASSUME NEW v \in 0..2
        PROVE  /\ m(v) \in EmType /\ History(m(v)) /\ m(v).fifoOverflow = v
               /\ m(v).errorStatusBits = e.errorStatusBits /\ m(v).unsure = e.unsure
               /\ m(v).belief = e.belief /\ m(v).lost = e.lost
               /\ ring_next(m(v).fifoWrPtr) # m(v).fifoPpPtr
    <2>1. /\ m(v) \in EmType /\ m(v).fifoOverflow = v
          /\ m(v).fifo = e.fifo /\ m(v).fifoWrPtr = e.fifoWrPtr /\ m(v).fifoPpPtr = e.fifoPpPtr
          /\ m(v).fifoCount = e.fifoCount /\ m(v).log = e.log
          /\ m(v).errorStatusBits = e.errorStatusBits /\ m(v).unsure = e.unsure
          /\ m(v).belief = e.belief /\ m(v).lost = e.lost
      BY <1>1, <1>4, Zenon DEF EmType
    <2> HIDE DEF m
    <2> QED  BY <1>1, <2>1, HistoryFields
  <1>5. CASE e.fifoOverflow = 1
    <2> DEFINE s == m(2)
               r == CO_error(s, TRUE, FULL, "GENERIC")
    <2>1. overflow_step(e) = r
      BY <1>5 DEF overflow_step, FULL
    <2>2. /\ s \in EmType /\ History(s) /\ s.fifoOverflow = 2
          /\ s.errorStatusBits = e.errorStatusBits /\ s.unsure = e.unsure
          /\ s.belief = e.belief /\ s.lost = e.lost
          /\ ring_next(s.fifoWrPtr) # s.fifoPpPtr
      BY <1>4, 2 \in 0..2
    <2> HIDE DEF s
    <2>3. \/ (TRUE = (FULL \in s.errorStatusBits)) /\ r = s
          \/ Announced(r, s, TRUE, FULL, FULL, "GENERIC")
      BY <1>2, <1>3, <2>2, ErrorCases
    <2> HIDE DEF r
    <2>4. CASE (TRUE = (FULL \in s.errorStatusBits)) /\ r = s
      <3>1. Tells(r)
        BY <1>1, <2>2, <2>4 DEF Tells
      <3> QED  BY <2>1, <2>2, <2>4, <3>1 DEF EmOK, Keeps
    <2>5. CASE Announced(r, s, TRUE, FULL, FULL, "GENERIC")
      <3>1. /\ r.errorStatusBits = e.errorStatusBits \cup {FULL} /\ r.belief = e.belief \cup {FULL}
            /\ r.unsure = e.unsure \ {FULL} /\ r.fifoOverflow = 2
        BY <2>2, <2>5 DEF Announced, with_bit
      <3>2. Tells(r)
        BY <1>1, <3>1 DEF Tells
      <3> QED  BY <1>8, <2>1, <2>5, <3>1, <3>2 DEF EmOK, Announced, Keeps
    <2> QED  BY <2>3, <2>4, <2>5
  <1>6. CASE e.fifoOverflow = 2 /\ e.fifoPpPtr = e.fifoWrPtr
    <2> DEFINE s == m(0)
               r == CO_error(s, FALSE, FULL, "NO_ERROR")
    <2>1. overflow_step(e) = r
      BY <1>6 DEF overflow_step, FULL
    <2>2. /\ s \in EmType /\ History(s) /\ s.fifoOverflow = 0
          /\ s.errorStatusBits = e.errorStatusBits /\ s.unsure = e.unsure
          /\ s.belief = e.belief /\ s.lost = e.lost
          /\ ring_next(s.fifoWrPtr) # s.fifoPpPtr
      BY <1>4, 0 \in 0..2
    <2> HIDE DEF s
    <2>3. FULL \in s.errorStatusBits
      BY <1>1, <1>6, <2>2 DEF Tells
    <2>4. Announced(r, s, FALSE, FULL, FULL, "NO_ERROR")
      BY <1>2, <1>3, <2>2, <2>3, ErrorCases
    <2> HIDE DEF r
    <2>5. /\ r.errorStatusBits = e.errorStatusBits \ {FULL} /\ r.belief = e.belief \ {FULL}
          /\ r.unsure = e.unsure \ {FULL} /\ r.fifoOverflow = 0
      BY <2>2, <2>4 DEF Announced, with_bit
    <2>6. ~r.lost
      BY <2>4, Zenon DEF Announced
    <2>7. Tells(r)
      BY <1>1, <2>5, <2>6 DEF Tells
    <2> QED  BY <1>8, <2>1, <2>4, <2>5, <2>7 DEF EmOK, Announced, Keeps
  <1>7. CASE e.fifoOverflow # 1 /\ ~(e.fifoOverflow = 2 /\ e.fifoPpPtr = e.fifoWrPtr)
    BY <1>7 DEF overflow_step, Keeps
  <1> QED  BY <1>5, <1>6, <1>7

\* The oldest message only gets its error register, and there is room then.
LEMMA SendOK ==
    ASSUME NEW e, EmOK(e), NEW busy \in BOOLEAN
    PROVE  EmOK(send_oldest(e, busy)) /\ Keeps(send_oldest(e, busy), e)
  <1> DEFINE ready == /\ ~e.CANtxBuff.bufferFull
                      /\ e.fifoPpPtr # e.fifoWrPtr
                      /\ e.inhibitEmTimer >= e.inhibitEmTime
             p    == e.fifoPpPtr
             fifo == [e.fifo EXCEPT ![p] = [e.fifo[p] EXCEPT !.reg = e.errorRegister]]
             buff == [e.CANtxBuff EXCEPT !.bufferFull = busy]
             next == ring_next(p)
             m    == [e EXCEPT !.inhibitEmTimer = 0, !.fifo = fifo, !.CANtxBuff = buff,
                               !.fifoPpPtr = next]
  <1>1. e \in EmType /\ History(e) /\ Tells(e)
    BY DEF EmOK
  <1>2. send_oldest(e, busy) = IF ready THEN overflow_step(m) ELSE e
    BY <1>1 DEF send_oldest, EmType
  <1>3. p \in Slots /\ e.fifoWrPtr \in Slots /\ e.fifo \in [Slots -> Message]
        /\ e.errorRegister \in SUBSET Names /\ e.CANtxBuff \in Buffer
    BY <1>1 DEF EmType
  <1>4. /\ [e.fifo[p] EXCEPT !.reg = e.errorRegister] \in Message
        /\ [e.fifo[p] EXCEPT !.reg = e.errorRegister].bit = e.fifo[p].bit
        /\ [e.fifo[p] EXCEPT !.reg = e.errorRegister].code = e.fifo[p].code
    <2>1. e.fifo[p] \in Message
      BY <1>3
    <2> QED  BY <1>3, <2>1 DEF Message
  <1>5. /\ fifo \in [Slots -> Message]
        /\ \A k \in Slots : fifo[k].bit = e.fifo[k].bit /\ fifo[k].code = e.fifo[k].code
    BY <1>3, <1>4
  <1>6. buff \in Buffer /\ next \in Slots /\ 0 \in Nat
    BY <1>3, RingNext DEF Buffer
  <1> HIDE DEF fifo, buff, next
  <1>7. /\ m \in EmType
        /\ m.fifo = fifo /\ m.fifoWrPtr = e.fifoWrPtr /\ m.fifoPpPtr = next
        /\ m.fifoCount = e.fifoCount /\ m.log = e.log
        /\ m.errorStatusBits = e.errorStatusBits /\ m.unsure = e.unsure
        /\ m.belief = e.belief /\ m.fifoOverflow = e.fifoOverflow /\ m.lost = e.lost
    BY <1>1, <1>5, <1>6, Zenon DEF EmType
  <1> HIDE DEF m
  <1>8. History(m)
    <2>1. \A k \in 1..e.fifoCount : place(e.fifoWrPtr, k) \in Slots
      <3>1. e.fifoCount \in Slots
        BY <1>1 DEF EmType
      <3>2. \A k \in 1..e.fifoCount : k \in Slots /\ k # 0
        BY <3>1, fifoSizeAssumption DEF Slots
      <3> QED  BY <1>3, <3>2, Places
    <2> QED  BY <1>1, <1>5, <1>7, <2>1 DEF History
  <1>9. EmOK(m)
    BY <1>1, <1>7, <1>8 DEF EmOK, Tells
  <1>10. ready => ring_next(m.fifoWrPtr) # m.fifoPpPtr
    BY <1>3, <1>7, RingNext DEF next
  <1> HIDE DEF ready
  <1>11. ready => EmOK(overflow_step(m)) /\ Keeps(overflow_step(m), m)
    BY <1>9, <1>10, OverflowOK
  <1> QED  BY <1>2, <1>7, <1>11 DEF Keeps

\* A call of CO_EM_process keeps the object sound.
LEMMA EmProcessOK ==
    ASSUME NEW e, EmOK(e), NEW status \in SUBSET STRING, NEW on \in BOOLEAN,
           NEW dt \in Nat, NEW busy \in BOOLEAN
    PROVE  /\ EmOK(CO_EM_process(e, status, on, dt, busy))
           /\ Keeps(CO_EM_process(e, status, on, dt, busy), e)
  <1> DEFINE c   == can_errors(e, status)
             reg == ErrorRegister(c.errorStatusBits)
             d   == [c EXCEPT !.errorRegister = reg]
             t   == IF d.inhibitEmTimer < d.inhibitEmTime THEN d.inhibitEmTimer + dt
                    ELSE d.inhibitEmTimer
             f   == [d EXCEPT !.inhibitEmTimer = t]
  <1>1. CO_EM_process(e, status, on, dt, busy) = IF on THEN send_oldest(inhibited(d, dt), busy) ELSE d
    BY DEF CO_EM_process
  <1>2. EmOK(c) /\ c \in EmType /\ Keeps(c, e)
    BY CANerrorsLoop DEF EmOK
  <1> HIDE DEF c
  <1>3. reg \in SUBSET Names
    BY DEF ErrorRegister, Names, Codes
  <1> HIDE DEF reg
  <1>4. EmOK(d) /\ d \in EmType /\ d.errorStatusBits = c.errorStatusBits
    <2>1. /\ d \in EmType
          /\ d.fifo = c.fifo /\ d.fifoWrPtr = c.fifoWrPtr /\ d.fifoCount = c.fifoCount
          /\ d.log = c.log /\ d.errorStatusBits = c.errorStatusBits /\ d.unsure = c.unsure
          /\ d.belief = c.belief /\ d.fifoOverflow = c.fifoOverflow /\ d.lost = c.lost
      BY <1>2, <1>3, Zenon DEF EmType
    <2> HIDE DEF d
    <2> QED  BY <1>2, <2>1, SameOK
  <1> HIDE DEF d
  <1>5. inhibited(d, dt) = f
    BY <1>4 DEF inhibited, EmType
  <1>6. t \in Nat
    BY <1>4 DEF EmType
  <1> HIDE DEF t
  <1>7. EmOK(f) /\ f.errorStatusBits = d.errorStatusBits
    <2>1. /\ f \in EmType
          /\ f.fifo = d.fifo /\ f.fifoWrPtr = d.fifoWrPtr /\ f.fifoCount = d.fifoCount
          /\ f.log = d.log /\ f.errorStatusBits = d.errorStatusBits /\ f.unsure = d.unsure
          /\ f.belief = d.belief /\ f.fifoOverflow = d.fifoOverflow /\ f.lost = d.lost
      BY <1>4, <1>6, Zenon DEF EmType
    <2> HIDE DEF f
    <2> QED  BY <1>4, <2>1, SameOK
  <1> HIDE DEF f
  <1>8. EmOK(send_oldest(f, busy)) /\ Keeps(send_oldest(f, busy), f)
    BY <1>7, SendOK
  <1> QED  BY <1>1, <1>2, <1>4, <1>5, <1>7, <1>8 DEF Keeps
-----------------------------------------------------------------------------
(* The object dictionary, and the start *)

\* A new object has nothing to tell.
LEMMA EmInitOK ==
    ASSUME NEW valid \in BOOLEAN, NEW id \in Names, NEW inhibit \in Nat
    PROVE  EmOK(CO_EM_init([valid |-> valid, id |-> id], inhibit))
  <1> DEFINE none == [bit |-> "none", code |-> "NO_ERROR", reg |-> {}]
             fifo == [i \in 0..(fifoSize - 1) |-> none]
             buff == [ident |-> IF id = "default" THEN "own" ELSE id, bufferFull |-> FALSE]
             e    == CO_EM_init([valid |-> valid, id |-> id], inhibit)
  <1>1. {"none", "NO_ERROR", "own"} \subseteq Names
    BY DEF Names, Codes
  <1>2. fifo \in [Slots -> Message]
    BY <1>1 DEF Slots, Message
  <1>3. buff \in Buffer
    BY <1>1 DEF Buffer
  <1>4. 0 \in Slots /\ 0 \in 0..2 /\ 0 \in Nat /\ FALSE \in BOOLEAN /\ {} \in SUBSET Names
        /\ <<>> \in Seq(Entry)
    BY fifoSizeAssumption DEF Slots
  <1> DEFINE r == [errorStatusBits |-> {}, errorRegister |-> {}, CANerrorStatusOld |-> {},
                   fifo |-> fifo, fifoWrPtr |-> 0, fifoPpPtr |-> 0, fifoOverflow |-> 0, fifoCount |-> 0,
                   producerEnabled |-> valid, producerCanId |-> id, CANtxBuff |-> buff,
                   inhibitEmTime |-> inhibit, inhibitEmTimer |-> 0,
                   log |-> <<>>, belief |-> {}, unsure |-> {}, lost |-> FALSE]
  <1>5. e = r
    BY DEF CO_EM_init
  <1> HIDE DEF fifo, buff, e
  <1>6. /\ r \in EmType
        /\ r.fifoCount = 0 /\ r.log = <<>> /\ r.errorStatusBits = {} /\ r.unsure = {}
        /\ r.belief = {} /\ r.fifoOverflow = 0 /\ r.lost = FALSE
    BY <1>2, <1>3, <1>4, Zenon DEF EmType
  <1> HIDE DEF r
  <1>7. History(r)
    BY <1>6, EmptySeq DEF History
  <1>8. Tells(r)
    BY <1>6 DEF Tells
  <1> QED  BY <1>5, <1>6, <1>7, <1>8 DEF EmOK, e

\* Clearing the history.
LEMMA Write1003OK ==
    ASSUME NEW e, EmOK(e)
    PROVE  EmOK(OD_write_1003(e))
  <1> DEFINE m == [e EXCEPT !.fifoCount = 0, !.log = <<>>]
  <1>1. 0 \in Slots /\ <<>> \in Seq(Entry) /\ e \in EmType /\ Tells(e)
    BY fifoSizeAssumption DEF Slots, EmOK
  <1>2. /\ m \in EmType /\ m.fifoCount = 0 /\ m.log = <<>>
        /\ m.errorStatusBits = e.errorStatusBits /\ m.unsure = e.unsure
        /\ m.belief = e.belief /\ m.fifoOverflow = e.fifoOverflow /\ m.lost = e.lost
    BY <1>1, Zenon DEF EmType
  <1>3. OD_write_1003(e) = m
    BY DEF OD_write_1003
  <1> HIDE DEF m
  <1>4. History(m)
    BY <1>2, EmptySeq DEF History
  <1> QED  BY <1>1, <1>2, <1>3, <1>4 DEF EmOK, Tells

\* A new inhibit time.
LEMMA Write1015OK ==
    ASSUME NEW e, EmOK(e), NEW t \in Nat
    PROVE  EmOK(OD_write_1015(e, t))
  <1> DEFINE m == [e EXCEPT !.inhibitEmTime = t, !.inhibitEmTimer = 0]
  <1>1. e \in EmType /\ 0 \in Nat
    BY DEF EmOK
  <1>2. /\ m \in EmType
        /\ m.fifo = e.fifo /\ m.fifoWrPtr = e.fifoWrPtr /\ m.fifoCount = e.fifoCount
        /\ m.log = e.log /\ m.errorStatusBits = e.errorStatusBits /\ m.unsure = e.unsure
        /\ m.belief = e.belief /\ m.fifoOverflow = e.fifoOverflow /\ m.lost = e.lost
    BY <1>1, Zenon DEF EmType
  <1>3. OD_write_1015(e, t) = m
    BY DEF OD_write_1015
  <1> HIDE DEF m
  <1> QED  BY <1>2, <1>3, SameOK

\* A new COB-ID.
LEMMA Write1014OK ==
    ASSUME NEW e, EmOK(e), NEW cobId \in [valid : BOOLEAN, id : STRING]
    PROVE  EmOK(OD_write_1014(e, cobId))
  <1> DEFINE on   == cobId.valid
             id   == IF cobId.id = "own" THEN "default" ELSE cobId.id
             buff == IF on THEN [ident |-> cobId.id, bufferFull |-> FALSE] ELSE e.CANtxBuff
             m    == [e EXCEPT !.producerEnabled = on, !.producerCanId = id, !.CANtxBuff = buff]
  <1>1. e \in EmType /\ cobId.valid \in BOOLEAN /\ cobId.id \in Names /\ "default" \in Names
    BY DEF EmOK, Names
  <1>2. on \in BOOLEAN /\ id \in Names
    BY <1>1
  <1>3. buff \in Buffer
    BY <1>1 DEF Buffer, EmType
  <1>4. OD_write_1014(e, cobId) = e \/ OD_write_1014(e, cobId) = m
    BY <1>1 DEF OD_write_1014, EmType
  <1> HIDE DEF on, id, buff
  <1>5. /\ m \in EmType
        /\ m.fifo = e.fifo /\ m.fifoWrPtr = e.fifoWrPtr /\ m.fifoCount = e.fifoCount
        /\ m.log = e.log /\ m.errorStatusBits = e.errorStatusBits /\ m.unsure = e.unsure
        /\ m.belief = e.belief /\ m.fifoOverflow = e.fifoOverflow /\ m.lost = e.lost
    BY <1>1, <1>2, <1>3, Zenon DEF EmType
  <1> HIDE DEF m
  <1>6. EmOK(m)
    BY <1>5, SameOK
  <1> QED  BY <1>4, <1>6

\* The status bits written from outside, by who leaves BUFFER_FULL alone.
LEMMA WriteStatusOK ==
    ASSUME NEW e, EmOK(e), NEW bits \in SUBSET Names, FULL \in bits <=> FULL \in e.errorStatusBits
    PROVE  EmOK(OD_write_statusBits(e, bits))
  <1> DEFINE unsure == e.unsure \cup (bits \ e.errorStatusBits) \cup (e.errorStatusBits \ bits)
             m      == [e EXCEPT !.errorStatusBits = bits, !.unsure = unsure]
  <1>1. e \in EmType /\ Tells(e) /\ History(e)
    BY DEF EmOK
  <1>2. OD_write_statusBits(e, bits) = m
    BY <1>1 DEF OD_write_statusBits, EmType
  <1>3. unsure \in SUBSET Names
    BY <1>1 DEF EmType
  <1> HIDE DEF unsure
  <1>4. /\ m \in EmType
        /\ m.fifo = e.fifo /\ m.fifoWrPtr = e.fifoWrPtr /\ m.fifoCount = e.fifoCount
        /\ m.log = e.log /\ m.errorStatusBits = bits /\ m.unsure = unsure
        /\ m.belief = e.belief /\ m.fifoOverflow = e.fifoOverflow /\ m.lost = e.lost
    BY <1>1, <1>3, Zenon DEF EmType
  <1> HIDE DEF m
  <1>5. History(m)
    BY <1>1, <1>4, HistoryFields
  <1>6. \A b \in Tracked \ m.unsure : b \in m.belief <=> b \in m.errorStatusBits
    BY <1>1, <1>4 DEF Tells, unsure
  <1>7. Tells(m)
    BY <1>1, <1>4, <1>6 DEF Tells, unsure
  <1> QED  BY <1>2, <1>4, <1>5, <1>7 DEF EmOK

-----------------------------------------------------------------------------
(* What follows *)

\* The history is what OD_read_1003 gives.
LEMMA HistoryRead ==
    ASSUME NEW e, EmOK(e), NEW k \in 1..fifoSize
    PROVE  IF k > Len(e.log) THEN OD_read_1003(e, k).bit = "NO_DATA"
           ELSE OD_read_1003(e, k).bit = e.log[k].bit /\ OD_read_1003(e, k).code = e.log[k].code
  <1>1. e \in EmType /\ History(e) /\ e.fifoCount \in Nat /\ e.fifoWrPtr \in Int /\ k \in Nat
    BY fifoSizeAssumption DEF EmOK, EmType, Slots
  <1>2. CASE k > e.fifoCount
    BY <1>1, <1>2 DEF OD_read_1003, History
  <1>3. CASE ~(k > e.fifoCount)
    <2>1. OD_read_1003(e, k) = e.fifo[place(e.fifoWrPtr, k)]
      BY <1>3 DEF OD_read_1003, place
    <2>2. k \in 1..e.fifoCount
      BY <1>1, <1>3
    <2> QED  BY <1>1, <1>3, <2>1, <2>2 DEF History
  <1> QED  BY <1>2, <1>3

-----------------------------------------------------------------------------
(* The heartbeat producer *)

NmtType == [operatingState : NmtStates, operatingStatePrev : NmtStates,
            internalCommand : NmtCommands \cup {"NO_COMMAND"},
            NMTcontrol : {Here.control},
            HBproducerTime : Nat, HBproducerTimer : Nat]

\* The heartbeats depend on no other part of the node.
beats == <<scenario, nmt, beatAge, told, changed, rewritten>>

\* The timer counts down from the producer time while the age counts up, and
\* a state that differs from the one before it has just been entered.
BeatInv ==
    /\ scenario \in DOMAIN Scenarios
    /\ nmt \in NmtType /\ beatAge \in Nat
    /\ changed \in BOOLEAN /\ rewritten \in BOOLEAN
    /\ nmt.HBproducerTimer <= nmt.HBproducerTime
    /\ rewritten => nmt.HBproducerTimer = 0
    /\ nmt.HBproducerTime # 0 /\ ~rewritten /\ nmt.operatingState # "INITIALIZING" =>
          /\ beatAge + nmt.HBproducerTimer <= nmt.HBproducerTime
          /\ beatAge < nmt.HBproducerTime
          /\ IF nmt.operatingState = nmt.operatingStatePrev
             THEN told = nmt.operatingState
                  \/ (told = "INITIALIZING" /\ nmt.operatingState = booted)
             ELSE changed

\* What is known of a scenario.
LEMMA HereTypes ==
    ASSUME scenario \in DOMAIN Scenarios
    PROVE  /\ Here.HBtimes \subseteq Nat /\ Here.HBtimes # {} /\ Here.first \in Nat
           /\ Here.inhibits \subseteq Nat /\ Here.inhibits # {}
           /\ Here.cobIds \subseteq [valid : BOOLEAN, id : STRING]
           /\ Here.errors \subseteq STRING \ {"EMERGENCY_BUFFER_FULL", "HEARTBEAT_CONSUMER"}
           /\ Here.statusBits \subseteq SUBSET (STRING \ {"EMERGENCY_BUFFER_FULL"})
           /\ Here.flags \subseteq SUBSET STRING /\ Here.commands \subseteq NmtCommands
           /\ Here.entries \in Seq([nodeId : Nat, time : 0..MaxAge])
           /\ Here.written \subseteq [nodeId : Nat, time : 0..MaxAge] /\ Here.peers \subseteq Nat
  BY ScenariosAssumption, Zenon DEF Here

\* A value that the first start takes from the dictionary.
LEMMA ChooseMember ==
    ASSUME NEW S, S # {}
    PROVE  (CHOOSE t \in S : TRUE) \in S
  BY Zenon

\* CO_NMT_init starts with the shorter of the two times.
LEMMA NmtInit ==
    ASSUME scenario \in DOMAIN Scenarios, NEW t \in Nat
    PROVE  /\ CO_NMT_init(Here.control, t, Here.first) \in NmtType
           /\ CO_NMT_init(Here.control, t, Here.first).operatingState = "INITIALIZING"
           /\ CO_NMT_init(Here.control, t, Here.first).HBproducerTime = t
           /\ CO_NMT_init(Here.control, t, Here.first).HBproducerTimer <= t
  BY HereTypes DEF CO_NMT_init, NmtType, NmtStates

\* The state after a call: never the initial one, and the commands and
\* errors lead only to states.
LEMMA NmtStateAfter ==
    ASSUME NEW s \in NmtStates \ {"INITIALIZING"}, NEW b, NEW c, NEW control, NEW f
    PROVE  after_errors(after_command(s, c), b, control, f) \in NmtStates \ {"INITIALIZING"}
  <1>1. after_command(s, c) \in NmtStates \ {"INITIALIZING"}
    BY DEF after_command, NmtStates
  <1> HIDE DEF after_command
  <1> QED  BY <1>1 DEF after_errors, NmtStates

\* The remaining time of CO_NMT_process.
remaining(n, dt) == IF n.HBproducerTimer > dt THEN n.HBproducerTimer - dt ELSE 0

\* The state that CO_NMT_process starts from.
awake(n) == IF n.operatingState # "INITIALIZING" THEN n.operatingState
            ELSE IF "STARTUP_TO_OPERATIONAL" \in n.NMTcontrol.flags THEN "OPERATIONAL"
            ELSE "PRE_OPERATIONAL"

\* CO_NMT_process, field by field.
LEMMA NmtProcess ==
    ASSUME NEW n \in NmtType, NEW e, NEW dt \in Nat
    PROVE  LET r   == CO_NMT_process(n, e, dt)
               due == beat_due(n, remaining(n, dt))
           IN  /\ r.nmt \in NmtType
               /\ r.nmt.NMTcontrol = n.NMTcontrol
               /\ r.nmt.HBproducerTime = n.HBproducerTime
               /\ r.nmt.HBproducerTimer =
                    IF due /\ n.operatingState # "INITIALIZING"
                    THEN n.HBproducerTime ELSE remaining(n, dt)
               /\ r.nmt.operatingStatePrev = awake(n)
               /\ r.nmt.operatingState # "INITIALIZING"
               /\ r.beat = IF due THEN n.operatingState ELSE "none"
  <1> DEFINE r     == CO_NMT_process(n, e, dt)
             due   == beat_due(n, remaining(n, dt))
             timer == IF due /\ n.operatingState # "INITIALIZING"
                      THEN n.HBproducerTime ELSE remaining(n, dt)
             state == after_errors(after_command(awake(n), n.internalCommand), n.operatingState,
                                   n.NMTcontrol, error_condition(n.NMTcontrol, e))
  <1>1. /\ r.nmt = [n EXCEPT !.HBproducerTimer = timer, !.operatingStatePrev = awake(n),
                             !.internalCommand = "NO_COMMAND", !.operatingState = state]
        /\ r.beat = IF due THEN n.operatingState ELSE "none"
    BY DEF CO_NMT_process, remaining, awake
  <1>2. awake(n) \in NmtStates \ {"INITIALIZING"}
    BY DEF awake, NmtType, NmtStates
  <1>3. state \in NmtStates \ {"INITIALIZING"}
    <2> HIDE DEF awake
    <2> QED  BY <1>2, NmtStateAfter
  <1>4. timer \in Nat
    BY DEF NmtType, remaining
  <1> HIDE DEF r, due, timer, state
  <1>5. /\ r.nmt \in NmtType /\ r.nmt.NMTcontrol = n.NMTcontrol
        /\ r.nmt.HBproducerTime = n.HBproducerTime
        /\ r.nmt.HBproducerTimer = timer
        /\ r.nmt.operatingStatePrev = awake(n) /\ r.nmt.operatingState = state
    BY <1>1, <1>2, <1>3, <1>4 DEF NmtType
  <1> QED  BY <1>1, <1>3, <1>5 DEF r, due, timer

\* The NMT object after a call of CO_process: what CO_NMT_process leaves,
\* or a fresh one after a reset.
LEMMA ProcessNmt ==
    ASSUME BeatInv, NEW dt \in Times, Process(dt)
    PROVE  \E e : LET r == CO_NMT_process(nmt, e, dt) IN
              /\ \/ nmt' = r.nmt
                 \/ nmt' = FirstStart.nmt
                 \/ nmt' = CO_NMT_init(Here.control, r.nmt.HBproducerTime, Here.first)
              /\ beatAge' = IF r.beat # "none" \/ nmt.HBproducerTime = 0 THEN 0
                            ELSE capped(beatAge + dt)
              /\ told' = IF r.beat # "none" THEN r.beat ELSE told
              /\ changed' = (nmt'.operatingState # nmt.operatingState)
              /\ rewritten' = FALSE
              /\ scenario' = scenario
  <1> DEFINE e == CO_EM_process(resent(em), CANerrorStatus,
                                NMTisPreOrOperational(nmt.operatingState), dt, lineBusy)
             r == CO_NMT_process(nmt, e, dt)
             h == CO_HBconsumer_process(hb, e, NMTisPreOrOperational(r.nmt.operatingState), dt)
             p == Processed(dt)
  <1>1. p.next = Restart(r.reset, h[2], r.nmt, h[1]) /\ p.beat = r.beat
    BY DEF Processed
  <1> HIDE DEF e, h
  <1>2. \/ p.next.nmt = r.nmt
        \/ p.next.nmt = FirstStart.nmt
        \/ p.next.nmt = CO_NMT_init(Here.control, r.nmt.HBproducerTime, Here.first)
    <2> HIDE DEF r, p
    <2>1. CASE r.reset = "RESET_APP"
      BY <1>1, <2>1 DEF Restart
    <2>2. CASE r.reset = "RESET_COMM"
      BY <1>1, <2>2 DEF Restart, Start
    <2>3. CASE r.reset \notin {"RESET_APP", "RESET_COMM"}
      BY <1>1, <2>3 DEF Restart
    <2> QED  BY <2>1, <2>2, <2>3
  <1>3. /\ nmt' = p.next.nmt
        /\ beatAge' = IF p.beat # "none" \/ nmt.HBproducerTime = 0 THEN 0
                      ELSE capped(beatAge + dt)
        /\ told' = IF p.beat # "none" THEN p.beat ELSE told
        /\ changed' = (p.next.nmt.operatingState # nmt.operatingState)
        /\ rewritten' = FALSE
        /\ scenario' = scenario
    <2> HIDE DEF p
    <2>1. p = Processed(dt)
      BY DEF p
    <2> QED  BY <2>1 DEF Process
  <1> HIDE DEF p, r
  <1>4. r = CO_NMT_process(nmt, e, dt)
    BY DEF r
  <1> QED  BY <1>1, <1>2, <1>3, <1>4

\* A step of the node that leaves its scenario alone.
LEMMA SameScenario ==
    ASSUME scenario' = scenario
    PROVE  NmtType' = NmtType
  BY DEF NmtType, Here

\* CO_NMT_init gives an object that has told nothing yet.
LEMMA FreshBeat ==
    ASSUME BeatInv, scenario' = scenario, NEW t \in Nat,
           nmt' = CO_NMT_init(Here.control, t, Here.first),
           beatAge' \in Nat, changed' \in BOOLEAN, rewritten' = FALSE
    PROVE  BeatInv'
  <1>1. /\ nmt' \in NmtType /\ nmt'.operatingState = "INITIALIZING"
        /\ nmt'.HBproducerTime = t /\ nmt'.HBproducerTimer <= t
    BY NmtInit DEF BeatInv
  <1> QED  BY <1>1, SameScenario DEF BeatInv

\* The age never passes the sum that it is capped from.
LEMMA CappedAge ==
    ASSUME NEW n \in Nat
    PROVE  capped(n) \in Nat /\ capped(n) <= n
  BY TimesAssumption DEF capped

\* CO_process with no reset: either the heartbeat is sent now, or there is
\* time left and the state was told before.
LEMMA RunningBeat ==
    ASSUME BeatInv, scenario' = scenario, NEW dt \in Nat, NEW e,
           nmt' = CO_NMT_process(nmt, e, dt).nmt,
           beatAge' = IF CO_NMT_process(nmt, e, dt).beat # "none" \/ nmt.HBproducerTime = 0
                      THEN 0 ELSE capped(beatAge + dt),
           told' = IF CO_NMT_process(nmt, e, dt).beat # "none"
                   THEN CO_NMT_process(nmt, e, dt).beat ELSE told,
           changed' = (nmt'.operatingState # nmt.operatingState),
           rewritten' = FALSE
    PROVE  BeatInv'
  <1> DEFINE r     == CO_NMT_process(nmt, e, dt)
             timer == remaining(nmt, dt)
             due   == beat_due(nmt, timer)
  <1>1. /\ nmt \in NmtType /\ nmt.operatingState \in NmtStates
        /\ nmt.HBproducerTime \in Nat /\ nmt.HBproducerTimer \in Nat
        /\ nmt.HBproducerTimer <= nmt.HBproducerTime /\ beatAge \in Nat
    BY DEF BeatInv, NmtType
  <1>2. /\ nmt' \in NmtType
        /\ nmt'.NMTcontrol = nmt.NMTcontrol
        /\ nmt'.HBproducerTime = nmt.HBproducerTime
        /\ nmt'.HBproducerTimer = IF due /\ nmt.operatingState # "INITIALIZING"
                                  THEN nmt.HBproducerTime ELSE timer
        /\ nmt'.operatingStatePrev = awake(nmt)
        /\ nmt'.operatingState # "INITIALIZING"
        /\ r.beat = IF due THEN nmt.operatingState ELSE "none"
    BY <1>1, NmtProcess
  <1>3. /\ timer \in Nat /\ timer <= nmt.HBproducerTimer
        /\ timer # 0 => timer = nmt.HBproducerTimer - dt
    BY <1>1 DEF remaining
  <1>4. due <=> \/ nmt.operatingState = "INITIALIZING"
                \/ /\ nmt.HBproducerTime # 0
                   /\ timer = 0 \/ nmt.operatingState # nmt.operatingStatePrev
    BY DEF beat_due
  <1>5. nmt.operatingState # "none"
    BY <1>1 DEF NmtStates
  <1>6. /\ due => beatAge' = 0 /\ told' = nmt.operatingState
        /\ ~due => /\ beatAge' = IF nmt.HBproducerTime = 0 THEN 0 ELSE capped(beatAge + dt)
                   /\ told' = told
    BY <1>2, <1>5
  <1> HIDE DEF r, timer, due
  <1>7. beatAge' \in Nat
    BY <1>1, <1>6, CappedAge
  <1>8. nmt'.HBproducerTimer <= nmt'.HBproducerTime
    BY <1>1, <1>2, <1>3
  <1>9. ASSUME nmt'.HBproducerTime # 0
        PROVE  beatAge' + nmt'.HBproducerTimer <= nmt'.HBproducerTime
               /\ beatAge' < nmt'.HBproducerTime
    <2>1. CASE due
      BY <1>1, <1>2, <1>3, <1>6, <1>8, <1>9, <2>1
    <2>2. CASE ~due
      <3>1. /\ nmt.operatingState # "INITIALIZING" /\ timer # 0
            /\ timer = nmt.HBproducerTimer - dt
        BY <1>2, <1>3, <1>4, <1>9, <2>2
      <3>2. rewritten = FALSE
        BY <1>1, <1>3, <3>1 DEF BeatInv
      <3>3. beatAge + nmt.HBproducerTimer <= nmt.HBproducerTime
        BY <1>2, <1>9, <3>1, <3>2 DEF BeatInv
      <3>4. beatAge' = capped(beatAge + dt) /\ nmt'.HBproducerTimer = timer
        BY <1>2, <1>6, <1>9, <2>2
      <3>5. capped(beatAge + dt) \in Nat /\ capped(beatAge + dt) <= beatAge + dt
        BY <1>1, CappedAge
      <3> QED  BY <1>1, <1>2, <1>3, <3>1, <3>3, <3>4, <3>5
    <2> QED  BY <2>1, <2>2
  <1>10. ASSUME nmt'.HBproducerTime # 0
         PROVE  IF nmt'.operatingState = nmt'.operatingStatePrev
                THEN told' = nmt'.operatingState
                     \/ (told' = "INITIALIZING" /\ nmt'.operatingState = booted')
                ELSE changed'
    <2>1. CASE nmt.operatingState = "INITIALIZING"
      <3>1. due /\ told' = "INITIALIZING" /\ changed'
        BY <1>2, <1>4, <1>6, <2>1
      <3>2. awake(nmt) = booted'
        BY <1>2, <2>1 DEF awake, booted
      <3> QED  BY <1>2, <3>1, <3>2
    <2>2. CASE nmt.operatingState # "INITIALIZING"
      <3>1. nmt'.operatingStatePrev = nmt.operatingState
        BY <1>2, <2>2 DEF awake
      <3>2. CASE due
        <4>1. told' = nmt.operatingState
          BY <1>6, <3>2
        <4>2. CASE nmt'.operatingState = nmt.operatingState
          BY <3>1, <4>1, <4>2
        <4>3. CASE nmt'.operatingState # nmt.operatingState
          BY <3>1, <4>3
        <4> QED  BY <4>2, <4>3
      <3>3. CASE ~due
        <4>1. /\ nmt.operatingState = nmt.operatingStatePrev /\ timer # 0
              /\ nmt.HBproducerTime # 0
          BY <1>2, <1>4, <1>10, <3>3
        <4>2. rewritten = FALSE
          BY <1>1, <1>3, <4>1 DEF BeatInv
        <4>3. told = nmt.operatingState
              \/ (told = "INITIALIZING" /\ nmt.operatingState = booted)
          BY <2>2, <4>1, <4>2 DEF BeatInv
        <4>4. booted' = booted
          BY <1>2 DEF booted
        <4> QED  BY <1>6, <3>1, <3>3, <4>3, <4>4
      <3> QED  BY <3>2, <3>3
    <2> QED  BY <2>1, <2>2
  <1> QED
    BY <1>2, <1>7, <1>8, <1>9, <1>10, SameScenario DEF BeatInv

\* Every step keeps the timer and the age in step.
LEMMA BeatStep ==
    ASSUME BeatInv, [Next]_vars
    PROVE  BeatInv'
  <1>0. /\ nmt \in NmtType /\ scenario \in DOMAIN Scenarios /\ beatAge \in Nat
        /\ changed \in BOOLEAN
    BY DEF BeatInv
  <1>1. ASSUME NEW dt \in Times, Process(dt)
        PROVE  BeatInv'
    <2>1. PICK e : LET r == CO_NMT_process(nmt, e, dt) IN
              /\ \/ nmt' = r.nmt
                 \/ nmt' = FirstStart.nmt
                 \/ nmt' = CO_NMT_init(Here.control, r.nmt.HBproducerTime, Here.first)
              /\ beatAge' = IF r.beat # "none" \/ nmt.HBproducerTime = 0 THEN 0
                            ELSE capped(beatAge + dt)
              /\ told' = IF r.beat # "none" THEN r.beat ELSE told
              /\ changed' = (nmt'.operatingState # nmt.operatingState)
              /\ rewritten' = FALSE
              /\ scenario' = scenario
      BY <1>1, ProcessNmt
    <2>2. dt \in Nat
      BY TimesAssumption
    <2>3. beatAge' \in Nat /\ changed' \in BOOLEAN
      BY <1>0, <2>1, <2>2, CappedAge
    <2>4. CASE nmt' = CO_NMT_process(nmt, e, dt).nmt
      BY <2>1, <2>2, <2>4, RunningBeat
    <2>5. CASE nmt' = FirstStart.nmt
      <3>1. nmt' = CO_NMT_init(Here.control, CHOOSE t \in Here.HBtimes : TRUE, Here.first)
        BY <2>5 DEF FirstStart, Start
      <3>2. (CHOOSE t \in Here.HBtimes : TRUE) \in Nat
        BY <1>0, HereTypes, ChooseMember
      <3> QED  BY <2>1, <2>3, <3>1, <3>2, FreshBeat
    <2>6. CASE nmt' = CO_NMT_init(Here.control,
                                  CO_NMT_process(nmt, e, dt).nmt.HBproducerTime, Here.first)
      <3>1. CO_NMT_process(nmt, e, dt).nmt.HBproducerTime \in Nat
        BY <1>0, <2>2, NmtProcess DEF NmtType
      <3> QED  BY <2>1, <2>3, <2>6, <3>1, FreshBeat
    <2> QED  BY <2>1, <2>4, <2>5, <2>6
  <1>2. ASSUME UNCHANGED beats
        PROVE  BeatInv'
    BY <1>2, SameScenario DEF BeatInv, beats, booted
  <1>3. ASSUME NEW c \in NmtCommands, Command(c)
        PROVE  BeatInv'
    <2>1. /\ nmt' = [nmt EXCEPT !.internalCommand = c]
          /\ UNCHANGED <<scenario, beatAge, told, changed, rewritten>>
      BY <1>3 DEF Command, CO_NMT_receive, ghosts
    <2>2. /\ nmt' \in NmtType /\ nmt'.NMTcontrol = nmt.NMTcontrol
          /\ nmt'.HBproducerTime = nmt.HBproducerTime
          /\ nmt'.HBproducerTimer = nmt.HBproducerTimer
          /\ nmt'.operatingState = nmt.operatingState
          /\ nmt'.operatingStatePrev = nmt.operatingStatePrev
      BY <1>0, <2>1 DEF NmtType
    <2>3. booted' = booted
      BY <2>2 DEF booted
    <2> QED  BY <2>1, <2>2, <2>3, SameScenario DEF BeatInv
  <1>4. ASSUME NEW t \in Here.HBtimes, Write1017(t)
        PROVE  BeatInv'
    <2>1. /\ nmt' = [nmt EXCEPT !.HBproducerTime = t, !.HBproducerTimer = 0]
          /\ rewritten' = TRUE
          /\ UNCHANGED <<scenario, beatAge, told, changed>>
      BY <1>4 DEF Write1017, OD_write_1017
    <2>2. t \in Nat
      BY <1>0, HereTypes
    <2>3. /\ nmt' \in NmtType /\ nmt'.HBproducerTime = t
          /\ nmt'.HBproducerTimer = 0
      BY <1>0, <2>1, <2>2 DEF NmtType
    <2> QED  BY <1>0, <2>1, <2>2, <2>3, SameScenario DEF BeatInv
  <1>5. ASSUME Surroundings
        PROVE  BeatInv'
    BY <1>0, <1>2, <1>3, <1>4, <1>5, HereTypes
    DEF Surroundings, PeerHeartbeat, ApplicationError, CANstatus, Line,
        WriteEmergencyObjects, Write1016, ghosts, node, beats
  <1> QED  BY <1>1, <1>2, <1>5 DEF Next, vars, beats

\* The first start has told nothing yet.
LEMMA BeatStart == Init => BeatInv
  <1> SUFFICES ASSUME Init
               PROVE  BeatInv
    OBVIOUS
  <1>1. scenario \in DOMAIN Scenarios
    BY DEF Init
  <1>2. nmt = CO_NMT_init(Here.control, CHOOSE t \in Here.HBtimes : TRUE, Here.first)
    BY DEF Init, FirstStart, Start
  <1>3. (CHOOSE t \in Here.HBtimes : TRUE) \in Nat
    BY <1>1, HereTypes, ChooseMember
  <1>4. /\ nmt \in NmtType /\ nmt.operatingState = "INITIALIZING"
        /\ nmt.HBproducerTimer <= nmt.HBproducerTime
    BY <1>1, <1>2, <1>3, NmtInit
  <1> QED  BY <1>1, <1>4 DEF Init, BeatInv

\* Who listens to this node knows its state, for every producer time, cycle
\* time and order of commands, errors, resets and writes of 0x1017: no call
\* of CO_process leaves a heartbeat as old as the producer time behind, and
\* a new state is told in the next call.
THEOREM NodeHeartbeats == Spec => []HeartbeatsAreTimely
  <1>1. BeatInv /\ [Next]_vars => BeatInv'
    BY BeatStep
  <1>2. BeatInv => HeartbeatsAreTimely
    BY DEF BeatInv, HeartbeatsAreTimely
  <1> QED  BY <1>1, <1>2, BeatStart, PTL DEF Spec
-----------------------------------------------------------------------------
(* The heartbeat consumer *)

Monitored == [nodeId : Nat, NMTstate : NmtStates \cup {"UNKNOWN"},
              HBstate : {"UNCONFIGURED", "UNKNOWN", "ACTIVE", "TIMEOUT"},
              timeoutTimer : Nat, time : 0..MaxAge, CANrxNew : BOOLEAN]

HbType == [monitoredNodes : [DOMAIN Here.entries -> Monitored], allMonitoredActive : BOOLEAN,
           allMonitoredOperational : BOOLEAN, NMTisPreOrOperationalPrev : BOOLEAN]

\* What the entry n says of its peer, when the peers have been quiet for q
\* and have said s.  It is on while this node may monitor others.
EntryOK(n, on, q, s) ==
    /\ n.HBstate # "UNCONFIGURED" => n.time # 0
    /\ n.HBstate = "UNCONFIGURED" => ~n.CANrxNew
    /\ ~on => n.HBstate \notin {"ACTIVE", "TIMEOUT"}
    /\ n.HBstate \in {"ACTIVE", "TIMEOUT"} \/ n.CANrxNew => n.nodeId \in Here.peers
    /\ on /\ n.CANrxNew => q[n.nodeId] = 0 /\ n.NMTstate = s[n.nodeId]
    /\ n.HBstate = "ACTIVE" /\ ~n.CANrxNew =>
          /\ n.timeoutTimer < n.time /\ n.timeoutTimer <= q[n.nodeId]
          /\ q[n.nodeId] <= n.timeoutTimer + MaxTime
          /\ n.NMTstate = s[n.nodeId]
    /\ n.HBstate = "TIMEOUT" /\ ~n.CANrxNew => q[n.nodeId] >= n.time /\ n.NMTstate = "UNKNOWN"

\* No peer has two entries, so that none misses its heartbeats.
Distinct(nodes) ==
    \A i, j \in DOMAIN nodes :
        i # j /\ nodes[i].time # 0 /\ nodes[j].time # 0 => nodes[i].nodeId # nodes[j].nodeId

EntriesOK(h, q, s) ==
    /\ \A i \in DOMAIN h.monitoredNodes : EntryOK(h.monitoredNodes[i], h.NMTisPreOrOperationalPrev, q, s)
    /\ Distinct(h.monitoredNodes)

\* What the node as a whole makes of it.
Concluded(h, bits) ==
    /\ inTimeout(h) # {} => /\ PEER \in bits
                            /\ ~h.allMonitoredActive /\ ~h.allMonitoredOperational
    /\ h.allMonitoredOperational =>
          \A i \in DOMAIN h.monitoredNodes :
             h.monitoredNodes[i].HBstate = "ACTIVE" /\ ~h.monitoredNodes[i].CANrxNew
                => h.monitoredNodes[i].NMTstate = "OPERATIONAL"

PeerInv ==
    /\ quiet \in [Here.peers -> 0..MaxAge] /\ said \in [Here.peers -> NmtStates]
    /\ CANerrorStatus \in SUBSET STRING /\ lineBusy \in BOOLEAN
    /\ EmOK(em)
    /\ hb \in HbType /\ EntriesOK(hb, quiet, said) /\ Concluded(hb, em.errorStatusBits)
    /\ "ERR_ON_BUSOFF_HB" \in nmt.NMTcontrol.flags /\ overdue # {} => nmt.operatingState # "OPERATIONAL"
\* The longest time between two calls.
LEMMA MaxTimeIsLongest == MaxTime \in Nat /\ \A u \in Times : u <= MaxTime
  <1>1. MaxTime \in Times /\ \A u \in Times : u <= MaxTime
    BY TimesAssumption, Zenon DEF MaxTime
  <1> QED  BY <1>1, TimesAssumption

\* The age of a heartbeat after dt more.
LEMMA Aged ==
    ASSUME NEW a \in 0..MaxAge, NEW dt \in Times
    PROVE  /\ dt \in Nat /\ dt <= MaxTime /\ capped(a + dt) \in 0..MaxAge /\ capped(a + dt) <= a + dt
           /\ capped(a + dt) = a + dt \/ capped(a + dt) = MaxAge
  BY TimesAssumption, MaxTimeIsLongest DEF capped

\* One entry in a call of CO_process.
LEMMA MonitorOK ==
    ASSUME NEW n \in Monitored, NEW q \in [Here.peers -> 0..MaxAge], NEW s,
           EntryOK(n, TRUE, q, s), NEW dt \in Times
    PROVE  LET m == monitor(n, dt)
               p == [x \in DOMAIN q |-> capped(q[x] + dt)]
           IN  /\ m \in Monitored /\ EntryOK(m, TRUE, p, s)
               /\ m.nodeId = n.nodeId /\ m.time = n.time /\ ~m.CANrxNew
  <1> DEFINE m   == monitor(n, dt)
             p   == [x \in DOMAIN q |-> capped(q[x] + dt)]
             age == q[n.nodeId]
             new == p[n.nodeId]
  <1>1. /\ n.time \in 0..MaxAge /\ n.timeoutTimer \in Nat /\ n.nodeId \in Nat
        /\ n.HBstate \in {"UNCONFIGURED", "UNKNOWN", "ACTIVE", "TIMEOUT"}
        /\ n.CANrxNew \in BOOLEAN /\ MaxAge \in Nat /\ MaxTime \in Nat /\ dt \in Nat /\ dt <= MaxTime
    BY TimesAssumption, MaxTimeIsLongest DEF Monitored
  <1>2. n.nodeId \in Here.peers =>
          /\ age \in 0..MaxAge /\ new \in 0..MaxAge /\ new <= age + dt
          /\ new = age + dt \/ new = MaxAge
    BY Aged
  <1> HIDE DEF p
  <1>3. CASE n.HBstate = "UNCONFIGURED"
    <2>1. m = n
      BY <1>3 DEF monitor
    <2> QED  BY <1>3, <2>1 DEF EntryOK
  <1>4. CASE n.HBstate = "UNKNOWN" /\ ~n.CANrxNew
    <2>1. m = n
      BY <1>4 DEF monitor, on_message, on_time
    <2> QED  BY <1>4, <2>1 DEF EntryOK, p
  <1>5. CASE n.HBstate = "TIMEOUT" /\ ~n.CANrxNew
    <2>1. m = n
      BY <1>5 DEF monitor, on_message, on_time
    <2>2. new >= n.time
      BY <1>1, <1>2, <1>5 DEF EntryOK
    <2> QED  BY <1>5, <2>1, <2>2 DEF EntryOK, p
  <1>6. CASE n.HBstate = "ACTIVE" /\ ~n.CANrxNew
    <2> DEFINE timer == n.timeoutTimer + dt
    <2>1. /\ n.nodeId \in Here.peers /\ n.timeoutTimer < n.time /\ n.timeoutTimer <= age
          /\ age <= n.timeoutTimer + MaxTime /\ n.NMTstate = s[n.nodeId]
      BY <1>6 DEF EntryOK
    <2>2. timer \in Nat
      BY <1>1
    <2>3. CASE timer >= n.time
      <3>1. m = [n EXCEPT !.timeoutTimer = timer, !.NMTstate = "UNKNOWN", !.HBstate = "TIMEOUT"]
        BY <1>6, <2>3 DEF monitor, on_message, on_time, expired
      <3>2. new >= n.time
        BY <1>1, <1>2, <2>1, <2>3
      <3> HIDE DEF timer, m
      <3>3. /\ m \in Monitored /\ m.nodeId = n.nodeId /\ m.time = n.time
            /\ m.CANrxNew = n.CANrxNew /\ m.HBstate = "TIMEOUT" /\ m.NMTstate = "UNKNOWN"
        BY <2>2, <3>1 DEF Monitored
      <3>4. ~m.CANrxNew
        BY <1>6, <3>3
      <3> QED  BY <1>1, <2>1, <3>2, <3>3, <3>4 DEF EntryOK, m, p
    <2>4. CASE ~(timer >= n.time)
      <3>1. m = [n EXCEPT !.timeoutTimer = timer]
        BY <1>6, <2>4 DEF monitor, on_message, on_time, expired
      <3>2. timer < n.time /\ timer <= new /\ new <= timer + MaxTime
        BY <1>1, <1>2, <2>1, <2>4
      <3> HIDE DEF timer, m
      <3>3. /\ m \in Monitored /\ m.nodeId = n.nodeId /\ m.time = n.time /\ m.timeoutTimer = timer
            /\ m.CANrxNew = n.CANrxNew /\ m.HBstate = "ACTIVE" /\ m.NMTstate = n.NMTstate
        BY <1>6, <2>2, <3>1 DEF Monitored
      <3>4. ~m.CANrxNew
        BY <1>6, <3>3
      <3> QED  BY <1>1, <2>1, <3>2, <3>3, <3>4 DEF EntryOK, m, p
    <2> QED  BY <2>3, <2>4
  <1>7. CASE n.HBstate # "UNCONFIGURED" /\ n.CANrxNew /\ n.NMTstate = "INITIALIZING"
    <2>1. m = [n EXCEPT !.HBstate = "UNKNOWN", !.CANrxNew = FALSE]
      <3> DEFINE k == [n EXCEPT !.HBstate = "UNKNOWN", !.CANrxNew = FALSE]
      <3>1. m = on_time(k, dt)
        BY <1>7 DEF monitor, on_message
      <3>2. k.HBstate = "UNKNOWN"
        BY DEF Monitored
      <3> HIDE DEF k
      <3>3. on_time(k, dt) = k
        BY <3>2 DEF on_time
      <3> QED  BY <3>1, <3>3 DEF k
    <2> HIDE DEF m
    <2>2. /\ m \in Monitored /\ m.nodeId = n.nodeId /\ m.time = n.time
          /\ m.HBstate = "UNKNOWN" /\ m.CANrxNew = FALSE
      BY <2>1 DEF Monitored
    <2> QED  BY <1>7, <2>2 DEF EntryOK, m, p
  <1>8. CASE n.HBstate # "UNCONFIGURED" /\ n.CANrxNew /\ n.NMTstate # "INITIALIZING"
    <2> DEFINE k == [n EXCEPT !.HBstate = "ACTIVE", !.timeoutTimer = 0, !.CANrxNew = FALSE]
    <2>1. m = on_time(k, 0)
      BY <1>8 DEF monitor, on_message, heard
    <2>2. /\ k \in Monitored /\ k.nodeId = n.nodeId /\ k.time = n.time /\ k.timeoutTimer = 0
          /\ k.HBstate = "ACTIVE" /\ k.CANrxNew = FALSE /\ k.NMTstate = n.NMTstate
      BY DEF Monitored
    <2> HIDE DEF k
    <2>3. n.time # 0 /\ n.nodeId \in Here.peers /\ age = 0 /\ n.NMTstate = s[n.nodeId]
      BY <1>8 DEF EntryOK
    <2>4. m = [k EXCEPT !.timeoutTimer = 0]
      BY <1>1, <2>1, <2>2, <2>3 DEF on_time, expired
    <2> HIDE DEF m
    <2>5. /\ m \in Monitored /\ m.nodeId = n.nodeId /\ m.time = n.time /\ m.timeoutTimer = 0
          /\ m.HBstate = "ACTIVE" /\ m.CANrxNew = FALSE /\ m.NMTstate = n.NMTstate
      BY <2>2, <2>4 DEF Monitored
    <2>6. 0 < n.time /\ 0 <= new /\ new <= 0 + MaxTime
      BY <1>1, <1>2, <2>3
    <2> QED  BY <1>1, <2>3, <2>5, <2>6 DEF EntryOK, m, p
  <1> QED  BY <1>1, <1>3, <1>4, <1>5, <1>6, <1>7, <1>8
\* An entry that is forgotten says nothing.
Blank(n) == n.HBstate \in {"UNCONFIGURED", "UNKNOWN"} /\ ~n.CANrxNew
            /\ (n.HBstate # "UNCONFIGURED" => n.time # 0)

\* It keeps what an entry must, whatever its peer does.
LEMMA BlankOK ==
    ASSUME NEW n, Blank(n), NEW on, NEW q, NEW s
    PROVE  EntryOK(n, on, q, s)
  BY DEF Blank, EntryOK

\* It is what a node that starts or ends monitoring makes of every entry.
LEMMA ForgetOK ==
    ASSUME NEW n \in Monitored, NEW on, NEW q, NEW s, EntryOK(n, on, q, s)
    PROVE  /\ forget(n) \in Monitored /\ Blank(forget(n))
           /\ forget(n).nodeId = n.nodeId /\ forget(n).time = n.time
  <1> DEFINE state == IF n.HBstate = "UNCONFIGURED" THEN "UNCONFIGURED" ELSE "UNKNOWN"
             m     == forget(n)
  <1>1. m = [n EXCEPT !.NMTstate = "UNKNOWN", !.CANrxNew = FALSE, !.HBstate = state]
    BY DEF forget, Monitored
  <1>2. state \in {"UNCONFIGURED", "UNKNOWN"} /\ (state # "UNCONFIGURED" => n.time # 0)
    BY DEF EntryOK
  <1> HIDE DEF state, m
  <1>3. /\ m \in Monitored /\ m.nodeId = n.nodeId /\ m.time = n.time
        /\ m.HBstate = state /\ m.CANrxNew = FALSE
    BY <1>1, <1>2 DEF Monitored
  <1> QED  BY <1>2, <1>3 DEF Blank, m

\* An entry of a node that does not monitor keeps what it says.
LEMMA IdleOK ==
    ASSUME NEW n, NEW q, NEW s, EntryOK(n, FALSE, q, s), NEW p
    PROVE  EntryOK(n, FALSE, p, s)
  BY DEF EntryOK

\* r is h after a write of entry i: it starts from nothing, unless its peer
\* has an entry already.
Rewritten(r, h, i, id, t) ==
    /\ r \in HbType /\ Distinct(r.monitoredNodes)
    /\ r.allMonitoredActive = h.allMonitoredActive
    /\ r.allMonitoredOperational = h.allMonitoredOperational
    /\ r.NMTisPreOrOperationalPrev = h.NMTisPreOrOperationalPrev
    /\ \A j \in DOMAIN Here.entries : j # i => r.monitoredNodes[j] = h.monitoredNodes[j]
    /\ \/ Blank(r.monitoredNodes[i])
       \/ duplicate(h.monitoredNodes, i, id, t) /\ r = h

\* It is what CO_HBconsumer_initEntry makes.
LEMMA InitEntryOK ==
    ASSUME NEW h \in HbType, Distinct(h.monitoredNodes),
           NEW i \in DOMAIN Here.entries, NEW id \in Nat, NEW t \in 0..MaxAge
    PROVE  Rewritten(CO_HBconsumer_initEntry(h, i, id, t), h, i, id, t)
  <1> DEFINE r     == CO_HBconsumer_initEntry(h, i, id, t)
             used  == id # 0 /\ t # 0
             nodes == h.monitoredNodes
             time  == IF used THEN t ELSE 0
             state == IF used THEN "UNKNOWN" ELSE "UNCONFIGURED"
             entry == [nodes[i] EXCEPT !.nodeId = id, !.time = time, !.NMTstate = "UNKNOWN",
                                       !.CANrxNew = FALSE, !.HBstate = state]
             next  == [nodes EXCEPT ![i] = entry]
  <1>1. nodes \in [DOMAIN Here.entries -> Monitored] /\ nodes[i] \in Monitored
    BY DEF HbType
  <1>2. CASE duplicate(nodes, i, id, t)
    <2>1. r = h
      BY <1>2 DEF CO_HBconsumer_initEntry
    <2> QED  BY <1>2, <2>1 DEF Rewritten
  <1>3. CASE ~duplicate(nodes, i, id, t)
    <2>1. r = [h EXCEPT !.monitoredNodes = next]
      BY <1>3 DEF CO_HBconsumer_initEntry, HbType
    <2>2. /\ time \in 0..MaxAge /\ state \in {"UNCONFIGURED", "UNKNOWN"}
          /\ (state # "UNCONFIGURED" => time # 0) /\ (time # 0 => id # 0 /\ t # 0)
      BY TimesAssumption
    <2> HIDE DEF time, state
    <2>3. /\ entry \in Monitored /\ entry.nodeId = id /\ entry.time = time
          /\ entry.HBstate = state /\ entry.CANrxNew = FALSE
      BY <1>1, <2>2 DEF Monitored
    <2> HIDE DEF entry
    <2>4. /\ next \in [DOMAIN Here.entries -> Monitored] /\ next[i] = entry
          /\ \A j \in DOMAIN Here.entries : j # i => next[j] = nodes[j]
      BY <1>1, <2>3
    <2>5. Distinct(next)
      <3> SUFFICES ASSUME NEW j \in DOMAIN Here.entries, NEW k \in DOMAIN Here.entries, j # k,
                          next[j].time # 0, next[k].time # 0
                   PROVE  next[j].nodeId # next[k].nodeId
        BY <2>4 DEF Distinct
      <3>1. \A l \in DOMAIN Here.entries : l # i /\ time # 0 /\ nodes[l].time # 0 => nodes[l].nodeId # id
        BY <1>1, <1>3, <2>2 DEF duplicate
      <3>2. CASE j # i /\ k # i
        BY <1>1, <2>4, <3>2 DEF Distinct
      <3>3. CASE j = i
        BY <2>3, <2>4, <3>1, <3>3
      <3>4. CASE k = i
        BY <2>3, <2>4, <3>1, <3>4
      <3> QED  BY <3>2, <3>3, <3>4
    <2>6. Blank(entry)
      BY <2>2, <2>3 DEF Blank
    <2> HIDE DEF next, r
    <2>7. /\ r \in HbType /\ r.monitoredNodes = next
          /\ r.allMonitoredActive = h.allMonitoredActive
          /\ r.allMonitoredOperational = h.allMonitoredOperational
          /\ r.NMTisPreOrOperationalPrev = h.NMTisPreOrOperationalPrev
      BY <2>1, <2>4, Zenon DEF HbType
    <2> QED  BY <2>4, <2>5, <2>6, <2>7 DEF r, Rewritten
  <1> QED  BY <1>2, <1>3

\* A heartbeat goes to the only entry of its peer.
LEMMA ReceiveOK ==
    ASSUME scenario \in DOMAIN Scenarios, NEW h \in HbType, NEW q \in [Here.peers -> 0..MaxAge], NEW s \in [Here.peers -> NmtStates],
           EntriesOK(h, q, s), NEW p \in Here.peers, NEW state \in NmtStates
    PROVE  LET r == CO_HBcons_receive(h, p, state)
           IN  /\ r \in HbType
               /\ EntriesOK(r, [q EXCEPT ![p] = 0], [s EXCEPT ![p] = state])
               /\ inTimeout(r) = inTimeout(h)
               /\ \A bits : Concluded(h, bits) => Concluded(r, bits)
  <1> DEFINE r     == CO_HBcons_receive(h, p, state)
             nodes == h.monitoredNodes
             on    == h.NMTisPreOrOperationalPrev
             listens(i) == nodes[i].HBstate # "UNCONFIGURED" /\ nodes[i].nodeId = p
             next  == [i \in DOMAIN nodes |->
                         IF listens(i) /\ \A j \in 1..(i - 1) : ~listens(j)
                         THEN [nodes[i] EXCEPT !.NMTstate = state, !.CANrxNew = TRUE] ELSE nodes[i]]
             q1    == [q EXCEPT ![p] = 0]
             s1    == [s EXCEPT ![p] = state]
  <1>1. /\ nodes \in [DOMAIN Here.entries -> Monitored] /\ on \in BOOLEAN
        /\ Distinct(nodes) /\ \A i \in DOMAIN Here.entries : EntryOK(nodes[i], on, q, s)
    BY DEF HbType, EntriesOK
  <1>2. r = [h EXCEPT !.monitoredNodes = next]
    BY DEF CO_HBcons_receive, HbType
  <1>3. ASSUME NEW i \in DOMAIN Here.entries, listens(i)
        PROVE  \A j \in DOMAIN Here.entries : j # i => ~listens(j)
    BY <1>1, <1>3 DEF Distinct, EntryOK
  <1>4. ASSUME NEW i \in DOMAIN Here.entries
        PROVE  next[i] = IF listens(i) THEN [nodes[i] EXCEPT !.NMTstate = state, !.CANrxNew = TRUE]
                         ELSE nodes[i]
    <2>1. Here.entries \in Seq([nodeId : Nat, time : 0..MaxAge])
      BY HereTypes
    <2>2. \A j \in 1..(i - 1) : j \in DOMAIN Here.entries /\ j # i
      BY <2>1
    <2> QED  BY <1>1, <1>3, <2>2
  <1> HIDE DEF next
  <1>5. ASSUME NEW i \in DOMAIN Here.entries
        PROVE  /\ next[i] \in Monitored /\ EntryOK(next[i], on, q1, s1)
               /\ next[i].HBstate = nodes[i].HBstate /\ next[i].nodeId = nodes[i].nodeId
               /\ next[i].time = nodes[i].time
               /\ ~next[i].CANrxNew => next[i] = nodes[i]
    <2> DEFINE n == nodes[i]
               m == next[i]
    <2>1. n \in Monitored /\ EntryOK(n, on, q, s)
      BY <1>1
    <2>2. CASE listens(i)
      <3>1. m = [n EXCEPT !.NMTstate = state, !.CANrxNew = TRUE]
        BY <1>4, <2>2
      <3> HIDE DEF m
      <3>2. /\ m \in Monitored /\ m.nodeId = n.nodeId /\ m.time = n.time /\ m.HBstate = n.HBstate
            /\ m.NMTstate = state /\ m.CANrxNew = TRUE
        BY <2>1, <3>1 DEF Monitored
      <3>3. q1[p] = 0 /\ s1[p] = state
        OBVIOUS
      <3>4. n.nodeId = p /\ n.HBstate # "UNCONFIGURED"
        BY <2>2
      <3>5. EntryOK(m, on, q1, s1)
        BY <2>1, <3>2, <3>3, <3>4 DEF EntryOK
      <3> QED  BY <3>2, <3>5 DEF m
    <2>3. CASE ~listens(i)
      <3>1. m = n
        BY <1>4, <2>3
      <3>2. n.HBstate # "UNCONFIGURED" => n.nodeId # p
        BY <2>3
      <3>3. \A x \in Here.peers : x # p => q1[x] = q[x] /\ s1[x] = s[x]
        OBVIOUS
      <3> HIDE DEF q1, s1, n, m
      <3>4. EntryOK(n, on, q1, s1)
        BY <2>1, <3>2, <3>3 DEF EntryOK
      <3> QED  BY <2>1, <3>1, <3>4 DEF n, m
    <2> QED  BY <2>2, <2>3
  <1>6. next \in [DOMAIN Here.entries -> Monitored]
    BY <1>1, <1>5 DEF next
  <1> HIDE DEF r
  <1>7. /\ r \in HbType /\ r.monitoredNodes = next /\ r.NMTisPreOrOperationalPrev = on
        /\ r.allMonitoredActive = h.allMonitoredActive
        /\ r.allMonitoredOperational = h.allMonitoredOperational
    BY <1>2, <1>6, Zenon DEF HbType
  <1>8. Distinct(next)
    BY <1>1, <1>5, <1>6 DEF Distinct
  <1>9. EntriesOK(r, q1, s1)
    BY <1>5, <1>6, <1>7, <1>8 DEF EntriesOK
  <1>10. inTimeout(r) = inTimeout(h)
    BY <1>1, <1>5, <1>6, <1>7 DEF inTimeout
  <1>11. ASSUME NEW bits, Concluded(h, bits)
         PROVE  Concluded(r, bits)
    BY <1>1, <1>5, <1>6, <1>7, <1>10, <1>11 DEF Concluded
  <1> QED  BY <1>7, <1>9, <1>10, <1>11 DEF r
\* A peer falls silent.
silenced(n, dt) == on_message(n).HBstate = "ACTIVE" /\ monitor(n, dt).HBstate = "TIMEOUT"

\* An entry in timeout was in timeout before the call, or falls silent in it.
LEMMA TimeoutIsNew ==
    ASSUME NEW n \in Monitored, NEW dt, monitor(n, dt).HBstate = "TIMEOUT"
    PROVE  n.HBstate = "TIMEOUT" \/ silenced(n, dt)
  <1>1. CASE on_message(n).HBstate = "ACTIVE"
    BY <1>1 DEF silenced
  <1>2. CASE on_message(n).HBstate # "ACTIVE"
    <2>1. monitor(n, dt) = n \/ monitor(n, dt) = on_message(n)
      BY <1>2 DEF monitor, on_time
    <2>2. on_message(n).HBstate = "TIMEOUT" => n.HBstate = "TIMEOUT"
      BY <1>2 DEF on_message, heard, Monitored
    <2> QED  BY <2>1, <2>2
  <1> QED  BY <1>1, <1>2

\* What the loop of CO_HBconsumer_process reports of one entry.
LEMMA ReportOK ==
    ASSUME NEW n, NEW e, EmOK(e), NEW dt
    PROVE  /\ EmOK(report(n, e, dt)) /\ Keeps(report(n, e, dt), e)
           /\ n \in Monitored /\ silenced(n, dt) => PEER \in report(n, e, dt).errorStatusBits
  <1> DEFINE reset  == CO_error(e, TRUE, "HB_CONSUMER_REMOTE_RESET", "HEARTBEAT")
             silent == CO_error(e, TRUE, PEER, "HEARTBEAT")
  <1>1. /\ {"HB_CONSUMER_REMOTE_RESET", "HEARTBEAT", PEER} \subseteq Names
        /\ PEER # FULL /\ "HB_CONSUMER_REMOTE_RESET" # FULL
    BY DEF Names, Codes, StatusBits, CommunicationBits, PEER, FULL
  <1>2. EmOK(reset) /\ Keeps(reset, e)
    BY <1>1, ErrorOK
  <1>3. EmOK(silent) /\ Keeps(silent, e) /\ PEER \in silent.errorStatusBits
    BY <1>1, ErrorOK
  <1> HIDE DEF reset, silent
  <1>4. report(n, e, dt) = IF n.HBstate = "ACTIVE" /\ n.CANrxNew /\ n.NMTstate = "INITIALIZING" THEN reset
                           ELSE IF silenced(n, dt) THEN silent ELSE e
    BY DEF report, silenced, reset, silent, PEER
  <1>5. n \in Monitored /\ silenced(n, dt) =>
           ~(n.HBstate = "ACTIVE" /\ n.CANrxNew /\ n.NMTstate = "INITIALIZING")
    <2> SUFFICES ASSUME n \in Monitored, n.CANrxNew, n.NMTstate = "INITIALIZING"
                 PROVE  on_message(n).HBstate # "ACTIVE"
      BY DEF silenced
    <2>1. on_message(n) = [n EXCEPT !.HBstate = "UNKNOWN", !.CANrxNew = FALSE]
      BY DEF on_message
    <2> QED  BY <2>1 DEF Monitored
  <1>6. Keeps(e, e)
    BY DEF Keeps
  <1> HIDE DEF silenced
  <1> QED  BY <1>2, <1>3, <1>4, <1>5, <1>6

\* The loop over the entries.
LEMMA ReportedOK ==
    ASSUME NEW k \in Nat, NEW nodes \in [1..k -> Monitored], NEW e, EmOK(e), NEW dt
    PROVE  /\ EmOK(reported(nodes, e, dt)) /\ Keeps(reported(nodes, e, dt), e)
           /\ (\E i \in 1..k : silenced(nodes[i], dt)) => PEER \in reported(nodes, e, dt).errorStatusBits
  <1> DEFINE Sound   == {x \in EmType : EmOK(x)}
             step    == [i \in 1..k |-> [x \in Sound |-> report(nodes[i], x, dt)]]
             pass(g) == [i \in 0..k |-> IF i = 0 THEN e ELSE report(nodes[i], g[i - 1], dt)]
             run     == CHOOSE g : g = pass(g)
             Q       == [i \in 0..k |->
                           {x \in EmType : /\ EmOK(x) /\ Keeps(x, e)
                                           /\ (\E j \in 1..i : silenced(nodes[j], dt))
                                                 => PEER \in x.errorStatusBits}]
  <1>1. Len(nodes) = k
    BY LenProperties
  <1>2. reported(nodes, e, dt) = run[k]
    BY <1>1 DEF reported
  <1>3. e \in Sound /\ \A x : EmOK(x) => x \in EmType
    BY DEF EmOK
  <1>4. \A x \in Sound, i \in 1..k : report(nodes[i], x, dt) \in Sound
    BY <1>3, ReportOK
  <1> HIDE DEF Sound
  <1>5. step \in [1..k -> [Sound -> Sound]]
    BY <1>4
  <1>6. PICK g \in [0..k -> Sound] : IsLoop(g, k, e, step)
    <2> HIDE DEF step
    <2> QED  BY <1>3, <1>5, LoopExists
  <1>7. g = pass(g)
    <2>1. ASSUME NEW i \in 1..k
          PROVE  g[i] = report(nodes[i], g[i - 1], dt)
      <3>1. g[i - 1] \in Sound
        OBVIOUS
      <3> QED  BY <1>6, <3>1 DEF IsLoop
    <2> QED  BY <1>6, <2>1 DEF IsLoop
  <1>8. run = pass(run)
    <2> HIDE DEF pass
    <2> QED  BY <1>7, Zenon
  <1> HIDE DEF run
  <1>9. run[0] = e /\ \A i \in 1..k : run[i] = report(nodes[i], run[i - 1], dt)
    BY <1>8
  <1>10. run[0] \in Q[0]
    BY <1>3, <1>9 DEF Keeps
  <1>11. ASSUME NEW i \in 1..k, run[i - 1] \in Q[i - 1]
         PROVE  run[i] \in Q[i]
    <2> DEFINE x == run[i - 1]
               y == run[i]
    <2>1. i - 1 \in 0..k /\ i \in 0..k
      OBVIOUS
    <2>2. /\ EmOK(x) /\ Keeps(x, e)
          /\ (\E j \in 1..(i - 1) : silenced(nodes[j], dt)) => PEER \in x.errorStatusBits
      BY <1>11, <2>1
    <2>3. y = report(nodes[i], x, dt)
      BY <1>9
    <2>4. /\ EmOK(y) /\ Keeps(y, x)
          /\ silenced(nodes[i], dt) => PEER \in y.errorStatusBits
      BY <2>2, <2>3, ReportOK
    <2> HIDE DEF x, y
    <2>5. Keeps(y, e)
      BY <2>2, <2>4 DEF Keeps
    <2>6. ASSUME NEW j \in 1..i, silenced(nodes[j], dt)
          PROVE  PEER \in y.errorStatusBits
      <3>1. CASE j = i
        BY <2>4, <2>6, <3>1
      <3>2. CASE j # i
        <4>1. j \in 1..(i - 1)
          BY <3>2
        <4> QED  BY <2>2, <2>4, <2>6, <4>1 DEF Keeps
      <3> QED  BY <3>1, <3>2
    <2>7. y \in Q[i]
      BY <1>3, <2>1, <2>4, <2>5, <2>6
    <2> QED  BY <2>7 DEF y
  <1> HIDE DEF Q
  <1>12. \A i \in 0..k : run[i] \in Q[i]
    BY <1>10, <1>11, LoopAssertions
  <1>13. run[k] \in Q[k]
    BY <1>12
  <1> QED  BY <1>2, <1>13 DEF Q
\* CO_HBconsumer_init leaves only entries that say nothing: the ones that it
\* is given are new, or they are what the dictionary still has.
LEMMA HbInitOK ==
    ASSUME NEW k \in Nat, DOMAIN Here.entries = 1..k,
           NEW nodes \in [1..k -> Monitored], Distinct(nodes),
           NEW entries \in [1..k -> [nodeId : Nat, time : 0..MaxAge]],
           \A i \in 1..k : \/ Blank(nodes[i])
                           \/ entries[i].nodeId = nodes[i].nodeId /\ entries[i].time = nodes[i].time
    PROVE  LET r == CO_HBconsumer_init(nodes, entries)
           IN  /\ r \in HbType /\ Distinct(r.monitoredNodes)
               /\ \A i \in 1..k : Blank(r.monitoredNodes[i])
               /\ r.NMTisPreOrOperationalPrev = FALSE /\ r.allMonitoredOperational = FALSE
  <1> DEFINE start   == [monitoredNodes |-> nodes, allMonitoredActive |-> FALSE,
                         allMonitoredOperational |-> FALSE, NMTisPreOrOperationalPrev |-> FALSE]
             Sound   == {x \in HbType : Distinct(x.monitoredNodes)}
             pass1(x, i) == CO_HBconsumer_initEntry(x, i, entries[i].nodeId, entries[i].time)
             step    == [i \in 1..k |-> [x \in Sound |-> pass1(x, i)]]
             pass(g) == [i \in 0..k |-> IF i = 0 THEN start ELSE pass1(g[i - 1], i)]
             run     == CHOOSE g : g = pass(g)
             Q       == [i \in 0..k |->
                           {x \in Sound : /\ \A j \in 1..i : Blank(x.monitoredNodes[j])
                                          /\ \A j \in (i + 1)..k : x.monitoredNodes[j] = nodes[j]
                                          /\ x.NMTisPreOrOperationalPrev = FALSE
                                          /\ x.allMonitoredOperational = FALSE}]
  <1>1. Len(entries) = k
    BY LenProperties
  <1>2. CO_HBconsumer_init(nodes, entries) = run[k]
    BY <1>1 DEF CO_HBconsumer_init
  <1>3. start \in Sound /\ start.monitoredNodes = nodes
        /\ start.NMTisPreOrOperationalPrev = FALSE /\ start.allMonitoredOperational = FALSE
    BY Zenon DEF HbType
  <1> HIDE DEF start
  <1>4. ASSUME NEW x \in Sound, NEW i \in 1..k
        PROVE  /\ pass1(x, i) \in Sound
               /\ Rewritten(pass1(x, i), x, i, entries[i].nodeId, entries[i].time)
    <2>1. entries[i].nodeId \in Nat /\ entries[i].time \in 0..MaxAge /\ i \in DOMAIN Here.entries
      OBVIOUS
    <2>2. x \in HbType /\ Distinct(x.monitoredNodes)
      OBVIOUS
    <2>3. Rewritten(pass1(x, i), x, i, entries[i].nodeId, entries[i].time)
      BY <2>1, <2>2, InitEntryOK
    <2> HIDE DEF pass1
    <2> QED  BY <2>3 DEF Rewritten
  <1> HIDE DEF pass1
  <1>5. step \in [1..k -> [Sound -> Sound]]
    <2> HIDE DEF Sound
    <2> QED  BY <1>4
  <1>6. PICK g \in [0..k -> Sound] : IsLoop(g, k, start, step)
    <2> HIDE DEF step, Sound
    <2> QED  BY <1>3, <1>5, LoopExists
  <1>7. g = pass(g)
    <2> HIDE DEF Sound
    <2>1. ASSUME NEW i \in 1..k
          PROVE  g[i] = pass1(g[i - 1], i)
      <3>1. g[i - 1] \in Sound
        OBVIOUS
      <3> QED  BY <1>6, <3>1 DEF IsLoop
    <2> QED  BY <1>6, <2>1 DEF IsLoop
  <1>8. run = pass(run)
    <2> HIDE DEF pass
    <2> QED  BY <1>7, Zenon
  <1> HIDE DEF run
  <1>9. run[0] = start /\ \A i \in 1..k : run[i] = pass1(run[i - 1], i)
    BY <1>8
  <1>10. run[0] \in Q[0]
    BY <1>3, <1>9
  <1>11. ASSUME NEW i \in 1..k, run[i - 1] \in Q[i - 1]
         PROVE  run[i] \in Q[i]
    <2> DEFINE x == run[i - 1]
               y == run[i]
    <2>1. i - 1 \in 0..k /\ i \in 0..k /\ (i - 1) + 1 = i
      OBVIOUS
    <2>2. /\ x \in Sound
          /\ \A j \in 1..(i - 1) : Blank(x.monitoredNodes[j])
          /\ \A j \in i..k : x.monitoredNodes[j] = nodes[j]
          /\ x.NMTisPreOrOperationalPrev = FALSE
          /\ x.allMonitoredOperational = FALSE
      BY <1>11, <2>1
    <2>3. /\ y \in Sound
          /\ y.allMonitoredOperational = x.allMonitoredOperational
          /\ y.NMTisPreOrOperationalPrev = x.NMTisPreOrOperationalPrev
          /\ \A j \in 1..k : j # i => y.monitoredNodes[j] = x.monitoredNodes[j]
          /\ \/ Blank(y.monitoredNodes[i])
             \/ duplicate(x.monitoredNodes, i, entries[i].nodeId, entries[i].time) /\ y = x
      <3>1. y = pass1(x, i) /\ DOMAIN Here.entries = 1..k
        BY <1>9
      <3> HIDE DEF x, y, Sound
      <3>2. y \in Sound /\ Rewritten(y, x, i, entries[i].nodeId, entries[i].time)
        BY <1>4, <2>2, <3>1
      <3> QED  BY <3>1, <3>2 DEF Rewritten
    <2> HIDE DEF x, y
    <2>4. Blank(y.monitoredNodes[i])
      <3>1. x.monitoredNodes[i] = nodes[i]
        BY <2>2
      <3>2. ASSUME duplicate(x.monitoredNodes, i, entries[i].nodeId, entries[i].time),
                   entries[i].nodeId = nodes[i].nodeId /\ entries[i].time = nodes[i].time
            PROVE  FALSE
        <4>1. Distinct(x.monitoredNodes) /\ i \in DOMAIN x.monitoredNodes
          BY <2>2 DEF HbType
        <4> HIDE DEF Sound
        <4> QED  BY <3>1, <3>2, <4>1 DEF Distinct, duplicate
      <3> HIDE DEF Sound
      <3> QED  BY <2>3, <3>1, <3>2
    <2>5. \A j \in 1..i : Blank(y.monitoredNodes[j])
      <3> HIDE DEF Sound
      <3>1. \A j \in 1..i : j = i \/ (j \in 1..(i - 1) /\ j \in 1..k /\ j # i)
        OBVIOUS
      <3> QED  BY <2>2, <2>3, <2>4, <3>1
    <2>6. \A j \in (i + 1)..k : y.monitoredNodes[j] = nodes[j]
      <3> HIDE DEF Sound
      <3>1. \A j \in (i + 1)..k : j \in i..k /\ j \in 1..k /\ j # i
        OBVIOUS
      <3> QED  BY <2>2, <2>3, <3>1
    <2>7. y \in Q[i]
      <3> HIDE DEF Sound
      <3> QED  BY <2>1, <2>2, <2>3, <2>5, <2>6
    <2> QED  BY <2>7 DEF y
  <1> HIDE DEF Q
  <1>12. \A i \in 0..k : run[i] \in Q[i]
    BY <1>10, <1>11, LoopAssertions
  <1>13. run[k] \in Q[k]
    BY <1>12
  <1> QED  BY <1>2, <1>13 DEF Q

\* r is what CO_HBconsumer_process concludes: the errors of the peers end only
\* when all of them are active.
ConcludedAs(r, e, nodes, active, operational, now) ==
    /\ r[1] \in HbType /\ r[1].monitoredNodes = nodes
    /\ r[1].allMonitoredActive = active /\ r[1].allMonitoredOperational = operational
    /\ r[1].NMTisPreOrOperationalPrev = now
    /\ EmOK(r[2]) /\ (~active => Keeps(r[2], e))

\* It is what conclude makes.
LEMMA ConcludeOK ==
    ASSUME NEW h \in HbType, NEW e, EmOK(e), NEW nodes \in [DOMAIN Here.entries -> Monitored],
           NEW active \in BOOLEAN, NEW operational \in BOOLEAN, NEW now \in BOOLEAN
    PROVE  ConcludedAs(conclude(h, e, nodes, active, operational, now),
                       e, nodes, active, operational, now)
  <1> DEFINE r == conclude(h, e, nodes, active, operational, now)
             g == [h EXCEPT !.monitoredNodes = nodes, !.allMonitoredActive = active,
                            !.allMonitoredOperational = operational, !.NMTisPreOrOperationalPrev = now]
             d == CO_error(e, FALSE, PEER, "NO_ERROR")
             f == CO_error(d, FALSE, "HB_CONSUMER_REMOTE_RESET", "NO_ERROR")
  <1>1. r[1] = g /\ r[2] = IF ~h.allMonitoredActive /\ active THEN f ELSE e
    BY DEF conclude, PEER
  <1>2. /\ g \in HbType /\ g.monitoredNodes = nodes
        /\ g.allMonitoredActive = active /\ g.allMonitoredOperational = operational
        /\ g.NMTisPreOrOperationalPrev = now
    BY Zenon DEF HbType
  <1> HIDE DEF g
  <1>3. {"HB_CONSUMER_REMOTE_RESET", PEER, "NO_ERROR"} \subseteq Names
        /\ PEER # FULL /\ "HB_CONSUMER_REMOTE_RESET" # FULL
    BY DEF Names, Codes, StatusBits, CommunicationBits, PEER, FULL
  <1>4. EmOK(d)
    BY <1>3, ErrorOK
  <1> HIDE DEF d
  <1>5. EmOK(f)
    BY <1>3, <1>4, ErrorOK
  <1>6. Keeps(e, e)
    BY DEF Keeps
  <1> HIDE DEF f, r
  <1> QED  BY <1>1, <1>2, <1>5, <1>6 DEF r, ConcludedAs
\* The entries of a peer are the same as long as its id and its time are.
LEMMA SameDistinct ==
    ASSUME NEW D, NEW old \in [D -> Monitored], NEW new \in [D -> Monitored], Distinct(old),
           \A i \in D : new[i].nodeId = old[i].nodeId /\ new[i].time = old[i].time
    PROVE  Distinct(new)
  <1> SUFFICES ASSUME NEW i \in D, NEW j \in D, i # j, new[i].time # 0, new[j].time # 0
               PROVE  new[i].nodeId # new[j].nodeId
    BY DEF Distinct
  <1>1. old[i].time # 0 /\ old[j].time # 0
    OBVIOUS
  <1>2. old[i].nodeId # old[j].nodeId
    BY <1>1 DEF Distinct
  <1> QED  BY <1>2

\* A consumer whose entries say nothing is sound, whatever the peers did.
LEMMA BlankHbOK ==
    ASSUME NEW h \in HbType, Distinct(h.monitoredNodes),
           \A i \in DOMAIN Here.entries : Blank(h.monitoredNodes[i]),
           NEW q, NEW s, NEW bits
    PROVE  EntriesOK(h, q, s) /\ Concluded(h, bits)
  <1>1. DOMAIN h.monitoredNodes = DOMAIN Here.entries
    BY DEF HbType
  <1>2. \A i \in DOMAIN Here.entries : h.monitoredNodes[i].HBstate \notin {"ACTIVE", "TIMEOUT"}
    BY DEF Blank
  <1>3. EntriesOK(h, q, s)
    BY <1>1, BlankOK DEF EntriesOK
  <1>4. inTimeout(h) = {}
    BY <1>1, <1>2 DEF inTimeout
  <1> QED  BY <1>1, <1>2, <1>3, <1>4 DEF Concluded

\* The consumer r[1] and the emergency object r[2] after a call.
ConsumerOK(r, q, s) ==
    /\ r[1] \in HbType /\ EntriesOK(r[1], q, s)
    /\ EmOK(r[2]) /\ Concluded(r[1], r[2].errorStatusBits)

\* A call of CO_HBconsumer_process, in its three cases.
LEMMA HbProcessOK ==
    ASSUME scenario \in DOMAIN Scenarios, NEW h \in HbType,
           NEW q \in [Here.peers -> 0..MaxAge], NEW s \in [Here.peers -> NmtStates],
           EntriesOK(h, q, s), NEW e, EmOK(e), inTimeout(h) # {} => PEER \in e.errorStatusBits,
           NEW dt \in Times, NEW now \in BOOLEAN
    PROVE  ConsumerOK(CO_HBconsumer_process(h, e, now, dt), [x \in DOMAIN q |-> capped(q[x] + dt)], s)
  <1> DEFINE old == h.monitoredNodes
             on  == h.NMTisPreOrOperationalPrev
             p   == [x \in DOMAIN q |-> capped(q[x] + dt)]
             r   == CO_HBconsumer_process(h, e, now, dt)
  <1>1. /\ old \in [DOMAIN Here.entries -> Monitored] /\ on \in BOOLEAN /\ Distinct(old)
        /\ \A i \in DOMAIN Here.entries : EntryOK(old[i], on, q, s)
    BY DEF HbType, EntriesOK
  <1>2. PICK k \in Nat : DOMAIN Here.entries = 1..k
    <2>1. Here.entries \in Seq([nodeId : Nat, time : 0..MaxAge])
      BY HereTypes
    <2>2. Len(Here.entries) \in Nat /\ DOMAIN Here.entries = 1..Len(Here.entries)
      BY <2>1, LenProperties
    <2> QED  BY <2>2
  <1>3. CASE now /\ on
    <2> DEFINE new  == [i \in DOMAIN old |-> monitor(old[i], dt)]
               used == {i \in DOMAIN new : new[i].HBstate # "UNCONFIGURED"}
               active == \A i \in used : new[i].HBstate = "ACTIVE"
               operational == \A i \in used : new[i].NMTstate = "OPERATIONAL"
               d    == reported(old, e, dt)
    <2>1. r = conclude(h, d, new, active, operational, now)
      BY <1>3 DEF CO_HBconsumer_process
    <2>2. ASSUME NEW i \in DOMAIN Here.entries
          PROVE  /\ new[i] \in Monitored /\ EntryOK(new[i], TRUE, p, s)
                 /\ new[i].nodeId = old[i].nodeId /\ new[i].time = old[i].time /\ ~new[i].CANrxNew
                 /\ new[i].HBstate = "TIMEOUT" => old[i].HBstate = "TIMEOUT" \/ silenced(old[i], dt)
      <3>1. EntryOK(old[i], TRUE, q, s) /\ old[i] \in Monitored /\ new[i] = monitor(old[i], dt)
        BY <1>1, <1>3
      <3> HIDE DEF new, p
      <3>2. /\ new[i] \in Monitored /\ EntryOK(new[i], TRUE, p, s)
            /\ new[i].nodeId = old[i].nodeId /\ new[i].time = old[i].time /\ ~new[i].CANrxNew
        BY <3>1, MonitorOK DEF p
      <3> QED  BY <3>1, <3>2, TimeoutIsNew
    <2>3. new \in [DOMAIN Here.entries -> Monitored]
      BY <1>1, <2>2
    <2>4. /\ EmOK(d) /\ Keeps(d, e)
          /\ (\E i \in DOMAIN Here.entries : silenced(old[i], dt)) => PEER \in d.errorStatusBits
      BY <1>1, <1>2, ReportedOK
    <2>5. active \in BOOLEAN /\ operational \in BOOLEAN
      OBVIOUS
    <2> HIDE DEF new, used, active, operational, d, r, p
    <2>6. /\ r[1] \in HbType /\ r[1].monitoredNodes = new
          /\ r[1].allMonitoredActive = active /\ r[1].allMonitoredOperational = operational
          /\ r[1].NMTisPreOrOperationalPrev = now
          /\ EmOK(r[2]) /\ (~active => Keeps(r[2], d))
      <3>1. ConcludedAs(r, d, new, active, operational, now)
        BY <2>1, <2>3, <2>4, <2>5, ConcludeOK
      <3> QED  BY <3>1 DEF ConcludedAs
    <2>7. Distinct(new)
      <3>1. \A i \in DOMAIN Here.entries : new[i].nodeId = old[i].nodeId /\ new[i].time = old[i].time
        BY <2>2
      <3> HIDE DEF old
      <3> QED  BY <1>1, <2>3, <3>1, SameDistinct
    <2>8. EntriesOK(r[1], p, s)
      BY <1>3, <2>2, <2>3, <2>6, <2>7 DEF EntriesOK
    <2>9. ASSUME NEW i \in DOMAIN Here.entries, new[i].HBstate = "TIMEOUT"
          PROVE  PEER \in r[2].errorStatusBits /\ ~active /\ ~operational
      <3>1. i \in used
        BY <2>3, <2>9 DEF used
      <3>2. ~active
        BY <2>9, <3>1 DEF active
      <3>3. new[i].NMTstate = "UNKNOWN"
        BY <2>2, <2>9 DEF EntryOK
      <3>4. ~operational
        BY <3>1, <3>3 DEF operational
      <3>5. PEER \in d.errorStatusBits
        <4>1. CASE silenced(old[i], dt)
          BY <2>4, <4>1
        <4>2. CASE old[i].HBstate = "TIMEOUT"
          <5>1. i \in inTimeout(h)
            BY <1>1, <4>2 DEF inTimeout
          <5> QED  BY <2>4, <5>1 DEF Keeps
        <4> QED  BY <2>2, <2>9, <4>1, <4>2
      <3> QED  BY <2>6, <3>2, <3>4, <3>5 DEF Keeps
    <2>10. ASSUME operational, NEW i \in DOMAIN Here.entries, new[i].HBstate = "ACTIVE"
           PROVE  new[i].NMTstate = "OPERATIONAL"
      <3>1. i \in used
        BY <2>3, <2>10 DEF used
      <3> QED  BY <2>10, <3>1 DEF operational
    <2>11. Concluded(r[1], r[2].errorStatusBits)
      <3>1. inTimeout(r[1]) # {} => \E i \in DOMAIN Here.entries : new[i].HBstate = "TIMEOUT"
        BY <2>3, <2>6 DEF inTimeout
      <3> QED  BY <2>3, <2>6, <2>9, <2>10, <3>1 DEF Concluded
    <2> QED  BY <2>6, <2>8, <2>11 DEF ConsumerOK, r, p
  <1>4. CASE ~(now /\ on) /\ (now \/ on)
    <2> DEFINE new == [i \in DOMAIN old |-> forget(old[i])]
    <2>1. r = conclude(h, e, new, FALSE, FALSE, now)
      BY <1>4 DEF CO_HBconsumer_process
    <2>2. ASSUME NEW i \in DOMAIN Here.entries
          PROVE  /\ new[i] \in Monitored /\ Blank(new[i])
                 /\ new[i].nodeId = old[i].nodeId /\ new[i].time = old[i].time
      BY <1>1, ForgetOK
    <2>3. new \in [DOMAIN Here.entries -> Monitored]
      BY <1>1, <2>2
    <2> HIDE DEF new, r, p
    <2>4. r[1] \in HbType /\ r[1].monitoredNodes = new /\ EmOK(r[2])
      <3>1. ConcludedAs(r, e, new, FALSE, FALSE, now)
        BY <2>1, <2>3, ConcludeOK
      <3> QED  BY <3>1 DEF ConcludedAs
    <2>5. Distinct(new)
      BY <1>1, <2>2, <2>3, SameDistinct
    <2>6. EntriesOK(r[1], p, s) /\ Concluded(r[1], r[2].errorStatusBits)
      BY <2>2, <2>4, <2>5, BlankHbOK
    <2> QED  BY <2>4, <2>6 DEF ConsumerOK, r, p
  <1>5. CASE ~now /\ ~on
    <2>1. r = conclude(h, e, old, TRUE, TRUE, now)
      BY <1>5 DEF CO_HBconsumer_process
    <2>2. \A i \in DOMAIN Here.entries : EntryOK(old[i], FALSE, p, s)
      BY <1>1, <1>5, IdleOK
    <2>3. \A i \in DOMAIN Here.entries : old[i].HBstate \notin {"ACTIVE", "TIMEOUT"}
      BY <1>1, <1>5 DEF EntryOK
    <2> HIDE DEF r, p
    <2>4. /\ r[1] \in HbType /\ r[1].monitoredNodes = old
          /\ r[1].NMTisPreOrOperationalPrev = now /\ EmOK(r[2])
      <3>1. ConcludedAs(r, e, old, TRUE, TRUE, now)
        BY <1>1, <2>1, ConcludeOK
      <3> QED  BY <3>1 DEF ConcludedAs
    <2>5. EntriesOK(r[1], p, s)
      BY <1>1, <1>5, <2>2, <2>4 DEF EntriesOK
    <2>6. inTimeout(r[1]) = {}
      BY <1>1, <2>3, <2>4 DEF inTimeout
    <2>7. Concluded(r[1], r[2].errorStatusBits)
      BY <1>1, <2>3, <2>4, <2>6 DEF Concluded
    <2> QED  BY <2>4, <2>5, <2>7 DEF ConsumerOK, r, p
  <1> QED  BY <1>3, <1>4, <1>5
\* The two objects of a node, p.hb and p.em, when its peers have been quiet
\* for q and have said s.
NodeOK(p, q, s) ==
    /\ EmOK(p.em) /\ p.hb \in HbType
    /\ EntriesOK(p.hb, q, s) /\ Concluded(p.hb, p.em.errorStatusBits)

\* CO_CANopenInit makes such objects.
LEMMA StartOK ==
    ASSUME NEW k \in Nat, DOMAIN Here.entries = 1..k,
           NEW valid \in BOOLEAN, NEW id \in Names, NEW inhibit \in Nat, NEW t,
           NEW nodes \in [1..k -> Monitored], Distinct(nodes),
           NEW entries \in [1..k -> [nodeId : Nat, time : 0..MaxAge]],
           \A i \in 1..k : \/ Blank(nodes[i])
                           \/ entries[i].nodeId = nodes[i].nodeId /\ entries[i].time = nodes[i].time,
           NEW q, NEW s
    PROVE  NodeOK(Start([valid |-> valid, id |-> id], inhibit, t, nodes, entries), q, s)
  <1> DEFINE r == Start([valid |-> valid, id |-> id], inhibit, t, nodes, entries)
             e == CO_EM_init([valid |-> valid, id |-> id], inhibit)
             h == CO_HBconsumer_init(nodes, entries)
  <1>1. r.em = e /\ r.hb = h
    BY DEF Start
  <1>2. EmOK(e)
    BY EmInitOK
  <1>3. h \in HbType /\ Distinct(h.monitoredNodes) /\ \A i \in 1..k : Blank(h.monitoredNodes[i])
    BY HbInitOK
  <1> HIDE DEF r, e, h
  <1>4. EntriesOK(h, q, s) /\ Concluded(h, e.errorStatusBits)
    BY <1>3, BlankHbOK
  <1> QED  BY <1>1, <1>2, <1>3, <1>4 DEF NodeOK, r

\* The entries of a scenario are numbered from 1.
LEMMA EntriesDomain ==
    ASSUME scenario \in DOMAIN Scenarios
    PROVE  \E k \in Nat : /\ DOMAIN Here.entries = 1..k
                          /\ Here.entries \in [1..k -> [nodeId : Nat, time : 0..MaxAge]]
  <1>1. Here.entries \in Seq([nodeId : Nat, time : 0..MaxAge])
    BY HereTypes
  <1>2. /\ Len(Here.entries) \in Nat /\ DOMAIN Here.entries = 1..Len(Here.entries)
        /\ Here.entries \in [1..Len(Here.entries) -> [nodeId : Nat, time : 0..MaxAge]]
    BY <1>1, LenProperties
  <1> QED  BY <1>2

\* The first start.
LEMMA FirstStartOK ==
    ASSUME scenario \in DOMAIN Scenarios, NEW q, NEW s
    PROVE  NodeOK(FirstStart, q, s)
  <1> DEFINE nodes == [i \in DOMAIN Here.entries |-> unmonitored]
             inhibit == CHOOSE t \in Here.inhibits : TRUE
  <1>1. PICK k \in Nat : /\ DOMAIN Here.entries = 1..k
                         /\ Here.entries \in [1..k -> [nodeId : Nat, time : 0..MaxAge]]
    BY EntriesDomain
  <1>2. inhibit \in Nat
    BY HereTypes, ChooseMember
  <1>3. unmonitored \in Monitored /\ unmonitored.time = 0 /\ Blank(unmonitored)
    BY TimesAssumption DEF unmonitored, Monitored, Blank, NmtStates
  <1>4. /\ nodes \in [1..k -> Monitored] /\ Distinct(nodes)
        /\ \A i \in 1..k : Blank(nodes[i])
    <2> HIDE DEF unmonitored
    <2> QED  BY <1>1, <1>3 DEF Distinct
  <1>5. "default" \in Names
    BY DEF Names
  <1> HIDE DEF nodes, inhibit
  <1>6. NodeOK(Start([valid |-> TRUE, id |-> "default"], inhibit, CHOOSE t \in Here.HBtimes : TRUE,
                     nodes, Here.entries), q, s)
    BY <1>1, <1>2, <1>4, <1>5, StartOK
  <1> QED  BY <1>6 DEF FirstStart, nodes, inhibit

\* The node after a call of CO_process, with or without a reset.
LEMMA RestartOK ==
    ASSUME scenario \in DOMAIN Scenarios, NEW reset, NEW e, NEW n, NEW h, NEW q, NEW s,
           EmOK(e), h \in HbType, EntriesOK(h, q, s), Concluded(h, e.errorStatusBits)
    PROVE  NodeOK(Restart(reset, e, n, h), q, s)
  <1>1. CASE reset = "RESET_APP"
    <2>1. Restart(reset, e, n, h) = FirstStart
      BY <1>1 DEF Restart
    <2> QED  BY <2>1, FirstStartOK
  <1>2. CASE reset = "RESET_COMM"
    <2> DEFINE nodes   == h.monitoredNodes
               entries == [i \in DOMAIN nodes |-> [nodeId |-> nodes[i].nodeId, time |-> nodes[i].time]]
    <2>1. PICK k \in Nat : DOMAIN Here.entries = 1..k
      BY EntriesDomain
    <2>2. nodes \in [1..k -> Monitored] /\ Distinct(nodes)
      BY <2>1 DEF HbType, EntriesOK
    <2>3. /\ entries \in [1..k -> [nodeId : Nat, time : 0..MaxAge]]
          /\ \A i \in 1..k : entries[i].nodeId = nodes[i].nodeId /\ entries[i].time = nodes[i].time
      BY <2>2 DEF Monitored
    <2>4. e.producerEnabled \in BOOLEAN /\ e.producerCanId \in Names /\ e.inhibitEmTime \in Nat
      BY DEF EmOK, EmType
    <2> HIDE DEF nodes, entries
    <2>5. NodeOK(Start([valid |-> e.producerEnabled, id |-> e.producerCanId], e.inhibitEmTime,
                       n.HBproducerTime, nodes, entries), q, s)
      BY <2>1, <2>2, <2>3, <2>4, StartOK
    <2>6. Restart(reset, e, n, h) =
            Start([valid |-> e.producerEnabled, id |-> e.producerCanId], e.inhibitEmTime,
                  n.HBproducerTime, nodes, entries)
      BY <1>2 DEF Restart, nodes, entries
    <2> QED  BY <2>5, <2>6
  <1>3. CASE reset \notin {"RESET_APP", "RESET_COMM"}
    <2>1. Restart(reset, e, n, h).em = e /\ Restart(reset, e, n, h).hb = h
      BY <1>3 DEF Restart
    <2> HIDE DEF Restart
    <2> QED  BY <2>1 DEF NodeOK
  <1> QED  BY <1>1, <1>2, <1>3

\* CO_CANmodule_process empties the buffer of the driver and no more.
LEMMA ResentOK ==
    ASSUME EmOK(em), lineBusy \in BOOLEAN
    PROVE  EmOK(resent(em)) /\ resent(em).errorStatusBits = em.errorStatusBits
  <1> DEFINE full == em.CANtxBuff.bufferFull /\ lineBusy
             buff == [em.CANtxBuff EXCEPT !.bufferFull = full]
             r    == resent(em)
  <1>1. r = [em EXCEPT !.CANtxBuff = buff]
    BY DEF resent, EmOK, EmType, Buffer
  <1>2. buff \in Buffer
    BY DEF EmOK, EmType, Buffer
  <1> HIDE DEF full, buff, r
  <1>3. /\ r \in EmType
        /\ r.fifo = em.fifo /\ r.fifoWrPtr = em.fifoWrPtr /\ r.fifoCount = em.fifoCount
        /\ r.log = em.log /\ r.errorStatusBits = em.errorStatusBits /\ r.unsure = em.unsure
        /\ r.belief = em.belief /\ r.fifoOverflow = em.fifoOverflow /\ r.lost = em.lost
    BY <1>1, <1>2, Zenon DEF EmOK, EmType
  <1>4. EmOK(r)
    BY <1>3, SameOK
  <1> QED  BY <1>3, <1>4 DEF r
\* A node with a peer in timeout does not become operational.
LEMMA NmtHeld ==
    ASSUME NEW n \in NmtType, NEW e, NEW dt \in Nat,
           "ERR_ON_BUSOFF_HB" \in n.NMTcontrol.flags, PEER \in e.errorStatusBits
    PROVE  CO_NMT_process(n, e, dt).nmt.operatingState # "OPERATIONAL"
  <1> DEFINE r     == CO_NMT_process(n, e, dt)
             timer == IF beat_due(n, remaining(n, dt)) /\ n.operatingState # "INITIALIZING"
                      THEN n.HBproducerTime ELSE remaining(n, dt)
             s     == after_command(awake(n), n.internalCommand)
             state == after_errors(s, n.operatingState, n.NMTcontrol, error_condition(n.NMTcontrol, e))
  <1>1. r.nmt = [n EXCEPT !.HBproducerTimer = timer, !.operatingStatePrev = awake(n),
                          !.internalCommand = "NO_COMMAND", !.operatingState = state]
    BY DEF CO_NMT_process, remaining, awake
  <1>2. error_condition(n.NMTcontrol, e)
    BY DEF error_condition, PEER
  <1> HIDE DEF s
  <1>3. state # "OPERATIONAL"
    BY <1>2 DEF after_errors
  <1> HIDE DEF state, timer, r
  <1>4. r.nmt.operatingState = state
    BY <1>1 DEF NmtType
  <1> QED  BY <1>3, <1>4 DEF r

\* What a call of CO_process makes of the whole node.
LEMMA ProcessedOK ==
    ASSUME BeatInv, PeerInv, NEW dt \in Times
    PROVE  LET p == Processed(dt)
               q == [x \in DOMAIN quiet |-> capped(quiet[x] + dt)]
           IN  /\ NodeOK(p.next, q, said)
               /\ "ERR_ON_BUSOFF_HB" \in nmt.NMTcontrol.flags /\ inTimeout(hb) # {}
                     => p.next.nmt.operatingState # "OPERATIONAL"
  <1> DEFINE before == NMTisPreOrOperational(nmt.operatingState)
             e == CO_EM_process(resent(em), CANerrorStatus, before, dt, lineBusy)
             n == CO_NMT_process(nmt, e, dt)
             after == NMTisPreOrOperational(n.nmt.operatingState)
             h == CO_HBconsumer_process(hb, e, after, dt)
             p == Processed(dt)
             q == [x \in DOMAIN quiet |-> capped(quiet[x] + dt)]
  <1>1. p.next = Restart(n.reset, h[2], n.nmt, h[1])
    BY DEF Processed
  <1>2. before \in BOOLEAN /\ after \in BOOLEAN /\ dt \in Nat
    BY TimesAssumption DEF NMTisPreOrOperational
  <1>3. /\ scenario \in DOMAIN Scenarios /\ nmt \in NmtType
        /\ quiet \in [Here.peers -> 0..MaxAge] /\ said \in [Here.peers -> NmtStates]
        /\ CANerrorStatus \in SUBSET STRING /\ lineBusy \in BOOLEAN
        /\ EmOK(em) /\ hb \in HbType /\ EntriesOK(hb, quiet, said)
        /\ inTimeout(hb) # {} => PEER \in em.errorStatusBits
    BY DEF BeatInv, PeerInv, Concluded
  <1> HIDE DEF before
  <1>4. EmOK(e) /\ (inTimeout(hb) # {} => PEER \in e.errorStatusBits)
    <2>1. EmOK(resent(em)) /\ resent(em).errorStatusBits = em.errorStatusBits
      BY <1>3, ResentOK
    <2>2. EmOK(e) /\ Keeps(e, resent(em))
      BY <1>2, <1>3, <2>1, EmProcessOK
    <2> HIDE DEF e
    <2> QED  BY <1>3, <2>1, <2>2 DEF Keeps
  <1> HIDE DEF e, after
  <1>5. ConsumerOK(h, q, said)
    BY <1>2, <1>3, <1>4, HbProcessOK
  <1> HIDE DEF h, q, p, n
  <1>6. NodeOK(p.next, q, said)
    BY <1>1, <1>3, <1>5, RestartOK DEF ConsumerOK
  <1>7. ASSUME "ERR_ON_BUSOFF_HB" \in nmt.NMTcontrol.flags, inTimeout(hb) # {}
        PROVE  p.next.nmt.operatingState # "OPERATIONAL"
    <2>1. n.nmt.operatingState # "OPERATIONAL"
      BY <1>2, <1>3, <1>4, <1>7, NmtHeld DEF n
    <2>2. CASE n.reset = "RESET_APP"
      BY <1>1, <2>2 DEF Restart, FirstStart, Start, CO_NMT_init
    <2>3. CASE n.reset = "RESET_COMM"
      BY <1>1, <2>3 DEF Restart, Start, CO_NMT_init
    <2>4. CASE n.reset \notin {"RESET_APP", "RESET_COMM"}
      <3>1. p.next.nmt = n.nmt
        BY <1>1, <2>4 DEF Restart
      <3> QED  BY <2>1, <3>1
    <2> QED  BY <2>2, <2>3, <2>4
  <1> QED  BY <1>6, <1>7 DEF p, q

\* The invariant in the next state, of a step that stays in its scenario.
LEMMA PeerNext ==
    ASSUME scenario' = scenario,
           quiet' \in [Here.peers -> 0..MaxAge], said' \in [Here.peers -> NmtStates],
           CANerrorStatus' \in SUBSET STRING, lineBusy' \in BOOLEAN,
           EmOK(em'), hb' \in HbType, EntriesOK(hb', quiet', said'),
           Concluded(hb', em'.errorStatusBits),
           "ERR_ON_BUSOFF_HB" \in nmt'.NMTcontrol.flags /\ overdue' # {}
              => nmt'.operatingState # "OPERATIONAL"
    PROVE  PeerInv'
  <1>1. Here' = Here
    BY DEF Here
  <1>2. (hb \in HbType)'
    BY <1>1 DEF HbType
  <1>3. EntriesOK(hb, quiet, said)'
    BY <1>1 DEF EntriesOK, EntryOK
  <1>4. Concluded(hb, em.errorStatusBits)'
    BY DEF Concluded, inTimeout
  <1>5. EmOK(em)'
    OBVIOUS
  <1> QED  BY <1>1, <1>2, <1>3, <1>4, <1>5 DEF PeerInv

\* A call of CO_process.
LEMMA PeerProcess ==
    ASSUME BeatInv, PeerInv, BeatInv', NEW dt \in Times, Process(dt)
    PROVE  PeerInv'
  <1> DEFINE p == Processed(dt)
             q == [x \in DOMAIN quiet |-> capped(quiet[x] + dt)]
  <1>1. /\ NodeOK(p.next, q, said)
        /\ "ERR_ON_BUSOFF_HB" \in nmt.NMTcontrol.flags /\ inTimeout(hb) # {}
              => p.next.nmt.operatingState # "OPERATIONAL"
    BY ProcessedOK
  <1>2. /\ em' = p.next.em /\ nmt' = p.next.nmt /\ hb' = p.next.hb /\ quiet' = q
        /\ overdue' = inTimeout(hb) \cap inTimeout(p.next.hb)
        /\ UNCHANGED <<scenario, CANerrorStatus, lineBusy, said, events>>
    <2> HIDE DEF p
    <2>1. p = Processed(dt)
      BY DEF p
    <2> QED  BY <2>1 DEF Process
  <1>3. q \in [Here.peers -> 0..MaxAge]
    BY Aged DEF PeerInv
  <1> HIDE DEF p, q
  <1>4. /\ EmOK(em') /\ hb' \in HbType /\ EntriesOK(hb', quiet', said')
        /\ Concluded(hb', em'.errorStatusBits)
    BY <1>1, <1>2 DEF NodeOK
  <1>5. nmt'.NMTcontrol = nmt.NMTcontrol
    <2>1. nmt \in NmtType /\ nmt' \in NmtType
      BY <1>2, SameScenario DEF BeatInv
    <2> QED  BY <2>1 DEF NmtType
  <1>6. "ERR_ON_BUSOFF_HB" \in nmt'.NMTcontrol.flags /\ overdue' # {}
           => nmt'.operatingState # "OPERATIONAL"
    BY <1>1, <1>2, <1>5
  <1> QED  BY <1>2, <1>3, <1>4, <1>6, PeerNext DEF PeerInv
\* A write of 0x1016 leaves the other entries what they are.
LEMMA RewrittenOK ==
    ASSUME NEW h \in HbType, NEW i \in DOMAIN Here.entries, NEW id, NEW t, NEW r,
           Rewritten(r, h, i, id, t), NEW q, NEW s, EntriesOK(h, q, s),
           NEW bits, Concluded(h, bits)
    PROVE  EntriesOK(r, q, s) /\ Concluded(r, bits)
  <1>1. /\ r \in HbType /\ Distinct(r.monitoredNodes)
        /\ r.allMonitoredActive = h.allMonitoredActive
        /\ r.allMonitoredOperational = h.allMonitoredOperational
        /\ r.NMTisPreOrOperationalPrev = h.NMTisPreOrOperationalPrev
        /\ DOMAIN r.monitoredNodes = DOMAIN Here.entries
        /\ DOMAIN h.monitoredNodes = DOMAIN Here.entries
    BY DEF Rewritten, HbType
  <1>2. \A j \in DOMAIN Here.entries :
           r.monitoredNodes[j] = h.monitoredNodes[j] \/ Blank(r.monitoredNodes[j])
    BY DEF Rewritten
  <1>3. \A j \in DOMAIN Here.entries : EntryOK(r.monitoredNodes[j], r.NMTisPreOrOperationalPrev, q, s)
    BY <1>1, <1>2, BlankOK DEF EntriesOK
  <1>4. \A j \in DOMAIN Here.entries :
           r.monitoredNodes[j].HBstate \in {"ACTIVE", "TIMEOUT"} => r.monitoredNodes[j] = h.monitoredNodes[j]
    BY <1>2 DEF Blank
  <1>5. inTimeout(r) \subseteq inTimeout(h)
    BY <1>1, <1>4 DEF inTimeout
  <1>6. Concluded(r, bits)
    BY <1>1, <1>4, <1>5 DEF Concluded
  <1> QED  BY <1>1, <1>3, <1>6 DEF EntriesOK

\* An emergency object that keeps the errors of the peers keeps the node sound.
LEMMA PeerEm ==
    ASSUME PeerInv, EmOK(em'), Keeps(em', em),
           UNCHANGED <<scenario, nmt, hb, CANerrorStatus, lineBusy, quiet, said, overdue>>
    PROVE  PeerInv'
  <1>1. Concluded(hb', em'.errorStatusBits)
    BY DEF PeerInv, Concluded, Keeps
  <1> QED  BY <1>1, PeerNext DEF PeerInv

\* The writes to the objects of the emergency producer.
LEMMA WritesOK ==
    ASSUME scenario \in DOMAIN Scenarios, EmOK(em), WriteEmergencyObjects
    PROVE  EmOK(em') /\ Keeps(em', em)
  <1>0. em \in EmType
    BY DEF EmOK
  <1>1. CASE em' = OD_write_1003(em)
    <2>1. OD_write_1003(em).errorStatusBits = em.errorStatusBits
      BY <1>0 DEF OD_write_1003, EmType
    <2> QED  BY <1>1, <2>1, Write1003OK DEF Keeps
  <1>2. CASE \E c \in Here.cobIds : em' = OD_write_1014(em, c)
    <2>1. PICK c \in Here.cobIds : em' = OD_write_1014(em, c)
      BY <1>2
    <2>2. c \in [valid : BOOLEAN, id : STRING]
      BY HereTypes
    <2>3. OD_write_1014(em, c).errorStatusBits = em.errorStatusBits
      BY <1>0 DEF OD_write_1014, EmType
    <2> QED  BY <2>1, <2>2, <2>3, Write1014OK DEF Keeps
  <1>3. CASE \E t \in Here.inhibits : em' = OD_write_1015(em, t)
    <2>1. PICK t \in Here.inhibits : em' = OD_write_1015(em, t)
      BY <1>3
    <2>2. t \in Nat
      BY HereTypes
    <2>3. OD_write_1015(em, t).errorStatusBits = em.errorStatusBits
      BY <1>0 DEF OD_write_1015, EmType
    <2> QED  BY <2>1, <2>2, <2>3, Write1015OK DEF Keeps
  <1>4. CASE \E b \in Here.statusBits :
                em' = OD_write_statusBits(em, (em.errorStatusBits \ Here.errors) \cup b)
    <2>1. PICK b \in Here.statusBits :
             em' = OD_write_statusBits(em, (em.errorStatusBits \ Here.errors) \cup b)
      BY <1>4
    <2> DEFINE bits == (em.errorStatusBits \ Here.errors) \cup b
    <2>2. /\ bits \in SUBSET Names
          /\ FULL \in bits <=> FULL \in em.errorStatusBits
          /\ PEER \in em.errorStatusBits => PEER \in bits
      <3>1. /\ b \subseteq STRING \ {FULL} /\ FULL \notin Here.errors /\ PEER \notin Here.errors
            /\ em.errorStatusBits \subseteq Names /\ STRING \subseteq Names
        BY <1>0, HereTypes DEF FULL, PEER, EmType, Names
      <3> QED  BY <3>1
    <2> HIDE DEF bits
    <2>3. em' = OD_write_statusBits(em, bits)
      BY <2>1 DEF bits
    <2>4. OD_write_statusBits(em, bits).errorStatusBits = bits
      BY <1>0 DEF OD_write_statusBits, EmType
    <2> QED  BY <2>2, <2>3, <2>4, WriteStatusOK DEF Keeps
  <1> QED  BY <1>1, <1>2, <1>3, <1>4 DEF WriteEmergencyObjects

\* What the surroundings of the node do.
LEMMA PeerSurroundings ==
    ASSUME BeatInv, PeerInv, Surroundings
    PROVE  PeerInv'
  <1>0. /\ scenario \in DOMAIN Scenarios /\ nmt \in NmtType
        /\ quiet \in [Here.peers -> 0..MaxAge] /\ said \in [Here.peers -> NmtStates]
        /\ CANerrorStatus \in SUBSET STRING /\ lineBusy \in BOOLEAN
        /\ EmOK(em) /\ hb \in HbType /\ EntriesOK(hb, quiet, said)
        /\ Concluded(hb, em.errorStatusBits)
        /\ "ERR_ON_BUSOFF_HB" \in nmt.NMTcontrol.flags /\ overdue # {} => nmt.operatingState # "OPERATIONAL"
    BY DEF BeatInv, PeerInv
  <1>1. ASSUME NEW c \in Here.commands, Command(c)
        PROVE  PeerInv'
    <2>1. /\ nmt' = [nmt EXCEPT !.internalCommand = c]
          /\ UNCHANGED <<scenario, em, hb, CANerrorStatus, lineBusy, quiet, said, overdue>>
      BY <1>1 DEF Command, CO_NMT_receive, ghosts
    <2>2. nmt'.NMTcontrol = nmt.NMTcontrol /\ nmt'.operatingState = nmt.operatingState
      BY <1>0, <2>1 DEF NmtType
    <2> QED  BY <1>0, <2>1, <2>2, PeerNext
  <1>2. ASSUME NEW p \in Here.peers, NEW s \in NmtStates \ {"STOPPED"}, PeerHeartbeat(p, s)
        PROVE  PeerInv'
    <2> DEFINE r == CO_HBcons_receive(hb, p, s)
    <2>1. /\ hb' = r /\ said' = [said EXCEPT ![p] = s] /\ quiet' = [quiet EXCEPT ![p] = 0]
          /\ UNCHANGED <<scenario, em, nmt, CANerrorStatus, lineBusy, overdue>>
      BY <1>2 DEF PeerHeartbeat
    <2>2. /\ r \in HbType /\ EntriesOK(r, [quiet EXCEPT ![p] = 0], [said EXCEPT ![p] = s])
          /\ \A bits : Concluded(hb, bits) => Concluded(r, bits)
      BY <1>0, ReceiveOK
    <2> HIDE DEF r
    <2>3. said' \in [Here.peers -> NmtStates] /\ quiet' \in [Here.peers -> 0..MaxAge]
      BY <1>0, <2>1, TimesAssumption
    <2>4. Concluded(hb', em'.errorStatusBits)
      BY <1>0, <2>1, <2>2
    <2> QED  BY <1>0, <2>1, <2>2, <2>3, <2>4, PeerNext
  <1>3. ASSUME NEW set \in BOOLEAN, NEW b \in Here.errors, ApplicationError(set, b)
        PROVE  PeerInv'
    <2>1. /\ em' = CO_error(em, set, b, "DEVICE_SPECIFIC")
          /\ UNCHANGED <<scenario, nmt, hb, CANerrorStatus, lineBusy, quiet, said, overdue>>
      BY <1>3 DEF ApplicationError, ghosts
    <2>2. /\ b \in Names /\ b # FULL /\ b # PEER
          /\ "DEVICE_SPECIFIC" \in Names /\ "DEVICE_SPECIFIC" # "NO_ERROR"
      BY <1>0, HereTypes DEF Names, Codes, FULL, PEER
    <2>3. EmOK(em') /\ Keeps(em', em)
      BY <1>0, <2>1, <2>2, ErrorOK
    <2> QED  BY <2>1, <2>3, PeerEm
  <1>4. ASSUME NEW f \in Here.flags, CANstatus(f)
        PROVE  PeerInv'
    <2>1. f \in SUBSET STRING
      BY <1>0, HereTypes
    <2>2. /\ CANerrorStatus' = f
          /\ UNCHANGED <<scenario, em, nmt, hb, lineBusy, quiet, said, overdue>>
      BY <1>4 DEF CANstatus, node, ghosts
    <2> QED  BY <1>0, <2>1, <2>2, PeerNext
  <1>5. ASSUME Line
        PROVE  PeerInv'
    <2>1. /\ lineBusy' \in BOOLEAN
          /\ UNCHANGED <<scenario, em, nmt, hb, CANerrorStatus, quiet, said, overdue>>
      BY <1>0, <1>5 DEF Line, node, ghosts
    <2> QED  BY <1>0, <2>1, PeerNext
  <1>6. ASSUME WriteEmergencyObjects
        PROVE  PeerInv'
    <2>1. UNCHANGED <<scenario, nmt, hb, CANerrorStatus, lineBusy, quiet, said, overdue>>
      BY <1>6 DEF WriteEmergencyObjects, ghosts
    <2>2. EmOK(em') /\ Keeps(em', em)
      BY <1>0, <1>6, WritesOK
    <2> QED  BY <2>1, <2>2, PeerEm
  <1>7. ASSUME NEW i \in DOMAIN hb.monitoredNodes, NEW entry \in Here.written,
               Write1016(i, entry.nodeId, entry.time)
        PROVE  PeerInv'
    <2> DEFINE r == CO_HBconsumer_initEntry(hb, i, entry.nodeId, entry.time)
    <2>1. /\ hb' = r /\ overdue' = overdue \ {i}
          /\ UNCHANGED <<scenario, em, nmt, CANerrorStatus, lineBusy, quiet, said>>
      BY <1>7 DEF Write1016
    <2>2. i \in DOMAIN Here.entries /\ entry.nodeId \in Nat /\ entry.time \in 0..MaxAge
      BY <1>0, HereTypes DEF HbType
    <2>3. Distinct(hb.monitoredNodes)
      BY <1>0 DEF EntriesOK
    <2>4. Rewritten(r, hb, i, entry.nodeId, entry.time)
      BY <1>0, <2>2, <2>3, InitEntryOK
    <2> HIDE DEF r
    <2>5. EntriesOK(r, quiet, said) /\ Concluded(r, em.errorStatusBits)
      BY <1>0, <2>2, <2>4, RewrittenOK
    <2>6. r \in HbType
      BY <2>4 DEF Rewritten
    <2>7. overdue' # {} => overdue # {}
      BY <2>1
    <2> QED  BY <1>0, <2>1, <2>5, <2>6, <2>7, PeerNext
  <1>8. ASSUME NEW t \in Here.HBtimes, Write1017(t)
        PROVE  PeerInv'
    <2>1. /\ nmt' = [nmt EXCEPT !.HBproducerTime = t, !.HBproducerTimer = 0]
          /\ UNCHANGED <<scenario, em, hb, CANerrorStatus, lineBusy, quiet, said, overdue>>
      BY <1>8 DEF Write1017, OD_write_1017
    <2>2. nmt'.NMTcontrol = nmt.NMTcontrol /\ nmt'.operatingState = nmt.operatingState
      BY <1>0, <2>1 DEF NmtType
    <2> QED  BY <1>0, <2>1, <2>2, PeerNext
  <1> QED  BY <1>1, <1>2, <1>3, <1>4, <1>5, <1>6, <1>7, <1>8 DEF Surroundings

\* Every step of the node keeps the two invariants together.
LEMMA PeerStep ==
    ASSUME BeatInv, PeerInv, [Next]_vars
    PROVE  BeatInv' /\ PeerInv'
  <1>1. BeatInv'
    BY BeatStep
  <1>2. ASSUME NEW dt \in Times, Process(dt)
        PROVE  PeerInv'
    BY <1>1, <1>2, PeerProcess
  <1>3. ASSUME Surroundings
        PROVE  PeerInv'
    BY <1>3, PeerSurroundings
  <1>4. ASSUME UNCHANGED vars
        PROVE  PeerInv'
    <2>1. UNCHANGED <<scenario, em, nmt, hb, CANerrorStatus, lineBusy, quiet, said, overdue>>
      BY <1>4 DEF vars
    <2> QED  BY <2>1, PeerNext DEF PeerInv
  <1> QED  BY <1>1, <1>2, <1>3, <1>4 DEF Next

\* A node that starts has heard of nobody.
LEMMA PeerStart == Init => PeerInv
  <1> SUFFICES ASSUME Init
               PROVE  PeerInv
    OBVIOUS
  <1>1. /\ scenario \in DOMAIN Scenarios /\ em = FirstStart.em /\ hb = FirstStart.hb
        /\ CANerrorStatus = {} /\ lineBusy = FALSE /\ overdue = {}
        /\ quiet = [p \in Here.peers |-> MaxAge] /\ said = [p \in Here.peers |-> "INITIALIZING"]
    BY DEF Init
  <1>2. NodeOK(FirstStart, quiet, said)
    BY <1>1, FirstStartOK
  <1>3. quiet \in [Here.peers -> 0..MaxAge] /\ said \in [Here.peers -> NmtStates]
    BY <1>1, TimesAssumption DEF NmtStates
  <1> QED  BY <1>1, <1>2, <1>3 DEF NodeOK, PeerInv
\* Object 0x1003 gives the messages since it was cleared, newest first, for
\* every size of the buffer, however many messages were lost for want of room.
THEOREM NodeHistory == Spec => []HistoryIsTrue
  <1>1. BeatInv /\ PeerInv /\ [Next]_vars => BeatInv' /\ PeerInv'
    BY PeerStep
  <1>2. PeerInv => HistoryIsTrue
    BY HistoryRead DEF PeerInv, HistoryIsTrue
  <1>3. Init => BeatInv /\ PeerInv
    BY BeatStart, PeerStart
  <1> QED  BY <1>1, <1>2, <1>3, PTL DEF Spec

\* A listener of the emergency messages knows the error conditions, and is
\* told of every overflow of the queue, for every size of the buffer and every
\* order of errors, CAN states, resets and writes.
THEOREM NodeEmergencies == Spec => []EmergenciesTellTheErrors
  <1>1. BeatInv /\ PeerInv /\ [Next]_vars => BeatInv' /\ PeerInv'
    BY PeerStep
  <1>2. PeerInv => EmergenciesTellTheErrors
    <2> SUFFICES ASSUME PeerInv
                 PROVE  EmergenciesTellTheErrors
      OBVIOUS
    <2>1. Tells(em) /\ em \in EmType
      BY DEF PeerInv, EmOK
    <2>2. FULL \in Tracked
      BY DEF FULL, Tracked, StatusBits, CommunicationBits, GenericBits, InfoBits
    <2>3. \A b \in StatusBits \ (em.unsure \cup {"CAN_BUS_WARNING", "WRONG_ERROR_REPORT"}) :
             b \in em.belief <=> b \in em.errorStatusBits
      BY <2>1, Zenon DEF Tells, Tracked
    <2>4. em.lost => em.fifoOverflow \in {1, 2}
      BY <2>1 DEF Tells, EmType
    <2>5. em.fifoOverflow = 2 => FULL \in em.belief
      BY <2>1, <2>2, Zenon DEF Tells
    <2> QED  BY <2>3, <2>4, <2>5, Zenon DEF EmergenciesTellTheErrors, FULL
  <1>3. Init => BeatInv /\ PeerInv
    BY BeatStart, PeerStart
  <1> QED  BY <1>1, <1>2, <1>3, PTL DEF Spec

\* A silent peer is noticed within its time and one call of CO_process, a
\* live one never is, and a peer in timeout keeps the node from being
\* operational: for every set of peers, consumer times and cycle times, and
\* whatever is written to 0x1016 meanwhile.
THEOREM NodePeers == Spec => []DeadPeersAreNoticed
  <1>1. BeatInv /\ PeerInv /\ [Next]_vars => BeatInv' /\ PeerInv'
    BY PeerStep
  <1>2. PeerInv => DeadPeersAreNoticed
    <2> SUFFICES ASSUME PeerInv, NEW i \in DOMAIN hb.monitoredNodes
                 PROVE  LET n == hb.monitoredNodes[i] IN
                   /\ n.HBstate = "ACTIVE" => quiet[n.nodeId] < n.time + MaxTime
                   /\ n.HBstate = "TIMEOUT" =>
                        /\ n.CANrxNew \/ quiet[n.nodeId] >= n.time
                        /\ CO_isError(em, "HEARTBEAT_CONSUMER")
                        /\ ~hb.allMonitoredActive /\ ~hb.allMonitoredOperational
                        /\ "ERR_ON_BUSOFF_HB" \in nmt.NMTcontrol.flags /\ i \in overdue
                             => nmt.operatingState # "OPERATIONAL"
                   /\ n.HBstate = "ACTIVE" /\ ~n.CANrxNew /\ hb.allMonitoredOperational
                        => said[n.nodeId] = "OPERATIONAL"
      BY DEF DeadPeersAreNoticed
    <2> DEFINE n == hb.monitoredNodes[i]
               on == hb.NMTisPreOrOperationalPrev
    <2>1. /\ n \in Monitored /\ on \in BOOLEAN /\ EntryOK(n, on, quiet, said)
          /\ Concluded(hb, em.errorStatusBits) /\ quiet \in [Here.peers -> 0..MaxAge]
      BY DEF PeerInv, HbType, EntriesOK
    <2>2. /\ n.time \in 0..MaxAge /\ n.timeoutTimer \in Nat /\ n.CANrxNew \in BOOLEAN
          /\ MaxAge \in Nat /\ MaxTime \in Nat
      BY <2>1, TimesAssumption, MaxTimeIsLongest DEF Monitored
    <2> HIDE DEF on
    <2>3. ASSUME n.HBstate = "ACTIVE"
          PROVE  quiet[n.nodeId] < n.time + MaxTime
      <3>1. on /\ n.nodeId \in Here.peers /\ n.time # 0
        BY <2>1, <2>3 DEF EntryOK
      <3>2. quiet[n.nodeId] \in 0..MaxAge
        BY <2>1, <3>1
      <3>3. CASE n.CANrxNew
        <4>1. quiet[n.nodeId] = 0
          BY <2>1, <3>1, <3>3 DEF EntryOK
        <4> QED  BY <2>2, <3>1, <4>1
      <3>4. CASE ~n.CANrxNew
        <4>1. n.timeoutTimer < n.time /\ quiet[n.nodeId] <= n.timeoutTimer + MaxTime
          BY <2>1, <2>3, <3>4 DEF EntryOK
        <4> QED  BY <2>2, <3>2, <4>1
      <3> QED  BY <3>3, <3>4
    <2>4. ASSUME n.HBstate = "TIMEOUT"
          PROVE  /\ n.CANrxNew \/ quiet[n.nodeId] >= n.time
                 /\ CO_isError(em, "HEARTBEAT_CONSUMER")
                 /\ ~hb.allMonitoredActive /\ ~hb.allMonitoredOperational
                 /\ "ERR_ON_BUSOFF_HB" \in nmt.NMTcontrol.flags /\ i \in overdue
                      => nmt.operatingState # "OPERATIONAL"
      <3>1. i \in inTimeout(hb)
        BY <2>4 DEF inTimeout
      <3>2. PEER \in em.errorStatusBits /\ ~hb.allMonitoredActive /\ ~hb.allMonitoredOperational
        BY <2>1, <3>1 DEF Concluded
      <3>3. CO_isError(em, "HEARTBEAT_CONSUMER")
        BY <3>2 DEF CO_isError, PEER
      <3>4. n.CANrxNew \/ quiet[n.nodeId] >= n.time
        BY <2>1, <2>4 DEF EntryOK
      <3> QED  BY <3>2, <3>3, <3>4 DEF PeerInv
    <2>5. ASSUME n.HBstate = "ACTIVE", ~n.CANrxNew, hb.allMonitoredOperational
          PROVE  said[n.nodeId] = "OPERATIONAL"
      BY <2>1, <2>5 DEF Concluded, EntryOK
    <2> QED  BY <2>3, <2>4, <2>5
  <1>3. Init => BeatInv /\ PeerInv
    BY BeatStart, PeerStart
  <1> QED  BY <1>1, <1>2, <1>3, PTL DEF Spec

=============================================================================

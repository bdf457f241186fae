------------------------- MODULE CoSdoServerProofs -------------------------
(***************************************************************************)
(* What CANopenNode's SDO server promises to every client, for every       *)
(* dictionary, every size of the buffer and of the sub-blocks and every    *)
(* timeout: it stays inside its buffer, it accounts for every byte, it     *)
(* writes a variable as a whole and it gives a silent client up in time.   *)
(***************************************************************************)
EXTENDS CoSdoServer, SequenceTheorems, LoopProofs, TLAPS

Stream == [attribute : SUBSET {"SDO_R", "SDO_W", "STR"}, dataLength : Nat, dataOffset : Nat]
Server ==
    [valid : {TRUE}, state : CO_SDO_state, mux : Nat \X Nat, stream : Stream,
     rxNew : BOOLEAN, rx : Heard, sizeInd : Nat, sizeTran : Nat, toggle : BOOLEAN,
     finished : BOOLEAN, timeoutTimer : 0..SDOtimeoutTime, buf : Seq(Byte), bufOffsetRd : Nat,
     block_timeoutTimer : 0..block_SDOtimeoutTime, block_seqno : 0..127, block_blksize : Byte,
     block_noData : 0..7, block_crcEnabled : BOOLEAN, block_crc : Seq(Byte)]
Objects == DOMAIN InitialOd
Dictionary ==
    {o \in [Objects -> Seq(Byte)] : \A m \in Objects : Len(o[m]) = Len(InitialOd[m])}

-----------------------------------------------------------------------------
(* The inductive invariant, about a server s and a dictionary o.           *)

Resting == {"IDLE", "ABORT"}

\* The states that a call of CO_SDOserver_process passes through but never
\* returns in.
Passing ==
    {"DOWNLOAD_LOCAL_TRANSFER", "UPLOAD_LOCAL_TRANSFER", "DOWNLOAD_INITIATE_REQ",
     "UPLOAD_INITIATE_REQ", "DOWNLOAD_BLK_INITIATE_REQ", "UPLOAD_BLK_INITIATE_REQ"}

\* In every state.
Basic(s, o) ==
    /\ s \in Server /\ o \in Dictionary
    /\ Len(s.buf) <= BUFFER_SIZE /\ s.bufOffsetRd <= Len(s.buf)

\* The size of the variable has not been replaced by that of a string.
Fresh(s, o) == s.stream.dataLength = Len(o[s.mux])

\* A download was accepted and has not begun.
Opened(s, o) == s.stream.dataOffset = 0 /\ Fresh(s, o)

\* A download: every byte is either written or in the buffer.
Filled(s, o) ==
    /\ s.bufOffsetRd = 0 /\ s.stream.dataOffset + Len(s.buf) = s.sizeTran
    /\ Len(s.buf) + 2 <= BUFFER_SIZE /\ Fresh(s, o)

Segmented(s, o) == Filled(s, o) /\ Len(s.buf) + 9 <= BUFFER_SIZE

Subblock(s, o) ==
    /\ Filled(s, o) /\ s.finished = FALSE /\ s.rxNew = FALSE
    /\ s.block_seqno < s.block_blksize
    /\ Len(s.buf) + 7 * (s.block_blksize - s.block_seqno) + 2 <= BUFFER_SIZE

SubblockEnd(s, o) ==
    /\ Filled(s, o) /\ s.rxNew = FALSE
    /\ s.finished = TRUE => Len(s.buf) >= 7

\* An upload: the buffer holds the bytes of the variable c that follow its
\* first b bytes.
Window(buf, c, b) ==
    /\ b >= 0 /\ b + Len(buf) <= Len(c)
    /\ \A i \in 1..Len(buf) : buf[i] = c[b + i]

is_text(m) == "STR" \in Entries[m[1]].sub[m[2]].attribute
Length(m, o) == IF is_text(m) THEN string_length(o[m]) ELSE Len(o[m])
base(s) == s.sizeTran - s.bufOffsetRd
end(s) == s.sizeTran - s.bufOffsetRd + Len(s.buf)

\* There is more of the variable to be read, from end(s) on.
Unread(s, o) ==
    /\ Fresh(s, o) /\ s.stream.dataOffset = end(s)
    /\ s.bufOffsetRd % 7 = 0
    /\ is_text(s.mux) => \A i \in 1..end(s) : o[s.mux][i] # 0

\* The variable was read to its end.
Ended(s, o) ==
    end(s) = Length(s.mux, o) \/ (end(s) > BUFFER_SIZE /\ end(s) = Length(s.mux, o) + 1)

Loaded(s, o) ==
    /\ Window(s.buf, o[s.mux], base(s))
    /\ s.stream.attribute = Entries[s.mux[1]].sub[s.mux[2]].attribute
    /\ s.finished = FALSE => Unread(s, o) /\ Len(s.buf) = BUFFER_SIZE
    /\ s.finished = TRUE => Ended(s, o)

\* A sub-block of the size that the client asked for, count segments of it
\* still to be sent.
Asked(s, count) ==
    /\ s.block_blksize \in 1..127 /\ s.block_blksize + SDOtimeoutTime <= Patience
    /\ s.finished = FALSE => Len(s.buf) - s.bufOffsetRd >= 7 * count

Sending(s) ==
    /\ Asked(s, s.block_blksize - s.block_seqno)
    /\ s.block_seqno < s.block_blksize /\ 7 * s.block_seqno <= s.bufOffsetRd
    /\ s.block_seqno > 0 => s.block_noData = 0

Sent(s) ==
    /\ s.block_seqno >= 1 /\ 7 * s.block_seqno <= s.bufOffsetRd + s.block_noData
    /\ s.finished = FALSE => s.block_noData = 0

Downloading(s, o) ==
    /\ s.state = "DOWNLOAD_INITIATE_RSP" /\ s.finished = FALSE => Opened(s, o)
    /\ s.state = "DOWNLOAD_BLK_INITIATE_RSP" => Opened(s, o)
    /\ s.state = "DOWNLOAD_SEGMENT_REQ" => Segmented(s, o)
    /\ s.state = "DOWNLOAD_SEGMENT_RSP" /\ s.finished = FALSE => Segmented(s, o)
    /\ s.state = "DOWNLOAD_BLK_SUBBLOCK_REQ" => Subblock(s, o)
    /\ s.state = "DOWNLOAD_BLK_SUBBLOCK_RSP" => SubblockEnd(s, o)
    /\ s.state = "DOWNLOAD_BLK_END_REQ" =>
          Filled(s, o) /\ s.finished = TRUE /\ Len(s.buf) >= 7

Uploading(s, o) ==
    /\ s.state \in UploadStates => Loaded(s, o)
    /\ s.state \in {"UPLOAD_BLK_INITIATE_RSP", "UPLOAD_BLK_INITIATE_REQ2"} =>
          Asked(s, s.block_blksize)
    /\ s.state = "UPLOAD_BLK_SUBBLOCK_SREQ" => Sending(s)
    /\ s.state = "UPLOAD_BLK_SUBBLOCK_CRSP" => Sent(s)

Phase(s, o) ==
    /\ s.state \notin Passing
    /\ s.state \notin Resting => s.mux \in Objects
    /\ Downloading(s, o) /\ Uploading(s, o)

Ticking(s) == s.state \notin Resting => s.timeoutTimer < SDOtimeoutTime

ServerInv(s, o) == Basic(s, o) /\ Phase(s, o) /\ Ticking(s)

-----------------------------------------------------------------------------
(* The parameters *)

\* What is known of a frame.
LEMMA HeardFrame ==
    ASSUME NEW f \in Heard
    PROVE  /\ f.cmd \in Byte /\ f.mux \in Nat \X Nat /\ f.size \in Nat
           /\ f.bytes \in Seq(Byte) /\ Len(f.bytes) = 7
           /\ f.seq \in Byte /\ f.blk \in Byte /\ f.pst \in Byte /\ f.crc \in Seq(Byte)
           /\ f.blk \in 1..127 => f.blk + SDOtimeoutTime <= Patience
  <1>1. f.bytes \in [1..7 -> Byte]
    BY FrameAssumption
  <1>2. f.bytes \in Seq(Byte)
    BY <1>1, SeqDef
  <1>3. Len(f.bytes) = 7
    BY <1>1, <1>2, LenProperties
  <1> QED  BY <1>2, <1>3, FrameAssumption, TimeAssumption

\* The frame that CO_SDOserver_process leaves behind.
LEMMA NoFrame == Frame(0) \in Heard
  BY DEF Heard

\* The bit fields of a command byte.
LEMMA BitFields ==
    ASSUME NEW cmd \in Byte
    PROVE  /\ bits(cmd, 0, 7) \in 0..127 /\ bits(cmd, 1, 3) \in 0..7
           /\ bits(cmd, 2, 3) \in 0..7 /\ bits(cmd, 2, 2) \in 0..3
  BY DEF bits, Byte

\* The dictionary that a node starts with.
LEMMA InitialObjects ==
    /\ InitialOd \in [Objects -> Seq(Byte)]
    /\ \A i \in DOMAIN Entries : \A x \in DOMAIN Entries[i].sub : <<i, x>> \in Objects
  <1> DEFINE U == UNION {{<<i, x>> : x \in DOMAIN Entries[i].sub} : i \in DOMAIN Entries}
  <1>1. InitialOd \in [U -> Seq(Byte)]
    BY DictionaryAssumption
  <1>2. \A i \in DOMAIN Entries : \A x \in DOMAIN Entries[i].sub : <<i, x>> \in U
    OBVIOUS
  <1> HIDE DEF U
  <1>3. Objects = U
    BY <1>1 DEF Objects
  <1> QED  BY <1>1, <1>2, <1>3

\* An object of the dictionary.
LEMMA ObjectOf ==
    ASSUME NEW m \in Nat \X Nat, OD_getSub(Entries, m[1], m[2]) = "OK"
    PROVE  /\ m \in Objects
           /\ OD_stream(Entries, m[1], m[2]) \in Stream
           /\ OD_stream(Entries, m[1], m[2]).dataOffset = 0
           /\ OD_stream(Entries, m[1], m[2]).dataLength = Len(InitialOd[m])
           /\ OD_stream(Entries, m[1], m[2]).attribute = Entries[m[1]].sub[m[2]].attribute
  <1> DEFINE i == m[1]
             x == m[2]
  <1>1. i \in DOMAIN Entries
    BY DEF OD_getSub
  <1>2. x \in Nat /\ m = <<i, x>>
    OBVIOUS
  <1>3. x \in DOMAIN Entries[i].sub
    <2>1. CASE Entries[i].odObjectType = "VAR"
      <3>1. x = 0
        BY <1>1, <1>2, <2>1 DEF OD_getSub
      <3> QED  BY <1>1, <2>1, <3>1, DictionaryAssumption
    <2>2. CASE Entries[i].odObjectType \in {"ARR", "REC"}
      BY <1>1, <2>2 DEF OD_getSub
    <2>3. CASE Entries[i].odObjectType \notin {"VAR", "ARR", "REC"}
      BY <1>1, <2>3 DEF OD_getSub
    <2> QED  BY <2>1, <2>2, <2>3
  <1> HIDE DEF i, x
  <1>4. <<i, x>> \in Objects
    BY <1>1, <1>3, InitialObjects
  <1>5. /\ Entries[i].sub[x].attribute \subseteq {"SDO_R", "SDO_W", "STR"}
        /\ InitialOd[<<i, x>>] \in Seq(Byte)
        /\ Entries[i].sub[x].dataLength = Len(InitialOd[<<i, x>>])
    BY <1>1, <1>3, <1>4, InitialObjects, DictionaryAssumption
  <1>6. Len(InitialOd[<<i, x>>]) \in Nat
    BY <1>5, LenProperties
  <1>7. OD_stream(Entries, i, x) = [attribute |-> Entries[i].sub[x].attribute,
                                    dataLength |-> Len(InitialOd[<<i, x>>]), dataOffset |-> 0]
    BY <1>5 DEF OD_stream
  <1>8. OD_stream(Entries, i, x) \in Stream
    BY <1>5, <1>6, <1>7 DEF Stream
  <1> QED  BY <1>2, <1>4, <1>7, <1>8 DEF i, x

\* The variable at an object.
LEMMA VariableOf ==
    ASSUME NEW o \in Dictionary, NEW m \in Objects
    PROVE  o[m] \in Seq(Byte) /\ Len(o[m]) \in Nat /\ Len(o[m]) = Len(InitialOd[m])
  <1>1. o[m] \in Seq(Byte) /\ Len(o[m]) = Len(InitialOd[m])
    BY DEF Dictionary
  <1> QED  BY <1>1, LenProperties

\* A variable is replaced by one of the same size.
LEMMA DictionaryUpdate ==
    ASSUME NEW o \in Dictionary, NEW m \in Objects, NEW data \in Seq(Byte),
           Len(data) = Len(o[m])
    PROVE  /\ [o EXCEPT ![m] = data] \in Dictionary
           /\ [o EXCEPT ![m] = data][m] = data
           /\ \A n \in Objects : n # m => [o EXCEPT ![m] = data][n] = o[n]
  BY DEF Dictionary

-----------------------------------------------------------------------------
(* Bytes *)

\* A slice of a byte sequence.
LEMMA Slice ==
    ASSUME NEW s \in Seq(Byte), NEW m \in Nat, NEW n \in Nat, m <= n, n <= Len(s)
    PROVE  /\ SubSeq(s, m + 1, n) \in Seq(Byte)
           /\ Len(SubSeq(s, m + 1, n)) = n - m
           /\ \A i \in 1..(n - m) : SubSeq(s, m + 1, n)[i] = s[m + i]
  <1>1. \A i \in (m + 1) .. n : s[i] \in Byte
    BY ElementOfSeq
  <1>2. /\ SubSeq(s, m + 1, n) \in Seq(Byte)
        /\ Len(SubSeq(s, m + 1, n)) = IF m + 1 <= n THEN n - (m + 1) + 1 ELSE 0
        /\ \A i \in 1 .. n - (m + 1) + 1 : SubSeq(s, m + 1, n)[i] = s[(m + 1) + i - 1]
    BY <1>1, SubSeqProperties, m + 1 \in Int, n \in Int
  <1>3. ASSUME NEW i \in 1..(n - m)
        PROVE  SubSeq(s, m + 1, n)[i] = s[m + i]
    <2>1. i \in 1 .. n - (m + 1) + 1 /\ (m + 1) + i - 1 = m + i
      OBVIOUS
    <2> QED  BY <1>2, <2>1
  <1>4. Len(SubSeq(s, m + 1, n)) = n - m
    BY <1>2
  <1> QED  BY <1>2, <1>3, <1>4

\* The first bytes of a sequence.
LEMMA Prefix ==
    ASSUME NEW s \in Seq(Byte), NEW n \in Nat, n <= Len(s)
    PROVE  SubSeq(s, 1, n) \in Seq(Byte) /\ Len(SubSeq(s, 1, n)) = n
  <1>1. 0 + 1 = 1 /\ n - 0 = n /\ 0 <= n
    OBVIOUS
  <1>2. SubSeq(s, 0 + 1, n) \in Seq(Byte) /\ Len(SubSeq(s, 0 + 1, n)) = n - 0
    BY <1>1, Slice
  <1> QED  BY <1>1, <1>2

\* Two byte sequences, one after the other.
LEMMA Join ==
    ASSUME NEW s \in Seq(Byte), NEW t \in Seq(Byte)
    PROVE  /\ s \o t \in Seq(Byte) /\ Len(s \o t) = Len(s) + Len(t)
           /\ \A i \in 1..Len(s) : (s \o t)[i] = s[i]
           /\ \A i \in 1..Len(t) : (s \o t)[Len(s) + i] = t[i]
           /\ Len(s) \in Nat /\ Len(t) \in Nat
  <1>1. Len(s) \in Nat /\ Len(t) \in Nat
    BY LenProperties
  <1>2. /\ s \o t \in Seq(Byte) /\ Len(s \o t) = Len(s) + Len(t)
        /\ \A i \in 1 .. Len(s) + Len(t) :
              (s \o t)[i] = IF i <= Len(s) THEN s[i] ELSE t[i - Len(s)]
    BY ConcatProperties
  <1>3. \A i \in 1..Len(s) : (s \o t)[i] = s[i]
    BY <1>1, <1>2
  <1>4. ASSUME NEW i \in 1..Len(t)
        PROVE  (s \o t)[Len(s) + i] = t[i]
    <2>1. Len(s) + i \in 1 .. Len(s) + Len(t) /\ ~(Len(s) + i <= Len(s)) /\ (Len(s) + i) - Len(s) = i
      BY <1>1
    <2> QED  BY <1>2, <2>1
  <1> QED  BY <1>1, <1>2, <1>3, <1>4

\* Their length.
LEMMA JoinLength ==
    ASSUME NEW s \in Seq(Byte), NEW t \in Seq(Byte)
    PROVE  /\ s \o t \in Seq(Byte) /\ Len(s \o t) = Len(s) + Len(t)
           /\ Len(s) \in Nat /\ Len(t) \in Nat
  BY Join

\* No bytes.
LEMMA NoByte == <<>> \in Seq(Byte) /\ Len(<<>>) = 0
  BY EmptySeq

\* A byte sequence without bytes.
LEMMA EmptyBuffer ==
    ASSUME NEW s \in Seq(Byte)
    PROVE  s = <<>> <=> Len(s) = 0
  BY EmptySeq

\* A sequence that is given by its bytes.
LEMMA Listed ==
    ASSUME NEW n \in Nat, NEW f \in [1..n -> Byte]
    PROVE  f \in Seq(Byte) /\ Len(f) = n
  <1>1. f \in Seq(Byte)
    BY SeqDef
  <1>2. Len(f) \in Nat /\ DOMAIN f = 1..Len(f) /\ DOMAIN f = 1..n
    BY <1>1, LenProperties
  <1> QED  BY <1>1, <1>2

\* The place of the first zero byte.
LEMMA FirstZero ==
    ASSUME NEW s \in Seq(Byte), NEW z \in 1..Len(s), s[z] = 0
    PROVE  LET p == CHOOSE i \in {i \in DOMAIN s : s[i] = 0} :
                       \A j \in {j \in DOMAIN s : s[j] = 0} : i <= j
           IN  p \in 1..Len(s) /\ s[p] = 0 /\ \A i \in 1..(p - 1) : s[i] # 0
  <1> DEFINE Z == {i \in DOMAIN s : s[i] = 0}
             Less == OpToRel(<, Nat)
  <1>1. Len(s) \in Nat /\ DOMAIN s = 1..Len(s)
    BY LenProperties
  <1>2. Z \subseteq Nat /\ Z # {}
    BY <1>1
  <1>3. \E x \in Z : \A y \in Z : ~ (<<y, x>> \in Less)
    <2>1. IsWellFoundedOn(Less, Nat)
      BY NatLessThanWellFounded
    <2> HIDE DEF Z, Less
    <2> QED  BY <1>2, <2>1, WFMin
  <1>4. PICK x \in Z : \A y \in Z : ~ (<<y, x>> \in Less)
    BY <1>3
  <1>5. ASSUME NEW y \in Z
        PROVE  x <= y
    <2>1. x \in Nat /\ y \in Nat
      BY <1>2
    <2>2. CASE y < x
      <3>1. <<y, x>> \in Less
        BY <2>1, <2>2 DEF OpToRel
      <3> QED  BY <1>4, <3>1
    <2> QED  BY <2>1, <2>2
  <1> DEFINE p == CHOOSE i \in Z : \A j \in Z : i <= j
  <1>6. p \in Z /\ \A j \in Z : p <= j
    <2> HIDE DEF Z
    <2> QED  BY <1>5
  <1> HIDE DEF p
  <1>7. p \in 1..Len(s) /\ s[p] = 0
    BY <1>1, <1>6
  <1>8. ASSUME NEW i \in 1..(p - 1), s[i] = 0
        PROVE  FALSE
    <2>1. i \in Z /\ i < p
      BY <1>1, <1>7, <1>8
    <2> QED  BY <1>2, <1>6, <2>1
  <1> QED  BY <1>7, <1>8 DEF p

\* string_length: up to the first zero byte, but at least one byte.
LEMMA StringLength ==
    ASSUME NEW s \in Seq(Byte)
    PROVE  \/ /\ \A i \in 1..Len(s) : s[i] # 0
              /\ string_length(s) = Len(s)
           \/ \E p \in 1..Len(s) : /\ s[p] = 0 /\ \A i \in 1..(p - 1) : s[i] # 0
                                   /\ string_length(s) = IF p = 1 THEN 1 ELSE p - 1
  <1> DEFINE Z == {i \in DOMAIN s : s[i] = 0}
             p == CHOOSE i \in Z : \A j \in Z : i <= j
  <1>1. Len(s) \in Nat /\ DOMAIN s = 1..Len(s)
    BY LenProperties
  <1>2. string_length(s) = IF Z = {} THEN Len(s) ELSE IF p = 1 THEN 1 ELSE p - 1
    BY DEF string_length
  <1>3. CASE Z = {}
    BY <1>1, <1>2, <1>3
  <1>4. CASE Z # {}
    <2>1. PICK z \in 1..Len(s) : s[z] = 0
      BY <1>1, <1>4
    <2>2. p \in 1..Len(s) /\ s[p] = 0 /\ \A i \in 1..(p - 1) : s[i] # 0
      BY <2>1, FirstZero
    <2> HIDE DEF p, Z
    <2>3. string_length(s) = IF p = 1 THEN 1 ELSE p - 1
      BY <1>2, <1>4
    <2> QED  BY <2>2, <2>3
  <1> QED  BY <1>3, <1>4

-----------------------------------------------------------------------------
(* Access to a variable *)

\* OD_writeOriginal keeps the size of the variable; what it refuses it leaves
\* alone.
LEMMA WriteOriginal ==
    ASSUME NEW data \in Seq(Byte), NEW stream \in Stream, NEW bytes \in Seq(Byte),
           NEW w, w = OD_writeOriginal(data, stream, bytes)
    PROVE  /\ w.data \in Seq(Byte) /\ Len(w.data) = Len(data)
           /\ w.stream \in Stream /\ w.stream.dataLength = stream.dataLength
           /\ w.ret \in {"OK", "PARTIAL", "DATA_LONG", "DEV_INCOMPAT"}
           /\ w.ret \notin {"OK", "PARTIAL"} => w.data = data
           /\ w.ret = "PARTIAL" => /\ w.stream.dataOffset = stream.dataOffset + Len(bytes)
                                   /\ stream.dataOffset + Len(bytes) < stream.dataLength
           /\ w.ret = "OK" => stream.dataOffset + Len(bytes) = stream.dataLength
  <1> DEFINE count == Len(bytes)
             L     == stream.dataLength
             from  == stream.dataOffset
             to    == IF L - from > count THEN from + count ELSE 0
             moves == [stream EXCEPT !.dataOffset = to]
             new   == [i \in DOMAIN data |-> IF i > from /\ i <= from + count THEN bytes[i - from]
                                             ELSE data[i]]
  <1>1. count \in Nat /\ L \in Nat /\ from \in Nat /\ Len(data) \in Nat /\ DOMAIN data = 1..Len(data)
    BY LenProperties DEF Stream
  <1>2. to \in Nat
    BY <1>1
  <1>3. moves \in Stream /\ moves.dataLength = L /\ moves.dataOffset = to
    <2> HIDE DEF to
    <2> QED  BY <1>2 DEF Stream
  <1>4. new \in Seq(Byte) /\ Len(new) = Len(data)
    <2>1. ASSUME NEW i \in 1..Len(data)
          PROVE  (IF i > from /\ i <= from + count THEN bytes[i - from] ELSE data[i]) \in Byte
      <3>1. CASE i > from /\ i <= from + count
        <4>1. i - from \in 1..Len(bytes)
          BY <1>1, <3>1
        <4> QED  BY <3>1, <4>1, ElementOfSeq
      <3>2. CASE ~(i > from /\ i <= from + count)
        BY <3>2, ElementOfSeq
      <3> QED  BY <3>1, <3>2
    <2>2. new \in [1..Len(data) -> Byte]
      BY <1>1, <2>1
    <2> HIDE DEF new
    <2> QED  BY <1>1, <2>2, Listed
  <1>5. w = IF (from > 0 \/ L > count) /\ L - from <= 0
            THEN [ret |-> "DEV_INCOMPAT", data |-> data, stream |-> stream]
            ELSE IF L - from < count
            THEN [ret |-> "DATA_LONG", data |-> data, stream |-> moves]
            ELSE [ret |-> IF L - from > count THEN "PARTIAL" ELSE "OK",
                  data |-> new, stream |-> moves]
    BY DEF OD_writeOriginal
  <1> HIDE DEF new, moves
  <1>6. CASE (from > 0 \/ L > count) /\ L - from <= 0
    BY <1>5, <1>6
  <1>7. CASE ~((from > 0 \/ L > count) /\ L - from <= 0) /\ L - from < count
    BY <1>1, <1>3, <1>5, <1>7
  <1>8. CASE ~((from > 0 \/ L > count) /\ L - from <= 0) /\ ~(L - from < count)
    <2>1. CASE L - from > count
      BY <1>1, <1>3, <1>4, <1>5, <1>8, <2>1
    <2>2. CASE ~(L - from > count)
      <3>1. from + count = L
        BY <1>1, <1>8, <2>2
      <3>2. w = [ret |-> "OK", data |-> new, stream |-> moves]
        BY <1>5, <1>8, <2>2
      <3> QED  BY <1>3, <1>4, <3>1, <3>2
    <2> QED  BY <2>1, <2>2
  <1> QED  BY <1>6, <1>7, <1>8

\* A piece of a variable: the bytes that follow the first d bytes.
Piece(bytes, c, d) ==
    /\ bytes \in Seq(Byte) /\ d + Len(bytes) <= Len(c)
    /\ \A i \in 1..Len(bytes) : bytes[i] = c[d + i]

\* OD_readOriginal reads the rest of the variable, or as much as was asked
\* for.
LEMMA ReadOriginal ==
    ASSUME NEW c \in Seq(Byte), NEW stream \in Stream, NEW count \in Nat,
           stream.dataLength = Len(c), stream.dataOffset <= Len(c),
           NEW r, r = OD_readOriginal(c, stream, count)
    PROVE  /\ r.ret \in {"OK", "PARTIAL", "DEV_INCOMPAT"}
           /\ Piece(r.bytes, c, stream.dataOffset)
           /\ r.stream \in Stream /\ r.stream.attribute = stream.attribute
           /\ r.stream.dataLength = stream.dataLength
           /\ Len(r.bytes) <= count
           /\ r.ret = "PARTIAL" => /\ Len(r.bytes) = count
                                   /\ r.stream.dataOffset = stream.dataOffset + count
           /\ r.ret = "OK" => stream.dataOffset + Len(r.bytes) = Len(c)
  <1> DEFINE d == stream.dataOffset
             L == Len(c)
             n == IF L - d > count THEN count ELSE L - d
             to == IF L - d > count THEN d + n ELSE 0
             moves == [stream EXCEPT !.dataOffset = to]
             piece == SubSeq(c, d + 1, d + n)
  <1>1. d \in Nat /\ L \in Nat /\ d <= L
    BY LenProperties DEF Stream
  <1>2. n \in Nat /\ d + n <= L /\ to \in Nat /\ n <= count
    <2> HIDE DEF d, L
    <2>1. CASE L - d > count
      <3>1. n = count /\ to = d + n
        BY <2>1
      <3> HIDE DEF n, to
      <3> QED  BY <1>1, <2>1, <3>1
    <2>2. CASE ~(L - d > count)
      <3>1. n = L - d /\ to = 0
        BY <2>2
      <3> HIDE DEF n, to
      <3> QED  BY <1>1, <2>2, <3>1
    <2> QED  BY <2>1, <2>2
  <1>3. moves \in Stream /\ moves.dataLength = stream.dataLength
        /\ moves.attribute = stream.attribute /\ moves.dataOffset = to
    <2> HIDE DEF to
    <2> QED  BY <1>2 DEF Stream
  <1>4. piece \in Seq(Byte) /\ Len(piece) = n /\ \A i \in 1..n : piece[i] = c[d + i]
    <2>1. /\ SubSeq(c, d + 1, d + n) \in Seq(Byte)
          /\ Len(SubSeq(c, d + 1, d + n)) = (d + n) - d
          /\ \A i \in 1..((d + n) - d) : SubSeq(c, d + 1, d + n)[i] = c[d + i]
      <3> HIDE DEF n
      <3>1. d + n \in Nat /\ d <= d + n
        BY <1>1, <1>2
      <3> QED  BY <1>1, <1>2, <3>1, Slice
    <2>2. (d + n) - d = n
      BY <1>1, <1>2
    <2> HIDE DEF n
    <2> QED  BY <2>1, <2>2
  <1>5. r = IF (d > 0 \/ L > count) /\ L - d <= 0
            THEN [ret |-> "DEV_INCOMPAT", bytes |-> <<>>, stream |-> stream]
            ELSE [ret |-> IF L - d > count THEN "PARTIAL" ELSE "OK", bytes |-> piece,
                  stream |-> moves]
    BY DEF OD_readOriginal
  <1>6. CASE (d > 0 \/ L > count) /\ L - d <= 0
    <2>1. r = [ret |-> "DEV_INCOMPAT", bytes |-> <<>>, stream |-> stream]
      BY <1>5, <1>6
    <2>2. Piece(r.bytes, c, d) /\ Len(r.bytes) = 0
      BY <1>1, <2>1, NoByte DEF Piece
    <2> QED  BY <2>1, <2>2
  <1>7. CASE ~((d > 0 \/ L > count) /\ L - d <= 0)
    <2> HIDE DEF piece, moves
    <2>a. r = [ret |-> IF L - d > count THEN "PARTIAL" ELSE "OK", bytes |-> piece,
               stream |-> moves]
      BY <1>5, <1>7
    <2>1. r.ret = (IF L - d > count THEN "PARTIAL" ELSE "OK") /\ r.bytes = piece /\ r.stream = moves
      BY <2>a
    <2>2. Piece(r.bytes, c, d)
      BY <1>2, <1>4, <2>1 DEF Piece
    <2> QED  BY <1>1, <1>2, <1>3, <1>4, <2>1, <2>2
  <1> QED  BY <1>6, <1>7

\* What reading ends with: the whole text, or its terminator if that is the
\* first byte of the last piece.
Complete(c, text, e, d) ==
    LET length == IF text THEN string_length(c) ELSE Len(c)
    IN  e = length \/ (d > 0 /\ e > d /\ e = length + 1)

\* The length of a text whose first zero byte is at p.
LEMMA CutLength ==
    ASSUME NEW n \in Nat, NEW p \in 1..n, NEW x, x = IF p = 1 THEN 1 ELSE p - 1
    PROVE  x \in 1..n /\ (x < n \/ n = 1)
  OBVIOUS

\* A piece of a text that has no zero byte before it.
LEMMA PieceOfText ==
    ASSUME NEW c \in Seq(Byte), NEW d \in Nat, NEW b, Piece(b, c, d),
           \A i \in 1..d : c[i] # 0
    PROVE  \/ /\ string_length(b) = Len(b)
              /\ \A i \in 1..(d + Len(b)) : c[i] # 0
           \/ /\ string_length(b) \in 1..Len(b)
              /\ string_length(b) < Len(b) \/ Len(b) = 1
              /\ Complete(c, TRUE, d + string_length(b), d)
  <1>1. Len(c) \in Nat /\ Len(b) \in Nat /\ b \in Seq(Byte) /\ d + Len(b) <= Len(c)
        /\ \A i \in 1..Len(b) : b[i] = c[d + i]
    BY LenProperties DEF Piece
  <1>2. CASE \A i \in 1..Len(b) : b[i] # 0
    <2>1. string_length(b) = Len(b)
      BY <1>1, <1>2, StringLength
    <2>2. ASSUME NEW i \in 1..(d + Len(b))
          PROVE  c[i] # 0
      <3>1. CASE i <= d
        BY <3>1
      <3>2. CASE i > d
        <4>1. i - d \in 1..Len(b) /\ d + (i - d) = i
          BY <1>1, <3>2
        <4> QED  BY <1>1, <1>2, <4>1
      <3> QED  BY <3>1, <3>2
    <2> QED  BY <2>1, <2>2
  <1>3. CASE \E z \in 1..Len(b) : b[z] = 0
    <2>1. PICK p \in 1..Len(b) : /\ b[p] = 0 /\ \A i \in 1..(p - 1) : b[i] # 0
                                 /\ string_length(b) = IF p = 1 THEN 1 ELSE p - 1
      BY <1>1, <1>3, StringLength
    <2>2. d + p \in 1..Len(c) /\ c[d + p] = 0
      <3>1. d + p \in 1..Len(c)
        BY <1>1
      <3>2. b[p] = c[d + p]
        BY <1>1
      <3> QED  BY <2>1, <3>1, <3>2
    <2>3. ASSUME NEW i \in 1..(d + p - 1)
          PROVE  c[i] # 0
      <3>1. CASE i <= d
        BY <3>1
      <3>2. CASE i > d
        <4>1. i - d \in 1..(p - 1) /\ i - d \in 1..Len(b) /\ d + (i - d) = i
          BY <1>1, <3>2
        <4> QED  BY <1>1, <2>1, <4>1
      <3> QED  BY <3>1, <3>2
    <2>4. PICK q \in 1..Len(c) : /\ c[q] = 0 /\ \A i \in 1..(q - 1) : c[i] # 0
                                 /\ string_length(c) = IF q = 1 THEN 1 ELSE q - 1
      BY <2>2, StringLength
    <2>5. q = d + p
      <3>1. ~(q < d + p)
        BY <1>1, <2>3, <2>4
      <3>2. ~(d + p < q)
        BY <1>1, <2>2, <2>4
      <3> QED  BY <1>1, <3>1, <3>2
    <2>a. /\ Len(b) \in Nat /\ Len(c) \in Nat
          /\ string_length(b) = IF p = 1 THEN 1 ELSE p - 1
          /\ string_length(c) = IF d + p = 1 THEN 1 ELSE d + p - 1
      BY <1>1, <2>1, <2>4, <2>5
    <2>6. string_length(b) \in 1..Len(b) /\ (string_length(b) < Len(b) \/ Len(b) = 1)
      BY <2>a, CutLength
    <2>7. Complete(c, TRUE, d + string_length(b), d)
      <3>1. CASE p = 1 /\ d = 0
        BY <2>a, <3>1 DEF Complete
      <3>2. CASE p = 1 /\ d > 0
        BY <2>a, <3>2 DEF Complete
      <3>3. CASE p # 1
        BY <2>a, <3>3 DEF Complete
      <3>4. d = 0 \/ d > 0
        OBVIOUS
      <3> QED  BY <3>1, <3>2, <3>3, <3>4
    <2> QED  BY <2>6, <2>7
  <1> QED  BY <1>2, <1>3

\* The next piece of a variable, as readFromOd takes it.
LEMMA NextPiece ==
    ASSUME NEW c \in Seq(Byte), NEW s \in Server, NEW count \in Nat,
           s.stream.dataLength = Len(c), s.stream.dataOffset <= Len(c),
           is_string(s) => \A i \in 1..s.stream.dataOffset : c[i] # 0,
           NEW q, q = cut_string(s, OD_readOriginal(c, s.stream, count))
    PROVE  /\ q.ret \in {"OK", "PARTIAL", "DEV_INCOMPAT"}
           /\ Piece(q.bytes, c, s.stream.dataOffset) /\ Len(q.bytes) <= count
           /\ q.stream \in Stream /\ q.stream.attribute = s.stream.attribute
           /\ q.ret = "PARTIAL" =>
                 /\ Len(q.bytes) = count
                 /\ q.stream.dataOffset = s.stream.dataOffset + count
                 /\ q.stream.dataLength = Len(c)
                 /\ is_string(s) /\ count # 1 =>
                       \A i \in 1..(s.stream.dataOffset + count) : c[i] # 0
           /\ q.ret = "OK" =>
                 Complete(c, is_string(s), s.stream.dataOffset + Len(q.bytes), s.stream.dataOffset)
  <1> DEFINE r == OD_readOriginal(c, s.stream, count)
             d == s.stream.dataOffset
             k == string_length(r.bytes)
  <1>0. s.stream \in Stream /\ d \in Nat /\ s.sizeTran \in Nat /\ Len(c) \in Nat
    BY LenProperties DEF Server, Stream
  <1>1. /\ r.ret \in {"OK", "PARTIAL", "DEV_INCOMPAT"}
        /\ Piece(r.bytes, c, d)
        /\ r.stream \in Stream /\ r.stream.attribute = s.stream.attribute
        /\ r.stream.dataLength = s.stream.dataLength
        /\ Len(r.bytes) <= count
        /\ r.ret = "PARTIAL" => Len(r.bytes) = count /\ r.stream.dataOffset = d + count
        /\ r.ret = "OK" => d + Len(r.bytes) = Len(c)
    BY <1>0, ReadOriginal
  <1>2. r.bytes \in Seq(Byte) /\ Len(r.bytes) \in Nat /\ d + Len(r.bytes) <= Len(c)
        /\ \A i \in 1..Len(r.bytes) : r.bytes[i] = c[d + i]
    BY <1>1, LenProperties DEF Piece
  <1> HIDE DEF r, d
  <1>3. CASE ~is_string(s)
    <2>1. q = r
      BY <1>3 DEF cut_string, r
    <2>2. q.ret = "OK" => Complete(c, is_string(s), d + Len(q.bytes), d)
      BY <1>1, <1>3, <2>1 DEF Complete
    <2> QED  BY <1>1, <1>3, <2>1, <2>2 DEF d
  <1>4. CASE is_string(s)
    <2>1. \A i \in 1..d : c[i] # 0
      BY <1>4 DEF d
    <2>2. \/ k = Len(r.bytes) /\ \A i \in 1..(d + Len(r.bytes)) : c[i] # 0
          \/ /\ k \in 1..Len(r.bytes)
             /\ k < Len(r.bytes) \/ Len(r.bytes) = 1
             /\ Complete(c, TRUE, d + k, d)
      BY <1>0, <1>1, <2>1, PieceOfText
    <2> HIDE DEF k
    <2>3. CASE k < Len(r.bytes) /\ k \in 1..Len(r.bytes) /\ Complete(c, TRUE, d + k, d)
      <3> DEFINE t == [r.stream EXCEPT !.dataLength = s.sizeTran + k]
                 b == SubSeq(r.bytes, 1, k)
      <3>1. q = [ret |-> "OK", bytes |-> b, stream |-> t]
        <4>1. Len(r.bytes) > 0 /\ string_length(r.bytes) < Len(r.bytes)
          BY <1>2, <2>3 DEF k
        <4> QED  BY <1>4, <4>1 DEF cut_string, r, k
      <3>2. t \in Stream /\ t.attribute = s.stream.attribute
        <4>1. s.sizeTran + k \in Nat
          BY <1>0, <1>2, <2>3
        <4> QED  BY <1>1, <4>1 DEF Stream
      <3>3. b \in Seq(Byte) /\ Len(b) = k /\ \A i \in 1..k : b[i] = r.bytes[i]
        <4>1. k \in Nat /\ 0 <= k /\ k <= Len(r.bytes) /\ k - 0 = k /\ 0 + 1 = 1
          BY <1>2, <2>3
        <4>2. /\ SubSeq(r.bytes, 0 + 1, k) \in Seq(Byte)
              /\ Len(SubSeq(r.bytes, 0 + 1, k)) = k - 0
              /\ \A i \in 1..(k - 0) : SubSeq(r.bytes, 0 + 1, k)[i] = r.bytes[0 + i]
          BY <1>2, <4>1, Slice
        <4>3. \A i \in 1..k : 0 + i = i
          BY <4>1
        <4> QED  BY <4>1, <4>2, <4>3
      <3> HIDE DEF b, t
      <3>4. q.ret = "OK" /\ q.bytes = b /\ q.stream = t
        BY <3>1
      <3>5. Piece(q.bytes, c, d)
        <4>1. d + Len(b) <= Len(c)
          BY <1>0, <1>2, <2>3, <3>3
        <4>2. \A i \in 1..Len(b) : i \in 1..Len(r.bytes)
          BY <1>2, <2>3, <3>3
        <4>3. \A i \in 1..Len(b) : b[i] = c[d + i]
          BY <1>2, <3>3, <4>2
        <4> QED  BY <3>3, <3>4, <4>1, <4>3 DEF Piece
      <3>6. Len(q.bytes) <= count
        BY <1>1, <1>2, <2>3, <3>3, <3>4
      <3>7. Complete(c, is_string(s), d + Len(q.bytes), d)
        BY <1>4, <2>3, <3>3, <3>4 DEF Complete
      <3> QED  BY <3>2, <3>4, <3>5, <3>6, <3>7 DEF d
    <2>4. CASE ~(k < Len(r.bytes))
      <3>1. q = r
        BY <1>4, <2>4 DEF cut_string, r, k
      <3>2. CASE k = Len(r.bytes) /\ \A i \in 1..(d + Len(r.bytes)) : c[i] # 0
        <4>1. q.ret = "PARTIAL" => \A i \in 1..(d + count) : c[i] # 0
          BY <1>1, <3>1, <3>2
        <4>2. q.ret = "OK" => Complete(c, is_string(s), d + Len(q.bytes), d)
          <5>1. CASE q.ret = "OK"
            <6>1. d + Len(r.bytes) = Len(c) /\ \A i \in 1..Len(c) : c[i] # 0
              BY <1>1, <3>1, <3>2, <5>1
            <6>2. string_length(c) = Len(c)
              BY <6>1, StringLength
            <6> QED  BY <1>4, <3>1, <6>1, <6>2 DEF Complete
          <5> QED  BY <5>1
        <4> QED  BY <1>1, <3>1, <4>1, <4>2 DEF d
      <3>3. CASE k \in 1..Len(r.bytes) /\ Len(r.bytes) = 1 /\ Complete(c, TRUE, d + k, d)
        <4>1. k = Len(r.bytes)
          BY <1>2, <3>3
        <4>2. Complete(c, is_string(s), d + Len(q.bytes), d)
          BY <1>4, <3>1, <3>3, <4>1 DEF Complete
        <4>3. q.ret = "PARTIAL" => count = 1
          BY <1>1, <3>1, <3>3
        <4> QED  BY <1>1, <3>1, <4>2, <4>3 DEF d
      <3> QED  BY <2>2, <2>4, <3>2, <3>3
    <2>5. k = Len(r.bytes) => ~(k < Len(r.bytes))
      BY <1>2
    <2> QED  BY <2>2, <2>3, <2>4, <2>5, Zenon
  <1> QED  BY <1>3, <1>4

-----------------------------------------------------------------------------
(* The structure that the steps of a call hand on *)

IsCall(k) == k \in [s : {k.s}, od : {k.od}, ab : {k.ab}, ret : {k.ret}, tx : {k.tx}]
Becomes(r, s, o, ret) == IsCall(r) /\ r.s = s /\ r.od = o /\ r.ret = ret

\* What most of the steps leave alone.
Keeps(r, s) ==
    /\ r.mux = s.mux /\ r.rxNew = s.rxNew /\ r.finished = s.finished
    /\ r.timeoutTimer = s.timeoutTimer /\ r.block_timeoutTimer = s.block_timeoutTimer
    /\ r.block_seqno = s.block_seqno /\ r.block_blksize = s.block_blksize
    /\ r.block_noData = s.block_noData /\ r.bufOffsetRd = s.bufOffsetRd

\* A record with the five fields.
LEMMA CallIs ==
    ASSUME NEW s, NEW o, NEW a, NEW q, NEW t,
           NEW r \in [s : {s}, od : {o}, ab : {a}, ret : {q}, tx : {t}]
    PROVE  Becomes(r, s, o, q)
  <1>1. r.s = s /\ r.od = o /\ r.ret = q /\ r.ab = a /\ r.tx = t
    OBVIOUS
  <1> QED  BY <1>1 DEF IsCall, Becomes

\* The states are names of the type.
LEMMA States ==
    /\ "ABORT" \in CO_SDO_state /\ "IDLE" \in CO_SDO_state
    /\ UploadStates \subseteq CO_SDO_state /\ Passing \subseteq CO_SDO_state
    /\ {"DOWNLOAD_INITIATE_RSP", "DOWNLOAD_SEGMENT_REQ", "DOWNLOAD_SEGMENT_RSP",
        "DOWNLOAD_BLK_INITIATE_RSP", "DOWNLOAD_BLK_SUBBLOCK_REQ", "DOWNLOAD_BLK_SUBBLOCK_RSP",
        "DOWNLOAD_BLK_END_REQ", "DOWNLOAD_BLK_END_RSP"} \subseteq CO_SDO_state
  BY DEF CO_SDO_state, UploadStates, Passing

\* The fields of a server have their types.
LEMMA ServerFields ==
    ASSUME NEW s \in Server
    PROVE  /\ s.state \in CO_SDO_state /\ s.mux \in Nat \X Nat /\ s.stream \in Stream
           /\ s.stream.dataLength \in Nat /\ s.stream.dataOffset \in Nat
           /\ s.rx \in Heard /\ s.sizeInd \in Nat /\ s.sizeTran \in Nat
           /\ s.timeoutTimer \in 0..SDOtimeoutTime
           /\ s.buf \in Seq(Byte) /\ Len(s.buf) \in Nat /\ s.bufOffsetRd \in Nat
           /\ s.block_timeoutTimer \in 0..block_SDOtimeoutTime
           /\ s.block_seqno \in 0..127 /\ s.block_blksize \in Byte /\ s.block_noData \in 0..7
           /\ s.block_crc \in Seq(Byte)
  <1>1. s.buf \in Seq(Byte) /\ s.stream \in Stream
    BY DEF Server
  <1>2. Len(s.buf) \in Nat
    BY <1>1, LenProperties
  <1>3. s.stream.dataLength \in Nat /\ s.stream.dataOffset \in Nat
    BY <1>1 DEF Stream
  <1> QED  BY <1>1, <1>2, <1>3 DEF Server

\* The Boolean fields of a server.
LEMMA ServerFlags ==
    ASSUME NEW s \in Server
    PROVE  /\ s.valid = TRUE /\ s.rxNew \in BOOLEAN /\ s.finished \in BOOLEAN
           /\ s.toggle \in BOOLEAN /\ s.block_crcEnabled \in BOOLEAN
  BY Zenon DEF Server

\* A server that gives up keeps the rest of its state.
LEMMA AbortServer ==
    ASSUME NEW s, NEW o, Basic(s, o), NEW r, r = [s EXCEPT !.state = "ABORT"]
    PROVE  /\ ServerInv(r, o) /\ r.state = "ABORT" /\ Keeps(r, s)
           /\ r.buf = s.buf /\ r.sizeTran = s.sizeTran /\ r.stream = s.stream
  <1>1. s \in Server
    BY DEF Basic
  <1>2. r \in Server
    BY <1>1, States, ZenonT(60) DEF Server
  <1>3. /\ r.state = "ABORT" /\ Keeps(r, s)
        /\ r.buf = s.buf /\ r.sizeTran = s.sizeTran /\ r.stream = s.stream
    BY <1>1 DEF Server, Keeps
  <1>4. Basic(r, o)
    BY <1>2, <1>3 DEF Basic, Keeps
  <1>5. Phase(r, o) /\ Ticking(r)
    BY <1>3 DEF Phase, Ticking, Passing, Resting, Downloading, Uploading, UploadStates
  <1> QED  BY <1>3, <1>4, <1>5 DEF ServerInv

\* Abort changes the state and the abort code.
LEMMA AbortCall ==
    ASSUME NEW k, IsCall(k), NEW code
    PROVE  Becomes(Abort(k, code), [k.s EXCEPT !.state = "ABORT"], k.od, k.ret)
  <1>1. Abort(k, code) \in [s : {[k.s EXCEPT !.state = "ABORT"]}, od : {k.od}, ab : {code},
                            ret : {k.ret}, tx : {k.tx}]
    BY Zenon DEF IsCall, Abort
  <1> QED  BY <1>1, CallIs

\* A step that aborts the transfer.
LEMMA Aborts ==
    ASSUME NEW k, IsCall(k), Basic(k.s, k.od), NEW code, NEW r, r = Abort(k, code)
    PROVE  /\ IsCall(r) /\ ServerInv(r.s, r.od) /\ r.s.state = "ABORT" /\ Keeps(r.s, k.s)
           /\ r.od = k.od /\ r.ret = k.ret
           /\ r.s.buf = k.s.buf /\ r.s.sizeTran = k.s.sizeTran /\ r.s.stream = k.s.stream
  <1>1. Becomes(r, [k.s EXCEPT !.state = "ABORT"], k.od, k.ret)
    BY AbortCall
  <1> QED  BY <1>1, AbortServer DEF Becomes

-----------------------------------------------------------------------------
(* validateAndWriteToOD *)

\* The data of a string is terminated.
LEMMA Terminated ==
    ASSUME NEW k, IsCall(k), k.s \in Server, NEW zeros \in 0..2,
           NEW r, r = terminated(k, zeros)
    PROVE  /\ IsCall(r) /\ r.s \in Server /\ r.od = k.od /\ r.ret = k.ret
           /\ Keeps(r.s, k.s) /\ r.s.state = k.s.state
           /\ Len(r.s.buf) = Len(k.s.buf) + zeros
           /\ r.s.sizeTran = k.s.sizeTran + zeros
           /\ r.s.stream.dataOffset = k.s.stream.dataOffset
           /\ r.s.stream.dataLength =
                 IF k.s.finished /\ (zeros > 0 \/ k.s.stream.dataLength = 0)
                 THEN k.s.sizeTran + zeros ELSE k.s.stream.dataLength
  <1> DEFINE z == [i \in 1..zeros |-> 0]
             L == IF k.s.finished /\ (zeros > 0 \/ k.s.stream.dataLength = 0)
                  THEN k.s.sizeTran + zeros ELSE k.s.stream.dataLength
             st == [k.s.stream EXCEPT !.dataLength = L]
             b == k.s.buf \o z
             n == k.s.sizeTran + zeros
             v == [k.s EXCEPT !.buf = b, !.sizeTran = n, !.stream = st]
  <1>1. z \in Seq(Byte) /\ Len(z) = zeros
    <2>1. zeros \in Nat /\ z \in [1..zeros -> Byte]
      BY DEF Byte
    <2> HIDE DEF z
    <2> QED  BY <2>1, Listed
  <1>2. b \in Seq(Byte) /\ Len(b) = Len(k.s.buf) + zeros
    <2> HIDE DEF z
    <2> QED  BY <1>1, ServerFields, Join
  <1>3. n \in Nat /\ L \in Nat /\ k.s.stream \in Stream
    BY ServerFields
  <1>4. st \in Stream /\ st.dataLength = L /\ st.dataOffset = k.s.stream.dataOffset
    <2> HIDE DEF L
    <2> QED  BY <1>3 DEF Stream
  <1>5. r \in [s : {v}, od : {k.od}, ab : {k.ab}, ret : {k.ret}, tx : {k.tx}]
    BY DEF IsCall, terminated, Server
  <1> HIDE DEF b, n, st, L
  <1>6. v \in Server
    BY <1>2, <1>3, <1>4, ZenonT(60) DEF Server
  <1>7. /\ Keeps(v, k.s) /\ v.state = k.s.state /\ v.buf = b /\ v.sizeTran = n /\ v.stream = st
    BY DEF Server, Keeps
  <1> HIDE DEF v
  <1>8. Becomes(r, v, k.od, k.ret)
    BY <1>5, CallIs
  <1> QED  BY <1>2, <1>4, <1>6, <1>7, <1>8 DEF Becomes, n, L

\* Only what the invariant does not speak of has changed.
Copied(r, k) ==
    /\ IsCall(r) /\ r.s \in Server /\ r.od = k.od /\ r.ret = k.ret
    /\ Keeps(r.s, k.s) /\ r.s.state = k.s.state
    /\ r.s.buf = k.s.buf /\ r.s.sizeTran = k.s.sizeTran /\ r.s.stream = k.s.stream

\* The CRC is brought up to date.
LEMMA WithCrc ==
    ASSUME NEW k, IsCall(k), k.s \in Server, NEW data \in Seq(Byte), NEW op,
           NEW r, r = with_crc(k, data, op)
    PROVE  Copied(r, k)
  <1> DEFINE c == k.s.block_crc \o data
             v == [k.s EXCEPT !.block_crc = c]
  <1>1. CASE k.s.block_crcEnabled /\ op > 0
    <2>1. c \in Seq(Byte)
      BY ServerFields, Join
    <2>2. r \in [s : {v}, od : {k.od}, ab : {k.ab}, ret : {k.ret}, tx : {k.tx}]
      BY <1>1, Zenon DEF IsCall, with_crc
    <2> HIDE DEF c
    <2>3. v \in Server
      BY <2>1, ZenonT(60) DEF Server
    <2>4. /\ Keeps(v, k.s) /\ v.state = k.s.state
          /\ v.buf = k.s.buf /\ v.sizeTran = k.s.sizeTran /\ v.stream = k.s.stream
      BY DEF Server, Keeps
    <2> HIDE DEF v
    <2> QED  BY <2>2, <2>3, <2>4, CallIs DEF Becomes, Copied
  <1>2. CASE ~(k.s.block_crcEnabled /\ op > 0)
    <2>1. r = k
      BY <1>2, Zenon DEF with_crc
    <2> QED  BY <2>1 DEF Keeps, Copied
  <1> QED  BY <1>1, <1>2

\* The step of a write that touches the variable and the buffer.
Put(k, data, stream) ==
    [k EXCEPT !.od[k.s.mux] = data, !.s.stream = stream, !.s.buf = <<>>]

\* It keeps everything else.
LEMMA WriteStep ==
    ASSUME NEW k, IsCall(k), Basic(k.s, k.od), k.s.mux \in Objects,
           NEW data \in Seq(Byte), Len(data) = Len(k.od[k.s.mux]), NEW stream \in Stream,
           NEW r, r = Put(k, data, stream),
           k.s.bufOffsetRd = 0
    PROVE  /\ IsCall(r) /\ Basic(r.s, r.od) /\ r.ret = k.ret /\ Keeps(r.s, k.s)
           /\ r.s.state = k.s.state /\ r.s.buf = <<>> /\ r.s.sizeTran = k.s.sizeTran
           /\ r.s.stream = stream /\ r.od[k.s.mux] = data
           /\ \A m \in Objects : m # k.s.mux => r.od[m] = k.od[m]
  <1> DEFINE p == [k.od EXCEPT ![k.s.mux] = data]
             v == [k.s EXCEPT !.stream = stream, !.buf = <<>>]
  <1>1. k.s \in Server /\ k.od \in Dictionary
    BY DEF Basic
  <1>2. r \in [s : {v}, od : {p}, ab : {k.ab}, ret : {k.ret}, tx : {k.tx}]
    BY <1>1 DEF IsCall, Server, Put
  <1>3. /\ p \in Dictionary /\ p[k.s.mux] = data
        /\ \A m \in Objects : m # k.s.mux => p[m] = k.od[m]
    BY <1>1, DictionaryUpdate
  <1> HIDE DEF p
  <1>4. v \in Server
    BY <1>1, NoByte, ZenonT(60) DEF Server
  <1>5. /\ Keeps(v, k.s) /\ v.state = k.s.state
        /\ v.buf = <<>> /\ v.sizeTran = k.s.sizeTran /\ v.stream = stream
    BY <1>1 DEF Server, Keeps
  <1> HIDE DEF v
  <1>6. Basic(v, p)
    BY <1>3, <1>4, <1>5, NoByte, BufferAssumption DEF Basic, Keeps
  <1>7. Becomes(r, v, p, k.ret)
    BY <1>2, CallIs
  <1> QED  BY <1>3, <1>5, <1>6, <1>7 DEF Becomes

\* A write of the bytes in the buffer, where the transfer stands after D
\* bytes of the variable.
Flushed(r, k) ==
    /\ IsCall(r) /\ Basic(r.s, r.od) /\ Keeps(r.s, k.s) /\ r.ret = k.ret
    /\ r.s.state \in {k.s.state, "ABORT"}
    /\ \A m \in Objects : m # k.s.mux => r.od[m] = k.od[m]
    /\ k.s.finished = FALSE /\ r.s.state # "ABORT" =>
          /\ r.s.buf = <<>> /\ r.s.sizeTran = k.s.sizeTran
          /\ r.s.stream.dataOffset = k.s.stream.dataOffset + Len(k.s.buf)
          /\ r.s.stream.dataLength = k.s.stream.dataLength
    /\ r.od[k.s.mux] # k.od[k.s.mux] =>
          \/ k.s.finished = TRUE /\ r.s.state # "ABORT"
          \/ k.s.finished = FALSE /\ Len(k.s.buf) <= k.s.stream.dataLength

\* A transfer that has ended writes to the end of the stream.
Fits(s) == s.finished = TRUE => s.stream.dataOffset + Len(s.buf) = s.stream.dataLength

\* The step that gives up changes nothing in the dictionary.
LEMMA FlushAborts ==
    ASSUME NEW k, IsCall(k), Basic(k.s, k.od), NEW code, NEW r, r = Abort(k, code)
    PROVE  Flushed(r, k) /\ r.s.state = "ABORT"
  <1>1. /\ IsCall(r) /\ ServerInv(r.s, r.od) /\ r.s.state = "ABORT" /\ Keeps(r.s, k.s)
        /\ r.od = k.od /\ r.ret = k.ret
    BY Aborts
  <1> QED  BY <1>1 DEF Flushed, ServerInv

\* write: what OD_writeOriginal returned is compared with what the transfer
\* says.
LEMMA WriteKeeps ==
    ASSUME NEW k, IsCall(k), Basic(k.s, k.od), k.s.mux \in Objects, k.s.bufOffsetRd = 0,
           Fits(k.s), k.s.state # "ABORT",
           NEW r, r = write(k, OD_writeOriginal(k.od[k.s.mux], k.s.stream, k.s.buf))
    PROVE  Flushed(r, k)
  <1> DEFINE w == OD_writeOriginal(k.od[k.s.mux], k.s.stream, k.s.buf)
             j == Put(k, w.data, w.stream)
  <1>1. /\ k.s.stream \in Stream /\ k.s.buf \in Seq(Byte) /\ Len(k.s.buf) \in Nat
        /\ k.s.stream.dataLength \in Nat /\ k.s.stream.dataOffset \in Nat
        /\ k.od[k.s.mux] \in Seq(Byte)
    BY ServerFields, VariableOf DEF Basic
  <1>a. k.s.finished \in BOOLEAN
    BY ServerFlags, Zenon DEF Basic
  <1>2. /\ w.data \in Seq(Byte) /\ Len(w.data) = Len(k.od[k.s.mux])
        /\ w.stream \in Stream /\ w.stream.dataLength = k.s.stream.dataLength
        /\ w.ret \in {"OK", "PARTIAL", "DATA_LONG", "DEV_INCOMPAT"}
        /\ w.ret \notin {"OK", "PARTIAL"} => w.data = k.od[k.s.mux]
        /\ w.ret = "PARTIAL" => /\ w.stream.dataOffset = k.s.stream.dataOffset + Len(k.s.buf)
                                /\ k.s.stream.dataOffset + Len(k.s.buf) < k.s.stream.dataLength
        /\ w.ret = "OK" => k.s.stream.dataOffset + Len(k.s.buf) = k.s.stream.dataLength
    BY <1>1, WriteOriginal
  <1>3. r = written(j, w.ret)
    BY DEF write, Put
  <1> HIDE DEF w
  <1>4. /\ IsCall(j) /\ Basic(j.s, j.od) /\ j.ret = k.ret /\ Keeps(j.s, k.s)
        /\ j.s.state = k.s.state /\ j.s.buf = <<>> /\ j.s.sizeTran = k.s.sizeTran
        /\ j.s.stream = w.stream /\ j.od[k.s.mux] = w.data
        /\ \A m \in Objects : m # k.s.mux => j.od[m] = k.od[m]
    BY <1>2, WriteStep
  <1> HIDE DEF j
  <1>5. j.s.finished = k.s.finished
    BY <1>4 DEF Keeps
  <1>6. ASSUME NEW code, r = Abort(j, code),
               w.data # k.od[k.s.mux] => k.s.finished = FALSE /\ Len(k.s.buf) <= k.s.stream.dataLength
        PROVE  Flushed(r, k)
    <2>1. /\ IsCall(r) /\ ServerInv(r.s, r.od) /\ r.s.state = "ABORT" /\ Keeps(r.s, j.s)
          /\ r.od = j.od /\ r.ret = j.ret
      BY <1>4, <1>6, Aborts, SMTT(40)
    <2>2. Keeps(r.s, k.s)
      BY <1>4, <2>1 DEF Keeps
    <2> QED  BY <1>4, <1>6, <2>1, <2>2 DEF Flushed, ServerInv
  <1>7. CASE w.ret \notin {"OK", "PARTIAL"}
    <2>1. r = Abort(j, OD_getSDOabCode(w.ret))
      BY <1>3, <1>7 DEF written
    <2> QED  BY <1>2, <1>6, <1>7, <2>1
  <1>8. CASE w.ret = "PARTIAL" /\ k.s.finished = TRUE
    BY <1>1, <1>2, <1>8 DEF Fits
  <1>9. CASE w.ret = "OK" /\ k.s.finished = FALSE
    <2>1. r = Abort(j, "DATA_LONG")
      BY <1>3, <1>5, <1>9 DEF written
    <2>2. Len(k.s.buf) <= k.s.stream.dataLength
      BY <1>1, <1>2, <1>9
    <2> QED  BY <1>6, <1>9, <2>1, <2>2, Zenon
  <1>10. CASE w.ret \in {"OK", "PARTIAL"} /\ (w.ret = "OK" <=> k.s.finished = TRUE)
    <2>1. r = j
      <3>1. CASE k.s.finished = TRUE
        BY <1>3, <1>5, <1>10, <3>1 DEF written
      <3>2. CASE k.s.finished = FALSE
        BY <1>3, <1>5, <1>10, <3>2 DEF written
      <3> QED  BY <1>a, <3>1, <3>2, Zenon
    <2>2. k.s.finished = FALSE =>
             /\ r.s.stream.dataOffset = k.s.stream.dataOffset + Len(k.s.buf)
             /\ r.s.stream.dataLength = k.s.stream.dataLength
             /\ Len(k.s.buf) <= k.s.stream.dataLength
      <3>1. SUFFICES ASSUME k.s.finished = FALSE
                     PROVE  /\ r.s.stream.dataOffset = k.s.stream.dataOffset + Len(k.s.buf)
                            /\ r.s.stream.dataLength = k.s.stream.dataLength
                            /\ Len(k.s.buf) <= k.s.stream.dataLength
        OBVIOUS
      <3>2. w.ret = "PARTIAL"
        BY <1>10, <3>1, Zenon
      <3>3. /\ w.stream.dataOffset = k.s.stream.dataOffset + Len(k.s.buf)
            /\ w.stream.dataLength = k.s.stream.dataLength
            /\ k.s.stream.dataOffset + Len(k.s.buf) < k.s.stream.dataLength
        BY <1>2, <3>2, Zenon
      <3>4. \A x, y, z \in Nat : x + y < z => y <= z
        OBVIOUS
      <3> QED  BY <1>1, <1>4, <2>1, <3>3, <3>4, Zenon
    <2> QED  BY <1>a, <1>4, <2>1, <2>2, Zenon DEF Flushed
  <1> QED  BY <1>a, <1>2, <1>7, <1>8, <1>9, <1>10, Zenon

\* A CRC that does not match is refused before the write.
LEMMA CheckedWrite ==
    ASSUME NEW k, IsCall(k), Basic(k.s, k.od), k.s.mux \in Objects, k.s.bufOffsetRd = 0,
           Fits(k.s), k.s.state # "ABORT", NEW op, NEW crc,
           NEW r, r = check_crc_and_write(k, op, crc)
    PROVE  Flushed(r, k)
  <1>1. CASE r = Abort(k, "CRC")
    BY <1>1, FlushAborts
  <1>2. CASE r = write(k, OD_writeOriginal(k.od[k.s.mux], k.s.stream, k.s.buf))
    BY <1>2, WriteKeeps
  <1>3. \/ r = Abort(k, "CRC")
        \/ r = write(k, OD_writeOriginal(k.od[k.s.mux], k.s.stream, k.s.buf))
    BY Zenon DEF check_crc_and_write
  <1> QED  BY <1>1, <1>2, <1>3

\* The number of terminators, and what the check of the size leaves of an
\* ended transfer.
LEMMA SizeChecked ==
    ASSUME NEW s \in Server
    PROVE  /\ terminators(s) \in 0..2
           /\ s.finished = TRUE /\ size_error(s) = "NONE" /\ terminators(s) = 0 =>
                 s.stream.dataLength \in {0, s.sizeTran}
  <1>1. terminators(s) \in 0..2
    BY DEF terminators
  <1>2. ASSUME s.finished = TRUE, size_error(s) = "NONE", terminators(s) = 0,
               s.stream.dataLength \notin {0, s.sizeTran}
        PROVE  FALSE
    <2>1. s.sizeInd \in Nat /\ s.sizeTran \in Nat
      BY ServerFields
    <2>2. \A m, n : LongOrShort(m, n) # "NONE"
      BY DEF LongOrShort
    <2>3. CASE s.sizeInd > 0 /\ s.sizeTran # s.sizeInd
      BY <1>2, <2>2, <2>3 DEF size_error
    <2>4. CASE ~(s.sizeInd > 0 /\ s.sizeTran # s.sizeInd)
      <3>1. s.sizeInd \in {0, s.sizeTran}
        BY <2>1, <2>4
      <3> QED  BY <1>2, <2>2, <2>4, <3>1 DEF size_error
    <2> QED  BY <2>3, <2>4
  <1> QED  BY <1>1, <1>2, Zenon

\* A download that may be written: all of its bytes are in the buffer or in
\* the variable.
Writable(s, o) ==
    /\ Basic(s, o) /\ s.mux \in Objects /\ s.bufOffsetRd = 0 /\ s.state # "ABORT"
    /\ s.stream.dataOffset + Len(s.buf) = s.sizeTran /\ Len(s.buf) + 2 <= BUFFER_SIZE

\* validateAndWriteToOD writes the whole buffer or gives up.
LEMMA ValidateAndWrite ==
    ASSUME NEW k, IsCall(k), Writable(k.s, k.od), NEW op, NEW crc,
           NEW r, r = validateAndWriteToOD(k, op, crc)
    PROVE  Flushed(r, k)
  <1> DEFINE z == IF k.s.finished THEN terminators(k.s) ELSE 0
             t == terminated(k, z)
             j == with_crc(t, k.s.buf, op)
             T == k.s.sizeTran
             L == k.s.stream.dataLength
  <1>a. k.s \in Server /\ Basic(k.s, k.od)
    BY DEF Writable, Basic
  <1>b. /\ k.s.buf \in Seq(Byte) /\ Len(k.s.buf) \in Nat /\ T \in Nat /\ L \in Nat
        /\ k.s.stream.dataOffset \in Nat
    BY <1>a, ServerFields
  <1>c. k.s.finished \in BOOLEAN
    BY <1>a, ServerFlags, Zenon
  <1>1. CASE size_error(k.s) # "NONE"
    <2>1. r = Abort(k, size_error(k.s))
      BY <1>1 DEF validateAndWriteToOD
    <2> QED  BY <1>a, <2>1, FlushAborts
  <1>2. CASE size_error(k.s) = "NONE"
    <2>1. r = check_crc_and_write(j, op, crc)
      BY <1>2 DEF validateAndWriteToOD
    <2>2. /\ z \in 0..2
          /\ k.s.finished = FALSE => z = 0
          /\ k.s.finished = TRUE => z = terminators(k.s)
      <3>1. terminators(k.s) \in 0..2
        BY <1>a, SizeChecked
      <3>2. CASE k.s.finished = TRUE
        BY <3>1, <3>2
      <3>3. CASE k.s.finished = FALSE
        BY <3>3
      <3> QED  BY <1>c, <3>2, <3>3, Zenon
    <2> HIDE DEF z
    <2>3. /\ IsCall(t) /\ t.s \in Server /\ t.od = k.od /\ t.ret = k.ret
          /\ Keeps(t.s, k.s) /\ t.s.state = k.s.state
          /\ Len(t.s.buf) = Len(k.s.buf) + z
          /\ t.s.sizeTran = T + z
          /\ t.s.stream.dataOffset = k.s.stream.dataOffset
          /\ t.s.stream.dataLength = IF k.s.finished /\ (z > 0 \/ L = 0) THEN T + z ELSE L
      BY <1>a, <2>2, Terminated
    <2> HIDE DEF t
    <2>4. /\ IsCall(j) /\ j.s \in Server /\ j.od = t.od /\ j.ret = t.ret
          /\ Keeps(j.s, t.s) /\ j.s.state = t.s.state
          /\ j.s.buf = t.s.buf /\ j.s.sizeTran = t.s.sizeTran /\ j.s.stream = t.s.stream
      BY <1>b, <2>3, WithCrc DEF Copied
    <2> HIDE DEF j
    <2>5. Keeps(j.s, k.s) /\ j.s.finished = k.s.finished
      BY <2>3, <2>4 DEF Keeps
    <2>6. CASE k.s.finished = TRUE
      <3>1. z = 0 => L \in {0, T}
        BY <1>a, <1>2, <2>2, <2>6, SizeChecked
      <3>2. t.s.stream.dataLength = T + z
        <4>1. CASE z > 0 \/ L = 0
          BY <2>3, <2>6, <4>1
        <4>2. CASE ~(z > 0 \/ L = 0)
          BY <1>b, <2>2, <2>3, <3>1, <4>2
        <4> QED  BY <4>1, <4>2
      <3>b. /\ Len(t.s.buf) = Len(k.s.buf) + z /\ t.s.sizeTran = T + z /\ z \in Nat /\ z <= 2
            /\ k.s.stream.dataOffset + Len(k.s.buf) = T /\ Len(k.s.buf) + 2 <= BUFFER_SIZE
            /\ k.s.bufOffsetRd = 0
        BY <2>2, <2>3 DEF Writable
      <3>3. k.s.stream.dataOffset + Len(t.s.buf) = T + z
        <4> HIDE DEF T
        <4> QED  BY <1>b, <3>b
      <3>4. Fits(j.s)
        BY <2>3, <2>4, <3>2, <3>3 DEF Fits
      <3>c. Len(j.s.buf) <= BUFFER_SIZE /\ j.s.bufOffsetRd = 0 /\ 0 <= Len(j.s.buf)
        BY <1>b, <2>4, <2>5, <3>b, BufferAssumption, SMTT(40) DEF Keeps
      <3>5. Basic(j.s, j.od)
        BY <1>a, <2>3, <2>4, <3>c DEF Basic
      <3>a. j.s.mux \in Objects /\ j.s.bufOffsetRd = 0 /\ j.s.state # "ABORT"
        BY <2>3, <2>4, <2>5 DEF Writable, Keeps
      <3>6. Flushed(r, j)
        BY <2>1, <2>4, <3>a, <3>4, <3>5, CheckedWrite
      <3>7. Keeps(r.s, k.s)
        BY <2>5, <3>6 DEF Flushed, Keeps
      <3>8. j.s.mux = k.s.mux
        BY <2>5 DEF Keeps
      <3> QED  BY <2>3, <2>4, <2>5, <2>6, <3>6, <3>7, <3>8, Zenon DEF Flushed
    <2>7. CASE k.s.finished = FALSE
      <3>1. z = 0 /\ t.s.stream.dataLength = L /\ Len(t.s.buf) = Len(k.s.buf)
            /\ t.s.sizeTran = T
        BY <1>b, <2>2, <2>3, <2>7
      <3>4. Fits(j.s)
        BY <2>5, <2>7 DEF Fits
      <3>5. Basic(j.s, j.od)
        BY <1>a, <1>b, <2>3, <2>4, <2>5, <3>1 DEF Basic, Writable, Keeps
      <3>a. j.s.mux \in Objects /\ j.s.bufOffsetRd = 0 /\ j.s.state # "ABORT"
        BY <2>3, <2>4, <2>5 DEF Writable, Keeps
      <3>6. Flushed(r, j)
        BY <2>1, <2>4, <3>a, <3>4, <3>5, CheckedWrite
      <3>7. Keeps(r.s, k.s)
        BY <2>5, <3>6 DEF Flushed, Keeps
      <3> QED  BY <2>3, <2>4, <2>5, <2>7, <3>1, <3>6, <3>7 DEF Flushed, Keeps
    <2> QED  BY <1>c, <2>6, <2>7, Zenon
  <1> QED  BY <1>1, <1>2
-----------------------------------------------------------------------------
(* readFromOd *)

\* What reading leaves alone.
Stays(r, s) ==
    /\ r.mux = s.mux /\ r.rxNew = s.rxNew /\ r.sizeTran = s.sizeTran
    /\ r.timeoutTimer = s.timeoutTimer /\ r.block_timeoutTimer = s.block_timeoutTimer
    /\ r.block_seqno = s.block_seqno /\ r.block_blksize = s.block_blksize
    /\ r.block_noData = s.block_noData

\* The rest of the buffer is moved to its start.
LEMMA Moved ==
    ASSUME NEW k, IsCall(k), Basic(k.s, k.od), NEW r, r = moved(k)
    PROVE  /\ IsCall(r) /\ Basic(r.s, r.od) /\ r.od = k.od /\ r.ret = k.ret
           /\ Stays(r.s, k.s) /\ r.s.state = k.s.state /\ r.s.stream = k.s.stream
           /\ r.s.finished = k.s.finished /\ r.s.bufOffsetRd = 0
           /\ Len(r.s.buf) = Len(k.s.buf) - k.s.bufOffsetRd
           /\ \A i \in 1..Len(r.s.buf) : r.s.buf[i] = k.s.buf[k.s.bufOffsetRd + i]
  <1> DEFINE b == SubSeq(k.s.buf, k.s.bufOffsetRd + 1, Len(k.s.buf))
             v == [k.s EXCEPT !.buf = b, !.bufOffsetRd = 0]
  <1>1. k.s \in Server
    BY DEF Basic
  <1>2. /\ b \in Seq(Byte) /\ Len(b) = Len(k.s.buf) - k.s.bufOffsetRd
        /\ \A i \in 1..Len(b) : b[i] = k.s.buf[k.s.bufOffsetRd + i]
    <2>1. /\ k.s.buf \in Seq(Byte) /\ Len(k.s.buf) \in Nat /\ k.s.bufOffsetRd \in Nat
          /\ k.s.bufOffsetRd <= Len(k.s.buf) /\ Len(k.s.buf) <= Len(k.s.buf)
      BY <1>1, ServerFields DEF Basic
    <2>2. /\ b \in Seq(Byte) /\ Len(b) = Len(k.s.buf) - k.s.bufOffsetRd
          /\ \A i \in 1..(Len(k.s.buf) - k.s.bufOffsetRd) : b[i] = k.s.buf[k.s.bufOffsetRd + i]
      BY <2>1, Slice
    <2> HIDE DEF b
    <2> QED  BY <2>2
  <1>3. r \in [s : {v}, od : {k.od}, ab : {k.ab}, ret : {k.ret}, tx : {k.tx}]
    BY Zenon DEF IsCall, moved
  <1> HIDE DEF b
  <1>4. v \in Server
    BY <1>1, <1>2, ZenonT(60) DEF Server
  <1>5. /\ Stays(v, k.s) /\ v.state = k.s.state /\ v.stream = k.s.stream
        /\ v.finished = k.s.finished /\ v.bufOffsetRd = 0 /\ v.buf = b
    BY <1>1 DEF Server, Stays
  <1> HIDE DEF v
  <1>6. Len(b) <= BUFFER_SIZE /\ 0 <= Len(b)
    BY <1>1, <1>2, ServerFields, BufferAssumption DEF Basic
  <1>7. Basic(v, k.od)
    BY <1>4, <1>5, <1>6 DEF Basic
  <1>8. Becomes(r, v, k.od, k.ret)
    BY <1>3, CallIs
  <1> QED  BY <1>2, <1>5, <1>7, <1>8 DEF Becomes

\* The buffer is extended by what was read.
Extended(k, stream, bytes, finished) ==
    [k EXCEPT !.s.stream = stream, !.s.buf = @ \o bytes, !.s.finished = finished]

ExtendedTo(r, k, stream, bytes, finished) ==
    /\ IsCall(r) /\ Basic(r.s, r.od) /\ r.od = k.od /\ r.ret = k.ret
    /\ Stays(r.s, k.s) /\ r.s.state = k.s.state /\ r.s.stream = stream
    /\ r.s.finished = finished /\ r.s.bufOffsetRd = k.s.bufOffsetRd
    /\ r.s.buf = k.s.buf \o bytes

\* The rest stays.
LEMMA ExtendedKeeps ==
    ASSUME NEW k, IsCall(k), Basic(k.s, k.od), NEW stream \in Stream, NEW bytes \in Seq(Byte),
           NEW finished \in BOOLEAN, Len(k.s.buf) + Len(bytes) <= BUFFER_SIZE,
           NEW r, r = Extended(k, stream, bytes, finished)
    PROVE  ExtendedTo(r, k, stream, bytes, finished)
  <1> DEFINE b == k.s.buf \o bytes
             v == [k.s EXCEPT !.stream = stream, !.buf = b, !.finished = finished]
  <1>1. k.s \in Server
    BY DEF Basic
  <1>2. /\ b \in Seq(Byte) /\ Len(b) = Len(k.s.buf) + Len(bytes)
        /\ Len(k.s.buf) \in Nat /\ Len(bytes) \in Nat
    BY <1>1, ServerFields, Join
  <1>3. r \in [s : {v}, od : {k.od}, ab : {k.ab}, ret : {k.ret}, tx : {k.tx}]
    BY Zenon DEF IsCall, Extended
  <1> HIDE DEF b
  <1>4. v \in Server
    BY <1>1, <1>2, ZenonT(60) DEF Server
  <1>5. /\ Stays(v, k.s) /\ v.state = k.s.state /\ v.stream = stream
        /\ v.bufOffsetRd = k.s.bufOffsetRd /\ v.buf = b
    BY <1>1 DEF Server, Stays
  <1>a. v.finished = finished
    BY <1>1, Zenon DEF Server
  <1> HIDE DEF v
  <1>6. Len(b) <= BUFFER_SIZE /\ k.s.bufOffsetRd <= Len(b)
    BY <1>1, <1>2, ServerFields DEF Basic
  <1>7. Basic(v, k.od)
    BY <1>4, <1>5, <1>6 DEF Basic
  <1>8. Becomes(r, v, k.od, k.ret)
    BY <1>3, CallIs
  <1> QED  BY <1>a, <1>5, <1>7, <1>8 DEF Becomes, b, ExtendedTo

\* The window of what remains after n bytes of the buffer.
LEMMA WindowMoves ==
    ASSUME NEW c \in Seq(Byte), NEW buf \in Seq(Byte), NEW b \in Int, Window(buf, c, b),
           NEW n \in Nat, n <= Len(buf), NEW rem \in Seq(Byte), Len(rem) = Len(buf) - n,
           \A i \in 1..Len(rem) : rem[i] = buf[n + i]
    PROVE  Window(rem, c, b + n)
  <1>1. Len(c) \in Nat /\ Len(buf) \in Nat /\ Len(rem) \in Nat
    BY LenProperties
  <1>2. b >= 0 /\ b + Len(buf) <= Len(c)
    BY DEF Window
  <1>3. b + n >= 0 /\ (b + n) + Len(rem) <= Len(c)
    BY <1>1, <1>2
  <1>4. ASSUME NEW i \in 1..Len(rem)
        PROVE  rem[i] = c[(b + n) + i]
    <2>1. n + i \in 1..Len(buf) /\ b + (n + i) = (b + n) + i
      BY <1>1
    <2>2. buf[n + i] = c[b + (n + i)]
      BY <2>1 DEF Window
    <2> QED  BY <2>1, <2>2
  <1> QED  BY <1>3, <1>4 DEF Window

\* The window is extended by the next piece of the variable.
LEMMA WindowJoin ==
    ASSUME NEW c \in Seq(Byte), NEW rem \in Seq(Byte), NEW b \in Int, Window(rem, c, b),
           NEW bytes, NEW d, d = b + Len(rem), Piece(bytes, c, d)
    PROVE  Window(rem \o bytes, c, b)
  <1>1. /\ bytes \in Seq(Byte) /\ d + Len(bytes) <= Len(c)
        /\ \A i \in 1..Len(bytes) : bytes[i] = c[d + i]
    BY DEF Piece
  <1>2. /\ Len(rem \o bytes) = Len(rem) + Len(bytes)
        /\ \A i \in 1..Len(rem) : (rem \o bytes)[i] = rem[i]
        /\ \A i \in 1..Len(bytes) : (rem \o bytes)[Len(rem) + i] = bytes[i]
        /\ Len(rem) \in Nat /\ Len(bytes) \in Nat /\ Len(c) \in Nat
    BY <1>1, Join, LenProperties
  <1>3. /\ b >= 0 /\ \A i \in 1..Len(rem) : rem[i] = c[b + i]
    BY DEF Window
  <1>4. b + Len(rem \o bytes) <= Len(c)
    BY <1>1, <1>2
  <1>5. ASSUME NEW i \in 1..Len(rem \o bytes)
        PROVE  (rem \o bytes)[i] = c[b + i]
    <2>1. CASE i <= Len(rem)
      <3>1. i \in 1..Len(rem)
        BY <1>2, <2>1
      <3> QED  BY <1>2, <1>3, <3>1
    <2>2. CASE ~(i <= Len(rem))
      <3>1. i - Len(rem) \in 1..Len(bytes) /\ Len(rem) + (i - Len(rem)) = i
            /\ d + (i - Len(rem)) = b + i
        BY <1>2, <2>2
      <3> DEFINE x == i - Len(rem)
      <3>2. (rem \o bytes)[Len(rem) + x] = bytes[x] /\ bytes[x] = c[d + x]
        BY <1>1, <1>2, <3>1
      <3> QED  BY <3>1, <3>2
    <2> QED  BY <2>1, <2>2
  <1> QED  BY <1>3, <1>4, <1>5 DEF Window

\* A refill never asks for a single byte: the bytes sent so far are whole
\* segments.
LEMMA CountNotOne ==
    ASSUME NEW B \in Nat, NEW R \in Nat, NEW N \in Nat, R <= B, B <= N, N >= 20, R % 7 = 0,
           B \in {0, N}
    PROVE  N - (B - R) \in Nat /\ N - (B - R) # 1
  <1>1. CASE B = 0
    BY <1>1
  <1>2. CASE B = N
    <2>1. R # 1
      OBVIOUS
    <2> QED  BY <1>2, <2>1
  <1> QED  BY <1>1, <1>2

\* An upload whose buffer may have to be refilled.
Prepared(s, o) ==
    /\ Basic(s, o) /\ s.mux \in Objects /\ s.state # "ABORT"
    /\ Window(s.buf, o[s.mux], base(s))
    /\ s.stream.attribute = Entries[s.mux[1]].sub[s.mux[2]].attribute
    /\ s.finished = FALSE =>
          Unread(s, o) /\ (Len(s.buf) = BUFFER_SIZE \/ (Len(s.buf) = 0 /\ s.sizeTran = 0))
    /\ s.finished = TRUE => Ended(s, o)

\* It holds n bytes, or all that there are.
Refreshed(r, k, n) ==
    /\ IsCall(r) /\ Basic(r.s, r.od) /\ r.od = k.od /\ r.ret = k.ret /\ Stays(r.s, k.s)
    /\ r.s.state \in {k.s.state, "ABORT"}
    /\ r.s.state # "ABORT" =>
          /\ Loaded(r.s, r.od)
          /\ r.s.finished = FALSE => Len(r.s.buf) - r.s.bufOffsetRd >= n
          /\ r.s.bufOffsetRd \in {0, k.s.bufOffsetRd}

\* Sums of a refill.
LEMMA RefillSums ==
    ASSUME NEW B \in Nat, NEW R \in Nat, NEW T \in Nat, NEW N \in Nat, R <= B, B <= N,
           T - R >= 0, B = N \/ (B = 0 /\ T = 0), NEW d, d = T - R + B, NEW rem, rem = B - R
    PROVE  rem \in Nat /\ rem <= N /\ d = T + rem /\ (d > 0 => d >= N)
  OBVIOUS

\* The numbers of a refill.
LEMMA RefillNumbers ==
    ASSUME NEW s, NEW o, Prepared(s, o), s.finished = FALSE,
           NEW rem, rem = Len(s.buf) - s.bufOffsetRd
    PROVE  /\ rem \in Nat /\ rem <= BUFFER_SIZE /\ BUFFER_SIZE - rem \in Nat
           /\ BUFFER_SIZE - rem # 1
           /\ s.stream.dataOffset = s.sizeTran + rem
           /\ s.stream.dataOffset > 0 => s.stream.dataOffset >= BUFFER_SIZE
           /\ s.stream.dataOffset <= Len(o[s.mux])
           /\ s.stream.dataLength = Len(o[s.mux])
           /\ base(s) + s.bufOffsetRd = s.sizeTran
  <1>1. /\ s.sizeTran \in Nat /\ Len(s.buf) \in Nat /\ s.bufOffsetRd \in Nat
        /\ s.stream.dataOffset \in Nat
        /\ Len(s.buf) <= BUFFER_SIZE /\ s.bufOffsetRd <= Len(s.buf)
    BY ServerFields DEF Prepared, Basic
  <1>2. /\ s.stream.dataOffset = s.sizeTran - s.bufOffsetRd + Len(s.buf)
        /\ s.stream.dataLength = Len(o[s.mux]) /\ s.bufOffsetRd % 7 = 0
    BY DEF Prepared, Unread, Fresh, end
  <1>3. s.sizeTran - s.bufOffsetRd >= 0
        /\ (s.sizeTran - s.bufOffsetRd) + Len(s.buf) <= Len(o[s.mux])
    BY DEF Prepared, Window, base
  <1>4. Len(s.buf) = BUFFER_SIZE \/ (Len(s.buf) = 0 /\ s.sizeTran = 0)
    BY DEF Prepared
  <1>5. BUFFER_SIZE - rem \in Nat /\ BUFFER_SIZE - rem # 1
    BY <1>1, <1>2, <1>4, CountNotOne, BufferAssumption
  <1>6. Len(o[s.mux]) \in Nat /\ BUFFER_SIZE \in Nat
    BY VariableOf, BufferAssumption DEF Prepared, Basic
  <1>7. base(s) + s.bufOffsetRd = s.sizeTran
    BY <1>1 DEF base
  <1>8. /\ rem \in Nat /\ rem <= BUFFER_SIZE /\ s.stream.dataOffset = s.sizeTran + rem
        /\ s.stream.dataOffset > 0 => s.stream.dataOffset >= BUFFER_SIZE
    <2>1. s.sizeTran - s.bufOffsetRd >= 0
      BY <1>3
    <2>2. s.stream.dataOffset = s.sizeTran - s.bufOffsetRd + Len(s.buf)
      BY <1>2
    <2> QED  BY <1>1, <1>4, <1>6, <2>1, <2>2, RefillSums, SMTT(40)
  <1> QED  BY <1>2, <1>3, <1>5, <1>7, <1>8

\* What was read: the next piece of the variable c.
Got(q, s, c, count) ==
    /\ q.ret \in {"OK", "PARTIAL", "DEV_INCOMPAT"}
    /\ Piece(q.bytes, c, s.stream.dataOffset) /\ Len(q.bytes) <= count
    /\ q.stream \in Stream /\ q.stream.attribute = s.stream.attribute
    /\ q.ret = "PARTIAL" =>
          /\ Len(q.bytes) = count
          /\ q.stream.dataOffset = s.stream.dataOffset + count
          /\ q.stream.dataLength = Len(c)
          /\ is_string(s) => \A i \in 1..(s.stream.dataOffset + count) : c[i] # 0
    /\ q.ret = "OK" =>
          Complete(c, is_string(s), s.stream.dataOffset + Len(q.bytes), s.stream.dataOffset)

\* readFromOd gets the next piece.
LEMMA Gets ==
    ASSUME NEW s, NEW o, Prepared(s, o), s.finished = FALSE,
           NEW rem, rem = Len(s.buf) - s.bufOffsetRd,
           NEW q, q = cut_string(s, OD_readOriginal(o[s.mux], s.stream, BUFFER_SIZE - rem))
    PROVE  Got(q, s, o[s.mux], BUFFER_SIZE - rem)
  <1> DEFINE c == o[s.mux]
             count == BUFFER_SIZE - rem
  <1>1. s \in Server /\ c \in Seq(Byte)
    BY VariableOf DEF Prepared, Basic
  <1>2. /\ count \in Nat /\ count # 1
        /\ s.stream.dataOffset <= Len(c) /\ s.stream.dataLength = Len(c)
    BY RefillNumbers
  <1>3. is_string(s) => \A i \in 1..s.stream.dataOffset : c[i] # 0
    BY DEF Prepared, Unread, is_string, is_text
  <1>4. q = cut_string(s, OD_readOriginal(c, s.stream, count))
    OBVIOUS
  <1> HIDE DEF c, count
  <1> QED  BY <1>1, <1>2, <1>3, <1>4, NextPiece, SMTT(40) DEF Got, c, count

\* The buffer after a piece was read into it.
LEMMA LoadsPiece ==
    ASSUME NEW s, NEW o, Prepared(s, o), s.finished = FALSE, NEW rem \in Nat,
           rem = Len(s.buf) - s.bufOffsetRd,
           NEW q, Got(q, s, o[s.mux], BUFFER_SIZE - rem),
           NEW b \in Seq(Byte), Len(b) = rem, Window(b, o[s.mux], s.sizeTran),
           NEW v, Basic(v, o), Stays(v, s), v.buf = b \o q.bytes, v.stream = q.stream,
           v.bufOffsetRd = 0,
           v.finished = FALSE => q.ret = "PARTIAL", v.finished = TRUE => q.ret = "OK"
    PROVE  Loaded(v, o)
  <1> DEFINE c == o[s.mux]
             d == s.stream.dataOffset
             count == BUFFER_SIZE - rem
             T == s.sizeTran
             n == Len(q.bytes)
  <1>1. /\ s \in Server /\ c \in Seq(Byte) /\ T \in Nat /\ d \in Nat /\ s.mux \in Objects
    BY ServerFields, VariableOf DEF Prepared, Basic
  <1>2. /\ rem <= BUFFER_SIZE /\ count \in Nat
        /\ d = T + rem /\ (d > 0 => d >= BUFFER_SIZE)
    BY RefillNumbers
  <1>3. is_string(s) <=> is_text(s.mux)
    BY DEF Prepared, is_string, is_text
  <1>4. /\ Piece(q.bytes, c, d) /\ n <= count /\ q.stream.attribute = s.stream.attribute
        /\ q.bytes \in Seq(Byte) /\ n \in Nat
    BY LenProperties DEF Got, Piece
  <1>5. /\ q.ret = "PARTIAL" =>
              /\ n = count
              /\ q.stream.dataOffset = d + count
              /\ q.stream.dataLength = Len(c)
              /\ is_string(s) => \A i \in 1..(d + count) : c[i] # 0
        /\ q.ret = "OK" => Complete(c, is_string(s), d + n, d)
    BY DEF Got
  <1>6. v.sizeTran = T /\ v.mux = s.mux /\ Len(v.buf) = rem + n
    <2>1. Len(b \o q.bytes) = Len(b) + Len(q.bytes)
      BY <1>4, Join
    <2> QED  BY <2>1 DEF Stays
  <1>7. /\ rem + n <= BUFFER_SIZE /\ (n = count => rem + n = BUFFER_SIZE)
        /\ T - 0 = T /\ T - 0 + (rem + n) = d + n
    <2>1. BUFFER_SIZE \in Nat
      BY BufferAssumption
    <2> HIDE DEF T, d, n
    <2>2. T \in Nat /\ n \in Nat /\ n <= BUFFER_SIZE - rem /\ d = T + rem
      BY <1>1, <1>2, <1>4
    <2> QED  BY <2>1, <2>2
  <1>8. base(v) = T /\ end(v) = d + n
    <2> HIDE DEF T, d, n
    <2> QED  BY <1>6, <1>7 DEF base, end
  <1>9. Window(v.buf, c, T)
    <2>1. T \in Int /\ d = T + Len(b) /\ Window(b, c, T)
      BY <1>1, <1>2
    <2> HIDE DEF T, d, n, c
    <2> QED  BY <1>1, <1>4, <2>1, WindowJoin
  <1>10. v.stream.attribute = Entries[s.mux[1]].sub[s.mux[2]].attribute
    BY <1>4 DEF Prepared
  <1> HIDE DEF T, d, n, c, count
  <1>11. v.finished = FALSE => Unread(v, o) /\ Len(v.buf) = BUFFER_SIZE
    <2>1. 0 % 7 = 0
      OBVIOUS
    <2>2. c = o[s.mux]
      BY DEF c
    <2>3. ASSUME q.ret = "PARTIAL"
          PROVE  Unread(v, o) /\ Len(v.buf) = BUFFER_SIZE
      BY <1>3, <1>5, <1>6, <1>7, <1>8, <2>1, <2>2, <2>3 DEF Unread, Fresh
    <2> QED  BY <2>3
  <1>12. v.finished = TRUE => Ended(v, o)
    <2>1. ASSUME q.ret = "OK"
          PROVE  Ended(v, o)
      <3>1. Length(s.mux, o) = IF is_string(s) THEN string_length(c) ELSE Len(c)
        BY <1>3 DEF Length, c
      <3>2. \/ d + n = Length(s.mux, o)
            \/ d > 0 /\ d + n > d /\ d + n = Length(s.mux, o) + 1
        BY <1>5, <2>1, <3>1 DEF Complete
      <3>3. d > 0 /\ d + n > d => d + n > BUFFER_SIZE
        BY <1>1, <1>2, <1>4, BufferAssumption, SMTT(40)
      <3> QED  BY <1>6, <1>8, <3>2, <3>3 DEF Ended
    <2> QED  BY <2>1
  <1> QED  BY <1>6, <1>8, <1>9, <1>10, <1>11, <1>12 DEF Loaded, c

\* What was read is added to the buffer, or the transfer is given up.
LEMMA Refills ==
    ASSUME NEW k, IsCall(k), Prepared(k.s, k.od), k.s.finished = FALSE,
           NEW n \in Nat \ {0}, NEW crc \in BOOLEAN,
           NEW rem, rem = Len(k.s.buf) - k.s.bufOffsetRd,
           NEW q, Got(q, k.s, k.od[k.s.mux], BUFFER_SIZE - rem),
           NEW r, r = refilled(moved(k), q, n, crc)
    PROVE  Refreshed(r, k, n)
  <1> DEFINE j == moved(k)
             fin == ~(q.ret = "PARTIAL" \/ (j.s.buf = <<>> /\ q.bytes = <<>>))
             x == Extended(j, q.stream, q.bytes, fin)
  <1>1. /\ Basic(k.s, k.od) /\ k.s \in Server /\ k.s.mux \in Objects
        /\ k.od[k.s.mux] \in Seq(Byte) /\ k.s.buf \in Seq(Byte) /\ k.s.sizeTran \in Nat
        /\ k.s.bufOffsetRd \in Nat /\ k.s.bufOffsetRd <= Len(k.s.buf)
    BY ServerFields, VariableOf DEF Prepared, Basic
  <1>2. rem \in Nat /\ rem <= BUFFER_SIZE /\ base(k.s) + k.s.bufOffsetRd = k.s.sizeTran
    BY RefillNumbers
  <1>3. r = IF q.ret \notin {"OK", "PARTIAL"} THEN Abort(j, OD_getSDOabCode(q.ret))
            ELSE IF ~fin /\ Len(j.s.buf) + Len(q.bytes) < n THEN Abort(x, "DEVICE_INCOMPAT")
            ELSE with_crc(x, q.bytes, IF crc THEN 1 ELSE 0)
    BY DEF refilled, Extended
  <1>4. /\ IsCall(j) /\ Basic(j.s, j.od) /\ j.od = k.od /\ j.ret = k.ret
        /\ Stays(j.s, k.s) /\ j.s.state = k.s.state /\ j.s.bufOffsetRd = 0
        /\ Len(j.s.buf) = rem
    BY <1>1, Moved
  <1>c. \A i \in 1..Len(j.s.buf) : j.s.buf[i] = k.s.buf[k.s.bufOffsetRd + i]
    BY <1>1, Moved
  <1> HIDE DEF j
  <1>5. /\ q.bytes \in Seq(Byte) /\ Len(q.bytes) \in Nat /\ j.s.buf \in Seq(Byte)
        /\ Len(q.bytes) <= BUFFER_SIZE - rem /\ q.stream \in Stream
        /\ q.ret \in {"OK", "PARTIAL", "DEV_INCOMPAT"}
    BY <1>4, LenProperties, ServerFields DEF Piece, Basic, Got
  <1>6. Len(j.s.buf) + Len(q.bytes) <= BUFFER_SIZE
    BY <1>2, <1>4, <1>5, BufferAssumption
  <1>a. fin \in BOOLEAN
    OBVIOUS
  <1>b. /\ fin = FALSE => q.ret = "PARTIAL" \/ (j.s.buf = <<>> /\ q.bytes = <<>>)
        /\ fin = TRUE => q.ret # "PARTIAL"
    BY Zenon
  <1> HIDE DEF fin
  <1>7. /\ IsCall(x) /\ Basic(x.s, x.od) /\ x.od = j.od /\ x.ret = j.ret
        /\ Stays(x.s, j.s) /\ x.s.state = j.s.state /\ x.s.stream = q.stream
        /\ x.s.finished = fin /\ x.s.bufOffsetRd = j.s.bufOffsetRd
        /\ x.s.buf = j.s.buf \o q.bytes
    <2>1. IsCall(j) /\ Basic(j.s, j.od) /\ q.stream \in Stream /\ q.bytes \in Seq(Byte)
      BY <1>4, <1>5
    <2>2. x = Extended(j, q.stream, q.bytes, fin)
      OBVIOUS
    <2> HIDE DEF x
    <2>3. ExtendedTo(x, j, q.stream, q.bytes, fin)
      BY <1>a, <1>6, <2>1, <2>2, ExtendedKeeps, Zenon
    <2> QED  BY <2>3, Zenon DEF ExtendedTo
  <1> HIDE DEF x
  <1>8. Stays(x.s, k.s) /\ x.od = k.od
    BY <1>4, <1>7 DEF Stays
  <1>9. CASE q.ret \notin {"OK", "PARTIAL"}
    <2>1. r = Abort(j, OD_getSDOabCode(q.ret))
      BY <1>3, <1>9
    <2>2. /\ IsCall(r) /\ ServerInv(r.s, r.od) /\ r.s.state = "ABORT" /\ Keeps(r.s, j.s)
          /\ r.od = j.od /\ r.ret = j.ret /\ r.s.sizeTran = j.s.sizeTran
      BY <1>4, <2>1, Aborts
    <2>3. Stays(r.s, k.s)
      BY <1>4, <2>2 DEF Stays, Keeps
    <2> QED  BY <1>4, <2>2, <2>3 DEF Refreshed, ServerInv
  <1>10. CASE q.ret \in {"OK", "PARTIAL"} /\ fin = FALSE /\ Len(j.s.buf) + Len(q.bytes) < n
    <2>1. r = Abort(x, "DEVICE_INCOMPAT")
      BY <1>3, <1>10
    <2>2. /\ IsCall(r) /\ ServerInv(r.s, r.od) /\ r.s.state = "ABORT" /\ Keeps(r.s, x.s)
          /\ r.od = x.od /\ r.ret = x.ret /\ r.s.sizeTran = x.s.sizeTran
      BY <1>7, <2>1, Aborts
    <2>3. Stays(r.s, k.s)
      BY <1>8, <2>2 DEF Stays, Keeps
    <2> QED  BY <1>4, <1>7, <2>2, <2>3 DEF Refreshed, ServerInv
  <1>11. CASE q.ret \in {"OK", "PARTIAL"} /\ ~(fin = FALSE /\ Len(j.s.buf) + Len(q.bytes) < n)
    <2>1. r = with_crc(x, q.bytes, IF crc THEN 1 ELSE 0)
      BY <1>a, <1>3, <1>11, Zenon
    <2>2. /\ IsCall(r) /\ r.s \in Server /\ r.od = x.od /\ r.ret = x.ret
          /\ Keeps(r.s, x.s) /\ r.s.state = x.s.state
          /\ r.s.buf = x.s.buf /\ r.s.sizeTran = x.s.sizeTran /\ r.s.stream = x.s.stream
      <3>1. x.s \in Server
        BY <1>7 DEF Basic
      <3>2. IsCall(x) /\ q.bytes \in Seq(Byte)
        BY <1>5, <1>7, SMTT(40)
      <3>3. Copied(r, x)
        BY <2>1, <3>1, <3>2, WithCrc, Zenon
      <3> QED  BY <3>3 DEF Copied
    <2>3. /\ Stays(r.s, k.s) /\ r.s.finished = x.s.finished /\ r.s.bufOffsetRd = 0
          /\ r.s.buf = j.s.buf \o q.bytes /\ r.s.stream = q.stream /\ r.od = k.od
      BY <1>4, <1>7, <1>8, <2>2 DEF Stays, Keeps
    <2>4. Basic(r.s, k.od)
      BY <1>4, <1>7, <2>2, <2>3 DEF Basic
    <2>5. fin = FALSE => q.ret = "PARTIAL"
      <3>1. CASE j.s.buf = <<>> /\ q.bytes = <<>> /\ fin = FALSE
        <4>1. Len(j.s.buf) + Len(q.bytes) < n
          BY <3>1, NoByte
        <4> QED  BY <1>11, <3>1, <4>1
      <3> QED  BY <1>b, <3>1
    <2>6. fin = TRUE => q.ret = "OK"
      BY <1>b, <1>11
    <2>7. Window(j.s.buf, k.od[k.s.mux], k.s.sizeTran)
      <3>1. base(k.s) \in Int
        BY <1>1, ServerFields, SMTT(40) DEF base
      <3>2. Window(k.s.buf, k.od[k.s.mux], base(k.s))
        BY DEF Prepared
      <3>3. Len(j.s.buf) = Len(k.s.buf) - k.s.bufOffsetRd
        BY <1>4
      <3>4. Window(j.s.buf, k.od[k.s.mux], base(k.s) + k.s.bufOffsetRd)
        BY <1>1, <1>c, <1>5, <3>1, <3>2, <3>3, WindowMoves, Zenon
      <3> QED  BY <1>2, <3>4, Zenon
    <2>8. r.s.finished = fin
      BY <1>7, <2>3, Zenon
    <2>9. Loaded(r.s, k.od)
      <3>1. r.s.finished = FALSE => q.ret = "PARTIAL"
        BY <2>5, <2>8, Zenon
      <3>2. r.s.finished = TRUE => q.ret = "OK"
        BY <2>6, <2>8, Zenon
      <3>3. rem \in Nat /\ j.s.buf \in Seq(Byte) /\ Len(j.s.buf) = rem
        BY <1>2, <1>4, <1>5
      <3> QED  BY <2>3, <2>4, <2>7, <3>1, <3>2, <3>3, LoadsPiece, Zenon
    <2>10. Len(r.s.buf) - r.s.bufOffsetRd = Len(j.s.buf) + Len(q.bytes)
      <3>1. Len(j.s.buf \o q.bytes) = Len(j.s.buf) + Len(q.bytes)
        BY <1>5, JoinLength, Zenon
      <3>2. Len(j.s.buf) \in Nat
        BY <1>2, <1>4
      <3> QED  BY <1>5, <2>3, <3>1, <3>2
    <2>11. r.s.finished = FALSE => Len(r.s.buf) - r.s.bufOffsetRd >= n
      <3>1. Len(j.s.buf) + Len(q.bytes) < n \/ Len(j.s.buf) + Len(q.bytes) >= n
        BY <1>2, <1>4, <1>5
      <3> QED  BY <1>11, <2>8, <2>10, <3>1, Zenon
    <2> QED  BY <1>4, <1>7, <2>2, <2>3, <2>4, <2>9, <2>11, Zenon DEF Refreshed
  <1> QED  BY <1>a, <1>9, <1>10, <1>11, Zenon

\* readFromOd
LEMMA ReadFromOd ==
    ASSUME NEW k, IsCall(k), Prepared(k.s, k.od), NEW n \in Nat \ {0}, NEW crc \in BOOLEAN,
           NEW r, r = readFromOd(k, n, crc)
    PROVE  Refreshed(r, k, n)
  <1> DEFINE rem == Len(k.s.buf) - k.s.bufOffsetRd
             q == cut_string(k.s, OD_readOriginal(k.od[k.s.mux], k.s.stream, BUFFER_SIZE - rem))
  <1>a. k.s.finished \in BOOLEAN /\ k.s \in Server
    BY ServerFlags, Zenon DEF Prepared, Basic
  <1>b. Len(k.s.buf) \in Nat /\ k.s.bufOffsetRd \in Nat
    BY <1>a, ServerFields
  <1>1. CASE k.s.finished = TRUE \/ rem >= n
    <2>1. r = k
      BY <1>1, Zenon DEF readFromOd
    <2>2. k.s.finished = FALSE => Len(k.s.buf) - k.s.bufOffsetRd >= n
      BY <1>1, Zenon
    <2>3. k.s.finished = FALSE => Len(k.s.buf) = BUFFER_SIZE
      BY <1>b, <2>2 DEF Prepared
    <2>4. Loaded(k.s, k.od)
      BY <2>3, Zenon DEF Loaded, Prepared
    <2> QED  BY <2>1, <2>2, <2>4 DEF Refreshed, Stays, Prepared
  <1>2. CASE k.s.finished = FALSE /\ ~(rem >= n)
    <2>1. r = refilled(moved(k), q, n, crc)
      BY <1>2, Zenon DEF readFromOd
    <2>2. Got(q, k.s, k.od[k.s.mux], BUFFER_SIZE - rem)
      BY <1>2, Gets
    <2> HIDE DEF q
    <2> QED  BY <1>2, <2>1, <2>2, Refills
  <1> QED  BY <1>a, <1>1, <1>2, Zenon
-----------------------------------------------------------------------------
(* Requests *)

\* The states in which the next call sends an answer.
Answering ==
    {"DOWNLOAD_INITIATE_RSP", "DOWNLOAD_SEGMENT_RSP", "UPLOAD_INITIATE_RSP",
     "UPLOAD_SEGMENT_RSP", "DOWNLOAD_BLK_INITIATE_RSP", "DOWNLOAD_BLK_END_RSP",
     "UPLOAD_BLK_INITIATE_RSP", "UPLOAD_BLK_END_SREQ"}

\* A variable that fits into the buffer is not changed by a part of a
\* segmented download.
Whole(r, k) ==
    \A m \in Objects :
        r.od[m] # k.od[m] =>
            \/ k.s.state = "DOWNLOAD_BLK_END_REQ"
            \/ Len(k.od[m]) > BUFFER_SIZE - 9
            \/ r.s.finished = TRUE /\ r.s.state \in {"DOWNLOAD_INITIATE_RSP", "DOWNLOAD_SEGMENT_RSP"}

\* What the handling of a request leads to.
Handled(r, k) ==
    /\ IsCall(r) /\ Basic(r.s, r.od) /\ Phase(r.s, r.od) /\ r.ret = k.ret
    /\ r.s.state \in Answering \cup {"UPLOAD_BLK_SUBBLOCK_SREQ", "ABORT"}
    /\ Whole(r, k)

\* The part of the invariant that a download's state calls for.
LEMMA DownloadPhase ==
    ASSUME NEW v, NEW o, v.mux \in Objects,
           \/ v.state = "DOWNLOAD_INITIATE_RSP" /\ (v.finished = FALSE => Opened(v, o))
           \/ v.state = "DOWNLOAD_BLK_INITIATE_RSP" /\ Opened(v, o)
           \/ v.state = "DOWNLOAD_SEGMENT_REQ" /\ Segmented(v, o)
           \/ v.state = "DOWNLOAD_SEGMENT_RSP" /\ (v.finished = FALSE => Segmented(v, o))
           \/ v.state = "DOWNLOAD_BLK_SUBBLOCK_REQ" /\ Subblock(v, o)
           \/ v.state = "DOWNLOAD_BLK_SUBBLOCK_RSP" /\ SubblockEnd(v, o)
           \/ /\ v.state = "DOWNLOAD_BLK_END_REQ"
              /\ Filled(v, o) /\ v.finished = TRUE /\ Len(v.buf) >= 7
           \/ v.state = "DOWNLOAD_BLK_END_RSP"
    PROVE  Phase(v, o)
  BY DEF Phase, Passing, Resting, Downloading, Uploading, UploadStates

\* The part of the invariant that an upload's state calls for.
LEMMA UploadPhase ==
    ASSUME NEW v, NEW o, v.mux \in Objects, Loaded(v, o),
           \/ v.state \in {"UPLOAD_INITIATE_RSP", "UPLOAD_SEGMENT_REQ", "UPLOAD_SEGMENT_RSP",
                           "UPLOAD_BLK_END_SREQ", "UPLOAD_BLK_END_CRSP"}
           \/ /\ v.state \in {"UPLOAD_BLK_INITIATE_RSP", "UPLOAD_BLK_INITIATE_REQ2"}
              /\ Asked(v, v.block_blksize)
           \/ v.state = "UPLOAD_BLK_SUBBLOCK_SREQ" /\ Sending(v)
           \/ v.state = "UPLOAD_BLK_SUBBLOCK_CRSP" /\ Sent(v)
    PROVE  Phase(v, o)
  BY DEF Phase, Passing, Resting, Downloading, Uploading, UploadStates

\* Nothing is asked of a server at rest.
LEMMA RestPhase ==
    ASSUME NEW v, NEW o, v.state \in Resting
    PROVE  Phase(v, o) /\ Ticking(v)
  BY DEF Phase, Passing, Resting, Downloading, Uploading, UploadStates, Ticking

\* A step that replaces the server and keeps its buffer.
Updated(r, k, v, ret) ==
    IsCall(r) /\ Basic(r.s, r.od) /\ r.s = v /\ r.od = k.od /\ r.ret = ret

\* Such a step keeps the buffer in its bounds.
LEMMA Update ==
    ASSUME NEW k, IsCall(k), Basic(k.s, k.od), NEW v \in Server, v.buf = k.s.buf,
           v.bufOffsetRd = k.s.bufOffsetRd, NEW a, NEW q, NEW t,
           NEW r \in [s : {v}, od : {k.od}, ab : {a}, ret : {q}, tx : {t}]
    PROVE  Updated(r, k, v, q)
  <1>1. Becomes(r, v, k.od, q)
    BY CallIs
  <1>2. Basic(v, k.od)
    BY DEF Basic
  <1> QED  BY <1>1, <1>2 DEF Updated, Becomes

\* Everything that the invariant speaks of, but for the state.
Alike(v, s) ==
    /\ Keeps(v, s) /\ v.buf = s.buf /\ v.sizeTran = s.sizeTran /\ v.stream = s.stream

\* The conditions of the invariant depend on these fields.
LEMMA AlikeData ==
    ASSUME NEW v, NEW s, NEW o, Alike(v, s)
    PROVE  /\ Opened(v, o) <=> Opened(s, o)
           /\ Filled(v, o) <=> Filled(s, o)
           /\ Segmented(v, o) <=> Segmented(s, o)
           /\ Loaded(v, o) <=> Loaded(s, o)
           /\ \A n : Asked(v, n) <=> Asked(s, n)
  <1>1. /\ v.mux = s.mux /\ v.finished = s.finished /\ v.bufOffsetRd = s.bufOffsetRd
        /\ v.block_blksize = s.block_blksize
        /\ v.buf = s.buf /\ v.sizeTran = s.sizeTran /\ v.stream = s.stream
    BY DEF Alike, Keeps
  <1>2. (Opened(v, o) <=> Opened(s, o)) /\ (Filled(v, o) <=> Filled(s, o))
    BY <1>1, Zenon DEF Opened, Filled, Fresh
  <1>3. Segmented(v, o) <=> Segmented(s, o)
    BY <1>1, <1>2, Zenon DEF Segmented
  <1>4. base(v) = base(s) /\ end(v) = end(s)
    BY <1>1, Zenon DEF base, end
  <1>5. (Unread(v, o) <=> Unread(s, o)) /\ (Ended(v, o) <=> Ended(s, o))
    BY <1>1, <1>4, Zenon DEF Unread, Ended, Fresh
  <1>6. Loaded(v, o) <=> Loaded(s, o)
    BY <1>1, <1>4, <1>5, Zenon DEF Loaded
  <1>7. \A n : Asked(v, n) <=> Asked(s, n)
    BY <1>1, Zenon DEF Asked
  <1> QED  BY <1>2, <1>3, <1>6, <1>7

Moves(r, k, state) ==
    /\ IsCall(r) /\ Basic(r.s, r.od) /\ r.od = k.od /\ r.ret = k.ret
    /\ r.s.state = state /\ Alike(r.s, k.s)

\* A step that changes the state only.
LEMMA SetState ==
    ASSUME NEW k, IsCall(k), Basic(k.s, k.od), NEW state \in CO_SDO_state,
           NEW r, r = [k EXCEPT !.s.state = state]
    PROVE  Moves(r, k, state)
  <1> DEFINE v == [k.s EXCEPT !.state = state]
  <1>1. k.s \in Server
    BY DEF Basic
  <1>2. r \in [s : {v}, od : {k.od}, ab : {k.ab}, ret : {k.ret}, tx : {k.tx}]
    BY Zenon DEF IsCall
  <1>3. v \in Server
    BY <1>1, ZenonT(60) DEF Server
  <1>4. v.state = state /\ Alike(v, k.s) /\ v.bufOffsetRd = k.s.bufOffsetRd /\ v.buf = k.s.buf
    BY <1>1 DEF Server, Alike, Keeps
  <1> HIDE DEF v
  <1>5. Updated(r, k, v, k.ret)
    BY <1>2, <1>3, <1>4, Update
  <1> QED  BY <1>4, <1>5 DEF Updated, Moves

\* Nothing was written.
LEMMA NothingWritten ==
    ASSUME NEW k, NEW r, r.od = k.od
    PROVE  Whole(r, k)
  BY DEF Whole

\* A request that is refused, after some of the state was changed.
LEMMA HandledAborts ==
    ASSUME NEW k, NEW j, IsCall(j), Basic(j.s, j.od), j.od = k.od, j.ret = k.ret,
           NEW code, NEW r, r = Abort(j, code)
    PROVE  Handled(r, k)
  <1>1. /\ IsCall(r) /\ ServerInv(r.s, r.od) /\ r.s.state = "ABORT"
        /\ r.od = j.od /\ r.ret = j.ret
    BY Aborts
  <1> QED  BY <1>1, NothingWritten DEF Handled, ServerInv

\* A download of a size that the variable takes is accepted.
LEMMA SizedDownload ==
    ASSUME NEW k, IsCall(k), Basic(k.s, k.od), k.s.mux \in Objects, Opened(k.s, k.od),
           NEW indicated \in BOOLEAN,
           NEW next \in {"DOWNLOAD_INITIATE_RSP", "DOWNLOAD_BLK_INITIATE_RSP"},
           NEW r, r = download_sized(k, indicated, next)
    PROVE  Handled(r, k)
  <1> DEFINE size == k.s.rx.size
             n == IF indicated THEN size ELSE 0
             j == [k EXCEPT !.s.sizeInd = n]
             v == [k.s EXCEPT !.sizeInd = n]
             w == [k.s EXCEPT !.sizeInd = n, !.state = next, !.finished = FALSE]
  <1>1. k.s \in Server /\ k.s.rx \in Heard /\ next \in CO_SDO_state
    BY ServerFields, States DEF Basic
  <1>2. n \in Nat
    BY <1>1, HeardFrame
  <1>3. \/ r = Abort(j, LongOrShort(size, k.s.stream.dataLength))
        \/ r = [j EXCEPT !.s.state = next, !.s.finished = FALSE]
    BY Zenon DEF download_sized
  <1> HIDE DEF n, size
  <1>4. /\ v \in Server /\ j \in [s : {v}, od : {k.od}, ab : {k.ab}, ret : {k.ret}, tx : {k.tx}]
    BY <1>1, <1>2, ZenonT(60) DEF Server, IsCall
  <1>5. v.buf = k.s.buf /\ v.bufOffsetRd = k.s.bufOffsetRd
    BY <1>1 DEF Server
  <1>6. Updated(j, k, v, k.ret)
    <2> HIDE DEF v, j
    <2> QED  BY <1>4, <1>5, Update
  <1>7. CASE r = Abort(j, LongOrShort(size, k.s.stream.dataLength))
    <2> HIDE DEF j
    <2> QED  BY <1>6, <1>7, HandledAborts DEF Updated
  <1>8. CASE r = [j EXCEPT !.s.state = next, !.s.finished = FALSE]
    <2>1. r \in [s : {w}, od : {k.od}, ab : {k.ab}, ret : {k.ret}, tx : {k.tx}]
      BY <1>8, Zenon DEF IsCall
    <2>2. w \in Server
      BY <1>1, <1>2, ZenonT(60) DEF Server
    <2>3. /\ w.state = next /\ w.mux = k.s.mux /\ w.stream = k.s.stream
          /\ w.buf = k.s.buf /\ w.bufOffsetRd = k.s.bufOffsetRd
      BY <1>1 DEF Server
    <2> HIDE DEF w
    <2>4. Updated(r, k, w, k.ret)
      BY <2>1, <2>2, <2>3, Update
    <2>5. Opened(w, k.od)
      BY <2>3 DEF Opened, Fresh
    <2>6. Phase(w, k.od)
      BY <2>3, <2>5, DownloadPhase
    <2>7. r.od = k.od /\ r.s.state \in Answering
      BY <2>3, <2>4 DEF Updated, Answering
    <2> QED  BY <2>4, <2>6, <2>7, NothingWritten DEF Updated, Handled
  <1> QED  BY <1>3, <1>7, <1>8

\* The bytes of an expedited download.
LEMMA ExpeditedBytes ==
    ASSUME NEW f \in Heard, NEW n \in 0..4, NEW size \in Nat,
           NEW b, b = [i \in 1..size |-> IF i <= n THEN f.bytes[i] ELSE 0]
    PROVE  b \in Seq(Byte)
  <1>1. f.bytes \in Seq(Byte) /\ Len(f.bytes) = 7
    BY HeardFrame
  <1>2. ASSUME NEW i \in 1..size
        PROVE  (IF i <= n THEN f.bytes[i] ELSE 0) \in Byte
    <2>1. CASE i <= n
      <3>1. i \in 1..Len(f.bytes)
        BY <1>1, <2>1
      <3> QED  BY <1>1, <2>1, <3>1, ElementOfSeq
    <2>2. CASE ~(i <= n)
      BY <2>2 DEF Byte
    <2> QED  BY <2>1, <2>2
  <1>3. b \in [1..size -> Byte]
    BY <1>2
  <1> QED  BY <1>3, Listed

\* An expedited download writes the variable at once.
LEMMA ExpeditedWritten ==
    ASSUME NEW k, IsCall(k), Basic(k.s, k.od), k.s.mux \in Objects,
           NEW stream \in Stream, NEW bytes \in Seq(Byte),
           NEW w, w = OD_writeOriginal(k.od[k.s.mux], stream, bytes),
           NEW r, r = expedited_written(k, w)
    PROVE  Handled(r, k)
  <1> DEFINE j == [k EXCEPT !.s.stream = w.stream]
             v == [k.s EXCEPT !.stream = w.stream]
             u == [k.s EXCEPT !.stream = w.stream, !.state = "DOWNLOAD_INITIATE_RSP",
                              !.finished = TRUE]
             p == [k.od EXCEPT ![k.s.mux] = w.data]
  <1>1. /\ k.s \in Server /\ k.od \in Dictionary /\ k.od[k.s.mux] \in Seq(Byte)
    BY VariableOf DEF Basic
  <1>2. w.data \in Seq(Byte) /\ Len(w.data) = Len(k.od[k.s.mux]) /\ w.stream \in Stream
    BY <1>1, WriteOriginal
  <1>3. CASE w.ret # "OK"
    <2>1. r = Abort(j, OD_getSDOabCode(w.ret))
      BY <1>3 DEF expedited_written
    <2>2. /\ v \in Server /\ j \in [s : {v}, od : {k.od}, ab : {k.ab}, ret : {k.ret}, tx : {k.tx}]
      BY <1>1, <1>2, ZenonT(60) DEF Server, IsCall
    <2>3. v.buf = k.s.buf /\ v.bufOffsetRd = k.s.bufOffsetRd
      BY <1>1 DEF Server
    <2> HIDE DEF v, j
    <2>4. Updated(j, k, v, k.ret)
      BY <2>2, <2>3, Update
    <2> QED  BY <2>1, <2>4, HandledAborts DEF Updated
  <1>4. CASE w.ret = "OK"
    <2>1. r = [k EXCEPT !.s.stream = w.stream, !.od[k.s.mux] = w.data,
                        !.s.state = "DOWNLOAD_INITIATE_RSP", !.s.finished = TRUE]
      BY <1>4 DEF expedited_written
    <2>2. r \in [s : {u}, od : {p}, ab : {k.ab}, ret : {k.ret}, tx : {k.tx}]
      BY <2>1, Zenon DEF IsCall
    <2>3. u \in Server
      BY <1>1, <1>2, States, ZenonT(60) DEF Server
    <2>4. u.state = "DOWNLOAD_INITIATE_RSP" /\ u.mux = k.s.mux
          /\ u.buf = k.s.buf /\ u.bufOffsetRd = k.s.bufOffsetRd
      BY <1>1 DEF Server
    <2>a. u.finished = TRUE
      BY <1>1, Zenon DEF Server
    <2>5. p \in Dictionary
      BY <1>1, <1>2, DictionaryUpdate
    <2> HIDE DEF u, p
    <2>6. Becomes(r, u, p, k.ret)
      BY <2>2, CallIs
    <2>7. Basic(u, p)
      BY <2>3, <2>4, <2>5 DEF Basic
    <2>8. Phase(u, p)
      BY <2>4, <2>a, DownloadPhase
    <2>9. r.s.state \in Answering /\ Whole(r, k)
      BY <2>4, <2>a, <2>6 DEF Becomes, Answering, Whole
    <2> QED  BY <2>6, <2>7, <2>8, <2>9 DEF Becomes, Handled
  <1> QED  BY <1>3, <1>4

\* on_download_initiate
LEMMA OnDownloadInitiate ==
    ASSUME NEW k, IsCall(k), Basic(k.s, k.od), k.s.mux \in Objects, Opened(k.s, k.od),
           NEW r, r = on_download_initiate(k)
    PROVE  Handled(r, k)
  <1>1. k.s \in Server /\ k.s.rx \in Heard /\ k.s.rx.cmd \in Byte
        /\ k.s.stream \in Stream /\ k.s.stream.dataLength \in Nat
    BY ServerFields, HeardFrame DEF Basic
  <1>2. CASE bits(k.s.rx.cmd, 1, 1) = 1
    <2> DEFINE L == k.s.stream.dataLength
               n == expedited_size(k.s.rx.cmd, L)
               str == is_string(k.s) /\ (L = 0 \/ n < L)
               size == IF str THEN n + (IF L - n = 1 THEN 1 ELSE 2) ELSE n
               stream == [k.s.stream EXCEPT !.dataLength = IF str \/ L = 0 THEN size ELSE @]
               bytes == [i \in 1..size |-> IF i <= n THEN k.s.rx.bytes[i] ELSE 0]
    <2>1. n \in 1..4
      <3>1. bits(k.s.rx.cmd, 2, 2) \in 0..3
        BY <1>1, BitFields
      <3> QED  BY <1>1, <3>1 DEF expedited_size
    <2> HIDE DEF n
    <2>2. size \in Nat
      BY <2>1
    <2>3. \/ r = Abort(k, LongOrShort(n, L))
          \/ r = expedited_written(k, OD_writeOriginal(k.od[k.s.mux], stream, bytes))
      BY <1>2, Zenon DEF on_download_initiate, download_expedited, n
    <2> HIDE DEF size
    <2>4. stream \in Stream
      BY <1>1, <2>2 DEF Stream
    <2>5. bytes \in Seq(Byte)
      <3>1. n \in 0..4
        BY <2>1
      <3> QED  BY <1>1, <2>2, <3>1, ExpeditedBytes
    <2> HIDE DEF stream, bytes
    <2>6. CASE r = Abort(k, LongOrShort(n, L))
      BY <2>6, HandledAborts
    <2>7. CASE r = expedited_written(k, OD_writeOriginal(k.od[k.s.mux], stream, bytes))
      BY <2>4, <2>5, <2>7, ExpeditedWritten
    <2> QED  BY <2>3, <2>6, <2>7
  <1>3. CASE bits(k.s.rx.cmd, 1, 1) # 1
    <2> DEFINE indicated == k.s.rx.cmd % 2 = 1
    <2>1. r = download_sized(k, indicated, "DOWNLOAD_INITIATE_RSP")
      BY <1>3 DEF on_download_initiate
    <2>2. indicated \in BOOLEAN
      OBVIOUS
    <2> HIDE DEF indicated
    <2> QED  BY <2>1, <2>2, SizedDownload, Zenon
  <1> QED  BY <1>2, <1>3

\* on_download_blk_initiate
LEMMA OnDownloadBlkInitiate ==
    ASSUME NEW k, IsCall(k), Basic(k.s, k.od), k.s.mux \in Objects, Opened(k.s, k.od),
           NEW r, r = on_download_blk_initiate(k)
    PROVE  Handled(r, k)
  <1> DEFINE c == bits(k.s.rx.cmd, 2, 1) = 1
             i == bits(k.s.rx.cmd, 1, 1) = 1
             j == [k EXCEPT !.s.block_crcEnabled = c]
             v == [k.s EXCEPT !.block_crcEnabled = c]
  <1>1. k.s \in Server /\ c \in BOOLEAN /\ i \in BOOLEAN
    BY DEF Basic
  <1>2. r = download_sized(j, i, "DOWNLOAD_BLK_INITIATE_RSP")
    BY DEF on_download_blk_initiate
  <1> HIDE DEF c, i
  <1>b. v \in Server
    BY <1>1, ZenonT(60) DEF Server
  <1>3. j \in [s : {v}, od : {k.od}, ab : {k.ab}, ret : {k.ret}, tx : {k.tx}]
    BY Zenon DEF IsCall
  <1>4. v.buf = k.s.buf /\ v.bufOffsetRd = k.s.bufOffsetRd /\ v.mux = k.s.mux
        /\ v.stream = k.s.stream
    BY <1>1 DEF Server
  <1>a. v.state = k.s.state
    BY <1>1 DEF Server
  <1> HIDE DEF v, j
  <1>5. Updated(j, k, v, k.ret)
    BY <1>b, <1>3, <1>4, Update
  <1>6. IsCall(j) /\ Basic(j.s, j.od) /\ j.s.mux \in Objects /\ Opened(j.s, j.od)
    BY <1>4, <1>5 DEF Updated, Opened, Fresh
  <1>7. Handled(r, j)
    BY <1>1, <1>2, <1>6, SizedDownload, Zenon
  <1>8. j.od = k.od /\ j.ret = k.ret /\ j.s.state = k.s.state
    BY <1>a, <1>5 DEF Updated
  <1> QED  BY <1>7, <1>8, Zenon DEF Handled, Whole

\* The state after a write that went well.
LEMMA Continues ==
    ASSUME NEW e, IsCall(e), Basic(e.s, e.od), NEW state \in CO_SDO_state, state # "ABORT",
           NEW r, r = Continue(e, state)
    PROVE  /\ IsCall(r) /\ Basic(r.s, r.od) /\ r.od = e.od /\ r.ret = e.ret /\ Alike(r.s, e.s)
           /\ r.s.state = IF e.s.state = "ABORT" THEN "ABORT" ELSE state
  <1>1. CASE e.s.state = "ABORT"
    <2>1. r = e
      BY <1>1 DEF Continue, Aborted
    <2> QED  BY <1>1, <2>1 DEF Alike, Keeps
  <1>2. CASE e.s.state # "ABORT"
    <2>1. r = [e EXCEPT !.s.state = state]
      BY <1>2 DEF Continue, Aborted
    <2>2. Moves(r, e, state)
      BY <2>1, SetState, Zenon
    <2> QED  BY <1>2, <2>2 DEF Moves
  <1> QED  BY <1>1, <1>2

\* A segment is stored in the buffer.
Stored(k, bytes, finished) ==
    [k EXCEPT !.s.finished = finished, !.s.buf = @ \o bytes, !.s.sizeTran = @ + Len(bytes)]

TakenIn(r, k) ==
    /\ IsCall(r) /\ Writable(r.s, r.od) /\ r.od = k.od /\ r.ret = k.ret
    /\ Filled(r.s, r.od) /\ r.s.state = k.s.state

\* The bytes of a segment fit.
LEMMA StoresSegment ==
    ASSUME NEW k, IsCall(k), Basic(k.s, k.od), k.s.mux \in Objects, k.s.state # "ABORT",
           Segmented(k.s, k.od), NEW bytes \in Seq(Byte), Len(bytes) <= 7,
           NEW finished \in BOOLEAN, NEW r, r = Stored(k, bytes, finished)
    PROVE  TakenIn(r, k)
  <1> DEFINE b == k.s.buf \o bytes
             n == k.s.sizeTran + Len(bytes)
             v == [k.s EXCEPT !.finished = finished, !.buf = b, !.sizeTran = n]
  <1>1. /\ k.s \in Server /\ k.s.buf \in Seq(Byte) /\ k.s.sizeTran \in Nat
        /\ Len(bytes) \in Nat /\ Len(k.s.buf) \in Nat /\ k.s.stream.dataOffset \in Nat
    BY ServerFields, LenProperties DEF Basic
  <1>2. b \in Seq(Byte) /\ Len(b) = Len(k.s.buf) + Len(bytes)
    BY <1>1, JoinLength
  <1>3. n \in Nat
    BY <1>1
  <1>4. r \in [s : {v}, od : {k.od}, ab : {k.ab}, ret : {k.ret}, tx : {k.tx}]
    BY Zenon DEF IsCall, Stored
  <1> HIDE DEF b, n
  <1>5. v \in Server
    BY <1>1, <1>2, <1>3, ZenonT(60) DEF Server
  <1>6. /\ v.buf = b /\ v.sizeTran = n /\ v.stream = k.s.stream /\ v.mux = k.s.mux
        /\ v.state = k.s.state /\ v.bufOffsetRd = k.s.bufOffsetRd
    BY <1>1 DEF Server
  <1> HIDE DEF v
  <1>8. /\ k.s.bufOffsetRd = 0 /\ k.s.stream.dataOffset + Len(k.s.buf) = k.s.sizeTran
        /\ Len(k.s.buf) + 9 <= BUFFER_SIZE /\ k.s.stream.dataLength = Len(k.od[k.s.mux])
    BY DEF Segmented, Filled, Fresh
  <1>9. /\ Len(b) + 2 <= BUFFER_SIZE /\ Len(b) <= BUFFER_SIZE /\ 0 <= Len(b)
        /\ k.s.stream.dataOffset + Len(b) = n
    <2>1. BUFFER_SIZE \in Nat
      BY BufferAssumption
    <2>2. Len(b) + 2 <= BUFFER_SIZE /\ Len(b) <= BUFFER_SIZE /\ 0 <= Len(b)
      BY <1>1, <1>2, <1>8, <2>1, SMTT(40)
    <2>3. k.s.stream.dataOffset + Len(b) = n
      <3>1. \A d, m, l \in Nat : d + (m + l) = (d + m) + l
        OBVIOUS
      <3>2. k.s.stream.dataOffset + (Len(k.s.buf) + Len(bytes))
            = (k.s.stream.dataOffset + Len(k.s.buf)) + Len(bytes)
        BY <1>1, <3>1, Zenon
      <3> QED  BY <1>2, <1>8, <3>2, Zenon DEF n
    <2> QED  BY <2>2, <2>3
  <1>10. Basic(v, k.od)
    BY <1>5, <1>6, <1>8, <1>9 DEF Basic
  <1>11. Writable(v, k.od) /\ Filled(v, k.od)
    BY <1>6, <1>8, <1>9, <1>10 DEF Writable, Filled, Fresh
  <1>12. Becomes(r, v, k.od, k.ret)
    BY <1>4, CallIs
  <1> QED  BY <1>6, <1>11, <1>12 DEF Becomes, TakenIn

\* After a write that has left the transfer open the buffer is empty.
LEMMA FlushedOpen ==
    ASSUME NEW j, Writable(j.s, j.od), Filled(j.s, j.od), NEW r, Flushed(r, j),
           j.s.finished = FALSE, r.s.state # "ABORT"
    PROVE  Filled(r.s, r.od) /\ r.s.buf = <<>> /\ r.s.finished = FALSE /\ r.s.mux = j.s.mux
  <1>1. /\ r.s.buf = <<>> /\ r.s.sizeTran = j.s.sizeTran
        /\ r.s.stream.dataOffset = j.s.stream.dataOffset + Len(j.s.buf)
        /\ r.s.stream.dataLength = j.s.stream.dataLength
        /\ r.s.mux = j.s.mux /\ r.s.bufOffsetRd = j.s.bufOffsetRd /\ r.s.finished = FALSE
    BY DEF Flushed, Keeps
  <1>2. Len(r.od[r.s.mux]) = Len(j.od[j.s.mux])
    <2>1. j.od \in Dictionary /\ r.od \in Dictionary /\ j.s.mux \in Objects
      BY DEF Writable, Basic, Flushed
    <2> QED  BY <1>1, <2>1, VariableOf
  <1>3. r.s.stream.dataOffset \in Nat
    BY ServerFields DEF Flushed, Basic
  <1>4. r.s.stream.dataOffset + Len(r.s.buf) = r.s.sizeTran /\ Len(r.s.buf) + 2 <= BUFFER_SIZE
    BY <1>1, <1>3, NoByte, BufferAssumption DEF Filled
  <1> QED  BY <1>1, <1>2, <1>4 DEF Filled, Fresh

\* A write in the middle of a segmented download is one of a long variable,
\* and one at its end is not given up.
LEMMA SegmentWritten ==
    ASSUME NEW k, NEW j, IsCall(j), Writable(j.s, j.od), Filled(j.s, j.od), j.od = k.od,
           j.s.finished = TRUE \/ (j.s.finished = FALSE /\ Len(j.s.buf) > BUFFER_SIZE - 9),
           NEW e, Flushed(e, j), NEW r, r.od = e.od,
           e.s.state # "ABORT" => r.s.finished = j.s.finished /\ r.s.state = "DOWNLOAD_SEGMENT_RSP"
    PROVE  Whole(r, k)
  <1>1. /\ j.s.mux \in Objects /\ j.s.stream.dataLength = Len(j.od[j.s.mux])
        /\ Len(j.s.buf) \in Nat /\ j.s.stream.dataLength \in Nat /\ BUFFER_SIZE \in Nat
    BY ServerFields, BufferAssumption DEF Writable, Basic, Filled, Fresh
  <1>2. \A m \in Objects : m # j.s.mux => r.od[m] = k.od[m]
    BY DEF Flushed
  <1>3. ASSUME r.od[j.s.mux] # k.od[j.s.mux]
        PROVE  \/ Len(k.od[j.s.mux]) > BUFFER_SIZE - 9
               \/ r.s.finished = TRUE /\ r.s.state \in {"DOWNLOAD_INITIATE_RSP", "DOWNLOAD_SEGMENT_RSP"}
    <2>1. \/ j.s.finished = TRUE /\ e.s.state # "ABORT"
          \/ j.s.finished = FALSE /\ Len(j.s.buf) <= j.s.stream.dataLength
      BY <1>3 DEF Flushed
    <2>2. CASE j.s.finished = TRUE /\ e.s.state # "ABORT"
      BY <2>2
    <2>3. CASE j.s.finished = FALSE /\ Len(j.s.buf) <= j.s.stream.dataLength
      <3>1. Len(j.s.buf) > BUFFER_SIZE - 9
        BY <2>3
      <3> QED  BY <1>1, <2>3, <3>1
    <2> QED  BY <2>1, <2>2, <2>3
  <1> QED  BY <1>2, <1>3 DEF Whole

\* A segment is taken, and the buffer emptied if the next might not fit.
LEMMA TakesSegment ==
    ASSUME NEW k, NEW j, IsCall(j), Writable(j.s, j.od), Filled(j.s, j.od), j.od = k.od,
           j.ret = k.ret, j.s.state = "DOWNLOAD_SEGMENT_REQ",
           NEW r, r = Continue(empty_buffer(j), "DOWNLOAD_SEGMENT_RSP")
    PROVE  Handled(r, k)
  <1> DEFINE e == empty_buffer(j)
  <1>0. j.s.finished \in BOOLEAN /\ Len(j.s.buf) \in Nat /\ BUFFER_SIZE \in Nat
    <2>1. j.s \in Server
      BY DEF Writable, Basic
    <2>2. j.s.finished \in BOOLEAN
      BY <2>1, ServerFlags, Zenon
    <2> QED  BY <2>1, <2>2, ServerFields, BufferAssumption
  <1>1. CASE j.s.finished = TRUE \/ (j.s.finished = FALSE /\ BUFFER_SIZE - Len(j.s.buf) < 7 + 2)
    <2>1. e = validateAndWriteToOD(j, 0, <<>>)
      BY <1>1, Zenon DEF empty_buffer
    <2>2. Flushed(e, j)
      BY <2>1, ValidateAndWrite
    <2> HIDE DEF e
    <2>3. IsCall(e) /\ Basic(e.s, e.od) /\ e.ret = k.ret /\ e.s.mux = j.s.mux
          /\ e.s.finished = j.s.finished
      BY <2>2 DEF Flushed, Keeps
    <2>4. /\ IsCall(r) /\ Basic(r.s, r.od) /\ r.od = e.od /\ r.ret = e.ret /\ Alike(r.s, e.s)
          /\ r.s.state = IF e.s.state = "ABORT" THEN "ABORT" ELSE "DOWNLOAD_SEGMENT_RSP"
      BY <2>3, States, Continues DEF e
    <2>5. r.s.finished = j.s.finished /\ r.s.mux = j.s.mux
      BY <2>3, <2>4, Zenon DEF Alike, Keeps
    <2>6. Whole(r, k)
      <3>1. j.s.finished = FALSE /\ BUFFER_SIZE - Len(j.s.buf) < 7 + 2 =>
               Len(j.s.buf) > BUFFER_SIZE - 9
        BY <1>0
      <3>2. e.s.state # "ABORT" => r.s.finished = j.s.finished /\ r.s.state = "DOWNLOAD_SEGMENT_RSP"
        BY <2>4, <2>5, Zenon
      <3>3. j.s.finished = TRUE \/ (j.s.finished = FALSE /\ Len(j.s.buf) > BUFFER_SIZE - 9)
        BY <1>1, <3>1, Zenon
      <3> QED  BY <2>2, <2>4, <3>2, <3>3, SegmentWritten, Zenon
    <2>7. Phase(r.s, r.od)
      <3>1. CASE e.s.state = "ABORT"
        BY <2>4, <3>1, RestPhase DEF Resting
      <3>2. CASE e.s.state # "ABORT"
        <4>1. r.s.state = "DOWNLOAD_SEGMENT_RSP" /\ r.s.mux \in Objects
          BY <2>4, <2>5, <3>2 DEF Writable
        <4>2. j.s.finished = FALSE => Segmented(r.s, r.od)
          <5> SUFFICES ASSUME j.s.finished = FALSE
                       PROVE  Segmented(r.s, r.od)
            OBVIOUS
          <5>1. Filled(e.s, e.od) /\ e.s.buf = <<>>
            BY <2>2, <3>2, FlushedOpen
          <5>2. Segmented(e.s, e.od)
            BY <5>1, NoByte, BufferAssumption DEF Segmented
          <5> QED  BY <2>4, <5>2, AlikeData
        <4>3. r.s.finished = FALSE => Segmented(r.s, r.od)
          BY <2>5, <4>2, Zenon
        <4> QED  BY <4>1, <4>3, DownloadPhase
      <3> QED  BY <3>1, <3>2
    <2> QED  BY <2>3, <2>4, <2>6, <2>7 DEF Handled, Answering
  <1>2. CASE j.s.finished = FALSE /\ ~(BUFFER_SIZE - Len(j.s.buf) < 7 + 2)
    <2>1. e = j
      BY <1>2, Zenon DEF empty_buffer
    <2>2. Basic(j.s, j.od) /\ j.s.state # "ABORT"
      BY DEF Writable
    <2>3. /\ IsCall(r) /\ Basic(r.s, r.od) /\ r.od = j.od /\ r.ret = j.ret /\ Alike(r.s, j.s)
          /\ r.s.state = "DOWNLOAD_SEGMENT_RSP"
      <3>1. r = Continue(j, "DOWNLOAD_SEGMENT_RSP")
        BY <2>1
      <3>2. "DOWNLOAD_SEGMENT_RSP" \in CO_SDO_state
        BY States
      <3> HIDE DEF e
      <3> QED  BY <2>2, <3>1, <3>2, Continues
    <2>4. Segmented(j.s, j.od)
      <3>1. ~(BUFFER_SIZE - Len(j.s.buf) < 7 + 2)
        BY <1>2
      <3>2. Len(j.s.buf) \in Nat /\ BUFFER_SIZE \in Nat
        BY <1>0
      <3>3. Len(j.s.buf) + 9 <= BUFFER_SIZE
        BY <3>1, <3>2
      <3> QED  BY <3>3 DEF Segmented
    <2>5. Segmented(r.s, r.od) /\ r.s.mux \in Objects
      BY <2>3, <2>4, AlikeData DEF Alike, Keeps, Writable
    <2>6. Phase(r.s, r.od)
      BY <2>3, <2>5, DownloadPhase
    <2> QED  BY <2>3, <2>6, NothingWritten DEF Handled, Answering
  <1> QED  BY <1>0, <1>1, <1>2, Zenon

\* on_download_segment
LEMMA OnDownloadSegment ==
    ASSUME NEW k, IsCall(k), Basic(k.s, k.od), k.s.mux \in Objects,
           k.s.state = "DOWNLOAD_SEGMENT_REQ", Segmented(k.s, k.od),
           NEW r, r = on_download_segment(k)
    PROVE  Handled(r, k)
  <1> DEFINE cmd == k.s.rx.cmd
             count == 7 - bits(cmd, 1, 3)
             fin == cmd % 2 = 1
             bytes == SubSeq(k.s.rx.bytes, 1, count)
             j == [k EXCEPT !.s.finished = fin]
             v == [k.s EXCEPT !.finished = fin]
             stored == [j EXCEPT !.s.buf = @ \o bytes, !.s.sizeTran = @ + count]
  <1>1. k.s \in Server /\ k.s.rx \in Heard /\ cmd \in Byte
        /\ k.s.rx.bytes \in Seq(Byte) /\ Len(k.s.rx.bytes) = 7
    BY ServerFields, HeardFrame DEF Basic
  <1>2. count \in 0..7
    <2>1. bits(cmd, 1, 3) \in 0..7
      BY <1>1, BitFields
    <2> QED  BY <2>1
  <1>3. fin \in BOOLEAN
    OBVIOUS
  <1>4. \/ r = Abort(k, "CMD") \/ r = Abort(j, "TOGGLE_BIT") \/ r = Abort(stored, "DATA_LONG")
        \/ r = Continue(empty_buffer(stored), "DOWNLOAD_SEGMENT_RSP")
    BY Zenon DEF on_download_segment
  <1> HIDE DEF count, fin
  <1>5. bytes \in Seq(Byte) /\ Len(bytes) = count
    <2>1. 0 + 1 = 1 /\ count \in Nat /\ count - 0 = count /\ 0 <= count /\ count <= 7
      BY <1>2
    <2> QED  BY <1>1, <2>1, Slice
  <1>6. stored = Stored(k, bytes, fin)
    <2> HIDE DEF bytes
    <2> QED  BY <1>5, Zenon DEF Stored
  <1>a. v \in Server
    BY <1>1, <1>3, ZenonT(60) DEF Server
  <1>b. j \in [s : {v}, od : {k.od}, ab : {k.ab}, ret : {k.ret}, tx : {k.tx}]
    BY Zenon DEF IsCall
  <1>c. v.buf = k.s.buf /\ v.bufOffsetRd = k.s.bufOffsetRd
    BY <1>1 DEF Server
  <1> HIDE DEF stored, bytes, v, j
  <1>7. Updated(j, k, v, k.ret)
    BY <1>a, <1>b, <1>c, Update
  <1>8. /\ IsCall(stored) /\ Writable(stored.s, stored.od) /\ stored.od = k.od
        /\ stored.ret = k.ret /\ Filled(stored.s, stored.od)
        /\ stored.s.state = "DOWNLOAD_SEGMENT_REQ"
    <2>1. k.s.state # "ABORT" /\ Len(bytes) <= 7
      BY <1>2, <1>5
    <2>2. TakenIn(stored, k)
      BY <1>3, <1>5, <1>6, <2>1, StoresSegment, Zenon
    <2> QED  BY <2>2 DEF TakenIn
  <1>10. CASE r = Abort(k, "CMD")
    BY <1>10, HandledAborts
  <1>11. CASE r = Abort(j, "TOGGLE_BIT")
    BY <1>7, <1>11, HandledAborts DEF Updated
  <1>12. CASE r = Abort(stored, "DATA_LONG")
    BY <1>8, <1>12, HandledAborts DEF Writable
  <1>13. CASE r = Continue(empty_buffer(stored), "DOWNLOAD_SEGMENT_RSP")
    BY <1>8, <1>13, TakesSegment
  <1> QED  BY <1>4, <1>10, <1>11, <1>12, <1>13

\* Bytes that are taken back.
LEMMA TakeBack ==
    ASSUME NEW d \in Nat, NEW B \in Nat, NEW T \in Nat, d + B = T, NEW n \in Nat, n < B
    PROVE  T - n \in Nat /\ d + (B - n) = T - n
  OBVIOUS

\* The bytes that the last segment of a block download does not use are
\* taken back.
Shorten(k, n) == [k EXCEPT !.s.sizeTran = @ - n, !.s.buf = SubSeq(@, 1, Len(@) - n)]

\* What is left is accounted for.
LEMMA Shortened ==
    ASSUME NEW k, IsCall(k), Basic(k.s, k.od), k.s.mux \in Objects, k.s.state # "ABORT",
           Filled(k.s, k.od), NEW n \in Nat, n < Len(k.s.buf),
           NEW r, r = Shorten(k, n)
    PROVE  IsCall(r) /\ Writable(r.s, r.od) /\ r.od = k.od /\ r.ret = k.ret /\ r.s.mux = k.s.mux
  <1> DEFINE b == SubSeq(k.s.buf, 1, Len(k.s.buf) - n)
             T == k.s.sizeTran - n
             v == [k.s EXCEPT !.sizeTran = T, !.buf = b]
  <1>1. /\ k.s \in Server /\ k.s.buf \in Seq(Byte) /\ k.s.sizeTran \in Nat
        /\ Len(k.s.buf) \in Nat /\ k.s.stream.dataOffset \in Nat
    BY ServerFields DEF Basic
  <1>2. /\ k.s.bufOffsetRd = 0 /\ k.s.stream.dataOffset + Len(k.s.buf) = k.s.sizeTran
        /\ Len(k.s.buf) + 2 <= BUFFER_SIZE
    BY DEF Filled
  <1>3. b \in Seq(Byte) /\ Len(b) = Len(k.s.buf) - n
    <2> DEFINE l == Len(k.s.buf) - n
    <2>1. l \in Nat /\ l <= Len(k.s.buf)
      BY <1>1
    <2>2. b = SubSeq(k.s.buf, 1, l)
      OBVIOUS
    <2> HIDE DEF l, b
    <2>3. b \in Seq(Byte) /\ Len(b) = l
      BY <1>1, <2>1, <2>2, Prefix
    <2> QED  BY <2>3 DEF l
  <1>4. T \in Nat /\ k.s.stream.dataOffset + (Len(k.s.buf) - n) = T
    <2> DEFINE d == k.s.stream.dataOffset
               B == Len(k.s.buf)
               t == k.s.sizeTran
    <2>1. d \in Nat /\ B \in Nat /\ t \in Nat /\ d + B = t /\ n < B
      BY <1>1, <1>2
    <2> HIDE DEF d, B, t
    <2>2. t - n \in Nat /\ d + (B - n) = t - n
      BY <2>1, TakeBack
    <2> QED  BY <2>2 DEF d, B, t
  <1>5. r \in [s : {v}, od : {k.od}, ab : {k.ab}, ret : {k.ret}, tx : {k.tx}]
    BY Zenon DEF IsCall, Shorten
  <1> HIDE DEF b, T
  <1>6. v \in Server
    BY <1>1, <1>3, <1>4, ZenonT(60) DEF Server
  <1>7. /\ v.buf = b /\ v.sizeTran = T /\ v.stream = k.s.stream /\ v.mux = k.s.mux
        /\ v.state = k.s.state /\ v.bufOffsetRd = k.s.bufOffsetRd
    BY <1>1 DEF Server
  <1> HIDE DEF v
  <1>8. Len(b) + 2 <= BUFFER_SIZE /\ Len(b) <= BUFFER_SIZE /\ 0 <= Len(b)
    <2>1. BUFFER_SIZE \in Nat
      BY BufferAssumption
    <2> QED  BY <1>1, <1>2, <1>3, <2>1
  <1>9. Basic(v, k.od)
    BY <1>2, <1>6, <1>7, <1>8 DEF Basic
  <1>10. Writable(v, k.od)
    BY <1>2, <1>3, <1>4, <1>7, <1>8, <1>9 DEF Writable
  <1>11. Becomes(r, v, k.od, k.ret)
    BY <1>5, CallIs
  <1> QED  BY <1>7, <1>10, <1>11 DEF Becomes

\* on_download_blk_end
LEMMA OnDownloadBlkEnd ==
    ASSUME NEW k, IsCall(k), Basic(k.s, k.od), k.s.mux \in Objects,
           k.s.state = "DOWNLOAD_BLK_END_REQ", Filled(k.s, k.od),
           NEW r, r = on_download_blk_end(k)
    PROVE  Handled(r, k)
  <1> DEFINE n == bits(k.s.rx.cmd, 2, 3)
             j == Shorten(k, n)
             e == validateAndWriteToOD(j, 2, k.s.rx.crc)
  <1>1. k.s \in Server /\ k.s.rx.cmd \in Byte /\ Len(k.s.buf) \in Nat
    BY ServerFields, HeardFrame DEF Basic
  <1>2. n \in Nat
    <2>1. bits(k.s.rx.cmd, 2, 3) \in 0..7
      BY <1>1, BitFields
    <2> QED  BY <2>1
  <1>3. \/ r = Abort(k, "CMD") \/ r = Abort(k, "DEVICE_INCOMPAT")
        \/ ~(Len(k.s.buf) <= n) /\ r = Continue(e, "DOWNLOAD_BLK_END_RSP")
    BY Zenon DEF on_download_blk_end, Shorten
  <1> HIDE DEF n
  <1>4. CASE r = Abort(k, "CMD")
    BY <1>4, HandledAborts
  <1>5. CASE r = Abort(k, "DEVICE_INCOMPAT")
    BY <1>5, HandledAborts
  <1>6. CASE ~(Len(k.s.buf) <= n) /\ r = Continue(e, "DOWNLOAD_BLK_END_RSP")
    <2>1. n < Len(k.s.buf) /\ k.s.state # "ABORT"
      BY <1>1, <1>2, <1>6
    <2>3. IsCall(j) /\ Writable(j.s, j.od) /\ j.od = k.od /\ j.ret = k.ret /\ j.s.mux = k.s.mux
      BY <1>2, <2>1, Shortened
    <2> HIDE DEF j
    <2>4. Flushed(e, j)
      BY <2>3, ValidateAndWrite
    <2> HIDE DEF e
    <2>5. IsCall(e) /\ Basic(e.s, e.od) /\ e.ret = k.ret /\ e.s.mux = k.s.mux
      BY <2>3, <2>4 DEF Flushed, Keeps
    <2>6. "DOWNLOAD_BLK_END_RSP" \in CO_SDO_state
      BY States
    <2>7. /\ IsCall(r) /\ Basic(r.s, r.od) /\ r.od = e.od /\ r.ret = e.ret /\ Alike(r.s, e.s)
          /\ r.s.state = IF e.s.state = "ABORT" THEN "ABORT" ELSE "DOWNLOAD_BLK_END_RSP"
      BY <1>6, <2>5, <2>6, Continues
    <2>8. r.s.mux \in Objects
      BY <2>5, <2>7 DEF Alike, Keeps
    <2>9. Phase(r.s, r.od)
      <3>1. CASE e.s.state = "ABORT"
        BY <2>7, <3>1, RestPhase DEF Resting
      <3>2. CASE e.s.state # "ABORT"
        BY <2>7, <2>8, <3>2, DownloadPhase
      <3> QED  BY <3>1, <3>2
    <2>10. Whole(r, k)
      BY DEF Whole
    <2> QED  BY <2>5, <2>7, <2>9, <2>10 DEF Handled, Answering
  <1> QED  BY <1>3, <1>4, <1>5, <1>6

\* The fields of the server that an upload depends on.
SameBytes(v, s) ==
    /\ v.mux = s.mux /\ v.finished = s.finished /\ v.bufOffsetRd = s.bufOffsetRd
    /\ v.buf = s.buf /\ v.sizeTran = s.sizeTran /\ v.stream = s.stream

\* Nothing else is said of it.
LEMMA LoadedData ==
    ASSUME NEW v, NEW s, NEW o, SameBytes(v, s)
    PROVE  Loaded(v, o) <=> Loaded(s, o)
  <1>1. /\ v.mux = s.mux /\ v.finished = s.finished /\ v.bufOffsetRd = s.bufOffsetRd
        /\ v.buf = s.buf /\ v.sizeTran = s.sizeTran /\ v.stream = s.stream
    BY DEF SameBytes
  <1>2. base(v) = base(s) /\ end(v) = end(s)
    BY <1>1, Zenon DEF base, end
  <1>3. (Unread(v, o) <=> Unread(s, o)) /\ (Ended(v, o) <=> Ended(s, o))
    BY <1>1, <1>2, Zenon DEF Unread, Ended, Fresh
  <1> QED  BY <1>1, <1>2, <1>3, Zenon DEF Loaded

\* A step that replaces the server and ends the handling of a request for an
\* upload.
LEMMA UploadHandled ==
    ASSUME NEW k, IsCall(k), Basic(k.s, k.od), k.s.mux \in Objects, Loaded(k.s, k.od),
           NEW v \in Server, SameBytes(v, k.s),
           \/ v.state \in {"UPLOAD_INITIATE_RSP", "UPLOAD_SEGMENT_RSP", "UPLOAD_BLK_END_SREQ"}
           \/ v.state = "UPLOAD_BLK_INITIATE_RSP" /\ Asked(v, v.block_blksize)
           \/ v.state = "UPLOAD_BLK_SUBBLOCK_SREQ" /\ Sending(v),
           NEW r \in [s : {v}, od : {k.od}, ab : {k.ab}, ret : {k.ret}, tx : {k.tx}]
    PROVE  Handled(r, k)
  <1>1. Updated(r, k, v, k.ret)
    BY Update DEF SameBytes
  <1>2. Loaded(v, k.od)
    BY LoadedData
  <1>3. Phase(v, k.od)
    BY <1>2, UploadPhase DEF SameBytes
  <1>4. v.state \in Answering \cup {"UPLOAD_BLK_SUBBLOCK_SREQ", "ABORT"}
    BY DEF Answering
  <1> QED  BY <1>1, <1>3, <1>4, NothingWritten DEF Updated, Handled

\* UPLOAD_INITIATE_REQ, and the answer to a request for a segment.
LEMMA UploadAnswers ==
    ASSUME NEW k, IsCall(k), Basic(k.s, k.od), k.s.mux \in Objects, Loaded(k.s, k.od),
           NEW state \in {"UPLOAD_INITIATE_RSP", "UPLOAD_SEGMENT_RSP", "UPLOAD_BLK_END_SREQ"},
           NEW r, r = [k EXCEPT !.s.state = state]
    PROVE  Handled(r, k)
  <1> DEFINE v == [k.s EXCEPT !.state = state]
  <1>1. k.s \in Server /\ state \in CO_SDO_state
    BY States DEF Basic, UploadStates
  <1>2. r \in [s : {v}, od : {k.od}, ab : {k.ab}, ret : {k.ret}, tx : {k.tx}]
    BY Zenon DEF IsCall
  <1>3. v \in Server
    BY <1>1, ZenonT(60) DEF Server
  <1>4. v.state = state
    BY <1>1 DEF Server
  <1>5. SameBytes(v, k.s)
    BY <1>1, Zenon DEF Server, SameBytes
  <1> HIDE DEF v
  <1> QED  BY <1>2, <1>3, <1>4, <1>5, UploadHandled

\* on_upload_segment
LEMMA OnUploadSegment ==
    ASSUME NEW k, IsCall(k), Basic(k.s, k.od), k.s.mux \in Objects, Loaded(k.s, k.od),
           NEW r, r = on_upload_segment(k)
    PROVE  Handled(r, k)
  <1>1. \/ r = Abort(k, "CMD") \/ r = Abort(k, "TOGGLE_BIT")
        \/ r = [k EXCEPT !.s.state = "UPLOAD_SEGMENT_RSP"]
    BY Zenon DEF on_upload_segment
  <1>2. CASE r = Abort(k, "CMD") \/ r = Abort(k, "TOGGLE_BIT")
    BY <1>2, HandledAborts
  <1>3. CASE r = [k EXCEPT !.s.state = "UPLOAD_SEGMENT_RSP"]
    BY <1>3, UploadAnswers
  <1> QED  BY <1>1, <1>2, <1>3

\* What the request for a block upload sets.
LEMMA BlockParameters ==
    ASSUME NEW s \in Server, NEW crc \in BOOLEAN, NEW c \in Seq(Byte), NEW b \in Byte,
           NEW state \in CO_SDO_state
    PROVE  /\ [s EXCEPT !.block_crcEnabled = crc, !.block_crc = c, !.block_blksize = b] \in Server
           /\ [s EXCEPT !.block_crcEnabled = crc, !.block_crc = c, !.block_blksize = b,
                        !.state = state] \in Server
  <1>1. [s EXCEPT !.block_crcEnabled = crc, !.block_crc = c, !.block_blksize = b] \in Server
    BY ZenonT(60) DEF Server
  <1>2. [s EXCEPT !.block_crcEnabled = crc, !.block_crc = c, !.block_blksize = b,
                  !.state = state] \in Server
    BY ZenonT(60) DEF Server
  <1> QED  BY <1>1, <1>2

\* on_upload_blk_initiate
LEMMA OnUploadBlkInitiate ==
    ASSUME NEW k, IsCall(k), Basic(k.s, k.od), k.s.mux \in Objects, Loaded(k.s, k.od),
           k.s.bufOffsetRd = 0, NEW r, r = on_upload_blk_initiate(k)
    PROVE  Handled(r, k)
  <1> DEFINE f == k.s.rx
             crc == bits(f.cmd, 2, 1) = 1
             c == IF crc THEN k.s.buf ELSE k.s.block_crc
             b == f.blk
             j == [k EXCEPT !.s.block_crcEnabled = crc,
                            !.s.block_crc = IF crc THEN k.s.buf ELSE @, !.s.block_blksize = b]
             v == [k.s EXCEPT !.block_crcEnabled = crc, !.block_crc = c, !.block_blksize = b]
             w == [k.s EXCEPT !.block_crcEnabled = crc, !.block_crc = c, !.block_blksize = b,
                              !.state = "UPLOAD_BLK_INITIATE_RSP"]
  <1>1. /\ k.s \in Server /\ f \in Heard /\ k.s.buf \in Seq(Byte) /\ Len(k.s.buf) \in Nat
        /\ k.s.block_crc \in Seq(Byte)
    BY ServerFields DEF Basic
  <1>2. crc \in BOOLEAN /\ c \in Seq(Byte)
    BY <1>1
  <1>3. b \in Byte /\ (b \in 1..127 => b + SDOtimeoutTime <= Patience)
    BY <1>1, HeardFrame
  <1>a. b \in Byte
    BY <1>3
  <1>b. "UPLOAD_BLK_INITIATE_RSP" \in CO_SDO_state
    BY States DEF UploadStates
  <1>4. \/ r = [k EXCEPT !.s.state = "UPLOAD_INITIATE_RSP"]
        \/ r = Abort(j, "BLOCK_SIZE") \/ r = Abort(j, "DEVICE_INCOMPAT")
        \/ /\ b \in 1..127 /\ ~(k.s.finished = FALSE /\ Len(k.s.buf) < b * 7)
           /\ r = [j EXCEPT !.s.state = "UPLOAD_BLK_INITIATE_RSP"]
    BY Zenon DEF on_upload_blk_initiate
  <1>5. j \in [s : {v}, od : {k.od}, ab : {k.ab}, ret : {k.ret}, tx : {k.tx}]
    BY Zenon DEF IsCall
  <1>6. r = [j EXCEPT !.s.state = "UPLOAD_BLK_INITIATE_RSP"] =>
          r \in [s : {w}, od : {k.od}, ab : {k.ab}, ret : {k.ret}, tx : {k.tx}]
    BY Zenon DEF IsCall
  <1> HIDE DEF crc, c, b, f
  <1>7. v \in Server /\ w \in Server
    BY <1>1, <1>2, <1>a, <1>b, BlockParameters, Zenon
  <1>9. v.buf = k.s.buf /\ v.bufOffsetRd = k.s.bufOffsetRd
    BY <1>1 DEF Server
  <1>10. w.state = "UPLOAD_BLK_INITIATE_RSP" /\ w.block_blksize = b
    BY <1>1 DEF Server
  <1>11. SameBytes(w, k.s)
    BY <1>1, Zenon DEF Server, SameBytes
  <1> HIDE DEF v, w, j
  <1>12. Updated(j, k, v, k.ret)
    BY <1>5, <1>7, <1>9, Update
  <1>13. CASE r = [k EXCEPT !.s.state = "UPLOAD_INITIATE_RSP"]
    BY <1>13, UploadAnswers
  <1>14. CASE r = Abort(j, "BLOCK_SIZE") \/ r = Abort(j, "DEVICE_INCOMPAT")
    BY <1>12, <1>14, HandledAborts DEF Updated
  <1>15. CASE /\ b \in 1..127 /\ ~(k.s.finished = FALSE /\ Len(k.s.buf) < b * 7)
              /\ r = [j EXCEPT !.s.state = "UPLOAD_BLK_INITIATE_RSP"]
    <2>1. w.finished = FALSE => ~(Len(k.s.buf) < b * 7)
      BY <1>11, <1>15, Zenon DEF SameBytes
    <2>2. ~(Len(k.s.buf) < b * 7) => Len(k.s.buf) - 0 >= 7 * b
      <3>1. \A m, n \in Nat : ~(m < n * 7) => m - 0 >= 7 * n
        OBVIOUS
      <3>2. b \in Nat /\ Len(k.s.buf) \in Nat
        BY <1>1, <1>a DEF Byte
      <3> QED  BY <3>1, <3>2, Zenon
    <2>3. Len(w.buf) - w.bufOffsetRd = Len(k.s.buf) - 0
      BY <1>11 DEF SameBytes
    <2>4. w.finished = FALSE => Len(w.buf) - w.bufOffsetRd >= 7 * w.block_blksize
      BY <1>10, <2>1, <2>2, <2>3, Zenon
    <2>5. w.block_blksize \in 1..127 /\ w.block_blksize + SDOtimeoutTime <= Patience
      BY <1>3, <1>10, <1>15
    <2>6. Asked(w, w.block_blksize)
      BY <2>4, <2>5, Zenon DEF Asked
    <2> QED  BY <1>6, <1>7, <1>10, <1>11, <1>15, <2>6, UploadHandled
  <1> QED  BY <1>4, <1>13, <1>14, <1>15

\* A sub-block begins.
LEMMA BeginsSubblock ==
    ASSUME NEW k, IsCall(k), Basic(k.s, k.od), k.s.mux \in Objects, Loaded(k.s, k.od),
           Asked(k.s, k.s.block_blksize),
           NEW r, r = [k EXCEPT !.s.block_seqno = 0, !.s.state = "UPLOAD_BLK_SUBBLOCK_SREQ"]
    PROVE  Handled(r, k)
  <1> DEFINE v == [k.s EXCEPT !.block_seqno = 0, !.state = "UPLOAD_BLK_SUBBLOCK_SREQ"]
  <1>0. /\ k.s \in Server /\ k.s.bufOffsetRd \in Nat /\ Len(k.s.buf) \in Nat
    BY ServerFields DEF Basic
  <1>1. r \in [s : {v}, od : {k.od}, ab : {k.ab}, ret : {k.ret}, tx : {k.tx}]
    BY Zenon DEF IsCall
  <1>2. v \in Server
    <2>1. 0 \in 0..127
      OBVIOUS
    <2> QED  BY <1>0, <2>1, States, ZenonT(60) DEF Server, UploadStates
  <1>3. /\ v.state = "UPLOAD_BLK_SUBBLOCK_SREQ" /\ v.block_seqno = 0
        /\ v.block_blksize = k.s.block_blksize
    BY <1>0 DEF Server
  <1>4. SameBytes(v, k.s)
    BY <1>0, Zenon DEF Server, SameBytes
  <1> HIDE DEF v
  <1>5. Sending(v)
    <2>1. v.block_blksize \in 1..127 /\ v.block_blksize + SDOtimeoutTime <= Patience
      BY <1>3 DEF Asked
    <2>2. v.block_blksize - v.block_seqno = k.s.block_blksize
      BY <1>3, <2>1
    <2>3. v.finished = FALSE => Len(v.buf) - v.bufOffsetRd >= 7 * (v.block_blksize - v.block_seqno)
      BY <1>4, <2>2, Zenon DEF SameBytes, Asked
    <2>a. v.bufOffsetRd = k.s.bufOffsetRd
      BY <1>4 DEF SameBytes
    <2>4. /\ v.block_seqno < v.block_blksize /\ 7 * v.block_seqno <= v.bufOffsetRd
          /\ ~(v.block_seqno > 0)
      <3>1. \A m \in Nat, n \in 1..127 : 7 * 0 <= m /\ 0 < n /\ ~(0 > 0)
        OBVIOUS
      <3> QED  BY <1>0, <1>3, <2>1, <2>a, <3>1, Zenon
    <2>5. Asked(v, v.block_blksize - v.block_seqno)
      BY <2>1, <2>3, Zenon DEF Asked
    <2> QED  BY <2>4, <2>5, Zenon DEF Sending
  <1> QED  BY <1>1, <1>2, <1>3, <1>4, <1>5, UploadHandled

\* on_upload_blk_initiate2
LEMMA OnUploadBlkInitiate2 ==
    ASSUME NEW k, IsCall(k), Basic(k.s, k.od), k.s.mux \in Objects, Loaded(k.s, k.od),
           Asked(k.s, k.s.block_blksize), NEW r, r = on_upload_blk_initiate2(k)
    PROVE  Handled(r, k)
  <1>1. \/ r = Abort(k, "CMD")
        \/ r = [k EXCEPT !.s.block_seqno = 0, !.s.state = "UPLOAD_BLK_SUBBLOCK_SREQ"]
    BY Zenon DEF on_upload_blk_initiate2
  <1>2. CASE r = Abort(k, "CMD")
    BY <1>2, HandledAborts
  <1>3. CASE r = [k EXCEPT !.s.block_seqno = 0, !.s.state = "UPLOAD_BLK_SUBBLOCK_SREQ"]
    BY <1>3, BeginsSubblock
  <1> QED  BY <1>1, <1>2, <1>3

\* The numbers of a retransmission: Q segments were sent, a of them arrived.
LEMMA RewindNumbers ==
    ASSUME NEW Q \in Nat, NEW a \in Nat, a < Q, NEW D \in 0..7, NEW R \in Nat, NEW T \in Nat,
           NEW B \in Nat, R <= B, T - R >= 0, 7 * Q <= R + D,
           NEW F, F = (Q - a) * 7 - D
    PROVE  /\ R - F \in Nat /\ T - F \in Nat /\ R - F <= B /\ (T - F) - (R - F) = T - R
           /\ D = 0 /\ R % 7 = 0 => (R - F) % 7 = 0
  <1> DEFINE x == Q - a
  <1>1. x \in Nat /\ x >= 1 /\ x <= Q
    OBVIOUS
  <1> HIDE DEF x
  <1>2. F = 7 * x - D
    BY DEF x
  <1>3. F >= 0 /\ F <= R /\ F \in Int
    BY <1>1, <1>2
  <1>4. R - F \in Nat /\ T - F \in Nat /\ R - F <= B /\ (T - F) - (R - F) = T - R
    BY <1>3
  <1>5. D = 0 /\ R % 7 = 0 => (R - F) % 7 = 0
    <2>1. \A n, m \in Nat : n % 7 = 0 => (n - 7 * m) % 7 = 0
      OBVIOUS
    <2>2. D = 0 => F = 7 * x
      BY <1>1, <1>2
    <2> QED  BY <1>1, <2>1, <2>2, Zenon
  <1> QED  BY <1>4, <1>5

Rewind(k, a) == [k EXCEPT !.s = rewound(@, a)]

\* The buffer goes back to the byte after the last acknowledged segment.
LEMMA Rewinds ==
    ASSUME NEW k, IsCall(k), Basic(k.s, k.od), k.s.mux \in Objects, k.s.state # "ABORT",
           Loaded(k.s, k.od), NEW a \in Nat, a < k.s.block_seqno,
           7 * k.s.block_seqno <= k.s.bufOffsetRd + k.s.block_noData,
           k.s.finished = FALSE => k.s.block_noData = 0,
           NEW r, r = Rewind(k, a)
    PROVE  /\ IsCall(r) /\ Prepared(r.s, r.od) /\ r.od = k.od /\ r.ret = k.ret
           /\ r.s.block_blksize = k.s.block_blksize /\ r.s.state = k.s.state
  <1> DEFINE F == (k.s.block_seqno - a) * 7 - k.s.block_noData
             R == k.s.bufOffsetRd - F
             T == k.s.sizeTran - F
             v == [k.s EXCEPT !.bufOffsetRd = R, !.sizeTran = T]
  <1>1. /\ k.s \in Server /\ k.s.block_seqno \in Nat /\ k.s.block_noData \in 0..7
        /\ k.s.bufOffsetRd \in Nat /\ k.s.sizeTran \in Nat /\ Len(k.s.buf) \in Nat
        /\ k.s.bufOffsetRd <= Len(k.s.buf)
    <2>1. k.s \in Server /\ k.s.bufOffsetRd <= Len(k.s.buf)
      BY DEF Basic
    <2>2. k.s.block_seqno \in 0..127
      BY <2>1, ServerFields
    <2>3. k.s.block_seqno \in Nat
      BY <2>2
    <2> QED  BY <2>1, <2>3, ServerFields
  <1>2. k.s.sizeTran - k.s.bufOffsetRd >= 0
    BY DEF Loaded, Window, base
  <1>3. /\ R \in Nat /\ T \in Nat /\ R <= Len(k.s.buf)
        /\ T - R = k.s.sizeTran - k.s.bufOffsetRd
        /\ k.s.block_noData = 0 /\ k.s.bufOffsetRd % 7 = 0 => R % 7 = 0
    <2> DEFINE Q == k.s.block_seqno
               N == k.s.block_noData
               X == k.s.bufOffsetRd
               Y == k.s.sizeTran
               B == Len(k.s.buf)
    <2>1. /\ Q \in Nat /\ N \in 0..7 /\ X \in Nat /\ Y \in Nat /\ B \in Nat
          /\ X <= B /\ Y - X >= 0 /\ a < Q /\ 7 * Q <= X + N
      BY <1>1, <1>2
    <2>2. F = (Q - a) * 7 - N /\ R = X - F /\ T = Y - F
      OBVIOUS
    <2> HIDE DEF Q, N, X, Y, B, F, R, T
    <2>3. /\ X - F \in Nat /\ Y - F \in Nat /\ X - F <= B /\ (Y - F) - (X - F) = Y - X
          /\ N = 0 /\ X % 7 = 0 => (X - F) % 7 = 0
      BY <2>1, <2>2, RewindNumbers
    <2> QED  BY <2>2, <2>3, Zenon DEF Q, N, X, Y, B
  <1>4. r \in [s : {v}, od : {k.od}, ab : {k.ab}, ret : {k.ret}, tx : {k.tx}]
    BY Zenon DEF IsCall, Rewind, rewound
  <1> HIDE DEF F, R, T
  <1>5. v \in Server
    BY <1>1, <1>3, Zenon DEF Server
  <1>6. /\ v.buf = k.s.buf /\ v.bufOffsetRd = R /\ v.sizeTran = T /\ v.stream = k.s.stream
        /\ v.mux = k.s.mux /\ v.state = k.s.state /\ v.block_blksize = k.s.block_blksize
    BY <1>1 DEF Server
  <1>7. v.finished = k.s.finished
    BY <1>1, Zenon DEF Server
  <1> HIDE DEF v
  <1>8. Becomes(r, v, k.od, k.ret)
    BY <1>4, CallIs
  <1>9. Basic(v, k.od)
    BY <1>3, <1>5, <1>6 DEF Basic
  <1>10. base(v) = base(k.s) /\ end(v) = end(k.s)
    <2>1. T - R = k.s.sizeTran - k.s.bufOffsetRd
      BY <1>3
    <2> QED  BY <1>6, <2>1, Zenon DEF base, end
  <1>11. k.s.finished = FALSE => Unread(v, k.od) /\ Len(v.buf) = BUFFER_SIZE
    <2>1. SUFFICES ASSUME k.s.finished = FALSE
                   PROVE  Unread(v, k.od) /\ Len(v.buf) = BUFFER_SIZE
      OBVIOUS
    <2>2. Unread(k.s, k.od) /\ Len(k.s.buf) = BUFFER_SIZE
      BY <2>1 DEF Loaded
    <2>3. k.s.bufOffsetRd % 7 = 0
      BY <2>2 DEF Unread
    <2>4. v.bufOffsetRd % 7 = 0
      BY <1>3, <1>6, <2>1, <2>3, Zenon
    <2> QED  BY <1>6, <1>10, <2>2, <2>4, Zenon DEF Unread, Fresh
  <1>12. k.s.finished = TRUE => Ended(v, k.od)
    BY <1>6, <1>10, Zenon DEF Loaded, Ended
  <1>13. /\ Window(v.buf, k.od[v.mux], base(v))
         /\ v.stream.attribute = Entries[v.mux[1]].sub[v.mux[2]].attribute
    BY <1>6, <1>10, Zenon DEF Loaded
  <1>14. Prepared(v, k.od)
    BY <1>6, <1>7, <1>9, <1>11, <1>12, <1>13, Zenon DEF Prepared
  <1> QED  BY <1>6, <1>8, <1>14 DEF Becomes

\* Another call that handled the same request.
LEMMA HandledAlike ==
    ASSUME NEW k, NEW q, q.od = k.od, q.ret = k.ret, q.s.state = k.s.state,
           NEW r, Handled(r, q)
    PROVE  Handled(r, k)
  BY Zenon DEF Handled, Whole

\* next_subblock
LEMMA NextSubblock ==
    ASSUME NEW q, q.s.mux \in Objects, NEW b \in 1..127, b = q.s.block_blksize,
           b + SDOtimeoutTime <= Patience, NEW e, Refreshed(e, q, b * 7),
           NEW r, r = next_subblock(e)
    PROVE  Handled(r, q)
  <1>1. /\ IsCall(e) /\ Basic(e.s, e.od) /\ e.od = q.od /\ e.ret = q.ret
        /\ e.s.mux \in Objects /\ e.s.block_blksize = b
        /\ e.s.state \in {q.s.state, "ABORT"}
    BY DEF Refreshed, Stays
  <1>2. CASE e.s.state = "ABORT"
    <2>1. r = e
      BY <1>2 DEF next_subblock, Aborted
    <2>2. Phase(e.s, e.od)
      BY <1>2, RestPhase DEF Resting
    <2> QED  BY <1>1, <1>2, <2>1, <2>2, NothingWritten DEF Handled
  <1>3. CASE e.s.state # "ABORT"
    <2>1. Loaded(e.s, e.od) /\ q.s.state = e.s.state
      BY <1>1, <1>3 DEF Refreshed
    <2>2. \/ r = [e EXCEPT !.s.state = "UPLOAD_BLK_END_SREQ"]
          \/ r = [e EXCEPT !.s.block_seqno = 0, !.s.state = "UPLOAD_BLK_SUBBLOCK_SREQ"]
      BY <1>3, Zenon DEF next_subblock, Aborted
    <2>3. Asked(e.s, e.s.block_blksize)
      <3>1. e.s.finished = FALSE => Len(e.s.buf) - e.s.bufOffsetRd >= b * 7
        BY <1>3, Zenon DEF Refreshed
      <3>2. b * 7 = 7 * b
        OBVIOUS
      <3> QED  BY <1>1, <3>1, <3>2, Zenon DEF Asked
    <2>4. CASE r = [e EXCEPT !.s.state = "UPLOAD_BLK_END_SREQ"]
      <3>1. Handled(r, e)
        BY <1>1, <2>1, <2>4, UploadAnswers, SMTT(40)
      <3> QED  BY <1>1, <2>1, <3>1, HandledAlike
    <2>5. CASE r = [e EXCEPT !.s.block_seqno = 0, !.s.state = "UPLOAD_BLK_SUBBLOCK_SREQ"]
      <3>1. Handled(r, e)
        BY <1>1, <2>1, <2>3, <2>5, BeginsSubblock
      <3> QED  BY <1>1, <2>1, <3>1, HandledAlike
    <2> QED  BY <2>2, <2>4, <2>5
  <1> QED  BY <1>2, <1>3

\* on_upload_blk_ack
LEMMA OnUploadBlkAck ==
    ASSUME NEW k, IsCall(k), Basic(k.s, k.od), k.s.mux \in Objects, k.s.state # "ABORT",
           Loaded(k.s, k.od), Sending(k.s) \/ Sent(k.s),
           NEW r, r = on_upload_blk_ack(k)
    PROVE  Handled(r, k)
  <1> DEFINE b == k.s.rx.blk
             a == k.s.rx.seq
             v == [k.s EXCEPT !.block_blksize = b]
             j == [k EXCEPT !.s.block_blksize = b]
             q == IF a < k.s.block_seqno THEN Rewind(j, a) ELSE j
             e == readFromOd(q, b * 7, TRUE)
  <1>1. k.s \in Server /\ k.s.rx \in Heard /\ k.s.block_seqno \in 0..127
    BY ServerFields DEF Basic
  <1>2. a \in Nat /\ b \in Byte
    <2>1. a \in Byte /\ b \in Byte
      BY <1>1, HeardFrame
    <2> QED  BY <2>1, SMTT(40) DEF Byte
  <1>3. b \in 1..127 => b + SDOtimeoutTime <= Patience
    BY <1>1, HeardFrame
  <1>4. \/ r = Abort(k, "CMD") \/ r = Abort(j, "BLOCK_SIZE") \/ r = Abort(j, "CMD")
        \/ b \in 1..127 /\ r = next_subblock(e)
    BY Zenon DEF on_upload_blk_ack, Rewind
  <1>5. j \in [s : {v}, od : {k.od}, ab : {k.ab}, ret : {k.ret}, tx : {k.tx}]
    BY Zenon DEF IsCall
  <1> HIDE DEF a, b
  <1>6. v \in Server
    BY <1>1, <1>2, ZenonT(60) DEF Server
  <1>7. /\ v.block_blksize = b /\ v.block_seqno = k.s.block_seqno
        /\ v.block_noData = k.s.block_noData /\ v.state = k.s.state
    BY <1>1 DEF Server
  <1>8. SameBytes(v, k.s)
    BY <1>1, Zenon DEF Server, SameBytes
  <1> HIDE DEF v, j
  <1>9. Updated(j, k, v, k.ret)
    BY <1>5, <1>6, <1>8, Update DEF SameBytes
  <1>10. IsCall(j) /\ Basic(j.s, j.od) /\ j.s = v /\ j.od = k.od /\ j.ret = k.ret
    BY <1>9 DEF Updated
  <1>11. CASE r = Abort(k, "CMD") \/ r = Abort(j, "BLOCK_SIZE") \/ r = Abort(j, "CMD")
    BY <1>10, <1>11, HandledAborts
  <1>12. CASE b \in 1..127 /\ r = next_subblock(e)
    <2>1. Loaded(j.s, j.od) /\ j.s.mux \in Objects /\ j.s.state # "ABORT"
      BY <1>7, <1>8, <1>10, LoadedData DEF SameBytes
    <2>2. /\ IsCall(q) /\ Prepared(q.s, q.od) /\ q.od = k.od /\ q.ret = k.ret
          /\ q.s.block_blksize = b /\ q.s.state = k.s.state
      <3>1. CASE a < k.s.block_seqno
        <4>1. q = Rewind(j, a)
          BY <3>1
        <4>2. k.s.block_seqno > 0
          BY <1>1, <1>2, <3>1
        <4>3. /\ 7 * k.s.block_seqno <= k.s.bufOffsetRd + k.s.block_noData
              /\ k.s.finished = FALSE => k.s.block_noData = 0
          <5>1. CASE Sending(k.s)
            <6>1. k.s.block_noData = 0 /\ 7 * k.s.block_seqno <= k.s.bufOffsetRd
              BY <4>2, <5>1 DEF Sending
            <6>2. k.s.bufOffsetRd \in Nat
              BY <1>1, ServerFields
            <6>3. \A m, n \in Nat : 7 * m <= n => 7 * m <= n + 0
              OBVIOUS
            <6>4. k.s.block_seqno \in Nat
              BY <1>1
            <6> QED  BY <6>1, <6>2, <6>3, <6>4, Zenon
          <5>2. CASE Sent(k.s)
            BY <5>2, Zenon DEF Sent
          <5> QED  BY <5>1, <5>2
        <4>4. /\ 7 * j.s.block_seqno <= j.s.bufOffsetRd + j.s.block_noData
              /\ j.s.finished = FALSE => j.s.block_noData = 0
              /\ a < j.s.block_seqno
          BY <1>7, <1>8, <1>10, <3>1, <4>3, Zenon DEF SameBytes
        <4> HIDE DEF q
        <4>5. /\ IsCall(q) /\ Prepared(q.s, q.od) /\ q.od = j.od /\ q.ret = j.ret
              /\ q.s.block_blksize = j.s.block_blksize /\ q.s.state = j.s.state
          BY <1>2, <1>10, <2>1, <4>1, <4>4, Rewinds, ZenonT(60)
        <4> QED  BY <1>7, <1>10, <4>5
      <3>2. CASE ~(a < k.s.block_seqno)
        <4>1. q = j
          BY <3>2
        <4>2. Prepared(j.s, j.od)
          BY <1>10, <2>1, Zenon DEF Loaded, Prepared
        <4> HIDE DEF q
        <4> QED  BY <1>7, <1>10, <4>1, <4>2
      <3> QED  BY <3>1, <3>2
    <2> HIDE DEF q
    <2>3. Refreshed(e, q, b * 7)
      <3>1. b * 7 \in Nat \ {0}
        BY <1>12
      <3> QED  BY <2>2, <3>1, ReadFromOd
    <2> HIDE DEF e
    <2>4. q.s.mux \in Objects
      BY <2>2 DEF Prepared
    <2>5. Handled(r, q)
      BY <1>3, <1>12, <2>2, <2>3, <2>4, NextSubblock
    <2> QED  BY <2>2, <2>5, HandledAlike
  <1> QED  BY <1>4, <1>11, <1>12

-----------------------------------------------------------------------------
(* A new transfer *)

\* What is left of a step that sizes an upload.
Sized(r, e) ==
    /\ IsCall(r) /\ Basic(r.s, r.od) /\ r.od = e.od /\ r.ret = e.ret
    /\ r.s.state \in {e.s.state, "ABORT"}
    /\ r.s.state # "ABORT" => SameBytes(r.s, e.s)

\* The size that is announced is recorded.
LEMMA SizeInd ==
    ASSUME NEW e, IsCall(e), Basic(e.s, e.od), NEW n \in Nat,
           NEW r, r = [e EXCEPT !.s.sizeInd = n]
    PROVE  Sized(r, e)
  <1> DEFINE v == [e.s EXCEPT !.sizeInd = n]
  <1>1. e.s \in Server
    BY DEF Basic
  <1>2. v \in Server
    BY <1>1, ZenonT(60) DEF Server
  <1>3. r \in [s : {v}, od : {e.od}, ab : {e.ab}, ret : {e.ret}, tx : {e.tx}]
    BY Zenon DEF IsCall
  <1>4. v.state = e.s.state
    BY <1>1 DEF Server
  <1>5. SameBytes(v, e.s)
    BY <1>1, Zenon DEF Server, SameBytes
  <1> HIDE DEF v
  <1>6. Updated(r, e, v, e.ret)
    BY <1>2, <1>3, <1>5, Update DEF SameBytes
  <1> QED  BY <1>4, <1>5, <1>6 DEF Updated, Sized

\* upload_size
LEMMA UploadSize ==
    ASSUME NEW e, IsCall(e), Basic(e.s, e.od), NEW r, r = upload_size(e)
    PROVE  Sized(r, e)
  <1> DEFINE l == e.s.stream.dataLength
             b == Len(e.s.buf)
             j == [e EXCEPT !.s.sizeInd = l]
  <1>1. l \in Nat /\ b \in Nat /\ 0 \in Nat
    BY ServerFields DEF Basic
  <1>2. \/ r = e \/ r = [e EXCEPT !.s.sizeInd = 0] \/ r = [e EXCEPT !.s.sizeInd = l]
        \/ r = [e EXCEPT !.s.sizeInd = b] \/ r = Abort(j, "DEVICE_INCOMPAT")
    <2>a. Aborted(e) \in BOOLEAN /\ e.s.finished \in BOOLEAN
      BY ServerFlags, Zenon DEF Aborted, Basic
    <2>1. CASE Aborted(e)
      BY <2>1, Zenon DEF upload_size
    <2>2. CASE ~Aborted(e) /\ ~e.s.finished
      BY <2>2, Zenon DEF upload_size
    <2>3. CASE ~Aborted(e) /\ e.s.finished
      BY <2>3, Zenon DEF upload_size
    <2> QED  BY <2>a, <2>1, <2>2, <2>3, Zenon
  <1> HIDE DEF l, b
  <1>3. CASE r = e
    BY <1>3 DEF Sized, SameBytes
  <1>4. CASE r = [e EXCEPT !.s.sizeInd = 0]
    BY <1>1, <1>4, SizeInd
  <1>5. CASE r = [e EXCEPT !.s.sizeInd = l]
    BY <1>1, <1>5, SizeInd
  <1>6. CASE r = [e EXCEPT !.s.sizeInd = b]
    BY <1>1, <1>6, SizeInd
  <1>7. CASE r = Abort(j, "DEVICE_INCOMPAT")
    <2>1. Sized(j, e)
      BY <1>1, SizeInd
    <2> HIDE DEF j
    <2> QED  BY <1>7, <2>1, Aborts DEF Sized, ServerInv
  <1> QED  BY <1>2, <1>3, <1>4, <1>5, <1>6, <1>7

\* An upload that has read nothing yet.
Emptied(k) ==
    [k EXCEPT !.s.bufOffsetRd = 0, !.s.buf = <<>>, !.s.sizeTran = 0, !.s.finished = FALSE]

\* It may be read.
LEMMA PreparesUpload ==
    ASSUME NEW k, IsCall(k), Basic(k.s, k.od), k.s.mux \in Objects, k.s.state # "ABORT",
           Opened(k.s, k.od),
           k.s.stream.attribute = Entries[k.s.mux[1]].sub[k.s.mux[2]].attribute,
           NEW r, r = Emptied(k)
    PROVE  /\ IsCall(r) /\ Prepared(r.s, r.od) /\ r.od = k.od /\ r.ret = k.ret
           /\ r.s.state = k.s.state /\ r.s.mux = k.s.mux /\ r.s.bufOffsetRd = 0
  <1> DEFINE v == [k.s EXCEPT !.bufOffsetRd = 0, !.buf = <<>>, !.sizeTran = 0, !.finished = FALSE]
  <1>1. k.s \in Server /\ k.od[k.s.mux] \in Seq(Byte) /\ Len(k.od[k.s.mux]) \in Nat
    BY VariableOf DEF Basic
  <1>2. r \in [s : {v}, od : {k.od}, ab : {k.ab}, ret : {k.ret}, tx : {k.tx}]
    BY Zenon DEF IsCall, Emptied
  <1>3. v \in Server
    <2>1. 0 \in Nat
      OBVIOUS
    <2> QED  BY <1>1, <2>1, NoByte, Zenon DEF Server
  <1>4. /\ v.buf = <<>> /\ v.bufOffsetRd = 0 /\ v.sizeTran = 0 /\ v.stream = k.s.stream
        /\ v.mux = k.s.mux /\ v.state = k.s.state
    BY <1>1 DEF Server
  <1>5. v.finished = FALSE
    BY <1>1, Zenon DEF Server
  <1> HIDE DEF v
  <1>6. Len(v.buf) = 0
    BY <1>4, NoByte
  <1>7. Becomes(r, v, k.od, k.ret)
    BY <1>2, CallIs
  <1>8. Basic(v, k.od)
    <2>1. BUFFER_SIZE \in Nat
      BY BufferAssumption
    <2> QED  BY <1>3, <1>4, <1>6, <2>1 DEF Basic
  <1>9. base(v) = 0 /\ end(v) = 0
    BY <1>4, <1>6 DEF base, end
  <1>10. Window(v.buf, k.od[v.mux], base(v))
    BY <1>1, <1>4, <1>6, <1>9 DEF Window
  <1>11. Unread(v, k.od)
    <2>1. v.stream.dataOffset = 0 /\ Fresh(v, k.od)
      BY <1>4 DEF Opened, Fresh
    <2>2. 0 % 7 = 0 /\ \A i \in 1..0 : k.od[v.mux][i] # 0
      OBVIOUS
    <2> QED  BY <1>4, <1>9, <2>1, <2>2, Zenon DEF Unread
  <1>12. Prepared(v, k.od)
    BY <1>4, <1>5, <1>6, <1>8, <1>10, <1>11, Zenon DEF Prepared
  <1> QED  BY <1>4, <1>7, <1>12 DEF Becomes

\* A transfer that was accepted, or refused.
Begun(r, k) ==
    /\ IsCall(r) /\ Basic(r.s, r.od) /\ r.od = k.od /\ r.ret = k.ret
    /\ \/ r.s.state = "ABORT"
       \/ /\ r.s.state \in {"DOWNLOAD_INITIATE_REQ", "DOWNLOAD_BLK_INITIATE_REQ"}
          /\ r.s.mux \in Objects /\ Opened(r.s, r.od)
       \/ /\ r.s.state \in {"UPLOAD_INITIATE_REQ", "UPLOAD_BLK_INITIATE_REQ"}
          /\ r.s.mux \in Objects /\ Loaded(r.s, r.od) /\ r.s.bufOffsetRd = 0

\* load_for_upload
LEMMA LoadForUpload ==
    ASSUME NEW k, IsCall(k), Basic(k.s, k.od), k.s.mux \in Objects, Opened(k.s, k.od),
           k.s.state \in {"UPLOAD_INITIATE_REQ", "UPLOAD_BLK_INITIATE_REQ"},
           k.s.stream.attribute = Entries[k.s.mux[1]].sub[k.s.mux[2]].attribute,
           NEW r, r = load_for_upload(k)
    PROVE  Begun(r, k)
  <1> DEFINE p == Emptied(k)
             e == readFromOd(p, 7, FALSE)
  <1>1. r = upload_size(e)
    BY ZenonT(60) DEF load_for_upload, Emptied
  <1>2. /\ IsCall(p) /\ Prepared(p.s, p.od) /\ p.od = k.od /\ p.ret = k.ret
        /\ p.s.state = k.s.state /\ p.s.mux = k.s.mux /\ p.s.bufOffsetRd = 0
    <2>1. k.s.state # "ABORT"
      OBVIOUS
    <2> HIDE DEF p
    <2> QED  BY <2>1, PreparesUpload DEF p
  <1> HIDE DEF p
  <1>3. Refreshed(e, p, 7)
    <2>1. 7 \in Nat \ {0} /\ FALSE \in BOOLEAN
      OBVIOUS
    <2> HIDE DEF e
    <2> QED  BY <1>2, <2>1, ReadFromOd, Zenon DEF e
  <1> HIDE DEF e
  <1>4. /\ IsCall(e) /\ Basic(e.s, e.od) /\ e.od = k.od /\ e.ret = k.ret /\ e.s.mux = k.s.mux
        /\ e.s.state \in {k.s.state, "ABORT"}
        /\ e.s.state # "ABORT" => Loaded(e.s, e.od) /\ e.s.bufOffsetRd = 0
    BY <1>2, <1>3 DEF Refreshed, Stays
  <1>5. Sized(r, e)
    BY <1>1, <1>4, UploadSize
  <1>6. CASE r.s.state = "ABORT"
    BY <1>4, <1>5, <1>6 DEF Sized, Begun
  <1>7. CASE r.s.state # "ABORT"
    <2>1. SameBytes(r.s, e.s) /\ r.s.state = e.s.state /\ e.s.state # "ABORT"
      BY <1>5, <1>7 DEF Sized
    <2>2. Loaded(r.s, e.od)
      BY <1>4, <2>1, LoadedData
    <2> QED  BY <1>4, <1>5, <2>1, <2>2 DEF Sized, SameBytes, Begun
  <1> QED  BY <1>6, <1>7, SMTT(40)

\* new_communication
LEMMA NewCommunication ==
    ASSUME NEW k, IsCall(k), Basic(k.s, k.od), NEW r, r = new_communication(k)
    PROVE  Begun(r, k)
  <1> DEFINE m == k.s.rx.mux
             state == request_state(k.s.rx.cmd)
             upload == state \in {"UPLOAD_INITIATE_REQ", "UPLOAD_BLK_INITIATE_REQ"}
             error == access_error(m[1], m[2], upload)
             st == OD_stream(Entries, m[1], m[2])
             j == [k EXCEPT !.s.state = state, !.s.mux = m]
             v == [k.s EXCEPT !.state = state, !.mux = m]
             o == [j EXCEPT !.s.stream = st]
             w == [k.s EXCEPT !.state = state, !.mux = m, !.stream = st]
  <1>1. k.s \in Server /\ m \in Nat \X Nat
    BY ServerFields, HeardFrame DEF Basic
  <1>2. state \in {"DOWNLOAD_INITIATE_REQ", "UPLOAD_INITIATE_REQ", "DOWNLOAD_BLK_INITIATE_REQ",
                   "UPLOAD_BLK_INITIATE_REQ", "ABORT"}
    BY DEF request_state
  <1>3. state \in CO_SDO_state
    BY <1>2, States DEF Passing
  <1>4. \/ r = Abort(k, "CMD") /\ state = "ABORT"
        \/ r = Abort(j, error) /\ state # "ABORT"
        \/ /\ state # "ABORT" /\ OD_getSub(Entries, m[1], m[2]) = "OK"
           /\ \/ r = Abort(o, error)
              \/ upload /\ r = load_for_upload(o)
              \/ ~upload /\ r = o
    BY Zenon DEF new_communication
  <1>5. j \in [s : {v}, od : {k.od}, ab : {k.ab}, ret : {k.ret}, tx : {k.tx}]
    BY Zenon DEF IsCall
  <1>6. o \in [s : {w}, od : {k.od}, ab : {k.ab}, ret : {k.ret}, tx : {k.tx}]
    BY Zenon DEF IsCall
  <1> HIDE DEF m, state, upload, error, st
  <1>7. v \in Server
    BY <1>1, <1>3, ZenonT(60) DEF Server
  <1>8. v.buf = k.s.buf /\ v.bufOffsetRd = k.s.bufOffsetRd
    BY <1>1 DEF Server
  <1>9. Updated(j, k, v, k.ret)
    <2> HIDE DEF v, j
    <2> QED  BY <1>5, <1>7, <1>8, Update
  <1>10. CASE r = Abort(k, "CMD")
    BY <1>10, Aborts DEF Begun, ServerInv
  <1>11. CASE r = Abort(j, error)
    <2> HIDE DEF v, j
    <2> QED  BY <1>9, <1>11, Aborts DEF Begun, ServerInv, Updated
  <1>12. CASE /\ state # "ABORT" /\ OD_getSub(Entries, m[1], m[2]) = "OK"
              /\ \/ r = Abort(o, error)
                 \/ upload /\ r = load_for_upload(o)
                 \/ ~upload /\ r = o
    <2>1. /\ m \in Objects /\ st \in Stream /\ st.dataOffset = 0
          /\ st.dataLength = Len(InitialOd[m])
          /\ st.attribute = Entries[m[1]].sub[m[2]].attribute
      BY <1>1, <1>12, ObjectOf DEF st
    <2>2. w \in Server
      <3>1. st \in Stream
        BY <2>1
      <3> QED  BY <1>1, <1>3, <3>1, ZenonT(60) DEF Server
    <2>3. /\ w.state = state /\ w.mux = m /\ w.stream = st
          /\ w.buf = k.s.buf /\ w.bufOffsetRd = k.s.bufOffsetRd
      BY <1>1 DEF Server
    <2> HIDE DEF v, w, j, o
    <2>4. Updated(o, k, w, k.ret)
      BY <1>6, <2>2, <2>3, Update
    <2>5. Opened(w, k.od)
      <3>1. Len(k.od[m]) = Len(InitialOd[m])
        BY <2>1, VariableOf DEF Basic
      <3> QED  BY <2>1, <2>3, <3>1 DEF Opened, Fresh
    <2>6. /\ IsCall(o) /\ Basic(o.s, o.od) /\ o.od = k.od /\ o.ret = k.ret
          /\ o.s.mux \in Objects /\ Opened(o.s, o.od) /\ o.s.state = state
          /\ o.s.stream.attribute = Entries[o.s.mux[1]].sub[o.s.mux[2]].attribute
      BY <2>1, <2>3, <2>4, <2>5 DEF Updated
    <2>7. CASE r = Abort(o, error)
      BY <2>6, <2>7, Aborts DEF Begun, ServerInv
    <2>8. CASE upload /\ r = load_for_upload(o)
      <3>1. o.s.state \in {"UPLOAD_INITIATE_REQ", "UPLOAD_BLK_INITIATE_REQ"}
        BY <2>6, <2>8, SMTT(40) DEF upload
      <3>2. Begun(r, o)
        BY <2>6, <2>8, <3>1, LoadForUpload
      <3> QED  BY <2>6, <3>2 DEF Begun
    <2>9. CASE ~upload /\ r = o
      BY <1>2, <1>12, <2>6, <2>9 DEF upload, Begun
    <2> QED  BY <1>12, <2>7, <2>8, <2>9
  <1> QED  BY <1>4, <1>10, <1>11, <1>12

-----------------------------------------------------------------------------
(* A received frame *)

\* The first request of a transfer.
LEMMA OnRequestBegun ==
    ASSUME NEW k0, NEW k, Begun(k, k0), k.s.state # "ABORT", NEW r, r = on_request(k)
    PROVE  Handled(r, k)
  <1>1. IsCall(k) /\ Basic(k.s, k.od) /\ k.s.mux \in Objects
    BY DEF Begun
  <1>2. CASE k.s.state = "DOWNLOAD_INITIATE_REQ" /\ Opened(k.s, k.od)
    <2>1. r = on_download_initiate(k)
      BY <1>2 DEF on_request
    <2> QED  BY <1>1, <1>2, <2>1, OnDownloadInitiate
  <1>3. CASE k.s.state = "DOWNLOAD_BLK_INITIATE_REQ" /\ Opened(k.s, k.od)
    <2>1. r = on_download_blk_initiate(k)
      BY <1>3 DEF on_request
    <2> QED  BY <1>1, <1>3, <2>1, OnDownloadBlkInitiate
  <1>4. CASE k.s.state = "UPLOAD_INITIATE_REQ" /\ Loaded(k.s, k.od)
    <2>1. r = [k EXCEPT !.s.state = "UPLOAD_INITIATE_RSP"]
      BY <1>4 DEF on_request
    <2> QED  BY <1>1, <1>4, <2>1, UploadAnswers
  <1>5. CASE k.s.state = "UPLOAD_BLK_INITIATE_REQ" /\ Loaded(k.s, k.od) /\ k.s.bufOffsetRd = 0
    <2>1. r = on_upload_blk_initiate(k)
      BY <1>5 DEF on_request
    <2> QED  BY <1>1, <1>5, <2>1, OnUploadBlkInitiate
  <1> QED  BY <1>2, <1>3, <1>4, <1>5 DEF Begun

\* A later one.
LEMMA OnRequestOngoing ==
    ASSUME NEW k, IsCall(k), Basic(k.s, k.od), Phase(k.s, k.od),
           k.s.state \notin {"IDLE", "ABORT", "DOWNLOAD_BLK_SUBBLOCK_REQ"},
           NEW r, r = on_request(k)
    PROVE  Handled(r, k)
  <1>1. k.s.mux \in Objects /\ k.s.state \notin Passing
    BY DEF Phase, Resting
  <1>2. CASE k.s.state = "DOWNLOAD_SEGMENT_REQ"
    <2>1. r = on_download_segment(k)
      BY <1>2 DEF on_request
    <2>2. Segmented(k.s, k.od)
      BY <1>2 DEF Phase, Downloading
    <2> QED  BY <1>1, <1>2, <2>1, <2>2, OnDownloadSegment
  <1>3. CASE k.s.state = "UPLOAD_SEGMENT_REQ"
    <2>1. r = on_upload_segment(k)
      BY <1>3 DEF on_request
    <2>2. Loaded(k.s, k.od)
      BY <1>3 DEF Phase, Uploading, UploadStates
    <2> QED  BY <1>1, <2>1, <2>2, OnUploadSegment
  <1>4. CASE k.s.state = "DOWNLOAD_BLK_END_REQ"
    <2>1. r = on_download_blk_end(k)
      BY <1>4 DEF on_request
    <2>2. Filled(k.s, k.od)
      BY <1>4 DEF Phase, Downloading
    <2> QED  BY <1>1, <1>4, <2>1, <2>2, OnDownloadBlkEnd
  <1>5. CASE k.s.state = "UPLOAD_BLK_INITIATE_REQ2"
    <2>1. r = on_upload_blk_initiate2(k)
      BY <1>5 DEF on_request
    <2>2. Loaded(k.s, k.od) /\ Asked(k.s, k.s.block_blksize)
      BY <1>5 DEF Phase, Uploading, UploadStates
    <2> QED  BY <1>1, <2>1, <2>2, OnUploadBlkInitiate2
  <1>6. CASE k.s.state \in {"UPLOAD_BLK_SUBBLOCK_SREQ", "UPLOAD_BLK_SUBBLOCK_CRSP"}
    <2>1. r = on_upload_blk_ack(k)
      BY <1>6 DEF on_request
    <2>2. Loaded(k.s, k.od) /\ (Sending(k.s) \/ Sent(k.s)) /\ k.s.state # "ABORT"
      BY <1>6 DEF Phase, Uploading, UploadStates
    <2> QED  BY <1>1, <2>1, <2>2, OnUploadBlkAck
  <1>7. CASE k.s.state \notin {"DOWNLOAD_SEGMENT_REQ", "UPLOAD_SEGMENT_REQ", "DOWNLOAD_BLK_END_REQ",
                               "UPLOAD_BLK_INITIATE_REQ2", "UPLOAD_BLK_SUBBLOCK_SREQ",
                               "UPLOAD_BLK_SUBBLOCK_CRSP"}
    <2>1. r = Abort(k, "CMD")
      BY <1>1, <1>7 DEF on_request, Passing
    <2> QED  BY <2>1, HandledAborts
  <1> QED  BY <1>2, <1>3, <1>4, <1>5, <1>6, <1>7

\* The server but for its timers and the frame that it was given.
Agrees(v, s) ==
    /\ SameBytes(v, s) /\ v.state = s.state
    /\ v.block_seqno = s.block_seqno /\ v.block_blksize = s.block_blksize
    /\ v.block_noData = s.block_noData
    /\ v.rxNew = s.rxNew \/ v.rxNew = FALSE

\* The phase of a transfer does not depend on them.
LEMMA PhaseAgrees ==
    ASSUME NEW v, NEW s, NEW o, Agrees(v, s), Phase(s, o)
    PROVE  Phase(v, o)
  <1>1. /\ v.mux = s.mux /\ v.finished = s.finished /\ v.bufOffsetRd = s.bufOffsetRd
        /\ v.buf = s.buf /\ v.sizeTran = s.sizeTran /\ v.stream = s.stream
    BY DEF Agrees, SameBytes
  <1>2. /\ v.state = s.state /\ v.block_seqno = s.block_seqno
        /\ v.block_blksize = s.block_blksize /\ v.block_noData = s.block_noData
    BY DEF Agrees
  <1>3. s.rxNew = FALSE => v.rxNew = FALSE
    BY Zenon DEF Agrees
  <1>4. Opened(s, o) => Opened(v, o)
    BY <1>1, Zenon DEF Opened, Fresh
  <1>5. Filled(s, o) => Filled(v, o)
    BY <1>1, Zenon DEF Filled, Fresh
  <1>6. Segmented(s, o) => Segmented(v, o)
    BY <1>1, <1>5, Zenon DEF Segmented
  <1>7. Subblock(s, o) => Subblock(v, o)
    BY <1>1, <1>2, <1>3, <1>5, Zenon DEF Subblock
  <1>8. SubblockEnd(s, o) => SubblockEnd(v, o)
    BY <1>1, <1>3, <1>5, Zenon DEF SubblockEnd
  <1>9. Loaded(s, o) => Loaded(v, o)
    BY LoadedData DEF Agrees
  <1>10. \A n : Asked(s, n) => Asked(v, n)
    BY <1>1, <1>2, Zenon DEF Asked
  <1>11. (Sending(s) => Sending(v)) /\ (Sent(s) => Sent(v))
    BY <1>1, <1>2, <1>10, Zenon DEF Sending, Sent
  <1>12. Downloading(v, o)
    BY <1>1, <1>2, <1>4, <1>5, <1>6, <1>7, <1>8, Zenon DEF Phase, Downloading
  <1>13. Uploading(v, o)
    BY <1>2, <1>9, <1>10, <1>11, Zenon DEF Phase, Uploading
  <1> QED  BY <1>1, <1>2, <1>12, <1>13, Zenon DEF Phase

\* The handling of a request, whatever it was.
LEMMA OnRequest ==
    ASSUME NEW k, IsCall(k), ServerInv(k.s, k.od), k.s.rxNew = TRUE,
           NEW r, r = on_request(IF k.s.state = "IDLE" THEN new_communication(k) ELSE k)
    PROVE  Handled(r, k)
  <1>1. Basic(k.s, k.od) /\ Phase(k.s, k.od)
    BY DEF ServerInv
  <1>2. CASE k.s.state = "IDLE"
    <2> DEFINE q == new_communication(k)
    <2>1. r = on_request(q)
      BY <1>2
    <2>2. Begun(q, k)
      BY <1>1, NewCommunication
    <2> HIDE DEF q
    <2>3. CASE q.s.state = "ABORT"
      <3>1. r = q
        BY <2>1, <2>3 DEF on_request
      <3>2. Phase(r.s, r.od)
        BY <2>3, <3>1, RestPhase DEF Resting
      <3> QED  BY <2>2, <2>3, <3>1, <3>2, NothingWritten DEF Begun, Handled
    <2>4. CASE q.s.state # "ABORT"
      <3>1. Handled(r, q)
        BY <2>1, <2>2, <2>4, OnRequestBegun
      <3>2. q.od = k.od /\ q.ret = k.ret /\ q.s.state # "DOWNLOAD_BLK_END_REQ"
        BY <2>2 DEF Begun
      <3>3. Whole(r, k)
        BY <3>1, <3>2, Zenon DEF Handled, Whole
      <3> QED  BY <3>1, <3>2, <3>3 DEF Handled
    <2> QED  BY <2>3, <2>4
  <1>3. CASE k.s.state = "ABORT"
    <2>1. r = k
      BY <1>3 DEF on_request
    <2> QED  BY <1>1, <1>3, <2>1, NothingWritten DEF Handled
  <1>4. CASE k.s.state \notin {"IDLE", "ABORT"}
    <2>1. r = on_request(k)
      BY <1>4
    <2>2. k.s.state # "DOWNLOAD_BLK_SUBBLOCK_REQ"
      BY <1>1, Zenon DEF Phase, Downloading, Subblock
    <2>3. k.s.state \notin {"IDLE", "ABORT", "DOWNLOAD_BLK_SUBBLOCK_REQ"}
      BY <1>4, <2>2
    <2> QED  BY <1>1, <2>1, <2>3, OnRequestOngoing
  <1> QED  BY <1>2, <1>3, <1>4

\* What the first part of a call leaves to the rest of it.
Pending(r, k) ==
    /\ IsCall(r) /\ ServerInv(r.s, r.od) /\ r.s.rxNew = FALSE
    /\ \/ r.s.state = "IDLE" /\ r.od = k.od /\ r.ret = "ok_communicationEnd"
       \/ /\ k.s.rxNew = TRUE /\ r.ret = k.ret
          /\ r.s.state \in Answering \cup {"UPLOAD_BLK_SUBBLOCK_SREQ", "ABORT"}
          /\ r.s.timeoutTimer = 0 /\ Whole(r, k)
       \/ k.s.rxNew = FALSE /\ r = k /\ k.s.state # "IDLE"

\* The frame is dropped and the timer restarts.
Dropped(e) == [e EXCEPT !.s.timeoutTimer = 0, !.s.rxNew = FALSE, !.s.rx = Frame(0)]

\* The request was handled.
LEMMA Answers ==
    ASSUME NEW k, NEW e, Handled(e, k), k.s.rxNew = TRUE, NEW r, r = Dropped(e)
    PROVE  Pending(r, k)
  <1> DEFINE v == [e.s EXCEPT !.timeoutTimer = 0, !.rxNew = FALSE, !.rx = Frame(0)]
  <1>1. IsCall(e) /\ Basic(e.s, e.od) /\ Phase(e.s, e.od) /\ e.s \in Server
    BY DEF Handled, Basic
  <1>2. r \in [s : {v}, od : {e.od}, ab : {e.ab}, ret : {e.ret}, tx : {e.tx}]
    BY <1>1, Zenon DEF IsCall, Dropped
  <1>a. 0 \in 0..SDOtimeoutTime /\ 0 < SDOtimeoutTime
    BY TimeAssumption
  <1>3. v \in Server
    BY <1>1, <1>a, NoFrame, ZenonT(60) DEF Server
  <1>4. v.timeoutTimer = 0 /\ v.buf = e.s.buf /\ v.bufOffsetRd = e.s.bufOffsetRd
        /\ v.state = e.s.state
    BY <1>1 DEF Server
  <1>5. v.rxNew = FALSE
    BY <1>1, Zenon DEF Server
  <1>6. Agrees(v, e.s)
    BY <1>1, Zenon DEF Server, Agrees, SameBytes
  <1>7. v.finished = e.s.finished
    BY <1>6 DEF Agrees, SameBytes
  <1> HIDE DEF v
  <1>8. Updated(r, e, v, e.ret)
    BY <1>1, <1>2, <1>3, <1>4, Update
  <1>9. Phase(v, e.od)
    BY <1>1, <1>6, PhaseAgrees
  <1>10. Ticking(v)
    BY <1>a, <1>4 DEF Ticking
  <1>11. IsCall(r) /\ ServerInv(r.s, r.od) /\ r.s.rxNew = FALSE
    BY <1>5, <1>8, <1>9, <1>10 DEF Updated, ServerInv
  <1>12. Whole(r, k)
    BY <1>4, <1>7, <1>8, Zenon DEF Handled, Whole, Updated
  <1> QED  BY <1>4, <1>8, <1>11, <1>12 DEF Updated, Handled, Pending

Resets(k) == [k EXCEPT !.s.state = "IDLE", !.s.rxNew = FALSE, !.s.rx = Frame(0),
                       !.ret = "ok_communicationEnd"]

\* A node that is stopped.
LEMMA ResetsServer ==
    ASSUME NEW k, IsCall(k), Basic(k.s, k.od), NEW r, r = Resets(k)
    PROVE  Pending(r, k)
  <1> DEFINE v == [k.s EXCEPT !.state = "IDLE", !.rxNew = FALSE, !.rx = Frame(0)]
  <1>1. k.s \in Server
    BY DEF Basic
  <1>2. r \in [s : {v}, od : {k.od}, ab : {k.ab}, ret : {"ok_communicationEnd"}, tx : {k.tx}]
    BY Zenon DEF IsCall, Resets
  <1>3. v \in Server
    BY <1>1, States, NoFrame, ZenonT(60) DEF Server
  <1>4. v.state = "IDLE" /\ v.buf = k.s.buf /\ v.bufOffsetRd = k.s.bufOffsetRd
    BY <1>1 DEF Server
  <1>5. v.rxNew = FALSE
    BY <1>1, Zenon DEF Server
  <1> HIDE DEF v
  <1>6. Updated(r, k, v, "ok_communicationEnd")
    BY <1>2, <1>3, <1>4, Update
  <1>7. Phase(v, k.od) /\ Ticking(v)
    BY <1>4, RestPhase DEF Resting
  <1> QED  BY <1>4, <1>5, <1>6, <1>7 DEF Updated, ServerInv, Pending

\* received
LEMMA Received ==
    ASSUME NEW k, IsCall(k), ServerInv(k.s, k.od), NEW nmt \in BOOLEAN,
           NEW r, r = received(k, nmt)
    PROVE  Pending(r, k)
  <1>1. Basic(k.s, k.od) /\ Phase(k.s, k.od) /\ Ticking(k.s) /\ k.s \in Server
    BY DEF ServerInv, Basic
  <1>2. k.s.valid = TRUE /\ k.s.rxNew \in BOOLEAN
    BY <1>1, ServerFlags, Zenon
  <1> DEFINE e == on_request(IF k.s.state = "IDLE" THEN new_communication(k) ELSE k)
  <1>3. CASE k.s.state = "IDLE" /\ k.s.rxNew = FALSE
    <2>1. r = [k EXCEPT !.ret = "ok_communicationEnd"]
      BY <1>2, <1>3, Zenon DEF received
    <2>2. r \in [s : {k.s}, od : {k.od}, ab : {k.ab}, ret : {"ok_communicationEnd"}, tx : {k.tx}]
      BY <2>1, Zenon DEF IsCall
    <2>3. Becomes(r, k.s, k.od, "ok_communicationEnd")
      BY <2>2, CallIs
    <2> QED  BY <1>3, <2>3 DEF Becomes, Pending
  <1>4. CASE ~(k.s.state = "IDLE" /\ k.s.rxNew = FALSE) /\ nmt = FALSE
    <2>1. r = Resets(k)
      BY <1>2, <1>4, Zenon DEF received, Resets
    <2> QED  BY <1>1, <2>1, ResetsServer
  <1>5. CASE k.s.rxNew = TRUE /\ nmt = TRUE
    <2>1. r = Dropped(e)
      BY <1>2, <1>5, Zenon DEF received, Dropped
    <2>2. Handled(e, k)
      BY <1>5, OnRequest
    <2> HIDE DEF e
    <2> QED  BY <1>5, <2>1, <2>2, Answers
  <1>6. CASE k.s.rxNew = FALSE /\ k.s.state # "IDLE" /\ nmt = TRUE
    <2>1. r = k
      BY <1>2, <1>6, Zenon DEF received
    <2>2. Pending(k, k)
      BY <1>6 DEF Pending
    <2> QED  BY <2>1, <2>2
  <1> QED  BY <1>2, <1>3, <1>4, <1>5, <1>6, Zenon

-----------------------------------------------------------------------------
(* The timers *)

\* The timer of a transfer moves on by dt, or its limit is reached.
Timed(r, k, dt) ==
    /\ IsCall(r) /\ ServerInv(r.s, r.od) /\ r.od = k.od /\ r.ret = k.ret
    /\ r.s.rxNew = FALSE
    /\ r.s.state # "ABORT" =>
          /\ k.s.state # "ABORT" /\ r.s.timeoutTimer = k.s.timeoutTimer + dt
          /\ r.s.finished = k.s.finished
          /\ r.s.block_seqno = k.s.block_seqno /\ r.s.block_blksize = k.s.block_blksize
          /\ \/ r.s.state = k.s.state
             \/ /\ k.s.state = "DOWNLOAD_BLK_SUBBLOCK_REQ"
                /\ r.s.state = "DOWNLOAD_BLK_SUBBLOCK_RSP"

Timer(k, n) == [k EXCEPT !.s.timeoutTimer = n]

\* expire
LEMMA Expires ==
    ASSUME NEW k, IsCall(k), ServerInv(k.s, k.od), k.s.rxNew = FALSE, k.s.state # "IDLE",
           NEW dt \in {0, 1}, NEW r, r = expire(k, dt)
    PROVE  /\ Timed(r, k, dt) /\ r.s.state \in {k.s.state, "ABORT"}
           /\ k.s.state # "ABORT" /\ k.s.timeoutTimer + dt < SDOtimeoutTime =>
                 r.s.state = k.s.state
  <1> DEFINE n == IF k.s.timeoutTimer < SDOtimeoutTime THEN k.s.timeoutTimer + dt
                  ELSE k.s.timeoutTimer
             v == [k.s EXCEPT !.timeoutTimer = n]
             j == Timer(k, n)
  <1>1. /\ k.s \in Server /\ Basic(k.s, k.od) /\ Phase(k.s, k.od) /\ Ticking(k.s)
        /\ k.s.timeoutTimer \in 0..SDOtimeoutTime
    BY ServerFields DEF ServerInv, Basic
  <1>2. SDOtimeoutTime \in Nat
    BY TimeAssumption
  <1>3. n \in 0..SDOtimeoutTime
    BY <1>1, <1>2
  <1>4. r = IF n >= SDOtimeoutTime THEN Abort(j, "TIMEOUT") ELSE j
    BY Zenon DEF expire, Timer
  <1>5. j \in [s : {v}, od : {k.od}, ab : {k.ab}, ret : {k.ret}, tx : {k.tx}]
    BY Zenon DEF IsCall, Timer
  <1>6. k.s.state # "ABORT" => k.s.timeoutTimer < SDOtimeoutTime /\ n = k.s.timeoutTimer + dt
    <2>1. k.s.state # "ABORT" => k.s.timeoutTimer < SDOtimeoutTime
      BY <1>1 DEF Ticking, Resting
    <2> QED  BY <2>1
  <1> HIDE DEF n
  <1>7. v \in Server
    BY <1>1, <1>3, ZenonT(60) DEF Server
  <1>8. /\ v.timeoutTimer = n /\ v.buf = k.s.buf /\ v.bufOffsetRd = k.s.bufOffsetRd
        /\ v.state = k.s.state
        /\ v.block_seqno = k.s.block_seqno /\ v.block_blksize = k.s.block_blksize
    BY <1>1 DEF Server
  <1>9. Agrees(v, k.s)
    BY <1>1, Zenon DEF Server, Agrees, SameBytes
  <1>10. v.rxNew = FALSE /\ v.finished = k.s.finished
    BY <1>1, Zenon DEF Server
  <1> HIDE DEF v, j
  <1>11. Updated(j, k, v, k.ret)
    BY <1>1, <1>5, <1>7, <1>8, Update
  <1>12. Phase(v, k.od)
    BY <1>1, <1>9, PhaseAgrees
  <1>13. CASE n >= SDOtimeoutTime
    <2>1. r = Abort(j, "TIMEOUT")
      BY <1>4, <1>13
    <2>2. /\ IsCall(r) /\ ServerInv(r.s, r.od) /\ r.s.state = "ABORT" /\ Keeps(r.s, j.s)
          /\ r.od = j.od /\ r.ret = j.ret
      BY <1>11, <2>1, Aborts DEF Updated
    <2>3. r.s.rxNew = FALSE
      BY <1>10, <1>11, <2>2, Zenon DEF Keeps, Updated
    <2>4. ~(k.s.state # "ABORT" /\ k.s.timeoutTimer + dt < SDOtimeoutTime)
      BY <1>1, <1>2, <1>6, <1>13
    <2> QED  BY <1>11, <2>2, <2>3, <2>4, Zenon DEF Updated, Timed
  <1>14. CASE ~(n >= SDOtimeoutTime)
    <2>1. r = j
      BY <1>4, <1>14
    <2>2. Ticking(v)
      BY <1>2, <1>3, <1>8, <1>14 DEF Ticking
    <2>3. ServerInv(v, k.od)
      BY <1>11, <1>12, <2>2 DEF Updated, ServerInv
    <2> QED  BY <1>6, <1>8, <1>10, <1>11, <2>1, <2>3, Zenon DEF Updated, Timed
  <1> QED  BY <1>13, <1>14

BlockTimer(k, n) == [k EXCEPT !.s.block_timeoutTimer = n]

\* A sub-block goes on or ends.
Paused(r, k) ==
    /\ IsCall(r) /\ ServerInv(r.s, r.od) /\ r.od = k.od /\ r.ret = k.ret
    /\ r.s.rxNew = FALSE /\ r.s.finished = k.s.finished
    /\ r.s.timeoutTimer = k.s.timeoutTimer
    /\ r.s.block_seqno = k.s.block_seqno /\ r.s.block_blksize = k.s.block_blksize
    /\ \/ r.s.state = k.s.state
       \/ /\ k.s.state = "DOWNLOAD_BLK_SUBBLOCK_REQ"
          /\ r.s.state = "DOWNLOAD_BLK_SUBBLOCK_RSP"

\* expire_subblock
LEMMA ExpiresSubblock ==
    ASSUME NEW k, IsCall(k), ServerInv(k.s, k.od), k.s.rxNew = FALSE,
           NEW dt \in {0, 1}, NEW r, r = expire_subblock(k, dt)
    PROVE  Paused(r, k)
  <1> DEFINE n == IF k.s.block_timeoutTimer < block_SDOtimeoutTime
                  THEN k.s.block_timeoutTimer + dt ELSE k.s.block_timeoutTimer
             j == BlockTimer(k, n)
             v == [k.s EXCEPT !.block_timeoutTimer = n]
             w == [k.s EXCEPT !.block_timeoutTimer = n, !.state = "DOWNLOAD_BLK_SUBBLOCK_RSP",
                              !.rxNew = FALSE]
  <1>1. /\ k.s \in Server /\ Basic(k.s, k.od) /\ Phase(k.s, k.od) /\ Ticking(k.s)
        /\ k.s.block_timeoutTimer \in 0..block_SDOtimeoutTime
    BY ServerFields DEF ServerInv, Basic
  <1>2. n \in 0..block_SDOtimeoutTime
    BY <1>1, TimeAssumption
  <1>3. \/ r = k
        \/ /\ k.s.state = "DOWNLOAD_BLK_SUBBLOCK_REQ"
           /\ r = j \/ r = [j EXCEPT !.s.state = "DOWNLOAD_BLK_SUBBLOCK_RSP", !.s.rxNew = FALSE]
    BY Zenon DEF expire_subblock, BlockTimer
  <1>4. j \in [s : {v}, od : {k.od}, ab : {k.ab}, ret : {k.ret}, tx : {k.tx}]
    BY Zenon DEF IsCall, BlockTimer
  <1>5. r = [j EXCEPT !.s.state = "DOWNLOAD_BLK_SUBBLOCK_RSP", !.s.rxNew = FALSE]
          => r \in [s : {w}, od : {k.od}, ab : {k.ab}, ret : {k.ret}, tx : {k.tx}]
    BY Zenon DEF IsCall, BlockTimer
  <1> HIDE DEF n
  <1>6. v \in Server
    BY <1>1, <1>2, ZenonT(60) DEF Server
  <1>7. w \in Server
    BY <1>1, <1>2, States, ZenonT(60) DEF Server
  <1>8. /\ v.buf = k.s.buf /\ v.bufOffsetRd = k.s.bufOffsetRd /\ v.state = k.s.state
        /\ v.timeoutTimer = k.s.timeoutTimer
        /\ v.block_seqno = k.s.block_seqno /\ v.block_blksize = k.s.block_blksize
    BY <1>1 DEF Server
  <1>9. /\ w.state = "DOWNLOAD_BLK_SUBBLOCK_RSP" /\ w.timeoutTimer = k.s.timeoutTimer
        /\ w.block_seqno = k.s.block_seqno /\ w.block_blksize = k.s.block_blksize
    BY <1>1 DEF Server
  <1>10. Agrees(v, k.s) /\ SameBytes(w, k.s)
    BY <1>1, Zenon DEF Server, Agrees, SameBytes
  <1>11. v.rxNew = FALSE /\ v.finished = k.s.finished /\ w.rxNew = FALSE
    BY <1>1, Zenon DEF Server
  <1> HIDE DEF v, w, j
  <1>12. CASE r = k
    BY <1>12 DEF Paused
  <1>13. CASE r = j
    <2>1. Updated(j, k, v, k.ret)
      BY <1>1, <1>4, <1>6, <1>8, Update
    <2>2. Phase(v, k.od)
      BY <1>1, <1>10, PhaseAgrees
    <2>3. Ticking(v)
      BY <1>1, <1>8 DEF Ticking
    <2> QED  BY <1>8, <1>11, <1>13, <2>1, <2>2, <2>3, Zenon DEF Updated, ServerInv, Paused
  <1>14. CASE /\ k.s.state = "DOWNLOAD_BLK_SUBBLOCK_REQ"
              /\ r = [j EXCEPT !.s.state = "DOWNLOAD_BLK_SUBBLOCK_RSP", !.s.rxNew = FALSE]
    <2>1. Updated(r, k, w, k.ret)
      BY <1>1, <1>5, <1>7, <1>10, <1>14, Update DEF SameBytes
    <2>2. Subblock(k.s, k.od) /\ k.s.mux \in Objects
      BY <1>1, <1>14 DEF Phase, Downloading, Resting
    <2>3. Filled(k.s, k.od) /\ k.s.finished = FALSE
      BY <2>2, Zenon DEF Subblock
    <2>4. Filled(w, k.od)
      BY <1>10, <2>3, Zenon DEF SameBytes, Filled, Fresh
    <2>5. w.finished = FALSE /\ w.mux \in Objects
      BY <1>10, <2>2, <2>3, Zenon DEF SameBytes
    <2>6. SubblockEnd(w, k.od)
      BY <1>11, <2>4, <2>5, Zenon DEF SubblockEnd
    <2>7. Phase(w, k.od)
      BY <1>9, <2>5, <2>6, DownloadPhase
    <2>8. Ticking(w)
      BY <1>1, <1>9, <1>14 DEF Ticking, Resting
    <2> QED  BY <1>9, <1>11, <1>14, <2>1, <2>3, <2>5, <2>7, <2>8,
             Zenon DEF Updated, ServerInv, Paused
  <1> QED  BY <1>3, <1>12, <1>13, <1>14

\* timed: the timers of a call that has something to do.
LEMMA Times ==
    ASSUME NEW k, IsCall(k), ServerInv(k.s, k.od), k.s.rxNew = FALSE, k.s.state # "IDLE",
           NEW dt \in {0, 1}, NEW r, r = expire_subblock(expire(k, dt), dt)
    PROVE  /\ Timed(r, k, dt)
           /\ k.s.state \notin {"ABORT", "DOWNLOAD_BLK_SUBBLOCK_REQ"}
              /\ k.s.timeoutTimer + dt < SDOtimeoutTime => r.s.state = k.s.state
  <1> DEFINE e == expire(k, dt)
  <1>1. /\ Timed(e, k, dt) /\ e.s.state \in {k.s.state, "ABORT"}
        /\ k.s.state # "ABORT" /\ k.s.timeoutTimer + dt < SDOtimeoutTime =>
              e.s.state = k.s.state
    BY Expires
  <1> HIDE DEF e
  <1>2. IsCall(e) /\ ServerInv(e.s, e.od) /\ e.s.rxNew = FALSE
    BY <1>1 DEF Timed
  <1>3. r = expire_subblock(e, dt)
    BY DEF e
  <1>4. /\ IsCall(r) /\ ServerInv(r.s, r.od) /\ r.od = e.od /\ r.ret = e.ret
        /\ r.s.rxNew = FALSE /\ r.s.finished = e.s.finished
        /\ r.s.timeoutTimer = e.s.timeoutTimer
        /\ r.s.block_seqno = e.s.block_seqno /\ r.s.block_blksize = e.s.block_blksize
        /\ \/ r.s.state = e.s.state
           \/ /\ e.s.state = "DOWNLOAD_BLK_SUBBLOCK_REQ"
              /\ r.s.state = "DOWNLOAD_BLK_SUBBLOCK_RSP"
    <2>1. Paused(r, e)
      BY <1>2, <1>3, ExpiresSubblock
    <2> QED  BY <2>1 DEF Paused
  <1>5. Timed(r, k, dt)
    <2>1. r.s.state # "ABORT" => e.s.state # "ABORT"
      BY <1>4
    <2>2. r.s.state # "ABORT" => e.s.state = k.s.state
      BY <1>1, <2>1
    <2> QED  BY <1>1, <1>4, <2>1, <2>2, Zenon DEF Timed
  <1>6. k.s.state \notin {"ABORT", "DOWNLOAD_BLK_SUBBLOCK_REQ"}
        /\ k.s.timeoutTimer + dt < SDOtimeoutTime => r.s.state = k.s.state
    <2>1. SUFFICES ASSUME k.s.state # "ABORT", k.s.state # "DOWNLOAD_BLK_SUBBLOCK_REQ",
                          k.s.timeoutTimer + dt < SDOtimeoutTime
                   PROVE  r.s.state = k.s.state
      OBVIOUS
    <2>2. e.s.state = k.s.state
      BY <1>1, <2>1, Zenon
    <2> QED  BY <1>4, <2>1, <2>2, Zenon
  <1> QED  BY <1>5, <1>6

-----------------------------------------------------------------------------
(* The pace *)

\* The ticks after which a server without a client is idle: one for every
\* answer and for every segment of a sub-block, and the timeout.
Todo(s) ==
    CASE s.state = "IDLE" -> 0
      [] s.state = "ABORT" -> 1
      [] s.state = "UPLOAD_BLK_SUBBLOCK_SREQ" ->
           s.block_blksize - s.block_seqno + SDOtimeoutTime
      [] s.state \in Answering -> 1 + SDOtimeoutTime
      [] OTHER -> SDOtimeoutTime - s.timeoutTimer

\* What is left of them when the answer or the segment was sent.
Served(s) ==
    IF s.state \in Answering \cup {"UPLOAD_BLK_SUBBLOCK_SREQ"} THEN Todo(s) - 1 ELSE Todo(s)

\* Its values.
LEMMA TodoIs ==
    ASSUME NEW s
    PROVE  /\ s.state = "IDLE" => Todo(s) = 0
           /\ s.state = "ABORT" => Todo(s) = 1
           /\ s.state = "UPLOAD_BLK_SUBBLOCK_SREQ" =>
                 Todo(s) = s.block_blksize - s.block_seqno + SDOtimeoutTime
           /\ s.state \in Answering => Todo(s) = 1 + SDOtimeoutTime
           /\ s.state \notin Answering \cup {"IDLE", "ABORT", "UPLOAD_BLK_SUBBLOCK_SREQ"} =>
                 Todo(s) = SDOtimeoutTime - s.timeoutTimer
  BY DEF Todo, Answering

\* A silent client is noticed in time.
LEMMA TodoBound ==
    ASSUME NEW s, NEW o, ServerInv(s, o)
    PROVE  /\ Todo(s) \in 0..Patience /\ Served(s) \in Nat
           /\ s.state # "IDLE" => Todo(s) > 0
  <1>1. /\ SDOtimeoutTime \in Nat /\ 1 <= SDOtimeoutTime /\ Patience \in Nat
        /\ 1 + SDOtimeoutTime <= Patience
    BY TimeAssumption
  <1>2. s.timeoutTimer \in 0..SDOtimeoutTime /\ s.block_seqno \in 0..127
    BY ServerFields DEF ServerInv, Basic
  <1>a. {"IDLE", "ABORT"} \cap (Answering \cup {"UPLOAD_BLK_SUBBLOCK_SREQ"}) = {}
    BY DEF Answering
  <1>3. CASE s.state = "IDLE"
    <2>1. Todo(s) = 0 /\ Served(s) = Todo(s)
      BY <1>3, <1>a, TodoIs DEF Served
    <2> QED  BY <1>1, <1>3, <2>1
  <1>4. CASE s.state = "ABORT"
    <2>1. Todo(s) = 1 /\ Served(s) = Todo(s)
      BY <1>4, <1>a, TodoIs DEF Served
    <2> QED  BY <1>1, <2>1
  <1>5. CASE s.state = "UPLOAD_BLK_SUBBLOCK_SREQ"
    <2>1. Sending(s)
      BY <1>5 DEF ServerInv, Phase, Uploading
    <2>2. /\ s.block_blksize \in 1..127 /\ s.block_blksize + SDOtimeoutTime <= Patience
          /\ s.block_seqno < s.block_blksize
      BY <2>1 DEF Sending, Asked
    <2>3. Todo(s) = s.block_blksize - s.block_seqno + SDOtimeoutTime
      BY <1>5, TodoIs
    <2>4. Served(s) = Todo(s) - 1
      BY <1>5 DEF Served
    <2> DEFINE b == s.block_blksize
               n == s.block_seqno
               E == b - n + SDOtimeoutTime
    <2>5. b \in 1..127 /\ n \in 0..127 /\ b + SDOtimeoutTime <= Patience /\ n < b
      BY <1>2, <2>2
    <2> HIDE DEF b, n
    <2>6. E \in 0..Patience /\ E - 1 \in Nat /\ E > 0
      BY <1>1, <2>5
    <2>7. Todo(s) = E
      BY <2>3 DEF b, n
    <2> HIDE DEF E
    <2> QED  BY <2>4, <2>6, <2>7
  <1>6. CASE s.state \in Answering
    <2>1. Todo(s) = 1 + SDOtimeoutTime
      BY <1>6, TodoIs
    <2>2. Served(s) = Todo(s) - 1
      BY <1>6 DEF Served
    <2> QED  BY <1>1, <2>1, <2>2
  <1>7. CASE s.state \notin Answering \cup {"IDLE", "ABORT", "UPLOAD_BLK_SUBBLOCK_SREQ"}
    <2>1. Todo(s) = SDOtimeoutTime - s.timeoutTimer
      BY <1>7, TodoIs
    <2>2. Served(s) = Todo(s)
      BY <1>7 DEF Served
    <2>3. s.timeoutTimer < SDOtimeoutTime
      BY <1>7 DEF ServerInv, Ticking, Resting
    <2> QED  BY <1>1, <1>2, <2>1, <2>2, <2>3
  <1> QED  BY <1>3, <1>4, <1>5, <1>6, <1>7

\* What sending an answer leads to.
Transmitted(r, k) ==
    /\ IsCall(r) /\ ServerInv(r.s, r.od) /\ r.s.rxNew = FALSE
    /\ r.ret = k.ret \/ r.s.state = "IDLE"
    /\ r.s.state # "ABORT" => Todo(r.s) <= Served(k.s)
    /\ r.od # k.od => k.s.state = "DOWNLOAD_BLK_SUBBLOCK_RSP"
    /\ k.s.finished = TRUE /\ k.s.state \in {"DOWNLOAD_INITIATE_RSP", "DOWNLOAD_SEGMENT_RSP"}
       => r.s.state = "IDLE" /\ r.s.finished = TRUE

\* The transfer has ended.
LEMMA TransmitsLast ==
    ASSUME NEW k, ServerInv(k.s, k.od), NEW v, NEW q, NEW r, Updated(r, k, v, q),
           v.state = "IDLE", v.rxNew = FALSE, v.finished = k.s.finished
    PROVE  Transmitted(r, k)
  <1>1. Phase(v, k.od) /\ Ticking(v)
    BY RestPhase DEF Resting
  <1>2. Todo(v) = 0 /\ Served(k.s) \in Nat
    BY TodoBound, TodoIs
  <1>3. Todo(v) <= Served(k.s)
    BY <1>2
  <1> QED  BY <1>1, <1>3, Zenon DEF Updated, ServerInv, Transmitted

\* The server waits for the next request.
LEMMA TransmitsOn ==
    ASSUME NEW k, ServerInv(k.s, k.od), k.s.state \in Answering, NEW v, NEW r,
           Updated(r, k, v, k.ret), Phase(v, k.od), v.rxNew = FALSE, v.timeoutTimer = 0,
           v.state \notin Answering \cup {"IDLE", "ABORT", "UPLOAD_BLK_SUBBLOCK_SREQ"},
           ~(k.s.finished = TRUE
             /\ k.s.state \in {"DOWNLOAD_INITIATE_RSP", "DOWNLOAD_SEGMENT_RSP"})
    PROVE  Transmitted(r, k)
  <1>1. SDOtimeoutTime \in Nat /\ 0 < SDOtimeoutTime
    BY TimeAssumption
  <1>2. Ticking(v)
    BY <1>1 DEF Ticking
  <1>3. Todo(v) <= Served(k.s)
    <2>1. Todo(v) = SDOtimeoutTime - 0
      BY TodoIs
    <2>2. Todo(k.s) = 1 + SDOtimeoutTime
      BY TodoIs
    <2>3. Served(k.s) = Todo(k.s) - 1
      BY DEF Served
    <2> QED  BY <1>1, <2>1, <2>2, <2>3
  <1> QED  BY <1>2, <1>3, Zenon DEF Updated, ServerInv, Transmitted

\* The transfer is given up.
LEMMA TransmitsAbort ==
    ASSUME NEW k, NEW j, IsCall(j), Basic(j.s, j.od), j.s.rxNew = FALSE, j.od = k.od,
           j.ret = k.ret, NEW code, NEW r, r = Abort(j, code),
           ~(k.s.finished = TRUE
             /\ k.s.state \in {"DOWNLOAD_INITIATE_RSP", "DOWNLOAD_SEGMENT_RSP"})
    PROVE  Transmitted(r, k)
  <1>1. /\ IsCall(r) /\ ServerInv(r.s, r.od) /\ r.s.state = "ABORT" /\ Keeps(r.s, j.s)
        /\ r.od = j.od /\ r.ret = j.ret
    BY Aborts
  <1>2. r.s.rxNew = FALSE
    BY <1>1, Zenon DEF Keeps
  <1> QED  BY <1>1, <1>2, Zenon DEF Transmitted

-----------------------------------------------------------------------------
(* The answers *)

\* The server that is about to send.
Ready(k) == IsCall(k) /\ ServerInv(k.s, k.od) /\ k.s.rxNew = FALSE

\* What is known of it.
LEMMA ReadyCall ==
    ASSUME NEW k, Ready(k)
    PROVE  /\ IsCall(k) /\ Basic(k.s, k.od) /\ Phase(k.s, k.od) /\ k.s \in Server
           /\ k.s.rxNew = FALSE /\ 0 \in 0..SDOtimeoutTime
           /\ k.s.state \notin Resting => k.s.mux \in Objects
           /\ k.s.state \in UploadStates => Loaded(k.s, k.od)
  <1>1. 0 \in 0..SDOtimeoutTime
    BY TimeAssumption
  <1> QED  BY <1>1 DEF Ready, ServerInv, Basic, Phase, Uploading

\* The buffer is emptied.
LEMMA UpdateEmpty ==
    ASSUME NEW k, IsCall(k), Basic(k.s, k.od), NEW v \in Server, v.buf = <<>>,
           v.bufOffsetRd = 0, NEW a, NEW q, NEW t,
           NEW r \in [s : {v}, od : {k.od}, ab : {a}, ret : {q}, tx : {t}]
    PROVE  Updated(r, k, v, q)
  <1>1. Becomes(r, v, k.od, q)
    BY CallIs
  <1>2. BUFFER_SIZE \in Nat /\ Len(v.buf) = 0
    BY BufferAssumption, NoByte
  <1>3. Basic(v, k.od)
    BY <1>2 DEF Basic
  <1> QED  BY <1>1, <1>3 DEF Updated, Becomes

\* A download begins with an empty buffer.
LEMMA OpensDownload ==
    ASSUME NEW s, NEW o, Opened(s, o), NEW v, v.buf = <<>>, v.bufOffsetRd = 0,
           v.sizeTran = 0, v.stream = s.stream, v.mux = s.mux
    PROVE  Filled(v, o) /\ Segmented(v, o) /\ Len(v.buf) = 0
  <1>1. BUFFER_SIZE \in Nat /\ BUFFER_SIZE >= 20
    BY BufferAssumption
  <1>2. Len(v.buf) = 0
    BY NoByte
  <1>3. v.stream.dataOffset = 0 /\ Fresh(v, o)
    BY DEF Opened, Fresh
  <1>4. 0 + 0 = 0 /\ 0 + 2 <= BUFFER_SIZE /\ 0 + 9 <= BUFFER_SIZE
    BY <1>1
  <1> QED  BY <1>2, <1>3, <1>4, Zenon DEF Filled, Segmented

\* send_download_initiate
LEMMA SendDownloadInitiate ==
    ASSUME NEW k, Ready(k), k.s.state = "DOWNLOAD_INITIATE_RSP",
           NEW r, r = send_download_initiate(k)
    PROVE  Transmitted(r, k)
  <1> DEFINE t == Append(k.tx, MuxFrame(96, k.s.mux))
             v == [k.s EXCEPT !.timeoutTimer = 0, !.state = "IDLE"]
             w == [k.s EXCEPT !.timeoutTimer = 0, !.toggle = FALSE, !.sizeTran = 0, !.buf = <<>>,
                              !.bufOffsetRd = 0, !.state = "DOWNLOAD_SEGMENT_REQ"]
  <1>1. /\ IsCall(k) /\ Basic(k.s, k.od) /\ Phase(k.s, k.od) /\ k.s \in Server
        /\ k.s.rxNew = FALSE /\ 0 \in 0..SDOtimeoutTime /\ k.s.mux \in Objects
        /\ ServerInv(k.s, k.od)
    BY ReadyCall DEF Resting, Ready
  <1>2. k.s.finished \in BOOLEAN
    BY <1>1, ServerFlags, Zenon
  <1>3. CASE k.s.finished = TRUE
    <2>1. r \in [s : {v}, od : {k.od}, ab : {k.ab}, ret : {"ok_communicationEnd"}, tx : {t}]
      BY <1>1, <1>3, Zenon DEF IsCall, send_download_initiate, End, Send
    <2>2. v \in Server
      BY <1>1, States, ZenonT(60) DEF Server
    <2>3. v.state = "IDLE" /\ v.buf = k.s.buf /\ v.bufOffsetRd = k.s.bufOffsetRd
      BY <1>1 DEF Server
    <2>4. v.rxNew = FALSE /\ v.finished = k.s.finished
      BY <1>1, Zenon DEF Server
    <2> HIDE DEF v, t
    <2>5. Updated(r, k, v, "ok_communicationEnd")
      BY <1>1, <2>1, <2>2, <2>3, Update
    <2> QED  BY <1>1, <2>3, <2>4, <2>5, TransmitsLast
  <1>4. CASE k.s.finished = FALSE
    <2>1. r \in [s : {w}, od : {k.od}, ab : {k.ab}, ret : {k.ret}, tx : {t}]
      BY <1>1, <1>4, ZenonT(60) DEF IsCall, send_download_initiate, Send
    <2>2. w \in Server
      <3>1. 0 \in Nat /\ FALSE \in BOOLEAN
        OBVIOUS
      <3> QED  BY <1>1, <3>1, NoByte, States, Zenon DEF Server
    <2>3. /\ w.state = "DOWNLOAD_SEGMENT_REQ" /\ w.buf = <<>> /\ w.bufOffsetRd = 0
          /\ w.sizeTran = 0 /\ w.stream = k.s.stream /\ w.mux = k.s.mux /\ w.timeoutTimer = 0
      BY <1>1 DEF Server
    <2>4. w.rxNew = FALSE
      BY <1>1, Zenon DEF Server
    <2> HIDE DEF w, t
    <2>5. Updated(r, k, w, k.ret)
      BY <1>1, <2>1, <2>2, <2>3, UpdateEmpty
    <2>6. Opened(k.s, k.od)
      BY <1>1, <1>4, Zenon DEF Phase, Downloading
    <2>7. Segmented(w, k.od)
      BY <2>3, <2>6, OpensDownload
    <2>8. Phase(w, k.od)
      BY <1>1, <2>3, <2>7, DownloadPhase
    <2>9. k.s.state \in Answering
          /\ w.state \notin Answering \cup {"IDLE", "ABORT", "UPLOAD_BLK_SUBBLOCK_SREQ"}
      BY <2>3 DEF Answering
    <2>10. ~(k.s.finished = TRUE)
      BY <1>4, Zenon
    <2> QED  BY <1>1, <2>3, <2>4, <2>5, <2>8, <2>9, <2>10, TransmitsOn
  <1> QED  BY <1>2, <1>3, <1>4, Zenon

\* send_download_segment
LEMMA SendDownloadSegment ==
    ASSUME NEW k, Ready(k), k.s.state = "DOWNLOAD_SEGMENT_RSP",
           NEW r, r = send_download_segment(k)
    PROVE  Transmitted(r, k)
  <1> DEFINE t == Append(k.tx, Frame(32 + IF k.s.toggle THEN 16 ELSE 0))
             g == ~k.s.toggle
             v == [k.s EXCEPT !.timeoutTimer = 0, !.toggle = g, !.state = "IDLE"]
             w == [k.s EXCEPT !.timeoutTimer = 0, !.toggle = g, !.state = "DOWNLOAD_SEGMENT_REQ"]
  <1>1. /\ IsCall(k) /\ Basic(k.s, k.od) /\ Phase(k.s, k.od) /\ k.s \in Server
        /\ k.s.rxNew = FALSE /\ 0 \in 0..SDOtimeoutTime /\ k.s.mux \in Objects
        /\ ServerInv(k.s, k.od)
    BY ReadyCall DEF Resting, Ready
  <1>2. k.s.finished \in BOOLEAN /\ g \in BOOLEAN
    BY <1>1, ServerFlags, Zenon
  <1>3. CASE k.s.finished = TRUE
    <2>1. r \in [s : {v}, od : {k.od}, ab : {k.ab}, ret : {"ok_communicationEnd"}, tx : {t}]
      BY <1>1, <1>3, Zenon DEF IsCall, send_download_segment, End, Send
    <2> HIDE DEF g, t
    <2>2. v \in Server
      BY <1>1, <1>2, States, ZenonT(60) DEF Server
    <2>3. v.state = "IDLE" /\ v.buf = k.s.buf /\ v.bufOffsetRd = k.s.bufOffsetRd
      BY <1>1 DEF Server
    <2>4. v.rxNew = FALSE /\ v.finished = k.s.finished
      BY <1>1, Zenon DEF Server
    <2> HIDE DEF v
    <2>5. Updated(r, k, v, "ok_communicationEnd")
      BY <1>1, <2>1, <2>2, <2>3, Update
    <2> QED  BY <1>1, <2>3, <2>4, <2>5, TransmitsLast
  <1>4. CASE k.s.finished = FALSE
    <2>1. r \in [s : {w}, od : {k.od}, ab : {k.ab}, ret : {k.ret}, tx : {t}]
      BY <1>1, <1>4, Zenon DEF IsCall, send_download_segment, Send
    <2> HIDE DEF g, t
    <2>2. w \in Server
      BY <1>1, <1>2, States, ZenonT(60) DEF Server
    <2>3. w.state = "DOWNLOAD_SEGMENT_REQ" /\ w.timeoutTimer = 0
      BY <1>1 DEF Server
    <2>4. w.rxNew = FALSE
      BY <1>1, Zenon DEF Server
    <2>a. SameBytes(w, k.s)
      BY <1>1, Zenon DEF Server, SameBytes
    <2> HIDE DEF w
    <2>5. Updated(r, k, w, k.ret)
      BY <1>1, <2>1, <2>2, <2>a, Update DEF SameBytes
    <2>6. Segmented(k.s, k.od)
      BY <1>1, <1>4, Zenon DEF Phase, Downloading
    <2>7. Segmented(w, k.od)
      BY <2>a, <2>6, Zenon DEF Segmented, Filled, Fresh, SameBytes
    <2>8. Phase(w, k.od)
      BY <1>1, <2>3, <2>7, <2>a, DownloadPhase DEF SameBytes
    <2>9. k.s.state \in Answering
          /\ w.state \notin Answering \cup {"IDLE", "ABORT", "UPLOAD_BLK_SUBBLOCK_SREQ"}
      BY <2>3 DEF Answering
    <2>10. ~(k.s.finished = TRUE)
      BY <1>4, Zenon
    <2> QED  BY <1>1, <2>3, <2>4, <2>5, <2>8, <2>9, <2>10, TransmitsOn
  <1> QED  BY <1>2, <1>3, <1>4, Zenon

\* An upload goes on to wait for the next request.
LEMMA UploadGoesOn ==
    ASSUME NEW k, Ready(k), k.s.state \in Answering \cap UploadStates,
           NEW v \in Server, SameBytes(v, k.s), v.rxNew = FALSE, v.timeoutTimer = 0,
           \/ v.state \in {"UPLOAD_SEGMENT_REQ", "UPLOAD_BLK_END_CRSP"}
           \/ v.state = "UPLOAD_BLK_INITIATE_REQ2" /\ Asked(v, v.block_blksize),
           NEW a, NEW t,
           NEW r \in [s : {v}, od : {k.od}, ab : {a}, ret : {k.ret}, tx : {t}]
    PROVE  Transmitted(r, k)
  <1>1. /\ IsCall(k) /\ Basic(k.s, k.od) /\ ServerInv(k.s, k.od) /\ Loaded(k.s, k.od)
        /\ k.s.mux \in Objects
    BY ReadyCall DEF Answering, UploadStates, Resting, Ready
  <1>2. Updated(r, k, v, k.ret)
    BY <1>1, Update DEF SameBytes
  <1>3. Loaded(v, k.od)
    BY <1>1, LoadedData
  <1>4. Phase(v, k.od)
    BY <1>1, <1>3, UploadPhase DEF SameBytes
  <1>5. /\ v.state \notin Answering \cup {"IDLE", "ABORT", "UPLOAD_BLK_SUBBLOCK_SREQ"}
        /\ k.s.state \notin {"DOWNLOAD_INITIATE_RSP", "DOWNLOAD_SEGMENT_RSP"}
        /\ k.s.state \in Answering
    BY DEF Answering, UploadStates
  <1> QED  BY <1>1, <1>2, <1>4, <1>5, TransmitsOn

\* send_upload_initiate
LEMMA SendUploadInitiate ==
    ASSUME NEW k, Ready(k), k.s.state = "UPLOAD_INITIATE_RSP",
           NEW r, r = send_upload_initiate(k)
    PROVE  Transmitted(r, k)
  <1> DEFINE f == [MuxFrame(67 + 4 * (4 - k.s.sizeInd), k.s.mux)
                     EXCEPT !.bytes = Padded(SubSeq(k.s.buf, 1, k.s.sizeInd))]
             g == [MuxFrame(IF k.s.sizeInd > 0 THEN 65 ELSE 64, k.s.mux)
                     EXCEPT !.size = k.s.sizeInd]
             t == Append(k.tx, f)
             u == Append(k.tx, g)
             v == [k.s EXCEPT !.state = "IDLE"]
             w == [k.s EXCEPT !.toggle = FALSE, !.timeoutTimer = 0, !.state = "UPLOAD_SEGMENT_REQ"]
  <1>1. /\ IsCall(k) /\ Basic(k.s, k.od) /\ k.s \in Server
        /\ k.s.rxNew = FALSE /\ 0 \in 0..SDOtimeoutTime /\ ServerInv(k.s, k.od)
    BY ReadyCall DEF Ready
  <1>2. CASE k.s.sizeInd \in 1..4
    <2>1. r \in [s : {v}, od : {k.od}, ab : {k.ab}, ret : {"ok_communicationEnd"}, tx : {t}]
      BY <1>1, <1>2, Zenon DEF IsCall, send_upload_initiate, End, Send
    <2>2. v \in Server
      BY <1>1, States, ZenonT(60) DEF Server
    <2>3. v.state = "IDLE" /\ v.buf = k.s.buf /\ v.bufOffsetRd = k.s.bufOffsetRd
      BY <1>1 DEF Server
    <2>4. v.rxNew = FALSE /\ v.finished = k.s.finished
      BY <1>1, Zenon DEF Server
    <2> HIDE DEF v, t, f
    <2>5. Updated(r, k, v, "ok_communicationEnd")
      BY <1>1, <2>1, <2>2, <2>3, Update
    <2> QED  BY <1>1, <2>3, <2>4, <2>5, TransmitsLast
  <1>3. CASE ~(k.s.sizeInd \in 1..4)
    <2>1. r \in [s : {w}, od : {k.od}, ab : {k.ab}, ret : {k.ret}, tx : {u}]
      BY <1>1, <1>3, Zenon DEF IsCall, send_upload_initiate, Send
    <2>2. w \in Server
      <3>1. FALSE \in BOOLEAN /\ "UPLOAD_SEGMENT_REQ" \in CO_SDO_state
        BY States DEF UploadStates
      <3> QED  BY <1>1, <3>1, ZenonT(60) DEF Server
    <2>3. w.state = "UPLOAD_SEGMENT_REQ" /\ w.timeoutTimer = 0
      BY <1>1 DEF Server
    <2>4. SameBytes(w, k.s) /\ w.rxNew = FALSE
      BY <1>1, Zenon DEF Server, SameBytes
    <2> HIDE DEF w, u, g
    <2>5. k.s.state \in Answering \cap UploadStates
      BY DEF Answering, UploadStates
    <2> QED  BY <2>1, <2>2, <2>3, <2>4, <2>5, UploadGoesOn
  <1> QED  BY <1>2, <1>3

\* send_upload_blk_initiate
LEMMA SendUploadBlkInitiate ==
    ASSUME NEW k, Ready(k), k.s.state = "UPLOAD_BLK_INITIATE_RSP",
           NEW r, r = send_upload_blk_initiate(k)
    PROVE  Transmitted(r, k)
  <1> DEFINE f == [MuxFrame(196 + IF k.s.sizeInd > 0 THEN 2 ELSE 0, k.s.mux)
                     EXCEPT !.size = k.s.sizeInd]
             t == Append(k.tx, f)
             w == [k.s EXCEPT !.timeoutTimer = 0, !.state = "UPLOAD_BLK_INITIATE_REQ2"]
  <1>1. /\ IsCall(k) /\ k.s \in Server /\ k.s.rxNew = FALSE /\ 0 \in 0..SDOtimeoutTime
        /\ Phase(k.s, k.od)
    BY ReadyCall
  <1>2. r \in [s : {w}, od : {k.od}, ab : {k.ab}, ret : {k.ret}, tx : {t}]
    BY <1>1, Zenon DEF IsCall, send_upload_blk_initiate, Send
  <1>3. w \in Server
    <2>1. "UPLOAD_BLK_INITIATE_REQ2" \in CO_SDO_state
      BY States DEF UploadStates
    <2> QED  BY <1>1, <2>1, ZenonT(60) DEF Server
  <1>4. /\ w.state = "UPLOAD_BLK_INITIATE_REQ2" /\ w.timeoutTimer = 0
        /\ w.block_blksize = k.s.block_blksize
    BY <1>1 DEF Server
  <1>5. SameBytes(w, k.s) /\ w.rxNew = FALSE
    BY <1>1, Zenon DEF Server, SameBytes
  <1> HIDE DEF w, t, f
  <1>6. k.s.state \in Answering \cap UploadStates
    BY DEF Answering, UploadStates
  <1>7. Asked(k.s, k.s.block_blksize)
    BY <1>1 DEF Phase, Uploading
  <1>8. Asked(w, w.block_blksize)
    BY <1>4, <1>5, <1>7, Zenon DEF Asked, SameBytes
  <1> QED  BY <1>2, <1>3, <1>4, <1>5, <1>6, <1>8, UploadGoesOn

\* send_upload_blk_end
LEMMA SendUploadBlkEnd ==
    ASSUME NEW k, Ready(k), k.s.state = "UPLOAD_BLK_END_SREQ",
           NEW r, r = send_upload_blk_end(k)
    PROVE  Transmitted(r, k)
  <1> DEFINE f == [Frame(193 + 4 * k.s.block_noData) EXCEPT !.crc = k.s.block_crc]
             t == Append(k.tx, f)
             w == [k.s EXCEPT !.timeoutTimer = 0, !.state = "UPLOAD_BLK_END_CRSP"]
  <1>1. /\ IsCall(k) /\ k.s \in Server /\ k.s.rxNew = FALSE /\ 0 \in 0..SDOtimeoutTime
    BY ReadyCall
  <1>2. r \in [s : {w}, od : {k.od}, ab : {k.ab}, ret : {k.ret}, tx : {t}]
    BY <1>1, Zenon DEF IsCall, send_upload_blk_end, Send
  <1>3. w \in Server
    <2>1. "UPLOAD_BLK_END_CRSP" \in CO_SDO_state
      BY States DEF UploadStates
    <2> QED  BY <1>1, <2>1, ZenonT(60) DEF Server
  <1>4. w.state = "UPLOAD_BLK_END_CRSP" /\ w.timeoutTimer = 0
    BY <1>1 DEF Server
  <1>5. SameBytes(w, k.s) /\ w.rxNew = FALSE
    BY <1>1, Zenon DEF Server, SameBytes
  <1> HIDE DEF w, t, f
  <1>6. k.s.state \in Answering \cap UploadStates
    BY DEF Answering, UploadStates
  <1> QED  BY <1>2, <1>3, <1>4, <1>5, <1>6, UploadGoesOn

\* DOWNLOAD_BLK_END_RSP
LEMMA SendDownloadBlkEnd ==
    ASSUME NEW k, Ready(k), k.s.state = "DOWNLOAD_BLK_END_RSP",
           NEW r, r = End(Send(k, Frame(161)))
    PROVE  Transmitted(r, k)
  <1> DEFINE t == Append(k.tx, Frame(161))
             v == [k.s EXCEPT !.state = "IDLE"]
  <1>1. /\ IsCall(k) /\ Basic(k.s, k.od) /\ k.s \in Server
        /\ k.s.rxNew = FALSE /\ ServerInv(k.s, k.od)
    BY ReadyCall DEF Ready
  <1>2. r \in [s : {v}, od : {k.od}, ab : {k.ab}, ret : {"ok_communicationEnd"}, tx : {t}]
    BY <1>1, Zenon DEF IsCall, End, Send
  <1>3. v \in Server
    BY <1>1, States, ZenonT(60) DEF Server
  <1>4. v.state = "IDLE" /\ v.buf = k.s.buf /\ v.bufOffsetRd = k.s.bufOffsetRd
    BY <1>1 DEF Server
  <1>5. v.rxNew = FALSE /\ v.finished = k.s.finished
    BY <1>1, Zenon DEF Server
  <1> HIDE DEF v, t
  <1>6. Updated(r, k, v, "ok_communicationEnd")
    BY <1>1, <1>2, <1>3, <1>4, Update
  <1> QED  BY <1>1, <1>4, <1>5, <1>6, TransmitsLast

\* What next_segment takes from the buffer.
SegmentOf(seg, s) ==
    /\ seg.last \in BOOLEAN /\ seg.n \in 0..7 /\ s.bufOffsetRd + seg.n <= Len(s.buf)
    /\ seg.last = TRUE => s.bufOffsetRd + seg.n = Len(s.buf)
    /\ seg.last = FALSE => seg.n = 7
    /\ s.finished = FALSE /\ Len(s.buf) - s.bufOffsetRd >= 7 => seg.n = 7

\* next_segment
LEMMA NextSegment ==
    ASSUME NEW s \in Server, s.bufOffsetRd <= Len(s.buf), NEW seg, seg = next_segment(s)
    PROVE  SegmentOf(seg, s)
  <1> DEFINE B == Len(s.buf)
             R == s.bufOffsetRd
             c == B - R
             last == c < 7 \/ (s.finished /\ c = 7)
             n == IF last THEN c ELSE 7
  <1>1. B \in Nat /\ R \in Nat /\ R <= B
    BY ServerFields
  <1>2. s.finished \in BOOLEAN
    BY ServerFlags, Zenon
  <1>3. seg.last = last /\ seg.n = n
    BY DEF next_segment
  <1>4. c \in Nat /\ R + c = B
    BY <1>1
  <1>5. last \in BOOLEAN
    OBVIOUS
  <1>6. CASE last
    <2>1. n = c
      BY <1>6, Zenon
    <2>2. c <= 7
      BY <1>4, <1>6
    <2>3. s.finished = FALSE /\ c >= 7 => FALSE
      BY <1>4, <1>6
    <2>4. seg.last = TRUE
      BY <1>3, <1>6, Zenon
    <2>5. seg.n \in 0..7 /\ R + seg.n = B /\ R + seg.n <= B
      BY <1>1, <1>3, <1>4, <2>1, <2>2
    <2>6. s.finished = FALSE /\ B - R >= 7 => seg.n = 7
      BY <2>3, Zenon
    <2> QED  BY <2>4, <2>5, <2>6, Zenon DEF SegmentOf
  <1>7. CASE ~last
    <2>1. seg.n = 7 /\ seg.last = FALSE
      BY <1>3, <1>5, <1>7, Zenon
    <2>2. c >= 7
      BY <1>4, <1>7
    <2>3. R + 7 <= B
      BY <1>1, <2>2
    <2>4. seg.n \in 0..7
      BY <2>1
    <2> QED  BY <2>1, <2>3, <2>4, Zenon DEF SegmentOf
  <1> QED  BY <1>6, <1>7

\* n bytes of the buffer were sent.
Advanced(v, s, n) ==
    /\ v.mux = s.mux /\ v.finished = s.finished /\ v.buf = s.buf /\ v.stream = s.stream
    /\ v.bufOffsetRd = s.bufOffsetRd + n /\ v.sizeTran = s.sizeTran + n

\* The numbers of a step.
LEMMA AdvanceNumbers ==
    ASSUME NEW R \in Nat, NEW T \in Nat, NEW n \in Nat, NEW B \in Nat
    PROVE  /\ (T + n) - (R + n) = T - R
           /\ (T + n) - (R + n) + B = T - R + B
           /\ n = 7 /\ R % 7 = 0 => (R + n) % 7 = 0
  OBVIOUS

\* The rest of the buffer is the next part of the variable.
LEMMA AdvancesLoaded ==
    ASSUME NEW s \in Server, NEW o, Loaded(s, o), NEW n \in Nat, NEW v, Advanced(v, s, n),
           s.finished = FALSE => n = 7
    PROVE  Loaded(v, o)
  <1>1. s.bufOffsetRd \in Nat /\ s.sizeTran \in Nat /\ Len(s.buf) \in Nat
    BY ServerFields
  <1>2. /\ v.mux = s.mux /\ v.finished = s.finished /\ v.buf = s.buf /\ v.stream = s.stream
        /\ v.bufOffsetRd = s.bufOffsetRd + n /\ v.sizeTran = s.sizeTran + n
    BY DEF Advanced
  <1>3. /\ (s.sizeTran + n) - (s.bufOffsetRd + n) = s.sizeTran - s.bufOffsetRd
        /\ (s.sizeTran + n) - (s.bufOffsetRd + n) + Len(s.buf)
              = s.sizeTran - s.bufOffsetRd + Len(s.buf)
        /\ n = 7 /\ s.bufOffsetRd % 7 = 0 => (s.bufOffsetRd + n) % 7 = 0
    BY <1>1, AdvanceNumbers
  <1>4. base(v) = base(s) /\ end(v) = end(s)
    BY <1>2, <1>3, Zenon DEF base, end
  <1>5. s.finished = FALSE => Unread(v, o)
    <2>1. SUFFICES ASSUME s.finished = FALSE
                   PROVE  Unread(v, o)
      OBVIOUS
    <2>2. Unread(s, o) /\ n = 7
      BY <2>1, Zenon DEF Loaded
    <2>3. v.bufOffsetRd % 7 = 0
      BY <1>2, <1>3, <2>2, Zenon DEF Unread
    <2> QED  BY <1>2, <1>4, <2>2, <2>3, Zenon DEF Unread, Fresh
  <1>6. Ended(v, o) <=> Ended(s, o)
    BY <1>2, <1>4, Zenon DEF Ended
  <1> QED  BY <1>2, <1>4, <1>5, <1>6, Zenon DEF Loaded

\* A step of an upload: the buffer is the same and the offset within it.
LEMMA UpdateAdvanced ==
    ASSUME NEW k, IsCall(k), Basic(k.s, k.od), NEW n \in Nat, NEW v \in Server,
           Advanced(v, k.s, n), k.s.bufOffsetRd + n <= Len(k.s.buf), NEW a, NEW q, NEW t,
           NEW r \in [s : {v}, od : {k.od}, ab : {a}, ret : {q}, tx : {t}]
    PROVE  Updated(r, k, v, q)
  <1>1. Becomes(r, v, k.od, q)
    BY CallIs
  <1>2. Basic(v, k.od)
    BY DEF Basic, Advanced
  <1> QED  BY <1>1, <1>2 DEF Updated, Becomes

\* A segment of an upload goes out: the last one, or the client's turn.
LEMMA SegmentSent ==
    ASSUME NEW k, Ready(k), k.s.state = "UPLOAD_SEGMENT_RSP", NEW seg, SegmentOf(seg, k.s),
           k.s.finished = FALSE => Len(k.s.buf) - k.s.bufOffsetRd >= 7,
           NEW r, r = segment_sent(k, seg)
    PROVE  Transmitted(r, k)
  <1> DEFINE g == ~k.s.toggle
             R == k.s.bufOffsetRd + seg.n
             T == k.s.sizeTran + seg.n
             f == [Frame((IF k.s.toggle THEN 16 ELSE 0)
                        + (IF seg.last THEN 2 * (7 - seg.n) + 1 ELSE 0))
                    EXCEPT !.bytes = Padded(seg.bytes)]
             t == Append(k.tx, f)
             error == upload_size_error(k.s, T, seg.last)
             u == [k.s EXCEPT !.toggle = g, !.bufOffsetRd = R, !.sizeTran = T]
             j == [k EXCEPT !.s.toggle = g, !.s.bufOffsetRd = R, !.s.sizeTran = T]
             v == [k.s EXCEPT !.toggle = g, !.bufOffsetRd = R, !.sizeTran = T, !.state = "IDLE"]
             w == [k.s EXCEPT !.toggle = g, !.bufOffsetRd = R, !.sizeTran = T,
                              !.timeoutTimer = 0, !.state = "UPLOAD_SEGMENT_REQ"]
  <1>1. /\ IsCall(k) /\ Basic(k.s, k.od) /\ k.s \in Server /\ Loaded(k.s, k.od)
        /\ k.s.rxNew = FALSE /\ 0 \in 0..SDOtimeoutTime /\ ServerInv(k.s, k.od)
        /\ k.s.mux \in Objects
    BY ReadyCall DEF Ready, UploadStates, Resting
  <1>2. g \in BOOLEAN
    OBVIOUS
  <1>3. /\ seg.n \in Nat /\ R <= Len(k.s.buf) /\ seg.last \in BOOLEAN
        /\ k.s.finished = FALSE => seg.n = 7
    <2>1. seg.n \in 0..7 /\ R <= Len(k.s.buf) /\ seg.last \in BOOLEAN
      BY DEF SegmentOf
    <2>2. k.s.finished = FALSE => seg.n = 7
      BY Zenon DEF SegmentOf
    <2> QED  BY <2>1, <2>2
  <1>4. R \in Nat /\ T \in Nat
    BY <1>1, <1>3, ServerFields
  <1>a. /\ k.s.state \notin {"DOWNLOAD_INITIATE_RSP", "DOWNLOAD_SEGMENT_RSP"}
        /\ k.s.state \in Answering
    BY DEF Answering
  <1>5. CASE error # "NONE"
    <2>1. r = Abort(j, error)
      BY <1>5, Zenon DEF segment_sent
    <2>2. j \in [s : {u}, od : {k.od}, ab : {k.ab}, ret : {k.ret}, tx : {k.tx}]
      BY <1>1, Zenon DEF IsCall
    <2> HIDE DEF g, R, T, error, j
    <2>3. u \in Server
      BY <1>1, <1>2, <1>4, ZenonT(60) DEF Server
    <2>4. Advanced(u, k.s, seg.n)
      <3>1. /\ u.mux = k.s.mux /\ u.buf = k.s.buf /\ u.stream = k.s.stream
            /\ u.bufOffsetRd = R /\ u.sizeTran = T
        BY <1>1 DEF Server
      <3>2. u.finished = k.s.finished
        BY <1>1, Zenon DEF Server
      <3> QED  BY <3>1, <3>2, Zenon DEF Advanced, R, T
    <2>5. u.rxNew = FALSE
      BY <1>1, Zenon DEF Server
    <2> HIDE DEF u
    <2>6. Updated(j, k, u, k.ret)
      BY <1>1, <1>3, <2>2, <2>3, <2>4, UpdateAdvanced DEF R
    <2>7. IsCall(j) /\ Basic(j.s, j.od) /\ j.s.rxNew = FALSE /\ j.od = k.od /\ j.ret = k.ret
      BY <2>5, <2>6, Zenon DEF Updated
    <2> QED  BY <1>a, <2>1, <2>7, TransmitsAbort
  <1>6. CASE error = "NONE" /\ seg.last = TRUE
    <2>2. r \in [s : {v}, od : {k.od}, ab : {k.ab}, ret : {"ok_communicationEnd"}, tx : {t}]
      BY <1>1, <1>6, Zenon DEF IsCall, segment_sent, End, Send
    <2> HIDE DEF g, R, T, error, t, f
    <2>3. v \in Server
      BY <1>1, <1>2, <1>4, States, ZenonT(60) DEF Server
    <2>4. Advanced(v, k.s, seg.n) /\ v.state = "IDLE"
      <3>1. /\ v.mux = k.s.mux /\ v.buf = k.s.buf /\ v.stream = k.s.stream
            /\ v.bufOffsetRd = R /\ v.sizeTran = T /\ v.state = "IDLE"
        BY <1>1 DEF Server
      <3>2. v.finished = k.s.finished
        BY <1>1, Zenon DEF Server
      <3> QED  BY <3>1, <3>2, Zenon DEF Advanced, R, T
    <2>5. v.rxNew = FALSE /\ v.finished = k.s.finished
      BY <1>1, Zenon DEF Server
    <2> HIDE DEF v
    <2>6. Updated(r, k, v, "ok_communicationEnd")
      BY <1>1, <1>3, <2>2, <2>3, <2>4, UpdateAdvanced DEF R
    <2> QED  BY <1>1, <2>4, <2>5, <2>6, TransmitsLast
  <1>7. CASE error = "NONE" /\ seg.last = FALSE
    <2>2. r \in [s : {w}, od : {k.od}, ab : {k.ab}, ret : {k.ret}, tx : {t}]
      BY <1>1, <1>7, Zenon DEF IsCall, segment_sent, Send
    <2> HIDE DEF g, R, T, error, t, f
    <2>3. w \in Server
      <3>1. "UPLOAD_SEGMENT_REQ" \in CO_SDO_state
        BY States DEF UploadStates
      <3> QED  BY <1>1, <1>2, <1>4, <3>1, ZenonT(60) DEF Server
    <2>a. /\ w.mux = k.s.mux /\ w.buf = k.s.buf /\ w.stream = k.s.stream
          /\ w.bufOffsetRd = R /\ w.sizeTran = T /\ w.state = "UPLOAD_SEGMENT_REQ"
          /\ w.timeoutTimer = 0
      BY <1>1 DEF Server
    <2>5. w.rxNew = FALSE /\ w.finished = k.s.finished
      BY <1>1, Zenon DEF Server
    <2>4. Advanced(w, k.s, seg.n)
      BY <2>a, <2>5, Zenon DEF Advanced, R, T
    <2> HIDE DEF w
    <2>6. Updated(r, k, w, k.ret)
      BY <1>1, <1>3, <2>2, <2>3, <2>4, UpdateAdvanced DEF R
    <2>7. Loaded(w, k.od)
      BY <1>1, <1>3, <2>4, AdvancesLoaded
    <2>8. Phase(w, k.od)
      BY <1>1, <2>7, <2>a, UploadPhase
    <2>9. w.state \notin Answering \cup {"IDLE", "ABORT", "UPLOAD_BLK_SUBBLOCK_SREQ"}
      BY <2>a DEF Answering
    <2> QED  BY <1>1, <1>a, <2>5, <2>6, <2>8, <2>9, <2>a, TransmitsOn
  <1> QED  BY <1>3, <1>5, <1>6, <1>7, Zenon

\* send_upload_segment
LEMMA SendUploadSegment ==
    ASSUME NEW k, Ready(k), k.s.state = "UPLOAD_SEGMENT_RSP",
           NEW r, r = send_upload_segment(k)
    PROVE  Transmitted(r, k)
  <1> DEFINE e == readFromOd(k, 7, FALSE)
  <1>1. /\ IsCall(k) /\ Basic(k.s, k.od) /\ k.s \in Server /\ Loaded(k.s, k.od)
        /\ k.s.rxNew = FALSE /\ ServerInv(k.s, k.od) /\ k.s.mux \in Objects
    BY ReadyCall DEF Ready, UploadStates, Resting
  <1>2. Prepared(k.s, k.od)
    <2>1. k.s.state # "ABORT"
      OBVIOUS
    <2> QED  BY <1>1, <2>1, Zenon DEF Prepared, Loaded
  <1>3. Refreshed(e, k, 7)
    <2>1. 7 \in Nat \ {0} /\ FALSE \in BOOLEAN
      OBVIOUS
    <2> QED  BY <1>1, <1>2, <2>1, ReadFromOd
  <1>4. r = IF Aborted(e) THEN e ELSE segment_sent(e, next_segment(e.s))
    BY Zenon DEF send_upload_segment
  <1> HIDE DEF e
  <1>5. /\ IsCall(e) /\ Basic(e.s, e.od) /\ e.od = k.od /\ e.ret = k.ret
        /\ e.s.state \in {k.s.state, "ABORT"} /\ Stays(e.s, k.s)
    BY <1>3 DEF Refreshed
  <1>6. e.s.rxNew = FALSE /\ e.s.timeoutTimer = k.s.timeoutTimer /\ e.s.mux \in Objects
    BY <1>1, <1>5, Zenon DEF Stays
  <1>a. /\ k.s.state \notin {"DOWNLOAD_INITIATE_RSP", "DOWNLOAD_SEGMENT_RSP"}
        /\ k.s.state \in Answering
    BY DEF Answering
  <1>7. CASE e.s.state = "ABORT"
    <2>1. r = e
      BY <1>4, <1>7, Zenon DEF Aborted
    <2>2. Phase(e.s, e.od) /\ Ticking(e.s)
      BY <1>7, RestPhase DEF Resting
    <2> QED  BY <1>5, <1>6, <1>7, <1>a, <2>1, <2>2, Zenon DEF Transmitted, ServerInv
  <1>8. CASE e.s.state # "ABORT"
    <2>1. r = segment_sent(e, next_segment(e.s)) /\ e.s.state = "UPLOAD_SEGMENT_RSP"
      BY <1>4, <1>5, <1>8, Zenon DEF Aborted
    <2>2. Loaded(e.s, e.od)
      BY <1>3, <1>8 DEF Refreshed
    <2>3. e.s.finished = FALSE => Len(e.s.buf) - e.s.bufOffsetRd >= 7
      BY <1>3, <1>8, Zenon DEF Refreshed
    <2>4. Phase(e.s, e.od)
      BY <1>6, <2>1, <2>2, UploadPhase
    <2>5. Ticking(e.s)
      BY <1>1, <1>6 DEF ServerInv, Ticking, Resting
    <2>6. Ready(e)
      BY <1>5, <1>6, <2>4, <2>5, Zenon DEF Ready, ServerInv
    <2>7. SegmentOf(next_segment(e.s), e.s)
      BY <1>5, NextSegment DEF Basic
    <2>8. Transmitted(r, e)
      BY <2>1, <2>3, <2>6, <2>7, SegmentSent
    <2>9. Served(e.s) = Served(k.s)
      <3>1. Todo(e.s) = 1 + SDOtimeoutTime /\ Todo(k.s) = 1 + SDOtimeoutTime
        BY <1>a, <2>1, TodoIs
      <3> QED  BY <1>a, <2>1, <3>1, Zenon DEF Served
    <2>10. e.s.state # "DOWNLOAD_BLK_SUBBLOCK_RSP"
      BY <2>1
    <2> QED  BY <1>5, <1>a, <2>8, <2>9, <2>10, Zenon DEF Transmitted
  <1> QED  BY <1>7, <1>8

\* The number of segments that fit.
FreeOf(c, L) ==
    /\ c \in 0..127 /\ L + 7 * c + 2 <= BUFFER_SIZE
    /\ L + 9 <= BUFFER_SIZE => c > 0

FreeIn(N, M, c, L) ==
    c \in 0..127 /\ L + 7 * c + 2 <= N /\ (L + 9 <= N => c > 0) /\ (c = M => c > 0)

\* The numbers of a sub-block that fits.
LEMMA FreeNumbers ==
    ASSUME NEW N \in Nat, NEW M \in 1..127, NEW L \in Nat, L + 2 <= N, NEW d \in Nat,
           7 * d <= N - 2 - L, N - 2 - L < 7 * d + 7, NEW c, c = IF M < d THEN M ELSE d
    PROVE  FreeIn(N, M, c, L)
  BY DEF FreeIn

\* free_segments
LEMMA FreeSegments ==
    ASSUME NEW s, NEW L \in Nat, L = Len(s.buf), L + 2 <= BUFFER_SIZE
    PROVE  FreeOf(free_segments(s), L) /\ (free_segments(s) = MAX_BLKSIZE => free_segments(s) > 0)
  <1> DEFINE N == BUFFER_SIZE
             M == MAX_BLKSIZE
             d == (N - 2 - L) \div 7
             c == Lowest(M, d)
  <1>1. N \in Nat /\ M \in 1..127
    BY BufferAssumption
  <1>2. free_segments(s) = c
    BY DEF free_segments
  <1>3. L + 2 <= N
    OBVIOUS
  <1> HIDE DEF N, M
  <1>4. d \in Nat /\ 7 * d <= N - 2 - L /\ N - 2 - L < 7 * d + 7
    <2> DEFINE x == N - 2 - L
    <2>1. x \in Nat
      BY <1>1, <1>3
    <2>2. d = x \div 7
      OBVIOUS
    <2> HIDE DEF x
    <2>3. x \div 7 \in Nat /\ 7 * (x \div 7) <= x /\ x < 7 * (x \div 7) + 7
      BY <2>1
    <2> QED  BY <2>2, <2>3 DEF x
  <1> HIDE DEF d
  <1>5. c = IF M < d THEN M ELSE d
    BY <1>1, <1>4 DEF Lowest
  <1> HIDE DEF c
  <1>6. FreeIn(N, M, c, L)
    BY <1>1, <1>3, <1>4, <1>5, FreeNumbers
  <1> QED  BY <1>2, <1>6, Zenon DEF FreeIn, FreeOf, N, M

\* A sub-block of as many segments as fit is awaited.
LEMMA AwaitsSubblock ==
    ASSUME NEW v \in Server, NEW o, Filled(v, o), v.finished = FALSE, v.rxNew = FALSE,
           v.block_seqno = 0, FreeOf(v.block_blksize, Len(v.buf)), v.block_blksize > 0
    PROVE  Subblock(v, o)
  <1>1. v.block_blksize \in 0..127 /\ Len(v.buf) + 7 * v.block_blksize + 2 <= BUFFER_SIZE
    BY DEF FreeOf
  <1>2. v.block_blksize - v.block_seqno = v.block_blksize /\ v.block_seqno < v.block_blksize
    <2>1. \A b \in 0..127 : b > 0 => b - 0 = b /\ 0 < b
      OBVIOUS
    <2> QED  BY <1>1, <2>1, Zenon
  <1> QED  BY <1>1, <1>2, Zenon DEF Subblock

\* send_download_blk_initiate
LEMMA SendDownloadBlkInitiate ==
    ASSUME NEW k, Ready(k), k.s.state = "DOWNLOAD_BLK_INITIATE_RSP",
           NEW r, r = send_download_blk_initiate(k)
    PROVE  Transmitted(r, k)
  <1> DEFINE j == [k EXCEPT !.s.buf = <<>>, !.s.bufOffsetRd = 0, !.s.sizeTran = 0,
                       !.s.finished = FALSE, !.s.block_seqno = 0, !.s.block_crc = <<>>,
                       !.s.timeoutTimer = 0, !.s.block_timeoutTimer = 0,
                       !.s.rxNew = FALSE, !.s.state = "DOWNLOAD_BLK_SUBBLOCK_REQ"]
             u == [k.s EXCEPT !.buf = <<>>, !.bufOffsetRd = 0, !.sizeTran = 0,
                       !.finished = FALSE, !.block_seqno = 0, !.block_crc = <<>>,
                       !.timeoutTimer = 0, !.block_timeoutTimer = 0,
                       !.rxNew = FALSE, !.state = "DOWNLOAD_BLK_SUBBLOCK_REQ"]
             count == free_segments(j.s)
             f == [MuxFrame(164, k.s.mux) EXCEPT !.blk = count]
             t == Append(k.tx, f)
             w == [u EXCEPT !.block_blksize = count]
  <1>1. /\ IsCall(k) /\ Basic(k.s, k.od) /\ Phase(k.s, k.od) /\ k.s \in Server
        /\ k.s.rxNew = FALSE /\ 0 \in 0..SDOtimeoutTime /\ k.s.mux \in Objects
        /\ ServerInv(k.s, k.od)
    BY ReadyCall DEF Resting, Ready
  <1>2. j \in [s : {u}, od : {k.od}, ab : {k.ab}, ret : {k.ret}, tx : {k.tx}]
    BY <1>1, ZenonT(60) DEF IsCall
  <1>3. r = Send([j EXCEPT !.s.block_blksize = count], f)
    BY Zenon DEF send_download_blk_initiate
  <1> HIDE DEF j
  <1>4. u \in Server
    <2>1. 0 \in Nat /\ FALSE \in BOOLEAN /\ 0 \in 0..127 /\ 0 \in 0..block_SDOtimeoutTime
      BY TimeAssumption
    <2> QED  BY <1>1, <2>1, NoByte, States, Zenon DEF Server
  <1>5. /\ u.state = "DOWNLOAD_BLK_SUBBLOCK_REQ" /\ u.buf = <<>> /\ u.bufOffsetRd = 0
        /\ u.sizeTran = 0 /\ u.stream = k.s.stream /\ u.mux = k.s.mux /\ u.timeoutTimer = 0
        /\ u.block_seqno = 0
    BY <1>1 DEF Server
  <1>6. u.rxNew = FALSE /\ u.finished = FALSE
    BY <1>1, Zenon DEF Server
  <1> HIDE DEF u
  <1>7. Becomes(j, u, k.od, k.ret)
    BY <1>2, CallIs
  <1>8. FreeOf(count, 0) /\ count > 0
    <2>2. BUFFER_SIZE \in Nat /\ BUFFER_SIZE >= 20 /\ Len(j.s.buf) = 0
      BY <1>5, <1>7, NoByte, BufferAssumption DEF Becomes
    <2>3. 0 \in Nat /\ 0 + 2 <= BUFFER_SIZE /\ 0 + 9 <= BUFFER_SIZE
      BY <2>2
    <2>4. FreeOf(count, 0)
      BY <2>2, <2>3, FreeSegments
    <2> QED  BY <2>3, <2>4 DEF FreeOf
  <1> HIDE DEF count
  <1>9. r \in [s : {w}, od : {k.od}, ab : {j.ab}, ret : {k.ret}, tx : {Append(j.tx, f)}]
    BY <1>3, <1>7, ZenonT(60) DEF Becomes, IsCall, Send
  <1> HIDE DEF t, f
  <1>10. w \in Server
    <2>1. count \in Byte
      BY <1>8 DEF FreeOf, Byte
    <2> QED  BY <1>4, <2>1, ZenonT(60) DEF Server
  <1>11. /\ w.state = "DOWNLOAD_BLK_SUBBLOCK_REQ" /\ w.buf = <<>> /\ w.bufOffsetRd = 0
         /\ w.sizeTran = 0 /\ w.stream = k.s.stream /\ w.mux = k.s.mux /\ w.timeoutTimer = 0
         /\ w.block_seqno = 0 /\ w.block_blksize = count
    BY <1>4, <1>5 DEF Server
  <1>12. w.rxNew = FALSE /\ w.finished = FALSE
    BY <1>4, <1>6, Zenon DEF Server
  <1> HIDE DEF w
  <1>13. Updated(r, k, w, k.ret)
    BY <1>1, <1>9, <1>10, <1>11, UpdateEmpty
  <1>14. Opened(k.s, k.od)
    BY <1>1 DEF Phase, Downloading
  <1>15. Filled(w, k.od) /\ Len(w.buf) = 0
    BY <1>11, <1>14, OpensDownload
  <1>16. Subblock(w, k.od)
    <2>1. FreeOf(w.block_blksize, Len(w.buf)) /\ w.block_blksize > 0
      BY <1>8, <1>11, <1>15, Zenon
    <2> QED  BY <1>10, <1>11, <1>12, <1>15, <2>1, AwaitsSubblock
  <1>17. Phase(w, k.od)
    BY <1>1, <1>11, <1>16, DownloadPhase
  <1>18. /\ k.s.state \in Answering
         /\ w.state \notin Answering \cup {"IDLE", "ABORT", "UPLOAD_BLK_SUBBLOCK_SREQ"}
         /\ k.s.state \notin {"DOWNLOAD_INITIATE_RSP", "DOWNLOAD_SEGMENT_RSP"}
    BY <1>11 DEF Answering
  <1> QED  BY <1>1, <1>11, <1>12, <1>13, <1>17, <1>18, TransmitsOn

\* A segment of n bytes after q of the b segments of a sub-block.
Step(q, b, n, R, B) ==
    /\ q + 1 \in 0..127 /\ 7 - n \in 0..7 /\ q + 1 >= 1 /\ B - R >= 0
    /\ 7 * (q + 1) <= (R + n) + (7 - n)
    /\ n = 7 => 7 - n = 0 /\ 7 * (q + 1) <= R + n
    /\ n = 7 /\ B - R >= 7 * (b - q) => B - (R + n) >= 7 * (b - (q + 1))
    /\ B - R >= 7 * (b - q) => B - R >= 7
    /\ ~(q + 1 >= b) => q + 1 < b

\* Its numbers.
LEMMA StepNumbers ==
    ASSUME NEW q \in Nat, NEW b \in 1..127, NEW n \in 0..7, NEW R \in Nat, NEW B \in Nat,
           q < b, 7 * q <= R, R + n <= B
    PROVE  Step(q, b, n, R, B)
  BY DEF Step

\* The ticks that are left.
LEMMA StepPace ==
    ASSUME NEW q \in Nat, NEW b \in 1..127, NEW O \in Nat, q < b
    PROVE  /\ b - (q + 1) + O <= (b - q + O) - 1
           /\ O - 0 <= (b - q + O) - 1
  OBVIOUS

\* send_upload_blk_segment
LEMMA SendUploadBlkSegment ==
    ASSUME NEW k, Ready(k), k.s.state = "UPLOAD_BLK_SUBBLOCK_SREQ",
           NEW r, r = send_upload_blk_segment(k)
    PROVE  Transmitted(r, k)
  <1> DEFINE seg == next_segment(k.s)
             q == k.s.block_seqno
             b == k.s.block_blksize
             n == seg.n
             R == k.s.bufOffsetRd + n
             T == k.s.sizeTran + n
             empty == Len(k.s.buf) = R
             error == upload_size_error(k.s, T, empty)
             f == [Frame(q + 1 + IF seg.last THEN 128 ELSE 0) EXCEPT !.bytes = Padded(seg.bytes)]
             t == Append(k.tx, f)
             next == IF empty \/ q + 1 >= b THEN "UPLOAD_BLK_SUBBLOCK_CRSP" ELSE k.s.state
             u == [k.s EXCEPT !.block_seqno = q + 1, !.bufOffsetRd = R,
                              !.block_noData = 7 - n, !.sizeTran = T]
             j == [k EXCEPT !.s.block_seqno = q + 1, !.s.bufOffsetRd = R,
                            !.s.block_noData = 7 - n, !.s.sizeTran = T]
             w == [u EXCEPT !.timeoutTimer = 0, !.state = next]
  <1>1. /\ IsCall(k) /\ Basic(k.s, k.od) /\ k.s \in Server /\ Loaded(k.s, k.od)
        /\ k.s.rxNew = FALSE /\ 0 \in 0..SDOtimeoutTime /\ ServerInv(k.s, k.od)
        /\ k.s.mux \in Objects
    BY ReadyCall DEF Ready, UploadStates, Resting
  <1>2. /\ q \in Nat /\ b \in 1..127 /\ q < b /\ 7 * q <= k.s.bufOffsetRd
        /\ b + SDOtimeoutTime <= Patience
        /\ k.s.finished = FALSE => Len(k.s.buf) - k.s.bufOffsetRd >= 7 * (b - q)
    <2>1. Sending(k.s)
      BY <1>1 DEF ServerInv, Phase, Uploading
    <2>2. Asked(k.s, b - q) /\ q < b /\ 7 * q <= k.s.bufOffsetRd
      BY <2>1, Zenon DEF Sending
    <2>3. q \in 0..127
      BY <1>1, ServerFields
    <2>4. q \in Nat
      BY <2>3
    <2> QED  BY <2>2, <2>4, Zenon DEF Asked
  <1>3. SegmentOf(seg, k.s)
    BY <1>1, NextSegment DEF Basic
  <1>4. k.s.bufOffsetRd \in Nat /\ k.s.sizeTran \in Nat /\ Len(k.s.buf) \in Nat
    BY <1>1, ServerFields
  <1>5. r = blk_segment_sent(k, seg)
    BY DEF send_upload_blk_segment
  <1> HIDE DEF seg
  <1>6. n \in 0..7 /\ R <= Len(k.s.buf) /\ n \in Nat
    BY <1>3 DEF SegmentOf
  <1>7. Step(q, b, n, k.s.bufOffsetRd, Len(k.s.buf))
    BY <1>2, <1>4, <1>6, StepNumbers
  <1>8. R \in Nat /\ T \in Nat /\ q + 1 \in 0..127 /\ 7 - n \in 0..7
    <2>1. R \in Nat /\ T \in Nat
      BY <1>4, <1>6
    <2> QED  BY <1>7, <2>1, Zenon DEF Step
  <1>9. k.s.finished = FALSE => n = 7
    <2>1. k.s.finished = FALSE => Len(k.s.buf) - k.s.bufOffsetRd >= 7
      BY <1>2, <1>7, Zenon DEF Step
    <2> QED  BY <1>3, <2>1, Zenon DEF SegmentOf
  <1>10. ~empty => n = 7
    <2>1. ~empty => seg.last = FALSE
      BY <1>3, Zenon DEF SegmentOf
    <2> QED  BY <1>3, <2>1, Zenon DEF SegmentOf
  <1>11. j \in [s : {u}, od : {k.od}, ab : {k.ab}, ret : {k.ret}, tx : {k.tx}]
    BY <1>1, Zenon DEF IsCall
  <1>a. error # "NONE" => r = Abort(j, error)
    BY <1>5, Zenon DEF blk_segment_sent
  <1>b. error = "NONE" =>
           r = Send([j EXCEPT !.s.timeoutTimer = 0,
                              !.s.state = IF empty \/ q + 1 >= b
                                          THEN "UPLOAD_BLK_SUBBLOCK_CRSP" ELSE @], f)
    BY <1>5, Zenon DEF blk_segment_sent
  <1> HIDE DEF j, error, t, f
  <1>12. u \in Server
    BY <1>1, <1>8, ZenonT(60) DEF Server
  <1>13. /\ u.mux = k.s.mux /\ u.buf = k.s.buf /\ u.stream = k.s.stream
         /\ u.bufOffsetRd = R /\ u.sizeTran = T /\ u.block_seqno = q + 1
         /\ u.block_noData = 7 - n /\ u.block_blksize = b /\ u.state = k.s.state
    BY <1>1 DEF Server
  <1>14. u.rxNew = FALSE /\ u.finished = k.s.finished
    BY <1>1, Zenon DEF Server
  <1> HIDE DEF u
  <1>15. Advanced(u, k.s, n)
    BY <1>13, <1>14, Zenon DEF Advanced
  <1>16. Updated(j, k, u, k.ret)
    BY <1>1, <1>6, <1>11, <1>12, <1>15, UpdateAdvanced
  <1>17. IsCall(j) /\ Basic(j.s, j.od) /\ j.s.rxNew = FALSE /\ j.od = k.od /\ j.ret = k.ret
         /\ j.s = u
    BY <1>14, <1>16, Zenon DEF Updated
  <1>18. k.s.state \notin {"DOWNLOAD_INITIATE_RSP", "DOWNLOAD_SEGMENT_RSP"}
    OBVIOUS
  <1>19. CASE error # "NONE"
    BY <1>a, <1>17, <1>18, <1>19, TransmitsAbort
  <1>20. CASE error = "NONE"
    <2>1. r \in [s : {w}, od : {k.od}, ab : {j.ab}, ret : {k.ret}, tx : {Append(j.tx, f)}]
      <3>1. w = [u EXCEPT !.timeoutTimer = 0,
                          !.state = IF empty \/ q + 1 >= b
                                    THEN "UPLOAD_BLK_SUBBLOCK_CRSP" ELSE @]
        BY <1>13
      <3> HIDE DEF w, R
      <3> QED  BY <1>b, <1>17, <1>20, <3>1, Zenon DEF IsCall, Send
    <2>2. next \in CO_SDO_state
      BY <1>1, States DEF UploadStates, Server
    <2>n. \/ next = "UPLOAD_BLK_SUBBLOCK_CRSP"
          \/ next = "UPLOAD_BLK_SUBBLOCK_SREQ" /\ ~empty /\ ~(q + 1 >= b)
      OBVIOUS
    <2> HIDE DEF next
    <2>3. w \in Server
      BY <1>1, <1>12, <2>2, ZenonT(60) DEF Server
    <2>4. /\ SameBytes(w, u) /\ w.rxNew = FALSE
      BY <1>12, <1>14, Zenon DEF Server, SameBytes
    <2>5. /\ w.state = next /\ w.timeoutTimer = 0 /\ w.block_seqno = q + 1
          /\ w.block_noData = 7 - n /\ w.block_blksize = b /\ w.buf = k.s.buf
          /\ w.bufOffsetRd = R /\ w.mux \in Objects
      BY <1>1, <1>12, <1>13 DEF Server
    <2>6. w.finished = k.s.finished
      BY <1>14, <2>4, Zenon DEF SameBytes
    <2> HIDE DEF w
    <2>7. Advanced(w, k.s, n)
      BY <1>15, <2>4, Zenon DEF Advanced, SameBytes
    <2>8. Updated(r, k, w, k.ret)
      BY <1>1, <1>6, <2>1, <2>3, <2>7, UpdateAdvanced
    <2>9. Loaded(w, k.od)
      BY <1>1, <1>6, <1>9, <2>7, AdvancesLoaded
    <2>10. Sent(w)
      BY <1>7, <1>9, <2>5, <2>6, Zenon DEF Sent, Step
    <2>11. ~empty /\ ~(q + 1 >= b) => Sending(w)
      <3>1. SUFFICES ASSUME ~empty, ~(q + 1 >= b)
                     PROVE  Sending(w)
        OBVIOUS
      <3>2. n = 7
        BY <1>10, <3>1, Zenon
      <3>3. q + 1 < b /\ 7 * (q + 1) <= R /\ 7 - n = 0
        BY <1>7, <3>1, <3>2, Zenon DEF Step
      <3>4. k.s.finished = FALSE => Len(k.s.buf) - R >= 7 * (b - (q + 1))
        BY <1>2, <1>7, <3>2, Zenon DEF Step
      <3>5. Asked(w, b - (q + 1))
        BY <1>2, <2>5, <2>6, <3>4, Zenon DEF Asked
      <3> QED  BY <2>5, <3>3, <3>5, Zenon DEF Sending
    <2>12. Phase(w, k.od)
      <3>1. CASE next = "UPLOAD_BLK_SUBBLOCK_CRSP"
        BY <2>5, <2>9, <2>10, <3>1, UploadPhase
      <3>2. CASE next = "UPLOAD_BLK_SUBBLOCK_SREQ" /\ ~empty /\ ~(q + 1 >= b)
        <4>1. Sending(w)
          BY <2>11, <3>2, Zenon
        <4> QED  BY <2>5, <2>9, <3>2, <4>1, UploadPhase
      <3> QED  BY <2>n, <3>1, <3>2, Zenon
    <2>13. Ticking(w)
      BY <2>5, TimeAssumption DEF Ticking
    <2>14. Todo(w) <= Served(k.s)
      <3>2. SDOtimeoutTime \in Nat
        BY TimeAssumption
      <3>1. Served(k.s) = (b - q + SDOtimeoutTime) - 1
        <4> DEFINE m == b - q + SDOtimeoutTime
        <4>1. Todo(k.s) = m
          BY TodoIs
        <4>2. Served(k.s) = Todo(k.s) - 1
          BY DEF Served
        <4> HIDE DEF m
        <4>3. Served(k.s) = m - 1
          BY <4>1, <4>2
        <4> QED  BY <4>3 DEF m
      <3>3. /\ b - (q + 1) + SDOtimeoutTime <= (b - q + SDOtimeoutTime) - 1
            /\ SDOtimeoutTime - 0 <= (b - q + SDOtimeoutTime) - 1
        BY <1>2, <3>2, StepPace
      <3>4. CASE next = "UPLOAD_BLK_SUBBLOCK_CRSP"
        <4>1. w.state \notin Answering \cup {"IDLE", "ABORT", "UPLOAD_BLK_SUBBLOCK_SREQ"}
          BY <2>5, <3>4 DEF Answering
        <4>2. Todo(w) = SDOtimeoutTime - 0
          BY <2>5, <4>1, TodoIs
        <4> QED  BY <3>1, <3>3, <4>2, Zenon
      <3>5. CASE next = "UPLOAD_BLK_SUBBLOCK_SREQ"
        <4>1. Todo(w) = b - (q + 1) + SDOtimeoutTime
          BY <2>5, <3>5, TodoIs
        <4> QED  BY <3>1, <3>3, <4>1, Zenon
      <3> QED  BY <2>n, <3>4, <3>5, Zenon
    <2> QED  BY <1>18, <2>4, <2>8, <2>12, <2>13, <2>14, Zenon
                 DEF Transmitted, Updated, ServerInv
  <1> QED  BY <1>19, <1>20

\* The sub-block is acknowledged and the next one awaited.
LEMMA NextDownloadSubblock ==
    ASSUME NEW k, Ready(k), k.s.state = "DOWNLOAD_BLK_SUBBLOCK_RSP",
           NEW e, IsCall(e), Basic(e.s, e.od), Filled(e.s, e.od), e.s.finished = FALSE,
           e.s.mux \in Objects, e.s.timeoutTimer = k.s.timeoutTimer, e.ret = k.ret,
           e.s.state # "ABORT", free_segments(e.s) > 0, NEW n,
           NEW r, r = subblock_answered(next_download_subblock(e), n)
    PROVE  Transmitted(r, k)
  <1> DEFINE count == free_segments(e.s)
             j == [e EXCEPT !.s.block_blksize = count, !.s.block_seqno = 0,
                            !.s.state = "DOWNLOAD_BLK_SUBBLOCK_REQ", !.s.rxNew = FALSE]
             f == [Frame(162) EXCEPT !.seq = n, !.blk = j.s.block_blksize]
             u == [e.s EXCEPT !.block_blksize = count, !.block_seqno = 0,
                              !.state = "DOWNLOAD_BLK_SUBBLOCK_REQ", !.rxNew = FALSE]
             w == [u EXCEPT !.block_timeoutTimer = 0]
  <1>1. e.s \in Server /\ Len(e.s.buf) \in Nat
    BY ServerFields DEF Basic
  <1>2. FreeOf(count, Len(e.s.buf)) /\ count > 0 /\ count \in Byte
    <2>1. Len(e.s.buf) + 2 <= BUFFER_SIZE
      BY DEF Filled
    <2>2. FreeOf(count, Len(e.s.buf))
      BY <1>1, <2>1, FreeSegments
    <2>3. count \in 0..127
      BY <2>2 DEF FreeOf
    <2> QED  BY <2>2, <2>3 DEF Byte
  <1>3. j = next_download_subblock(e)
    BY Zenon DEF next_download_subblock, Aborted
  <1>4. j \in [s : {u}, od : {e.od}, ab : {e.ab}, ret : {e.ret}, tx : {e.tx}]
    BY Zenon DEF IsCall
  <1> HIDE DEF count
  <1>5. u \in Server
    <2>1. FALSE \in BOOLEAN /\ 0 \in 0..127
      OBVIOUS
    <2> QED  BY <1>1, <1>2, <2>1, States, ZenonT(60) DEF Server
  <1>6. /\ u.state = "DOWNLOAD_BLK_SUBBLOCK_REQ" /\ u.buf = e.s.buf
        /\ u.bufOffsetRd = e.s.bufOffsetRd /\ u.sizeTran = e.s.sizeTran
        /\ u.stream = e.s.stream /\ u.mux = e.s.mux /\ u.timeoutTimer = e.s.timeoutTimer
        /\ u.block_seqno = 0 /\ u.block_blksize = count
    BY <1>1 DEF Server
  <1>7. u.rxNew = FALSE /\ u.finished = FALSE
    BY <1>1, Zenon DEF Server
  <1> HIDE DEF u, j
  <1>8. Becomes(j, u, e.od, e.ret)
    BY <1>4, CallIs
  <1>9. r = Send([j EXCEPT !.s.block_timeoutTimer = 0], f)
    <2>1. ~Aborted(j)
      BY <1>6, <1>8 DEF Aborted, Becomes
    <2> QED  BY <1>3, <2>1, Zenon DEF subblock_answered
  <1>10. r \in [s : {w}, od : {e.od}, ab : {j.ab}, ret : {k.ret}, tx : {Append(j.tx, f)}]
    BY <1>8, <1>9, ZenonT(60) DEF Becomes, IsCall, Send
  <1> HIDE DEF f
  <1>11. w \in Server
    <2>1. 0 \in 0..block_SDOtimeoutTime
      BY TimeAssumption
    <2> QED  BY <1>5, <2>1, ZenonT(60) DEF Server
  <1>12. /\ w.state = "DOWNLOAD_BLK_SUBBLOCK_REQ" /\ w.buf = e.s.buf
         /\ w.bufOffsetRd = e.s.bufOffsetRd /\ w.sizeTran = e.s.sizeTran
         /\ w.stream = e.s.stream /\ w.mux = e.s.mux /\ w.timeoutTimer = k.s.timeoutTimer
         /\ w.block_seqno = 0 /\ w.block_blksize = count
    BY <1>5, <1>6 DEF Server
  <1>13. w.rxNew = FALSE /\ w.finished = FALSE
    BY <1>5, <1>7, Zenon DEF Server
  <1> HIDE DEF w
  <1>14. Updated(r, e, w, k.ret)
    BY <1>10, <1>11, <1>12, Update
  <1>15. Filled(w, e.od)
    BY <1>12, Zenon DEF Filled, Fresh
  <1>16. Subblock(w, e.od)
    <2>1. FreeOf(w.block_blksize, Len(w.buf)) /\ w.block_blksize > 0
      BY <1>2, <1>12, Zenon
    <2> QED  BY <1>11, <1>12, <1>13, <1>15, <2>1, AwaitsSubblock
  <1>17. Phase(w, e.od)
    BY <1>12, <1>16, DownloadPhase
  <1>18. Ticking(w)
    BY <1>12 DEF Ready, ServerInv, Ticking, Resting
  <1>19. Todo(w) <= Served(k.s)
    <2>1. /\ k.s.state \notin Answering \cup {"IDLE", "ABORT", "UPLOAD_BLK_SUBBLOCK_SREQ"}
          /\ w.state \notin Answering \cup {"IDLE", "ABORT", "UPLOAD_BLK_SUBBLOCK_SREQ"}
      BY <1>12 DEF Answering
    <2>2. Todo(w) = SDOtimeoutTime - k.s.timeoutTimer
      BY <1>12, <2>1, TodoIs
    <2>3. Served(k.s) = SDOtimeoutTime - k.s.timeoutTimer
      BY <2>1, TodoIs DEF Served
    <2>4. Served(k.s) \in Nat
      BY TodoBound DEF Ready
    <2>5. \A m \in Nat : m <= m
      OBVIOUS
    <2> QED  BY <2>2, <2>3, <2>4, <2>5, Zenon
  <1>20. k.s.state \notin {"DOWNLOAD_INITIATE_RSP", "DOWNLOAD_SEGMENT_RSP"}
    OBVIOUS
  <1> QED  BY <1>13, <1>14, <1>17, <1>18, <1>19, <1>20, Zenon DEF Transmitted, Updated, ServerInv

\* The last sub-block is acknowledged.
LEMMA LastDownloadSubblock ==
    ASSUME NEW k, Ready(k), k.s.state = "DOWNLOAD_BLK_SUBBLOCK_RSP", k.s.finished = TRUE, NEW n,
           NEW r, r = subblock_answered([k EXCEPT !.s.state = "DOWNLOAD_BLK_END_REQ"], n)
    PROVE  Transmitted(r, k)
  <1> DEFINE j == [k EXCEPT !.s.state = "DOWNLOAD_BLK_END_REQ"]
             f == [Frame(162) EXCEPT !.seq = n, !.blk = j.s.block_blksize]
             u == [k.s EXCEPT !.state = "DOWNLOAD_BLK_END_REQ"]
             w == [u EXCEPT !.block_timeoutTimer = 0]
  <1>1. /\ IsCall(k) /\ Basic(k.s, k.od) /\ Phase(k.s, k.od) /\ k.s \in Server
        /\ k.s.rxNew = FALSE /\ 0 \in 0..SDOtimeoutTime /\ k.s.mux \in Objects
        /\ ServerInv(k.s, k.od)
    BY ReadyCall DEF Resting, Ready
  <1>2. j \in [s : {u}, od : {k.od}, ab : {k.ab}, ret : {k.ret}, tx : {k.tx}]
    BY <1>1, Zenon DEF IsCall
  <1>3. u \in Server
    BY <1>1, States, ZenonT(60) DEF Server
  <1>4. u.state = "DOWNLOAD_BLK_END_REQ" /\ u.timeoutTimer = k.s.timeoutTimer
    BY <1>1 DEF Server
  <1>5. SameBytes(u, k.s) /\ u.rxNew = FALSE
    BY <1>1, Zenon DEF Server, SameBytes
  <1>a. r = subblock_answered(j, n)
    OBVIOUS
  <1> HIDE DEF u, j
  <1>6. Becomes(j, u, k.od, k.ret)
    BY <1>2, CallIs
  <1>7. r = Send([j EXCEPT !.s.block_timeoutTimer = 0], f)
    <2>1. ~Aborted(j)
      BY <1>4, <1>6 DEF Aborted, Becomes
    <2> QED  BY <1>a, <2>1, Zenon DEF subblock_answered
  <1>8. r \in [s : {w}, od : {k.od}, ab : {j.ab}, ret : {k.ret}, tx : {Append(j.tx, f)}]
    BY <1>6, <1>7, ZenonT(60) DEF Becomes, IsCall, Send
  <1> HIDE DEF f
  <1>9. w \in Server
    <2>1. 0 \in 0..block_SDOtimeoutTime
      BY TimeAssumption
    <2> QED  BY <1>3, <2>1, ZenonT(60) DEF Server
  <1>10. w.state = "DOWNLOAD_BLK_END_REQ" /\ w.timeoutTimer = k.s.timeoutTimer
    BY <1>3, <1>4 DEF Server
  <1>11. SameBytes(w, u) /\ w.rxNew = FALSE
    BY <1>3, <1>5, Zenon DEF Server, SameBytes
  <1> HIDE DEF w
  <1>12. SameBytes(w, k.s)
    BY <1>5, <1>11, Zenon DEF SameBytes
  <1>13. Updated(r, k, w, k.ret)
    BY <1>1, <1>8, <1>9, <1>12, Update DEF SameBytes
  <1>14. SubblockEnd(k.s, k.od)
    BY <1>1 DEF Phase, Downloading
  <1>15. Filled(w, k.od) /\ w.finished = TRUE /\ Len(w.buf) >= 7 /\ w.mux \in Objects
    BY <1>1, <1>12, <1>14, Zenon DEF SubblockEnd, SameBytes, Filled, Fresh
  <1>16. Phase(w, k.od)
    BY <1>10, <1>15, DownloadPhase
  <1>17. Ticking(w)
    BY <1>1, <1>10 DEF ServerInv, Ticking, Resting
  <1>18. Todo(w) <= Served(k.s)
    <2>1. /\ k.s.state \notin Answering \cup {"IDLE", "ABORT", "UPLOAD_BLK_SUBBLOCK_SREQ"}
          /\ w.state \notin Answering \cup {"IDLE", "ABORT", "UPLOAD_BLK_SUBBLOCK_SREQ"}
      BY <1>10 DEF Answering
    <2>2. Todo(w) = SDOtimeoutTime - k.s.timeoutTimer
      BY <1>10, <2>1, TodoIs
    <2>3. Served(k.s) = SDOtimeoutTime - k.s.timeoutTimer
      BY <2>1, TodoIs DEF Served
    <2>4. Served(k.s) \in Nat
      BY <1>1, TodoBound
    <2>5. \A m \in Nat : m <= m
      OBVIOUS
    <2> QED  BY <2>2, <2>3, <2>4, <2>5, Zenon
  <1>19. k.s.state \notin {"DOWNLOAD_INITIATE_RSP", "DOWNLOAD_SEGMENT_RSP"}
    OBVIOUS
  <1> QED  BY <1>11, <1>13, <1>16, <1>17, <1>18, <1>19, Zenon DEF Transmitted, Updated, ServerInv

\* send_download_blk_subblock
LEMMA SendDownloadBlkSubblock ==
    ASSUME NEW k, Ready(k), k.s.state = "DOWNLOAD_BLK_SUBBLOCK_RSP",
           NEW r, r = send_download_blk_subblock(k)
    PROVE  Transmitted(r, k)
  <1> DEFINE n == k.s.block_seqno
             e == validateAndWriteToOD(k, 1, <<>>)
  <1>1. /\ IsCall(k) /\ Basic(k.s, k.od) /\ Phase(k.s, k.od) /\ k.s \in Server
        /\ k.s.rxNew = FALSE /\ k.s.mux \in Objects /\ ServerInv(k.s, k.od)
    BY ReadyCall DEF Resting, Ready
  <1>2. k.s.finished \in BOOLEAN
    BY <1>1, ServerFlags, Zenon
  <1>3. Filled(k.s, k.od)
    BY <1>1 DEF Phase, Downloading, SubblockEnd
  <1>4. CASE k.s.finished = TRUE
    <2>1. r = subblock_answered([k EXCEPT !.s.state = "DOWNLOAD_BLK_END_REQ"], n)
      BY <1>4, Zenon DEF send_download_blk_subblock
    <2> QED  BY <1>4, <2>1, LastDownloadSubblock
  <1>5. CASE k.s.finished = FALSE /\ free_segments(k.s) < MAX_BLKSIZE /\ Len(k.s.buf) > 0
    <2>1. r = subblock_answered(next_download_subblock(e), n)
      BY <1>5, Zenon DEF send_download_blk_subblock
    <2>2. Writable(k.s, k.od)
      <3>1. k.s.state # "ABORT"
        OBVIOUS
      <3> QED  BY <1>1, <1>3, <3>1, Zenon DEF Writable, Filled
    <2>3. Flushed(e, k)
      BY <1>1, <2>2, ValidateAndWrite
    <2> HIDE DEF e, n
    <2>4. /\ IsCall(e) /\ Basic(e.s, e.od) /\ e.ret = k.ret /\ Keeps(e.s, k.s)
          /\ e.s.state \in {k.s.state, "ABORT"}
      BY <2>3 DEF Flushed
    <2>5. e.s.rxNew = FALSE /\ e.s.timeoutTimer = k.s.timeoutTimer
      BY <1>1, <2>4, Zenon DEF Keeps
    <2>6. CASE e.s.state = "ABORT"
      <3>1. r = e
        BY <2>1, <2>6, Zenon DEF subblock_answered, next_download_subblock, Aborted
      <3>2. Phase(e.s, e.od) /\ Ticking(e.s)
        BY <2>6, RestPhase DEF Resting
      <3>3. k.s.state \notin {"DOWNLOAD_INITIATE_RSP", "DOWNLOAD_SEGMENT_RSP"}
        OBVIOUS
      <3> QED  BY <2>4, <2>5, <2>6, <3>1, <3>2, <3>3, Zenon DEF Transmitted, ServerInv
    <2>7. CASE e.s.state # "ABORT"
      <3>1. Filled(e.s, e.od) /\ e.s.buf = <<>> /\ e.s.finished = FALSE /\ e.s.mux = k.s.mux
        BY <1>3, <1>5, <2>2, <2>3, <2>7, FlushedOpen
      <3>2. free_segments(e.s) > 0
        <4>1. Len(e.s.buf) = 0 /\ 0 \in Nat /\ 0 + 2 <= BUFFER_SIZE /\ 0 + 9 <= BUFFER_SIZE
          BY <3>1, NoByte, BufferAssumption
        <4>2. FreeOf(free_segments(e.s), 0)
          BY <4>1, FreeSegments
        <4> QED  BY <4>1, <4>2 DEF FreeOf
      <3> QED  BY <1>1, <2>1, <2>4, <2>5, <2>7, <3>1, <3>2, NextDownloadSubblock
    <2> QED  BY <2>6, <2>7
  <1>6. CASE k.s.finished = FALSE /\ ~(free_segments(k.s) < MAX_BLKSIZE /\ Len(k.s.buf) > 0)
    <2>1. r = subblock_answered(next_download_subblock(k), n)
      BY <1>6, Zenon DEF send_download_blk_subblock
    <2>2. free_segments(k.s) > 0
      <3>1. Len(k.s.buf) \in Nat /\ Len(k.s.buf) + 2 <= BUFFER_SIZE
        BY <1>1, <1>3, ServerFields DEF Filled
      <3>2. /\ FreeOf(free_segments(k.s), Len(k.s.buf))
            /\ free_segments(k.s) = MAX_BLKSIZE => free_segments(k.s) > 0
        BY <3>1, FreeSegments
      <3>3. CASE Len(k.s.buf) > 0
        <4>1. ~(free_segments(k.s) < MAX_BLKSIZE)
          BY <1>6, <3>3, Zenon
        <4>2. free_segments(k.s) \in 0..127 /\ MAX_BLKSIZE \in 1..127
          BY <3>2, BufferAssumption DEF FreeOf
        <4>3. \A x \in 0..127, y \in 1..127 : ~(x < y) => x > 0
          OBVIOUS
        <4> QED  BY <4>1, <4>2, <4>3, Zenon
      <3>4. CASE Len(k.s.buf) = 0
        <4>1. 0 + 9 <= BUFFER_SIZE
          BY BufferAssumption
        <4> QED  BY <3>2, <3>4, <4>1, Zenon DEF FreeOf
      <3> QED  BY <3>1, <3>3, <3>4
    <2> HIDE DEF n
    <2> QED  BY <1>1, <1>3, <1>6, <2>1, <2>2, NextDownloadSubblock
  <1> QED  BY <1>2, <1>4, <1>5, <1>6, Zenon

\* switch (SDO->state) of the transmission: nothing to be sent.
LEMMA SendsNothing ==
    ASSUME NEW k, Ready(k),
           k.s.state \notin Answering \cup {"UPLOAD_BLK_SUBBLOCK_SREQ"}
    PROVE  Transmitted(k, k)
  <1>1. k.s.state \notin {"DOWNLOAD_INITIATE_RSP", "DOWNLOAD_SEGMENT_RSP"}
    BY DEF Answering
  <1>2. Todo(k.s) <= Served(k.s)
    <2>1. Served(k.s) = Todo(k.s)
      BY DEF Served
    <2>2. Todo(k.s) \in 0..Patience
      BY TodoBound DEF Ready
    <2>3. Patience \in Nat
      BY TimeAssumption
    <2>4. \A m \in Nat : m <= m
      OBVIOUS
    <2>5. Todo(k.s) \in Nat
      BY <2>2, <2>3
    <2> QED  BY <2>1, <2>4, <2>5, Zenon
  <1> QED  BY <1>1, <1>2, Zenon DEF Ready, Transmitted

\* transmit
LEMMA Transmits ==
    ASSUME NEW k, Ready(k), NEW r, r = transmit(k)
    PROVE  Transmitted(r, k)
  <1>1. CASE k.s.state = "DOWNLOAD_INITIATE_RSP"
    <2>1. r = send_download_initiate(k)
      BY <1>1 DEF transmit
    <2> QED  BY <1>1, <2>1, SendDownloadInitiate
  <1>2. CASE k.s.state = "DOWNLOAD_SEGMENT_RSP"
    <2>1. r = send_download_segment(k)
      BY <1>2 DEF transmit
    <2> QED  BY <1>2, <2>1, SendDownloadSegment
  <1>3. CASE k.s.state = "UPLOAD_INITIATE_RSP"
    <2>1. r = send_upload_initiate(k)
      BY <1>3 DEF transmit
    <2> QED  BY <1>3, <2>1, SendUploadInitiate
  <1>4. CASE k.s.state = "UPLOAD_SEGMENT_RSP"
    <2>1. r = send_upload_segment(k)
      BY <1>4 DEF transmit
    <2> QED  BY <1>4, <2>1, SendUploadSegment
  <1>5. CASE k.s.state = "DOWNLOAD_BLK_INITIATE_RSP"
    <2>1. r = send_download_blk_initiate(k)
      BY <1>5 DEF transmit
    <2> QED  BY <1>5, <2>1, SendDownloadBlkInitiate
  <1>6. CASE k.s.state = "DOWNLOAD_BLK_SUBBLOCK_RSP"
    <2>1. r = send_download_blk_subblock(k)
      BY <1>6 DEF transmit
    <2> QED  BY <1>6, <2>1, SendDownloadBlkSubblock
  <1>7. CASE k.s.state = "DOWNLOAD_BLK_END_RSP"
    <2>1. r = End(Send(k, Frame(161)))
      BY <1>7 DEF transmit
    <2> QED  BY <1>7, <2>1, SendDownloadBlkEnd
  <1>8. CASE k.s.state = "UPLOAD_BLK_INITIATE_RSP"
    <2>1. r = send_upload_blk_initiate(k)
      BY <1>8 DEF transmit
    <2> QED  BY <1>8, <2>1, SendUploadBlkInitiate
  <1>9. CASE k.s.state = "UPLOAD_BLK_SUBBLOCK_SREQ"
    <2>1. r = send_upload_blk_segment(k)
      BY <1>9 DEF transmit
    <2> QED  BY <1>9, <2>1, SendUploadBlkSegment
  <1>10. CASE k.s.state = "UPLOAD_BLK_END_SREQ"
    <2>1. r = send_upload_blk_end(k)
      BY <1>10 DEF transmit
    <2> QED  BY <1>10, <2>1, SendUploadBlkEnd
  <1>11. CASE k.s.state \notin Answering \cup {"UPLOAD_BLK_SUBBLOCK_SREQ", "DOWNLOAD_BLK_SUBBLOCK_RSP"}
    <2>1. r = k
      BY <1>11 DEF transmit, Answering
    <2> QED  BY <1>11, <2>1, SendsNothing
  <1> QED  BY <1>1, <1>2, <1>3, <1>4, <1>5, <1>6, <1>7, <1>8, <1>9, <1>10, <1>11 DEF Answering

-----------------------------------------------------------------------------
(* A call of CO_SDOserver_process *)

\* What the end of a call leads to.
Finished(r, x) ==
    /\ ServerInv(r.s, r.od) /\ r.s.rxNew = FALSE
    /\ Todo(r.s) <= Served(x.s)
    /\ x.s.state = "ABORT" => r.s.state = "IDLE"
    /\ r.od # x.od => x.s.state = "DOWNLOAD_BLK_SUBBLOCK_RSP"
    /\ x.s.finished = TRUE /\ x.s.state \in {"DOWNLOAD_INITIATE_RSP", "DOWNLOAD_SEGMENT_RSP"}
       => r.s.state = "IDLE" /\ r.s.finished = TRUE

\* send_abort
LEMMA SendsAbort ==
    ASSUME NEW k, Ready(k), k.s.state = "ABORT", NEW r, r = send_abort(k)
    PROVE  /\ ServerInv(r.s, r.od) /\ r.s.rxNew = FALSE /\ r.s.state = "IDLE" /\ r.od = k.od
  <1> DEFINE f == [MuxFrame(128, k.s.mux) EXCEPT !.code = k.ab]
             t == Append(k.tx, f)
             v == [k.s EXCEPT !.state = "IDLE"]
  <1>1. IsCall(k) /\ Basic(k.s, k.od) /\ k.s \in Server /\ k.s.rxNew = FALSE
    BY ReadyCall
  <1>2. r \in [s : {v}, od : {k.od}, ab : {k.ab}, ret : {"endedWithServerAbort"}, tx : {t}]
    BY <1>1, Zenon DEF IsCall, send_abort
  <1> HIDE DEF t, f
  <1>3. v \in Server
    BY <1>1, States, ZenonT(60) DEF Server
  <1>4. v.state = "IDLE"
    BY <1>1 DEF Server
  <1>5. SameBytes(v, k.s) /\ v.rxNew = FALSE
    BY <1>1, Zenon DEF Server, SameBytes
  <1> HIDE DEF v
  <1>6. Updated(r, k, v, "endedWithServerAbort")
    BY <1>1, <1>2, <1>3, <1>5, Update DEF SameBytes
  <1>7. Phase(v, k.od) /\ Ticking(v)
    BY <1>4, RestPhase DEF Resting
  <1> QED  BY <1>4, <1>5, <1>6, <1>7, Zenon DEF Updated, ServerInv

\* The last two parts of a call.
LEMMA Finishes ==
    ASSUME NEW x, Ready(x), x.ret = "waitingResponse", NEW r, r = ended(transmitted(x))
    PROVE  Finished(r, x)
  <1> DEFINE t == transmit(x)
  <1>1. r = ended(t)
    BY DEF transmitted, Waiting
  <1>2. Transmitted(t, x)
    BY Transmits
  <1>3. x.s.state = "ABORT" => t = x
    BY DEF transmit
  <1> HIDE DEF t
  <1>4. CASE t.s.state = "ABORT"
    <2>1. Ready(t) /\ t.ret = x.ret
      BY <1>2, <1>4 DEF Transmitted, Ready
    <2>2. r = send_abort(t)
      BY <1>1, <2>1 DEF ended, Waiting
    <2>3. ServerInv(r.s, r.od) /\ r.s.rxNew = FALSE /\ r.s.state = "IDLE" /\ r.od = t.od
      BY <1>4, <2>1, <2>2, SendsAbort
    <2>4. Todo(r.s) <= Served(x.s)
      <3>1. Todo(r.s) = 0
        BY <2>3, TodoIs
      <3>2. Served(x.s) \in Nat
        BY TodoBound DEF Ready
      <3>3. \A m \in Nat : 0 <= m
        OBVIOUS
      <3> QED  BY <3>1, <3>2, <3>3, Zenon
    <2>5. ~(x.s.finished = TRUE
            /\ x.s.state \in {"DOWNLOAD_INITIATE_RSP", "DOWNLOAD_SEGMENT_RSP"})
      <3>1. "ABORT" # "IDLE"
        OBVIOUS
      <3> QED  BY <1>2, <1>4, <3>1, Zenon DEF Transmitted
    <2>6. r.od # x.od => x.s.state = "DOWNLOAD_BLK_SUBBLOCK_RSP"
      BY <1>2, <2>3, Zenon DEF Transmitted
    <2> QED  BY <2>3, <2>4, <2>5, <2>6, Zenon DEF Finished
  <1>5. CASE t.s.state # "ABORT"
    <2>1. r = t
      BY <1>1, <1>5 DEF ended, send_abort
    <2>2. x.s.state # "ABORT"
      BY <1>3, <1>5
    <2> QED  BY <1>2, <1>5, <2>1, <2>2, Zenon DEF Transmitted, Finished
  <1> QED  BY <1>4, <1>5

\* The pace of the timers, T before and T + d after.
LEMMA TimedPace ==
    ASSUME NEW k, ServerInv(k.s, k.od), k.s.state # "IDLE", NEW dt \in {0, 1},
           NEW x, Timed(x, k, dt)
    PROVE  /\ Todo(x.s) <= Todo(k.s)
           /\ x.s.state # "ABORT" => Served(x.s) <= Todo(k.s) - dt
  <1>1. SDOtimeoutTime \in Nat /\ Patience \in Nat
    BY TimeAssumption
  <1>2. Todo(k.s) \in 0..Patience /\ Todo(k.s) > 0
    BY TodoBound
  <1>3. Todo(k.s) \in Nat
    BY <1>1, <1>2
  <1>4. k.s.timeoutTimer \in Nat
    <2>1. k.s.timeoutTimer \in 0..SDOtimeoutTime
      BY ServerFields DEF ServerInv, Basic
    <2> QED  BY <1>1, <2>1
  <1>5. CASE x.s.state = "ABORT"
    <2>1. Todo(x.s) = 1
      BY <1>5, TodoIs
    <2>2. \A m \in Nat : m > 0 => 1 <= m
      OBVIOUS
    <2> QED  BY <1>2, <1>3, <1>5, <2>1, <2>2, Zenon
  <1>6. CASE x.s.state # "ABORT"
    <2>1. /\ k.s.state # "ABORT" /\ x.s.timeoutTimer = k.s.timeoutTimer + dt
          /\ x.s.block_seqno = k.s.block_seqno /\ x.s.block_blksize = k.s.block_blksize
          /\ \/ x.s.state = k.s.state
             \/ /\ k.s.state = "DOWNLOAD_BLK_SUBBLOCK_REQ"
                /\ x.s.state = "DOWNLOAD_BLK_SUBBLOCK_RSP"
      BY <1>6 DEF Timed
    <2>2. CASE k.s.state \in Answering \cup {"UPLOAD_BLK_SUBBLOCK_SREQ"}
      <3>1. x.s.state = k.s.state
        BY <2>1, <2>2 DEF Answering
      <3>2. Todo(x.s) = Todo(k.s)
        <4>1. CASE k.s.state \in Answering
          BY <3>1, <4>1, TodoIs
        <4>2. CASE k.s.state = "UPLOAD_BLK_SUBBLOCK_SREQ"
          <5>1. /\ Todo(x.s) = x.s.block_blksize - x.s.block_seqno + SDOtimeoutTime
                /\ Todo(k.s) = k.s.block_blksize - k.s.block_seqno + SDOtimeoutTime
            BY <3>1, <4>2, TodoIs, Zenon
          <5> QED  BY <2>1, <5>1, Zenon
        <4> QED  BY <2>2, <4>1, <4>2
      <3>3. Served(x.s) = Todo(x.s) - 1
        BY <2>2, <3>1 DEF Served
      <3>4. \A m \in Nat : m <= m /\ (\A d \in {0, 1} : m - 1 <= m - d)
        OBVIOUS
      <3> QED  BY <1>3, <3>2, <3>3, <3>4, Zenon
    <2>3. CASE k.s.state \notin Answering \cup {"UPLOAD_BLK_SUBBLOCK_SREQ"}
      <3>1. /\ k.s.state \notin Answering \cup {"IDLE", "ABORT", "UPLOAD_BLK_SUBBLOCK_SREQ"}
            /\ x.s.state \notin Answering \cup {"IDLE", "ABORT", "UPLOAD_BLK_SUBBLOCK_SREQ"}
        BY <2>1, <2>3 DEF Answering
      <3> DEFINE n == k.s.timeoutTimer
                 O == SDOtimeoutTime
      <3>2. Todo(k.s) = O - n /\ Todo(x.s) = O - (n + dt)
        BY <2>1, <3>1, TodoIs
      <3>3. Served(x.s) = Todo(x.s)
        BY <3>1 DEF Served
      <3>4. \A a, b \in Nat, d \in {0, 1} : a - (b + d) <= a - b /\ a - (b + d) <= (a - b) - d
        OBVIOUS
      <3> QED  BY <1>1, <1>4, <3>2, <3>3, <3>4, Zenon
    <2> QED  BY <2>2, <2>3
  <1> QED  BY <1>5, <1>6

\* What a call with the time dt makes of the server s and the dictionary o.
WholeStep(r, s, o) ==
    \A m \in Objects :
        r.od[m] # o[m] =>
            \/ s.state \in BlockStates \cup {"DOWNLOAD_BLK_SUBBLOCK_REQ"}
            \/ Len(o[m]) > BUFFER_SIZE - 9
            \/ /\ r.s.finished = TRUE
               /\ r.s.state \in {"IDLE", "DOWNLOAD_INITIATE_RSP", "DOWNLOAD_SEGMENT_RSP"}

Processed(r, s, o, dt, full) ==
    /\ ServerInv(r.s, r.od) /\ r.s.rxNew = FALSE
    /\ Todo(r.s) <= Patience
    /\ s.rxNew = TRUE /\ full = FALSE => Todo(r.s) <= Patience - 1
    /\ s.rxNew = FALSE => Todo(r.s) <= Todo(s)
    /\ s.rxNew = FALSE /\ full = FALSE /\ s.state # "IDLE" => Todo(r.s) <= Todo(s) - dt
    /\ WholeStep(r, s, o)

Begins(s, o) == [s |-> s, od |-> o, ab |-> "NONE", ret |-> "waitingResponse", tx |-> <<>>]

\* The structure that a call begins with.
LEMMA CallBegins ==
    ASSUME NEW s, NEW o, NEW k, k = Begins(s, o)
    PROVE  Becomes(k, s, o, "waitingResponse")
  BY DEF Begins, Becomes, IsCall

\* A call that has nothing to do, or that the NMT state stops.
LEMMA ProcessIdle ==
    ASSUME NEW s, NEW o, ServerInv(s, o), NEW dt \in {0, 1}, NEW full \in BOOLEAN,
           NEW r, ServerInv(r.s, r.od), r.s.rxNew = FALSE, r.s.state = "IDLE", r.od = o
    PROVE  Processed(r, s, o, dt, full)
  <1>1. Todo(r.s) = 0
    BY TodoIs
  <1>2. Patience \in Nat /\ Patience >= 1
    BY TimeAssumption
  <1>3. /\ Todo(s) \in 0..Patience
        /\ s.state # "IDLE" => Todo(s) > 0
    BY TodoBound
  <1>4. /\ 0 <= Patience /\ 0 <= Patience - 1 /\ 0 <= Todo(s)
        /\ s.state # "IDLE" => 0 <= Todo(s) - dt
    <2>1. \A m \in Nat : m > 0 => \A d \in {0, 1} : 0 <= m - d
      OBVIOUS
    <2>2. Todo(s) \in Nat
      BY <1>2, <1>3
    <2> QED  BY <1>2, <1>3, <2>1, <2>2
  <1>5. WholeStep(r, s, o)
    BY DEF WholeStep
  <1> QED  BY <1>1, <1>4, <1>5, Zenon DEF Processed

\* A full transmit buffer.
LEMMA Full ==
    ASSUME NEW x, IsCall(x), NEW q, NEW r, r = [x EXCEPT !.ret = q]
    PROVE  Becomes(r, x.s, x.od, q)
  <1>1. r \in [s : {x.s}, od : {x.od}, ab : {x.ab}, ret : {q}, tx : {x.tx}]
    BY Zenon DEF IsCall
  <1> QED  BY <1>1, CallIs

Rested(r, x, full) ==
    /\ full = TRUE => r.s = x.s /\ r.od = x.od
    /\ full = FALSE => Finished(r, x)

\* The rest of a call, after the first part has left p.
LEMMA Rests ==
    ASSUME NEW p, NEW d, NEW full \in BOOLEAN, p.ret = "waitingResponse",
           NEW x, x = expire_subblock(expire(p, d), d), IsCall(x), ServerInv(x.s, x.od),
           x.s.rxNew = FALSE, x.ret = p.ret,
           NEW r, r = ended(transmitted(timed(p, d, full)))
    PROVE  Rested(r, x, full)
  <1>1. CASE full = TRUE
    <2> DEFINE y == [x EXCEPT !.ret = "transmittBufferFull"]
    <2>1. timed(p, d, full) = y
      BY <1>1, Zenon DEF timed, Waiting
    <2>2. y.s = x.s /\ y.od = x.od /\ y.ret = "transmittBufferFull"
      BY Full DEF Becomes
    <2> HIDE DEF y
    <2>3. r = y
      BY <2>1, <2>2 DEF ended, transmitted, Waiting
    <2> QED  BY <1>1, <2>2, <2>3 DEF Rested
  <1>2. CASE full = FALSE
    <2>1. timed(p, d, full) = x
      BY <1>2, Zenon DEF timed, Waiting
    <2>2. Finished(r, x)
      BY <2>1, Finishes DEF Ready
    <2> QED  BY <1>2, <2>2 DEF Rested
  <1> QED  BY <1>1, <1>2

\* A call that handles a request.
LEMMA ProcessRequest ==
    ASSUME NEW s, NEW o, ServerInv(s, o), s.rxNew = TRUE, NEW dt \in {0, 1},
           NEW full \in BOOLEAN,
           NEW k, Becomes(k, s, o, "waitingResponse"), NEW p, Pending(p, k),
           p.ret = k.ret, p.s.state \in Answering \cup {"UPLOAD_BLK_SUBBLOCK_SREQ", "ABORT"},
           p.s.timeoutTimer = 0, Whole(p, k),
           NEW r, r = ended(transmitted(timed(p, 0, full)))
    PROVE  Processed(r, s, o, dt, full)
  <1> DEFINE x == expire_subblock(expire(p, 0), 0)
  <1>1. /\ k.s = s /\ k.od = o /\ p.ret = "waitingResponse" /\ IsCall(p)
        /\ ServerInv(p.s, p.od) /\ p.s.rxNew = FALSE /\ p.s.state # "IDLE"
    BY DEF Becomes, Pending, Answering
  <1>2. /\ Timed(x, p, 0)
        /\ p.s.state \notin {"ABORT", "DOWNLOAD_BLK_SUBBLOCK_REQ"}
           /\ p.s.timeoutTimer + 0 < SDOtimeoutTime => x.s.state = p.s.state
    BY <1>1, Times
  <1>x. x = expire_subblock(expire(p, 0), 0)
    OBVIOUS
  <1> HIDE DEF x
  <1>3. /\ IsCall(x) /\ ServerInv(x.s, x.od) /\ x.od = p.od /\ x.ret = p.ret
        /\ x.s.rxNew = FALSE
    BY <1>2 DEF Timed
  <1>4. x.s.state = p.s.state /\ (x.s.state # "ABORT" => x.s.finished = p.s.finished)
    <2>1. 0 + 0 < SDOtimeoutTime
      BY TimeAssumption
    <2>2. p.s.state # "DOWNLOAD_BLK_SUBBLOCK_REQ"
      BY DEF Answering
    <2>3. CASE p.s.state = "ABORT"
      BY <1>2, <2>3 DEF Timed
    <2>4. CASE p.s.state # "ABORT"
      <3>1. x.s.state = p.s.state
        BY <1>2, <2>1, <2>2, <2>4
      <3> QED  BY <1>2, <2>4, <3>1, Zenon DEF Timed
    <2> QED  BY <2>3, <2>4
  <1>5. /\ full = TRUE => r.s = x.s /\ r.od = x.od
        /\ full = FALSE => Finished(r, x)
    <2>1. Rested(r, x, full)
      BY <1>x, <1>1, <1>3, Rests
    <2> QED  BY <2>1 DEF Rested
  <1>6. Patience \in Nat /\ 2 <= Patience
    BY TimeAssumption
  <1>7. CASE full = TRUE
    <2>1. r.s = x.s /\ r.od = x.od
      BY <1>5, <1>7
    <2>2. Todo(r.s) <= Patience
      <3>1. Todo(x.s) \in 0..Patience
        BY <1>3, TodoBound
      <3> QED  BY <1>6, <2>1, <3>1
    <2>3. WholeStep(r, s, o)
      <3>1. SUFFICES ASSUME NEW m \in Objects, r.od[m] # o[m]
                     PROVE  \/ s.state \in BlockStates \cup {"DOWNLOAD_BLK_SUBBLOCK_REQ"}
                            \/ Len(o[m]) > BUFFER_SIZE - 9
                            \/ /\ r.s.finished = TRUE
                               /\ r.s.state \in {"IDLE", "DOWNLOAD_INITIATE_RSP", "DOWNLOAD_SEGMENT_RSP"}
        BY DEF WholeStep
      <3>2. \/ s.state = "DOWNLOAD_BLK_END_REQ"
            \/ Len(o[m]) > BUFFER_SIZE - 9
            \/ p.s.finished = TRUE /\ p.s.state \in {"DOWNLOAD_INITIATE_RSP", "DOWNLOAD_SEGMENT_RSP"}
        BY <1>1, <1>3, <2>1, <3>1 DEF Whole
      <3>3. CASE s.state = "DOWNLOAD_BLK_END_REQ"
        BY <3>3 DEF BlockStates
      <3>4. CASE p.s.finished = TRUE
                 /\ p.s.state \in {"DOWNLOAD_INITIATE_RSP", "DOWNLOAD_SEGMENT_RSP"}
        <4>1. x.s.state # "ABORT"
          BY <1>4, <3>4
        <4>2. r.s.finished = TRUE
          BY <1>4, <2>1, <3>4, <4>1, Zenon
        <4> QED  BY <1>4, <2>1, <3>4, <4>2
      <3> QED  BY <3>2, <3>3, <3>4
    <2>4. full # FALSE /\ s.rxNew # FALSE
      BY <1>7
    <2> QED  BY <1>3, <2>1, <2>2, <2>3, <2>4, Zenon DEF Processed
  <1>8. CASE full = FALSE
    <2>1. Finished(r, x)
      BY <1>5, <1>8
    <2>2. Todo(r.s) <= Patience - 1 /\ Todo(r.s) <= Patience
      <3>1. Todo(r.s) \in 0..Patience
        BY <2>1, TodoBound DEF Finished
      <3>2. Todo(r.s) \in Nat /\ Todo(r.s) <= Patience
        BY <1>6, <3>1
      <3>3. CASE x.s.state = "ABORT"
        <4>1. Todo(r.s) = 0
          BY <2>1, <3>3, TodoIs DEF Finished
        <4> QED  BY <1>6, <4>1
      <3>4. CASE x.s.state # "ABORT"
        <4>1. Served(x.s) = Todo(x.s) - 1
          BY <1>4, <3>4 DEF Served
        <4>2. Todo(x.s) \in 0..Patience /\ Served(x.s) \in Nat
          BY <1>3, TodoBound
        <4>3. Todo(r.s) <= Served(x.s)
          BY <2>1 DEF Finished
        <4>4. \A a, b, c \in Nat : a <= b - 1 /\ b <= c => a <= c - 1
          OBVIOUS
        <4>5. Todo(x.s) \in Nat /\ Todo(x.s) <= Patience
          BY <1>6, <4>2
        <4>6. Todo(r.s) <= Todo(x.s) - 1
          BY <4>1, <4>3, Zenon
        <4> QED  BY <1>6, <3>2, <4>4, <4>5, <4>6, Zenon
      <3> QED  BY <3>2, <3>3, <3>4
    <2>3. r.od = p.od
      <3>1. x.s.state # "DOWNLOAD_BLK_SUBBLOCK_RSP"
        BY <1>4 DEF Answering
      <3> QED  BY <1>3, <2>1, <3>1, Zenon DEF Finished
    <2>4. WholeStep(r, s, o)
      <3>1. SUFFICES ASSUME NEW m \in Objects, r.od[m] # o[m]
                     PROVE  \/ s.state \in BlockStates \cup {"DOWNLOAD_BLK_SUBBLOCK_REQ"}
                            \/ Len(o[m]) > BUFFER_SIZE - 9
                            \/ /\ r.s.finished = TRUE
                               /\ r.s.state \in {"IDLE", "DOWNLOAD_INITIATE_RSP", "DOWNLOAD_SEGMENT_RSP"}
        BY DEF WholeStep
      <3>2. \/ s.state = "DOWNLOAD_BLK_END_REQ"
            \/ Len(o[m]) > BUFFER_SIZE - 9
            \/ p.s.finished = TRUE /\ p.s.state \in {"DOWNLOAD_INITIATE_RSP", "DOWNLOAD_SEGMENT_RSP"}
        BY <1>1, <2>3, <3>1 DEF Whole
      <3>3. CASE s.state = "DOWNLOAD_BLK_END_REQ"
        BY <3>3 DEF BlockStates
      <3>4. CASE p.s.finished = TRUE
                 /\ p.s.state \in {"DOWNLOAD_INITIATE_RSP", "DOWNLOAD_SEGMENT_RSP"}
        <4>1. x.s.state # "ABORT"
          BY <1>4, <3>4
        <4>2. x.s.finished = TRUE
          BY <1>4, <3>4, <4>1, Zenon
        <4>3. r.s.state = "IDLE" /\ r.s.finished = TRUE
          BY <1>4, <2>1, <3>4, <4>2, Zenon DEF Finished
        <4>4. r.s.state \in {"IDLE", "DOWNLOAD_INITIATE_RSP", "DOWNLOAD_SEGMENT_RSP"}
          BY <4>3
        <4> QED  BY <4>3, <4>4, Zenon
      <3> QED  BY <3>2, <3>3, <3>4
    <2>5. s.rxNew # FALSE
      OBVIOUS
    <2>6. ServerInv(r.s, r.od) /\ r.s.rxNew = FALSE
      BY <2>1, Zenon DEF Finished
    <2> QED  BY <2>2, <2>4, <2>5, <2>6, Zenon DEF Processed
  <1> QED  BY <1>7, <1>8

\* A call without a request.
LEMMA ProcessTimed ==
    ASSUME NEW s, NEW o, ServerInv(s, o), s.rxNew = FALSE, s.state # "IDLE", NEW dt \in {0, 1},
           NEW full \in BOOLEAN, NEW k, Becomes(k, s, o, "waitingResponse"),
           NEW r, r = ended(transmitted(timed(k, dt, full)))
    PROVE  Processed(r, s, o, dt, full)
  <1> DEFINE x == expire_subblock(expire(k, dt), dt)
  <1>1. /\ k.s = s /\ k.od = o /\ k.ret = "waitingResponse" /\ IsCall(k)
        /\ ServerInv(k.s, k.od) /\ k.s.rxNew = FALSE /\ k.s.state # "IDLE"
    BY DEF Becomes
  <1>2. Timed(x, k, dt)
    BY <1>1, Times
  <1>x. x = expire_subblock(expire(k, dt), dt)
    OBVIOUS
  <1> HIDE DEF x
  <1>3. /\ IsCall(x) /\ ServerInv(x.s, x.od) /\ x.od = k.od /\ x.ret = k.ret
        /\ x.s.rxNew = FALSE
    BY <1>2 DEF Timed
  <1>4. Rested(r, x, full)
    BY <1>x, <1>1, <1>3, Rests
  <1>5. /\ Todo(x.s) <= Todo(s)
        /\ x.s.state # "ABORT" => Served(x.s) <= Todo(s) - dt
    BY <1>1, <1>2, TimedPace
  <1>6. Patience \in Nat /\ Todo(s) \in Nat /\ Todo(s) > 0 /\ Todo(s) <= Patience
    <2>1. Patience \in Nat
      BY TimeAssumption
    <2>2. Todo(s) \in 0..Patience /\ Todo(s) > 0
      BY TodoBound
    <2> QED  BY <2>1, <2>2
  <1>7. CASE full = TRUE
    <2>1. r.s = x.s /\ r.od = o
      BY <1>1, <1>3, <1>4, <1>7 DEF Rested
    <2>2. Todo(r.s) \in 0..Patience
      BY <1>3, <2>1, TodoBound
    <2>3. Todo(r.s) <= Todo(s) /\ Todo(r.s) <= Patience
      BY <1>5, <1>6, <2>1, <2>2
    <2>4. WholeStep(r, s, o)
      BY <2>1 DEF WholeStep
    <2>5. full # FALSE
      BY <1>7
    <2> QED  BY <1>1, <1>3, <2>1, <2>3, <2>4, <2>5, Zenon DEF Processed
  <1>8. CASE full = FALSE
    <2>1. Finished(r, x)
      BY <1>4, <1>8 DEF Rested
    <2>2. Todo(r.s) \in Nat
      <3>1. Todo(r.s) \in 0..Patience
        BY <2>1, TodoBound DEF Finished
      <3> QED  BY <1>6, <3>1
    <2>3. Todo(r.s) <= Todo(s) - dt
      <3>1. CASE x.s.state = "ABORT"
        <4>1. Todo(r.s) = 0
          BY <2>1, <3>1, TodoIs DEF Finished
        <4> QED  BY <1>6, <4>1
      <3>2. CASE x.s.state # "ABORT"
        <4>1. Todo(r.s) <= Served(x.s) /\ Served(x.s) <= Todo(s) - dt
          BY <1>5, <2>1, <3>2 DEF Finished
        <4>2. Served(x.s) \in Nat
          BY <1>3, TodoBound
        <4>3. \A a, b, c \in Nat, d \in {0, 1} : a <= b /\ b <= c - d => a <= c - d
          OBVIOUS
        <4> QED  BY <1>6, <2>2, <4>1, <4>2, <4>3, Zenon
      <3> QED  BY <3>1, <3>2
    <2>4. Todo(r.s) <= Todo(s) /\ Todo(r.s) <= Patience
      <3>1. \A a, b, c \in Nat, d \in {0, 1} : a <= b - d /\ b <= c => a <= b /\ a <= c
        OBVIOUS
      <3> QED  BY <1>6, <2>2, <2>3, <3>1, Zenon
    <2>5. WholeStep(r, s, o)
      <3>1. r.od # o => s.state \in BlockStates \cup {"DOWNLOAD_BLK_SUBBLOCK_REQ"}
        <4>1. SUFFICES ASSUME r.od # o
                       PROVE  s.state \in BlockStates \cup {"DOWNLOAD_BLK_SUBBLOCK_REQ"}
          OBVIOUS
        <4>2. x.s.state = "DOWNLOAD_BLK_SUBBLOCK_RSP"
          BY <1>1, <1>3, <2>1, <4>1, Zenon DEF Finished
        <4>3. s.state \in {"DOWNLOAD_BLK_SUBBLOCK_RSP", "DOWNLOAD_BLK_SUBBLOCK_REQ"}
          BY <1>1, <1>2, <4>2 DEF Timed
        <4> QED  BY <4>3 DEF BlockStates
      <3> QED  BY <3>1, Zenon DEF WholeStep
    <2>6. s.rxNew # TRUE
      OBVIOUS
    <2>7. ServerInv(r.s, r.od) /\ r.s.rxNew = FALSE
      BY <2>1, Zenon DEF Finished
    <2> QED  BY <2>3, <2>4, <2>5, <2>6, <2>7, Zenon DEF Processed
  <1> QED  BY <1>7, <1>8

\* CO_SDOserver_process
LEMMA Processes ==
    ASSUME NEW s, NEW o, ServerInv(s, o), NEW nmt \in BOOLEAN, NEW dt \in {0, 1},
           NEW full \in BOOLEAN, NEW r, r = CO_SDOserver_process(s, o, nmt, dt, full)
    PROVE  Processed(r, s, o, dt, full)
  <1> DEFINE k == Begins(s, o)
             p == received(k, nmt)
             d == IF s.rxNew THEN 0 ELSE dt
  <1>1. r = ended(transmitted(timed(p, d, full)))
    BY Zenon DEF CO_SDOserver_process, Begins
  <1>2. Becomes(k, s, o, "waitingResponse")
    BY CallBegins
  <1> HIDE DEF k
  <1>3. Pending(p, k)
    <2>1. IsCall(k) /\ ServerInv(k.s, k.od)
      BY <1>2 DEF Becomes
    <2> QED  BY <2>1, Received
  <1> HIDE DEF p
  <1>4. k.s = s /\ k.od = o /\ k.ret = "waitingResponse"
    BY <1>2 DEF Becomes
  <1>5. CASE p.s.state = "IDLE" /\ p.od = k.od /\ p.ret = "ok_communicationEnd"
    <2>1. timed(p, d, full) = p
      BY <1>5 DEF timed, Waiting
    <2>2. r = p
      BY <1>1, <1>5, <2>1 DEF ended, transmitted, Waiting
    <2>3. ServerInv(r.s, r.od) /\ r.s.rxNew = FALSE
      BY <1>3, <2>2, Zenon DEF Pending
    <2> QED  BY <1>4, <1>5, <2>2, <2>3, ProcessIdle
  <1>6. CASE /\ k.s.rxNew = TRUE /\ p.ret = k.ret
             /\ p.s.state \in Answering \cup {"UPLOAD_BLK_SUBBLOCK_SREQ", "ABORT"}
             /\ p.s.timeoutTimer = 0 /\ Whole(p, k)
    <2>1. s.rxNew = TRUE
      BY <1>4, <1>6, Zenon
    <2>2. d = 0
      BY <2>1, Zenon
    <2>3. r = ended(transmitted(timed(p, 0, full)))
      BY <1>1, <2>2
    <2> QED  BY <1>2, <1>3, <1>6, <2>1, <2>3, ProcessRequest
  <1>7. CASE k.s.rxNew = FALSE /\ p = k /\ k.s.state # "IDLE"
    <2>1. s.rxNew = FALSE /\ s.state # "IDLE"
      BY <1>4, <1>7, Zenon
    <2>2. d = dt
      BY <2>1, Zenon
    <2>3. r = ended(transmitted(timed(k, dt, full)))
      BY <1>1, <1>7, <2>2
    <2> QED  BY <1>2, <2>1, <2>3, ProcessTimed
  <1> QED  BY <1>3, <1>5, <1>6, <1>7, Zenon DEF Pending

-----------------------------------------------------------------------------
(* CO_SDO_receive *)

\* A frame that ends the transfer or changes nothing but the state.
LEMMA ReceiveEnds ==
    ASSUME NEW s, NEW o, ServerInv(s, o), NEW r, r = [s EXCEPT !.state = "IDLE"]
    PROVE  ServerInv(r, o)
  <1>1. s \in Server /\ o \in Dictionary /\ Basic(s, o)
    BY DEF ServerInv, Basic
  <1>2. r \in Server
    BY <1>1, States, ZenonT(60) DEF Server
  <1>3. r.state = "IDLE" /\ r.buf = s.buf /\ r.bufOffsetRd = s.bufOffsetRd
    BY <1>1 DEF Server
  <1>4. Basic(r, o)
    BY <1>1, <1>2, <1>3 DEF Basic
  <1>5. r.state \in Resting
    BY <1>3, Zenon DEF Resting
  <1>6. Phase(r, o) /\ Ticking(r)
    <2> QED  BY <1>5, RestPhase
  <1> QED  BY <1>4, <1>6 DEF ServerInv

\* The same phase of a transfer outside of a sub-block, whatever rxNew is.
LEMMA PhaseOutside ==
    ASSUME NEW v, NEW s, NEW o, Phase(s, o), SameBytes(v, s), v.state = s.state,
           v.block_seqno = s.block_seqno, v.block_blksize = s.block_blksize,
           v.block_noData = s.block_noData,
           s.state \notin {"DOWNLOAD_BLK_SUBBLOCK_REQ", "DOWNLOAD_BLK_SUBBLOCK_RSP"}
    PROVE  Phase(v, o)
  <1>1. /\ v.mux = s.mux /\ v.finished = s.finished /\ v.bufOffsetRd = s.bufOffsetRd
        /\ v.buf = s.buf /\ v.sizeTran = s.sizeTran /\ v.stream = s.stream
    BY DEF SameBytes
  <1>2. Opened(s, o) => Opened(v, o)
    BY <1>1, Zenon DEF Opened, Fresh
  <1>3. Filled(s, o) => Filled(v, o)
    BY <1>1, Zenon DEF Filled, Fresh
  <1>4. Segmented(s, o) => Segmented(v, o)
    BY <1>1, <1>3, Zenon DEF Segmented
  <1>5. Loaded(s, o) => Loaded(v, o)
    BY LoadedData
  <1>6. \A n : Asked(s, n) => Asked(v, n)
    BY <1>1, Zenon DEF Asked
  <1>7. (Sending(s) => Sending(v)) /\ (Sent(s) => Sent(v))
    BY <1>1, <1>6, Zenon DEF Sending, Sent
  <1>8. v.state # "DOWNLOAD_BLK_SUBBLOCK_REQ" /\ v.state # "DOWNLOAD_BLK_SUBBLOCK_RSP"
    OBVIOUS
  <1>9. Downloading(v, o)
    BY <1>1, <1>2, <1>3, <1>4, <1>8, Zenon DEF Phase, Downloading
  <1>10. Uploading(v, o)
    BY <1>5, <1>6, <1>7, Zenon DEF Phase, Uploading
  <1> QED  BY <1>1, <1>9, <1>10, Zenon DEF Phase

\* A frame is kept for CO_SDOserver_process.
LEMMA ReceiveKept ==
    ASSUME NEW s, NEW o, ServerInv(s, o), NEW f \in Heard,
           s.state \notin {"DOWNLOAD_BLK_SUBBLOCK_REQ", "DOWNLOAD_BLK_SUBBLOCK_RSP"},
           NEW r, r = [s EXCEPT !.rx = f, !.rxNew = TRUE]
    PROVE  ServerInv(r, o)
  <1>1. s \in Server /\ Basic(s, o) /\ Phase(s, o) /\ Ticking(s)
    BY DEF ServerInv, Basic
  <1>2. r \in Server
    BY <1>1, ZenonT(60) DEF Server
  <1>3. /\ r.state = s.state /\ r.block_seqno = s.block_seqno
        /\ r.block_blksize = s.block_blksize /\ r.block_noData = s.block_noData
        /\ r.timeoutTimer = s.timeoutTimer
    BY <1>1 DEF Server
  <1>4. SameBytes(r, s)
    BY <1>1, Zenon DEF Server, SameBytes
  <1>5. Basic(r, o)
    BY <1>1, <1>2, <1>4 DEF Basic, SameBytes
  <1>6. Phase(r, o)
    BY <1>1, <1>3, <1>4, PhaseOutside
  <1>7. Ticking(r)
    BY <1>1, <1>3 DEF Ticking
  <1> QED  BY <1>5, <1>6, <1>7 DEF ServerInv

\* The room that a taken segment leaves.
Room(L, q, b, N) ==
    /\ L + 7 <= N /\ (L + 7) + 2 <= N /\ L + 7 >= 7
    /\ q + 1 # b => q + 1 < b
    /\ (L + 7) + 7 * (b - (q + 1)) + 2 <= N

\* The numbers of a segment that is taken.
LEMMA SegmentNumbers ==
    ASSUME NEW L \in Nat, NEW q \in 0..127, NEW b \in Byte, NEW N \in Nat, q < b,
           L + 7 * (b - q) + 2 <= N, q + 1 <= b
    PROVE  Room(L, q, b, N)
  BY DEF Byte, Room

\* The server with a segment that is taken.
LEMMA TypeTakes ==
    ASSUME NEW t \in Server, NEW q \in 0..127, NEW b \in Seq(Byte), NEW n \in Nat,
           NEW c \in BOOLEAN, NEW next \in CO_SDO_state
    PROVE  [t EXCEPT !.block_seqno = q, !.buf = b, !.sizeTran = n, !.finished = c,
                     !.state = next] \in Server
  BY ZenonT(60) DEF Server

\* What a segment leads to: the sub-block goes on, or it has ended.
Segments(r, s, o) ==
    /\ r \in Server /\ r.mux = s.mux /\ r.timeoutTimer = 0
    /\ Len(r.buf) <= BUFFER_SIZE /\ r.bufOffsetRd <= Len(r.buf)
    /\ \/ r.state = "DOWNLOAD_BLK_SUBBLOCK_REQ" /\ Subblock(r, o)
       \/ r.state = "DOWNLOAD_BLK_SUBBLOCK_RSP" /\ SubblockEnd(r, o)

Taken(t, f, q, blksize) ==
    [t EXCEPT !.block_seqno = q, !.buf = @ \o f.bytes, !.sizeTran = @ + 7,
              !.finished = @ \/ f.cmd >= 128,
              !.state = IF f.cmd >= 128 \/ q = blksize
                        THEN "DOWNLOAD_BLK_SUBBLOCK_RSP" ELSE @]

\* The next segment in sequence is taken.
LEMMA TakesNext ==
    ASSUME NEW s \in Server, NEW o, Subblock(s, o), NEW f \in Heard,
           NEW q, q = s.block_seqno + 1, q <= s.block_blksize, q \in 0..127,
           NEW t \in Server, SameBytes(t, s), t.timeoutTimer = 0,
           t.block_seqno = s.block_seqno, t.block_blksize = s.block_blksize,
           t.state = "DOWNLOAD_BLK_SUBBLOCK_REQ", t.rxNew = FALSE,
           NEW r, r = Taken(t, f, q, s.block_blksize)
    PROVE  Segments(r, s, o)
  <1> DEFINE b == s.buf \o f.bytes
             n == s.sizeTran + 7
             c == t.finished \/ f.cmd >= 128
             next == IF f.cmd >= 128 \/ q = s.block_blksize
                     THEN "DOWNLOAD_BLK_SUBBLOCK_RSP" ELSE t.state
             v == [t EXCEPT !.block_seqno = q, !.buf = b, !.sizeTran = n, !.finished = c,
                            !.state = next]
  <1>1. /\ s.buf \in Seq(Byte) /\ s.sizeTran \in Nat /\ Len(s.buf) \in Nat
        /\ s.stream.dataOffset \in Nat /\ s.block_seqno \in 0..127 /\ s.block_blksize \in Byte
    BY ServerFields
  <1>2. f.bytes \in Seq(Byte) /\ Len(f.bytes) = 7
    BY HeardFrame
  <1>3. b \in Seq(Byte) /\ Len(b) = Len(s.buf) + 7
    BY <1>1, <1>2, JoinLength
  <1>4. n \in Nat /\ c \in BOOLEAN /\ next \in CO_SDO_state
    <2>1. n \in Nat
      BY <1>1
    <2>2. next \in CO_SDO_state
      BY States
    <2>3. c \in BOOLEAN
      OBVIOUS
    <2> QED  BY <2>1, <2>2, <2>3
  <1>5. t.finished = FALSE /\ t.buf = s.buf /\ t.sizeTran = s.sizeTran /\ t.mux = s.mux
        /\ t.stream = s.stream /\ t.bufOffsetRd = s.bufOffsetRd
    BY Zenon DEF SameBytes, Subblock
  <1>6. r = v
    BY <1>5, Zenon DEF Taken
  <1>7. \/ next = "DOWNLOAD_BLK_SUBBLOCK_RSP"
        \/ next = "DOWNLOAD_BLK_SUBBLOCK_REQ" /\ c = FALSE /\ q # s.block_blksize
    <2>1. CASE f.cmd >= 128 \/ q = s.block_blksize
      BY <2>1, Zenon
    <2>2. CASE ~(f.cmd >= 128 \/ q = s.block_blksize)
      <3>1. c = FALSE
        BY <1>5, <2>2, ZenonT(60)
      <3> QED  BY <2>2, <3>1, Zenon
    <2> QED  BY <2>1, <2>2
  <1> HIDE DEF b, n, c, next
  <1>8. v \in Server
    BY <1>3, <1>4, TypeTakes
  <1>9. /\ v.buf = b /\ v.sizeTran = n /\ v.block_seqno = q /\ v.state = next
        /\ v.block_blksize = s.block_blksize /\ v.stream = s.stream /\ v.mux = s.mux
        /\ v.bufOffsetRd = s.bufOffsetRd /\ v.timeoutTimer = 0
    BY <1>5 DEF Server
  <1>10. v.finished = c /\ v.rxNew = FALSE
    BY Zenon DEF Server
  <1> HIDE DEF v
  <1>11. /\ s.bufOffsetRd = 0 /\ s.stream.dataOffset + Len(s.buf) = s.sizeTran
         /\ Fresh(s, o) /\ s.block_seqno < s.block_blksize
         /\ Len(s.buf) + 7 * (s.block_blksize - s.block_seqno) + 2 <= BUFFER_SIZE
    BY DEF Subblock, Filled
  <1>12. BUFFER_SIZE \in Nat
    BY BufferAssumption
  <1>13. /\ Len(b) <= BUFFER_SIZE /\ Len(b) + 2 <= BUFFER_SIZE /\ Len(b) >= 7
         /\ q # s.block_blksize => q < s.block_blksize
         /\ Len(b) + 7 * (s.block_blksize - q) + 2 <= BUFFER_SIZE
    <2>1. s.block_seqno + 1 <= s.block_blksize
      OBVIOUS
    <2>2. Room(Len(s.buf), s.block_seqno, s.block_blksize, BUFFER_SIZE)
      BY <1>1, <1>11, <1>12, <2>1, SegmentNumbers, Zenon
    <2> QED  BY <1>3, <2>2, Zenon DEF Room
  <1>14. v.stream.dataOffset + Len(b) = n
    <2>1. \A d, m, l \in Nat : d + (m + l) = (d + m) + l
      OBVIOUS
    <2>2. s.stream.dataOffset + (Len(s.buf) + 7) = (s.stream.dataOffset + Len(s.buf)) + 7
      <3>1. 7 \in Nat
        OBVIOUS
      <3> QED  BY <1>1, <2>1, <3>1, Zenon
    <2> QED  BY <1>3, <1>9, <1>11, <2>2, Zenon DEF n
  <1>15. Filled(v, o)
    BY <1>9, <1>11, <1>13, <1>14, Zenon DEF Filled, Fresh
  <1>16. 0 <= Len(b)
    BY <1>1, <1>3
  <1>17. CASE next = "DOWNLOAD_BLK_SUBBLOCK_RSP"
    <2>1. SubblockEnd(v, o)
      BY <1>9, <1>10, <1>13, <1>15, Zenon DEF SubblockEnd
    <2> QED  BY <1>6, <1>8, <1>9, <1>11, <1>13, <1>16, <1>17, <2>1, Zenon DEF Segments
  <1>18. CASE next = "DOWNLOAD_BLK_SUBBLOCK_REQ" /\ c = FALSE /\ q # s.block_blksize
    <2>1. Subblock(v, o)
      BY <1>9, <1>10, <1>13, <1>15, <1>18, Zenon DEF Subblock
    <2> QED  BY <1>6, <1>8, <1>9, <1>11, <1>13, <1>16, <1>18, <2>1, Zenon DEF Segments
  <1> QED  BY <1>7, <1>17, <1>18

\* What a segment leads to belongs to the invariant.
LEMMA SegmentsKeep ==
    ASSUME NEW s, NEW o, ServerInv(s, o), s.mux \in Objects, NEW r, Segments(r, s, o)
    PROVE  ServerInv(r, o)
  <1>1. o \in Dictionary
    BY DEF ServerInv, Basic
  <1>2. Basic(r, o)
    BY <1>1, Zenon DEF Segments, Basic
  <1>3. r.mux \in Objects
    BY Zenon DEF Segments
  <1>4. Phase(r, o)
    <2>1. \/ r.state = "DOWNLOAD_BLK_SUBBLOCK_REQ" /\ Subblock(r, o)
          \/ r.state = "DOWNLOAD_BLK_SUBBLOCK_RSP" /\ SubblockEnd(r, o)
      BY Zenon DEF Segments
    <2> QED  BY <1>3, <2>1, DownloadPhase
  <1>5. Ticking(r)
    <2>1. r.timeoutTimer = 0
      BY Zenon DEF Segments
    <2>2. 0 < SDOtimeoutTime
      BY TimeAssumption
    <2> QED  BY <2>1, <2>2, Zenon DEF Ticking
  <1> QED  BY <1>2, <1>4, <1>5 DEF ServerInv

\* A server whose timers start again.
Restarted(t, s) ==
    /\ t \in Server /\ SameBytes(t, s) /\ t.state = s.state /\ t.timeoutTimer = 0
    /\ t.block_seqno = s.block_seqno /\ t.block_blksize = s.block_blksize
    /\ t.rxNew = s.rxNew

\* Every segment starts them.
LEMMA Restarts ==
    ASSUME NEW s \in Server, NEW t,
           t = [s EXCEPT !.timeoutTimer = 0, !.block_timeoutTimer = 0]
    PROVE  Restarted(t, s)
  <1>1. 0 \in 0..SDOtimeoutTime /\ 0 \in 0..block_SDOtimeoutTime
    BY TimeAssumption
  <1>2. t \in Server
    BY <1>1, ZenonT(60) DEF Server
  <1>3. /\ t.state = s.state /\ t.timeoutTimer = 0 /\ t.block_seqno = s.block_seqno
        /\ t.block_blksize = s.block_blksize
    BY DEF Server
  <1>4. t.rxNew = s.rxNew /\ SameBytes(t, s)
    BY Zenon DEF Server, SameBytes
  <1> QED  BY <1>2, <1>3, <1>4, Zenon DEF Restarted

\* The server in another state.
LEMMA TypeState ==
    ASSUME NEW t \in Server, NEW x \in CO_SDO_state
    PROVE  [t EXCEPT !.state = x] \in Server
  BY ZenonT(60) DEF Server

\* A segment that does not follow the last one: the sub-block goes on, or the
\* server has the client send again what is missing.
LEMMA Misses ==
    ASSUME NEW s, NEW o, Basic(s, o), Subblock(s, o), NEW t, Restarted(t, s),
           s.state = "DOWNLOAD_BLK_SUBBLOCK_REQ",
           NEW r, r = t \/ r = [t EXCEPT !.state = "DOWNLOAD_BLK_SUBBLOCK_RSP"]
    PROVE  Segments(r, s, o)
  <1>1. t \in Server /\ t.state = "DOWNLOAD_BLK_SUBBLOCK_REQ" /\ t.timeoutTimer = 0
    BY Zenon DEF Restarted
  <1>2. r \in Server
    <2>1. "DOWNLOAD_BLK_SUBBLOCK_RSP" \in CO_SDO_state
      BY States
    <2>2. [t EXCEPT !.state = "DOWNLOAD_BLK_SUBBLOCK_RSP"] \in Server
      BY <1>1, <2>1, TypeState
    <2> QED  BY <1>1, <2>2, Zenon
  <1>3. /\ r.timeoutTimer = 0 /\ r.block_seqno = t.block_seqno
        /\ r.block_blksize = t.block_blksize
        /\ r.state \in {"DOWNLOAD_BLK_SUBBLOCK_REQ", "DOWNLOAD_BLK_SUBBLOCK_RSP"}
    BY <1>1 DEF Server
  <1>4. r.rxNew = t.rxNew /\ SameBytes(r, t)
    BY <1>1, ZenonT(60) DEF Server, SameBytes
  <1>5. /\ SameBytes(r, s) /\ r.block_seqno = s.block_seqno
        /\ r.block_blksize = s.block_blksize /\ r.rxNew = s.rxNew
    BY <1>3, <1>4, Zenon DEF Restarted, SameBytes
  <1>6. Filled(r, o)
    BY <1>5, Zenon DEF Subblock, Filled, Fresh, SameBytes
  <1>7. r.finished = FALSE /\ r.rxNew = FALSE
    BY <1>5, Zenon DEF Subblock, SameBytes
  <1>8. Subblock(r, o)
    BY <1>5, <1>6, <1>7, Zenon DEF Subblock, SameBytes
  <1>9. SubblockEnd(r, o)
    BY <1>6, <1>7, Zenon DEF SubblockEnd
  <1>10. Len(r.buf) <= BUFFER_SIZE /\ r.bufOffsetRd <= Len(r.buf) /\ r.mux = s.mux
    BY <1>5, Zenon DEF Basic, SameBytes
  <1> QED  BY <1>2, <1>3, <1>8, <1>9, <1>10, Zenon DEF Segments

\* receive_segment
LEMMA ReceivesSegment ==
    ASSUME NEW s, NEW o, ServerInv(s, o), s.state = "DOWNLOAD_BLK_SUBBLOCK_REQ",
           NEW f \in Heard, NEW r, r = receive_segment(s, f)
    PROVE  ServerInv(r, o)
  <1> DEFINE q == bits(f.cmd, 0, 7)
             t == [s EXCEPT !.timeoutTimer = 0, !.block_timeoutTimer = 0]
  <1>1. s \in Server /\ Basic(s, o) /\ Phase(s, o)
    BY DEF ServerInv, Basic
  <1>2. Subblock(s, o)
    BY <1>1 DEF Phase, Downloading
  <1>3. s.mux \in Objects
    BY <1>1 DEF Phase, Resting
  <1>4. q \in 0..127
    BY HeardFrame, BitFields
  <1>5. Restarted(t, s)
    BY <1>1, Restarts
  <1> DEFINE taken == Taken(t, f, q, s.block_blksize)
             missed == [t EXCEPT !.state = "DOWNLOAD_BLK_SUBBLOCK_RSP"]
  <1>6. \/ r = s
        \/ q <= s.block_blksize /\ q = s.block_seqno + 1 /\ r = taken
        \/ r = missed
        \/ r = t
    BY Zenon DEF receive_segment, Taken
  <1>7. CASE q <= s.block_blksize /\ q = s.block_seqno + 1 /\ r = taken
    <2>1. r = taken
      BY <1>7
    <2> HIDE DEF q, t
    <2>2. /\ t \in Server /\ SameBytes(t, s) /\ t.timeoutTimer = 0
          /\ t.block_seqno = s.block_seqno /\ t.block_blksize = s.block_blksize
          /\ t.state = "DOWNLOAD_BLK_SUBBLOCK_REQ" /\ t.rxNew = FALSE
      BY <1>2, <1>5, Zenon DEF Restarted, Subblock
    <2>3. Segments(r, s, o)
      BY <1>1, <1>2, <1>4, <1>7, <2>1, <2>2, TakesNext
    <2> QED  BY <1>3, <2>3, SegmentsKeep
  <1>8. CASE r = missed \/ r = t
    <2> HIDE DEF t
    <2>1. r = t \/ r = [t EXCEPT !.state = "DOWNLOAD_BLK_SUBBLOCK_RSP"]
      BY <1>8, Zenon
    <2> HIDE DEF missed
    <2>2. Segments(r, s, o)
      BY <1>1, <1>2, <1>5, <2>1, Misses
    <2> QED  BY <1>3, <2>2, SegmentsKeep
  <1> QED  BY <1>6, <1>7, <1>8, Zenon

\* CO_SDO_receive
LEMMA Receives ==
    ASSUME NEW s, NEW o, ServerInv(s, o), NEW f \in Heard, NEW r, r = CO_SDO_receive(s, f)
    PROVE  ServerInv(r, o)
  <1>1. s \in Server
    BY DEF ServerInv, Basic
  <1>2. s.rxNew \in BOOLEAN
    BY <1>1, Zenon DEF Server
  <1>3. CASE f.cmd = 128
    <2>1. r = [s EXCEPT !.state = "IDLE"]
      BY <1>3 DEF CO_SDO_receive
    <2> QED  BY <2>1, ReceiveEnds
  <1>4. CASE f.cmd # 128 /\ s.rxNew
    <2>1. r = s
      BY <1>4, Zenon DEF CO_SDO_receive
    <2> QED  BY <2>1
  <1>5. CASE f.cmd = 161 /\ ~s.rxNew /\ s.state = "UPLOAD_BLK_END_CRSP"
    <2>1. r = [s EXCEPT !.state = "IDLE"]
      BY <1>5 DEF CO_SDO_receive
    <2> QED  BY <2>1, ReceiveEnds
  <1>6. CASE f.cmd # 128 /\ ~s.rxNew /\ s.state = "DOWNLOAD_BLK_SUBBLOCK_REQ"
    <2>1. r = receive_segment(s, f)
      BY <1>6 DEF CO_SDO_receive
    <2> QED  BY <1>6, <2>1, ReceivesSegment
  <1>7. CASE f.cmd # 128 /\ ~s.rxNew /\ s.state = "DOWNLOAD_BLK_SUBBLOCK_RSP"
    <2>1. r = s
      BY <1>7 DEF CO_SDO_receive
    <2> QED  BY <2>1
  <1>8. CASE /\ f.cmd # 128 /\ ~s.rxNew
             /\ ~(f.cmd = 161 /\ s.state = "UPLOAD_BLK_END_CRSP")
             /\ s.state \notin {"DOWNLOAD_BLK_SUBBLOCK_REQ", "DOWNLOAD_BLK_SUBBLOCK_RSP"}
    <2>1. r = [s EXCEPT !.rx = f, !.rxNew = TRUE]
      BY <1>8 DEF CO_SDO_receive
    <2> QED  BY <1>8, <2>1, ReceiveKept
  <1>9. f.cmd # 128 /\ ~s.rxNew =>
          \/ f.cmd = 161 /\ s.state = "UPLOAD_BLK_END_CRSP"
          \/ s.state \in {"DOWNLOAD_BLK_SUBBLOCK_REQ", "DOWNLOAD_BLK_SUBBLOCK_RSP"}
          \/ /\ ~(f.cmd = 161 /\ s.state = "UPLOAD_BLK_END_CRSP")
             /\ s.state \notin {"DOWNLOAD_BLK_SUBBLOCK_REQ", "DOWNLOAD_BLK_SUBBLOCK_RSP"}
    OBVIOUS
  <1> QED  BY <1>3, <1>4, <1>5, <1>6, <1>7, <1>8, <1>9, Zenon
-----------------------------------------------------------------------------
(* The first state: what the transfers before have left behind *)

\* A server that was never used.
LEMMA NeverUsed == ServerInv(InitServer, InitialOd)
  <1>1. InitServer \in Server
    <2>1. [attribute |-> {}, dataLength |-> 0, dataOffset |-> 0] \in Stream
      BY DEF Stream
    <2>2. <<0, 0>> \in Nat \X Nat /\ <<>> \in Seq(Byte) /\ "IDLE" \in CO_SDO_state
      BY States
    <2>3. /\ 0 \in 0..SDOtimeoutTime /\ 0 \in 0..block_SDOtimeoutTime /\ 0 \in 0..127
          /\ 0 \in Byte /\ 0 \in 0..7
      BY TimeAssumption DEF Byte
    <2> QED  BY <2>1, <2>2, <2>3, NoFrame, Zenon DEF InitServer, Server
  <1>2. InitialOd \in Dictionary
    BY InitialObjects DEF Dictionary
  <1>3. /\ InitServer.state = "IDLE" /\ InitServer.bufOffsetRd = 0 /\ InitServer.buf = <<>>
    BY DEF InitServer
  <1>4. Basic(InitServer, InitialOd)
    <2>1. Len(InitServer.buf) = 0
      BY <1>3
    <2>2. BUFFER_SIZE \in Nat
      BY BufferAssumption
    <2>3. 0 <= BUFFER_SIZE /\ 0 <= 0
      BY <2>2
    <2> QED  BY <1>1, <1>2, <1>3, <2>1, <2>3, Zenon DEF Basic
  <1>5. InitServer.state \in Resting
    BY <1>3, Zenon DEF Resting
  <1>6. Phase(InitServer, InitialOd) /\ Ticking(InitServer)
    BY <1>5, RestPhase
  <1> QED  BY <1>4, <1>6 DEF ServerInv
Pairs == {p \in [s : Server, od : Dictionary] : ServerInv(p.s, p.od)}
PairOf(k) == [s |-> k.s, od |-> k.od]

\* A request that a server receives and answers.
Answer(k, f) == CO_SDOserver_process(CO_SDO_receive(k.s, f), k.od, TRUE, 0, FALSE)

\* It belongs to the invariant.
LEMMA AnswerKept ==
    ASSUME NEW p, ServerInv(p.s, p.od), NEW f \in Heard
    PROVE  PairOf(Answer(p, f)) \in Pairs
  <1> DEFINE v == CO_SDO_receive(p.s, f)
             k == CO_SDOserver_process(v, p.od, TRUE, 0, FALSE)
  <1>1. ServerInv(v, p.od)
    BY Receives
  <1> HIDE DEF v
  <1>2. Processed(k, v, p.od, 0, FALSE)
    BY <1>1, Processes
  <1>3. k = Answer(p, f)
    BY Zenon DEF Answer, v
  <1> HIDE DEF k
  <1>4. ServerInv(k.s, k.od)
    BY <1>2, Zenon DEF Processed
  <1>5. k.s \in Server /\ k.od \in Dictionary
    BY <1>4 DEF ServerInv, Basic
  <1>6. PairOf(k) \in Pairs
    BY <1>4, <1>5 DEF Pairs, PairOf
  <1> QED  BY <1>3, <1>6

Start == [s |-> InitServer, od |-> InitialOd, ab |-> "NONE", ret |-> "", tx |-> <<>>]

\* What After does with the requests of h.
Passes(g, h) == [i \in 0..Len(h) |-> IF i = 0 THEN Start ELSE Answer(g[i - 1], h[i])]

\* The function that After defines.
LEMMA AfterIs ==
    ASSUME NEW h
    PROVE  After(h) = (CHOOSE g : g = Passes(g, h))[Len(h)]
  BY Zenon DEF After, Passes, Start, Answer

\* It exists.
LEMMA PassesExist ==
    ASSUME NEW h \in Seq(Heard)
    PROVE  \E g : g = Passes(g, h)
  <1> DEFINE n == Len(h)
             step == [i \in 1..n |-> [p \in Pairs |-> PairOf(Answer(p, h[i]))]]
             a == [s |-> InitServer, od |-> InitialOd]
  <1>1. n \in Nat /\ \A i \in 1..n : h[i] \in Heard
    BY LenProperties, ElementOfSeq
  <1>2. a \in Pairs
    <2>1. InitServer \in Server /\ InitialOd \in Dictionary
      BY NeverUsed DEF ServerInv, Basic
    <2> QED  BY <2>1, NeverUsed DEF Pairs
  <1>3. step \in [1..n -> [Pairs -> Pairs]]
    <2>1. ASSUME NEW i \in 1..n, NEW p \in Pairs
          PROVE  PairOf(Answer(p, h[i])) \in Pairs
      <3>1. ServerInv(p.s, p.od)
        BY DEF Pairs
      <3> QED  BY <1>1, <3>1, AnswerKept
    <2> QED  BY <2>1
  <1> HIDE DEF n, step, a
  <1>4. PICK q \in [0..n -> Pairs] : IsLoop(q, n, a, step)
    BY <1>1, <1>2, <1>3, LoopExists
  <1> DEFINE g == [i \in 0..n |-> IF i = 0 THEN Start ELSE Answer(q[i - 1], h[i])]
  <1>5. q[0] = a /\ \A i \in 1..n : q[i] = step[i][q[i - 1]]
    BY <1>4 DEF IsLoop
  <1>6. ASSUME NEW j \in 0..n
        PROVE  g[j].s = q[j].s /\ g[j].od = q[j].od
    <2>1. CASE j = 0
      <3>1. g[j] = Start
        BY <2>1
      <3> HIDE DEF g
      <3>2. Start.s = InitServer /\ Start.od = InitialOd
        BY Zenon DEF Start
      <3>3. a.s = InitServer /\ a.od = InitialOd
        BY Zenon DEF a
      <3> QED  BY <1>5, <2>1, <3>1, <3>2, <3>3, Zenon
    <2>2. CASE j # 0
      <3>1. j \in 1..n /\ j - 1 \in 0..n
        BY <1>1, <2>2
      <3>2. g[j] = Answer(q[j - 1], h[j])
        BY <2>2
      <3>3. q[j - 1] \in Pairs
        BY <1>4, <3>1
      <3>4. q[j] = PairOf(Answer(q[j - 1], h[j]))
        <4>1. q[j] = step[j][q[j - 1]]
          BY <1>5, <3>1
        <4> HIDE DEF g
        <4> QED  BY <3>1, <3>3, <4>1 DEF step
      <3> HIDE DEF g
      <3>5. q[j].s = Answer(q[j - 1], h[j]).s /\ q[j].od = Answer(q[j - 1], h[j]).od
        BY <3>4 DEF PairOf
      <3> QED  BY <3>2, <3>5, Zenon
    <2> QED  BY <2>1, <2>2
  <1>7. ASSUME NEW i \in 0..n
        PROVE  g[i] = IF i = 0 THEN Start ELSE Answer(g[i - 1], h[i])
    <2>1. CASE i = 0
      BY <2>1
    <2>2. CASE i # 0
      <3>1. i - 1 \in 0..n
        BY <1>1, <2>2
      <3>2. g[i - 1].s = q[i - 1].s /\ g[i - 1].od = q[i - 1].od
        BY <1>6, <3>1
      <3>3. g[i] = Answer(q[i - 1], h[i])
        BY <2>2
      <3> HIDE DEF g
      <3>4. Answer(g[i - 1], h[i]) = Answer(q[i - 1], h[i])
        BY <3>2, Zenon DEF Answer
      <3> QED  BY <2>2, <3>3, <3>4, Zenon
    <2> QED  BY <2>1, <2>2
  <1>8. DOMAIN g = 0..n /\ g = [i \in 0..n |-> g[i]]
    OBVIOUS
  <1> HIDE DEF g
  <1>9. g = [i \in 0..n |-> IF i = 0 THEN Start ELSE Answer(g[i - 1], h[i])]
    BY <1>7, <1>8, Zenon
  <1> QED  BY <1>9, Zenon DEF Passes, n

\* Whatever requests a server has answered, the next transfer finds it in the
\* invariant.
LEMMA AnsweredBefore ==
    ASSUME NEW h \in Histories
    PROVE  ServerInv(After(h).s, After(h).od)
  <1> DEFINE n == Len(h)
             run == CHOOSE g : g = Passes(g, h)
             pair == [i \in 0..n |-> PairOf(run[i])]
  <1>1. h \in Seq(Heard)
    BY FrameAssumption
  <1>2. n \in Nat /\ \A i \in 1..n : h[i] \in Heard
    BY <1>1, LenProperties, ElementOfSeq
  <1>3. run = Passes(run, h)
    <2>1. \E g : g = Passes(g, h)
      BY <1>1, PassesExist
    <2> QED  BY <2>1, Zenon
  <1>4. After(h) = run[n]
    BY AfterIs, Zenon
  <1> HIDE DEF run
  <1>5. \A i \in 0..n : run[i] = IF i = 0 THEN Start ELSE Answer(run[i - 1], h[i])
    <2>1. \A i \in 0..n : Passes(run, h)[i] = IF i = 0 THEN Start ELSE Answer(run[i - 1], h[i])
      BY Zenon DEF Passes, n
    <2> QED  BY <1>3, <2>1, Zenon
  <1> HIDE DEF n
  <1>6. pair[0] \in Pairs
    <2>1. 0 \in 0..n
      BY <1>2
    <2>2. run[0] = Start
      BY <1>5, <2>1
    <2>3. pair[0] = [s |-> InitServer, od |-> InitialOd]
      <3>1. pair[0] = PairOf(run[0])
        BY <2>1
      <3>2. PairOf(Start) = [s |-> InitServer, od |-> InitialOd]
        BY Zenon DEF PairOf, Start
      <3> HIDE DEF pair
      <3> QED  BY <2>2, <3>1, <3>2, Zenon
    <2>4. InitServer \in Server /\ InitialOd \in Dictionary
      BY NeverUsed DEF ServerInv, Basic
    <2> HIDE DEF pair
    <2> QED  BY <2>3, <2>4, NeverUsed DEF Pairs
  <1>7. ASSUME NEW i \in 1..n, pair[i - 1] \in Pairs
        PROVE  pair[i] \in Pairs
    <2>1. i \in 0..n /\ i - 1 \in 0..n /\ i # 0 /\ h[i] \in Heard
      BY <1>2
    <2>2. run[i] = Answer(run[i - 1], h[i])
      BY <1>5, <2>1
    <2>3. pair[i - 1] = PairOf(run[i - 1]) /\ pair[i] = PairOf(run[i])
      BY <2>1
    <2> HIDE DEF pair
    <2>4. ServerInv(run[i - 1].s, run[i - 1].od)
      BY <1>7, <2>3 DEF Pairs, PairOf
    <2>5. PairOf(Answer(run[i - 1], h[i])) \in Pairs
      BY <2>1, <2>4, AnswerKept
    <2> QED  BY <2>2, <2>3, <2>5, Zenon
  <1> HIDE DEF pair
  <1>8. \A i \in 0..n : pair[i] \in Pairs
    BY <1>2, <1>6, <1>7, LoopInvariant
  <1>9. pair[n] = PairOf(run[n]) /\ pair[n] \in Pairs
    BY <1>2, <1>8 DEF pair
  <1>10. ServerInv(run[n].s, run[n].od)
    BY <1>9 DEF Pairs, PairOf
  <1> QED  BY <1>4, <1>10, Zenon
-----------------------------------------------------------------------------
(* The invariant and the steps of the specification *)

\* What a server without a client still takes; a frame that waits for
\* CO_SDOserver_process starts it anew.
Rest(s) == IF s.rxNew = TRUE THEN Patience ELSE Todo(s)

Inv ==
    /\ client \in DOMAIN Clients /\ over \in BOOLEAN
    /\ ServerInv(SDO, od)
    /\ waited \in 0..Patience /\ (over = FALSE => waited = 0)
    /\ waited + Rest(SDO) <= Patience

\* It never takes longer than Patience.
LEMMA RestBound ==
    ASSUME NEW s, NEW o, ServerInv(s, o)
    PROVE  Rest(s) \in 0..Patience
  <1>1. Patience \in Nat
    BY TimeAssumption
  <1>2. Todo(s) \in 0..Patience
    BY TodoBound
  <1>3. CASE s.rxNew = TRUE
    <2>1. Rest(s) = Patience
      BY <1>3, Zenon DEF Rest
    <2> QED  BY <1>1, <2>1
  <1>4. CASE s.rxNew # TRUE
    <2>1. Rest(s) = Todo(s)
      BY <1>4, Zenon DEF Rest
    <2> QED  BY <1>2, <2>1, Zenon
  <1> QED  BY <1>3, <1>4

\* The invariant holds at first.
LEMMA InitInv ==
    ASSUME Init
    PROVE  Inv
  <1>1. client \in DOMAIN Clients /\ over = FALSE /\ waited = 0
    BY DEF Init
  <1>2. ServerInv(SDO, od)
    <2>1. PICK h \in Histories : SDO = After(h).s /\ od = After(h).od
      BY Zenon DEF Init
    <2>2. ServerInv(After(h).s, After(h).od)
      BY AnsweredBefore
    <2> QED  BY <2>1, <2>2, Zenon
  <1>3. Rest(SDO) \in 0..Patience /\ Patience \in Nat
    BY <1>2, RestBound, TimeAssumption
  <1>4. waited \in 0..Patience /\ waited + Rest(SDO) <= Patience
    BY <1>1, <1>3
  <1> QED  BY <1>1, <1>2, <1>4, Zenon DEF Inv

\* A frame is received.
LEMMA ReceiveInv ==
    ASSUME Inv, Receive
    PROVE  Inv'
  <1>1. PICK f \in Clients[client] : SDO' = CO_SDO_receive(SDO, f)
    BY Zenon DEF Receive
  <1>2. f \in Heard
    BY DEF Inv, Heard
  <1>3. client' = client /\ od' = od /\ waited' = waited /\ over = FALSE
    <2>1. over \in BOOLEAN /\ ~over
      BY Zenon DEF Inv, Receive
    <2>2. over = FALSE
      BY <2>1, Zenon
    <2> QED  BY <2>2, Zenon DEF Receive
  <1>4. ServerInv(SDO', od')
    <2>1. ServerInv(SDO, od)
      BY Zenon DEF Inv
    <2> QED  BY <1>1, <1>2, <1>3, <2>1, Receives
  <1>5. waited = 0
    BY <1>3, Zenon DEF Inv
  <1>6. Rest(SDO') \in 0..Patience /\ Patience \in Nat
    BY <1>4, RestBound, TimeAssumption
  <1>7. waited' \in 0..Patience /\ waited' + Rest(SDO') <= Patience /\ waited' = 0
    BY <1>3, <1>5, <1>6
  <1>8. over' \in BOOLEAN
    <2>1. over' = (over \/ (SDO.state # "IDLE" /\ SDO'.state = "IDLE"))
      BY Zenon DEF Receive, Ends
    <2> QED  BY <2>1, Zenon
  <1>9. client' \in DOMAIN Clients
    BY <1>3, Zenon DEF Inv
  <1> QED  BY <1>4, <1>7, <1>8, <1>9, Zenon DEF Inv

\* What every call of the server does.
Called(dt, full) ==
    /\ \E r : SDO' = r.s /\ od' = r.od /\ Processed(r, SDO, od, dt, full)
    /\ client' = client /\ over' \in BOOLEAN /\ (over' = FALSE => over = FALSE)

\* It is CO_SDOserver_process.
LEMMA Calls ==
    ASSUME Inv, NEW nmt \in BOOLEAN, NEW dt \in {0, 1}, NEW full \in BOOLEAN,
           Call(nmt, dt, full)
    PROVE  Called(dt, full)
  <1> DEFINE r == CO_SDOserver_process(SDO, od, nmt, dt, full)
  <1>1. SDO' = r.s /\ od' = r.od
    BY Zenon DEF Call
  <1>2. ServerInv(SDO, od)
    BY Zenon DEF Inv
  <1>3. Processed(r, SDO, od, dt, full)
    BY <1>2, Processes
  <1> HIDE DEF r
  <1>4. client' = client
    BY Zenon DEF Call
  <1>5. over' = (over \/ (SDO.state # "IDLE" /\ SDO'.state = "IDLE"))
    BY Zenon DEF Call, Ends
  <1>6. over' \in BOOLEAN /\ (over' = FALSE => over = FALSE)
    <2>1. over \in BOOLEAN
      BY Zenon DEF Inv
    <2> QED  BY <1>5, <2>1, Zenon
  <1> QED  BY <1>1, <1>3, <1>4, <1>6, Zenon DEF Called

\* A call after which the counter stands where it stood.
LEMMA QuickCall ==
    ASSUME Inv, NEW dt, NEW full, Called(dt, full), waited' = waited
    PROVE  Inv'
  <1>1. PICK r : SDO' = r.s /\ od' = r.od /\ Processed(r, SDO, od, dt, full)
    BY Zenon DEF Called
  <1>2. client' \in DOMAIN Clients /\ over' \in BOOLEAN /\ (over' = FALSE => waited' = 0)
    BY Zenon DEF Called, Inv
  <1>3. ServerInv(SDO', od') /\ Rest(SDO') = Todo(SDO') /\ SDO'.rxNew = FALSE
    <2>1. ServerInv(r.s, r.od) /\ r.s.rxNew = FALSE
      BY <1>1, Zenon DEF Processed
    <2> QED  BY <1>1, <2>1, Zenon DEF Rest
  <1>4. Rest(SDO) \in 0..Patience /\ Todo(SDO') \in 0..Patience /\ Patience \in Nat
    <2>1. ServerInv(SDO, od)
      BY Zenon DEF Inv
    <2>2. Rest(SDO) \in 0..Patience
      BY <2>1, RestBound
    <2>3. Rest(SDO') \in 0..Patience
      BY <1>3, RestBound
    <2> QED  BY <1>3, <2>2, <2>3, TimeAssumption, Zenon
  <1>5. waited \in 0..Patience /\ waited + Rest(SDO) <= Patience
    BY Zenon DEF Inv
  <1>6. waited + Todo(SDO') <= Patience
    <2>1. CASE SDO.rxNew = TRUE
      <3>1. Rest(SDO) = Patience
        BY <2>1, Zenon DEF Rest
      <3> QED  BY <1>4, <1>5, <3>1
    <2>2. CASE SDO.rxNew = FALSE
      <3>1. Rest(SDO) = Todo(SDO)
        BY <2>2, Zenon DEF Rest
      <3>2. Todo(SDO') <= Todo(SDO)
        BY <1>1, <2>2, Zenon DEF Processed
      <3> QED  BY <1>4, <1>5, <3>1, <3>2
    <2>3. SDO.rxNew \in BOOLEAN
      <3>1. SDO \in Server
        BY DEF Inv, ServerInv, Basic
      <3> QED  BY <3>1, ServerFlags
    <2> QED  BY <2>1, <2>2, <2>3, Zenon
  <1>7. waited' \in 0..Patience /\ waited' + Rest(SDO') <= Patience
    BY <1>3, <1>5, <1>6, Zenon
  <1> QED  BY <1>2, <1>3, <1>7, Zenon DEF Inv

\* A call after a tick.
LEMMA TickInv ==
    ASSUME Inv, Tick
    PROVE  Inv'
  <1>1. Called(1, FALSE)
    BY Calls DEF Tick
  <1>2. PICK r : SDO' = r.s /\ od' = r.od /\ Processed(r, SDO, od, 1, FALSE)
    BY <1>1, Zenon DEF Called
  <1>3. /\ client' \in DOMAIN Clients /\ over' \in BOOLEAN /\ (over' = FALSE => over = FALSE)
        /\ over \in BOOLEAN
    BY <1>1, Zenon DEF Called, Inv
  <1>4. ServerInv(SDO', od') /\ Rest(SDO') = Todo(SDO')
    <2>1. ServerInv(r.s, r.od) /\ r.s.rxNew = FALSE
      BY <1>2, Zenon DEF Processed
    <2> QED  BY <1>2, <2>1, Zenon DEF Rest
  <1>5. ServerInv(SDO, od) /\ Patience \in Nat /\ SDO.rxNew \in BOOLEAN
    <2>1. SDO \in Server
      BY DEF Inv, ServerInv, Basic
    <2>2. SDO.rxNew \in BOOLEAN
      BY <2>1, ServerFlags
    <2> QED  BY <2>2, TimeAssumption, Zenon DEF Inv
  <1>6. Rest(SDO) \in 0..Patience /\ Rest(SDO') \in 0..Patience
    BY <1>4, <1>5, RestBound
  <1>7. waited \in 0..Patience /\ waited + Rest(SDO) <= Patience
    BY Zenon DEF Inv
  <1>8. CASE over = FALSE
    <2>1. waited' = 0
      BY <1>8, Zenon DEF Tick
    <2>2. waited' \in 0..Patience /\ waited' + Rest(SDO') <= Patience
      BY <1>5, <1>6, <2>1
    <2> QED  BY <1>3, <1>4, <2>1, <2>2, Zenon DEF Inv
  <1>9. CASE over = TRUE
    <2>1. waited' = Lowest(waited + 1, Patience)
      BY <1>9, Zenon DEF Tick
    <2>2. waited' \in 0..Patience /\ waited' <= waited + 1
      BY <1>5, <1>7, <2>1 DEF Lowest
    <2>3. waited' + Rest(SDO') <= Patience
      <3>1. CASE SDO.rxNew = TRUE
        <4>1. Rest(SDO) = Patience
          BY <3>1, Zenon DEF Rest
        <4>2. Todo(SDO') <= Patience - 1
          BY <1>2, <3>1, Zenon DEF Processed
        <4> QED  BY <1>4, <1>5, <1>6, <1>7, <2>2, <4>1, <4>2
      <3>2. CASE SDO.rxNew = FALSE /\ SDO.state # "IDLE"
        <4>1. Rest(SDO) = Todo(SDO)
          BY <3>2, Zenon DEF Rest
        <4>2. Todo(SDO') <= Todo(SDO) - 1
          BY <1>2, <3>2, Zenon DEF Processed
        <4> QED  BY <1>4, <1>5, <1>6, <1>7, <2>2, <4>1, <4>2
      <3>3. CASE SDO.rxNew = FALSE /\ SDO.state = "IDLE"
        <4>1. Todo(SDO) = 0
          BY <3>3, TodoIs
        <4>2. Todo(SDO') <= Todo(SDO)
          BY <1>2, <3>3, Zenon DEF Processed
        <4> QED  BY <1>4, <1>5, <1>6, <2>2, <4>1, <4>2
      <3> QED  BY <1>5, <3>1, <3>2, <3>3, Zenon
    <2>4. over' = FALSE => waited' = 0
      BY <1>3, <1>9, Zenon
    <2> QED  BY <1>3, <1>4, <2>2, <2>3, <2>4, Zenon DEF Inv
  <1> QED  BY <1>3, <1>8, <1>9, Zenon

\* The client is not heard of again.
LEMMA SilentInv ==
    ASSUME Inv, FallSilent
    PROVE  Inv'
  <1>1. over' = TRUE /\ client' = client /\ SDO' = SDO /\ od' = od /\ waited' = waited
    BY Zenon DEF FallSilent
  <1>2. ServerInv(SDO', od') /\ Rest(SDO') = Rest(SDO)
    BY <1>1, Zenon DEF Inv
  <1> QED  BY <1>1, <1>2, Zenon DEF Inv

\* Every step keeps the invariant.
LEMMA StepInv ==
    ASSUME Inv, [Next]_vars
    PROVE  Inv'
  <1>1. CASE Receive
    BY <1>1, ReceiveInv
  <1>2. CASE Process
    BY <1>2, Calls, QuickCall DEF Process
  <1>3. CASE Tick
    BY <1>3, TickInv
  <1>4. CASE ProcessFull
    BY <1>4, Calls, QuickCall DEF ProcessFull
  <1>5. CASE ProcessStopped
    BY <1>5, Calls, QuickCall DEF ProcessStopped
  <1>6. CASE FallSilent
    BY <1>6, SilentInv
  <1>7. CASE UNCHANGED vars
    <2>1. client' = client /\ SDO' = SDO /\ od' = od /\ over' = over /\ waited' = waited
      BY <1>7, Zenon DEF vars
    <2> QED  BY <2>1, Zenon DEF Inv
  <1> QED  BY <1>1, <1>2, <1>3, <1>4, <1>5, <1>6, <1>7, Zenon DEF Next
-----------------------------------------------------------------------------
(* What the invariant implies *)

Unsent(rest, buf, c, r, n) ==
    /\ Len(rest) = Len(buf) - r /\ n + Len(rest) <= Len(c)
    /\ rest = SubSeq(c, n + 1, n + Len(rest))

\* The unsent part of the buffer is the part of the variable that follows the
\* bytes already sent.
LEMMA WindowRest ==
    ASSUME NEW buf \in Seq(Byte), NEW c \in Seq(Byte), NEW r \in Nat, r <= Len(buf),
           NEW n \in Nat, Window(buf, c, n - r),
           NEW rest, rest = SubSeq(buf, r + 1, Len(buf))
    PROVE  Unsent(rest, buf, c, r, n)
  <1>1. Len(buf) \in Nat /\ Len(c) \in Nat
    BY LenProperties
  <1>2. /\ rest \in Seq(Byte) /\ Len(rest) = Len(buf) - r
        /\ \A i \in 1..(Len(buf) - r) : rest[i] = buf[r + i]
    BY <1>1, Slice
  <1>3. /\ n - r >= 0 /\ (n - r) + Len(buf) <= Len(c)
        /\ \A i \in 1..Len(buf) : buf[i] = c[(n - r) + i]
    BY DEF Window
  <1>4. n + Len(rest) <= Len(c) /\ n <= n + Len(rest) /\ n + Len(rest) \in Nat
    BY <1>1, <1>2, <1>3
  <1> DEFINE part == SubSeq(c, n + 1, n + Len(rest))
  <1>5. /\ part \in Seq(Byte) /\ Len(part) = (n + Len(rest)) - n
        /\ \A i \in 1..((n + Len(rest)) - n) : part[i] = c[n + i]
    BY <1>4, Slice
  <1> HIDE DEF part
  <1>6. Len(part) = Len(rest)
    BY <1>1, <1>2, <1>5, SMTT(40)
  <1>7. ASSUME NEW i \in 1..Len(rest)
        PROVE  rest[i] = part[i]
    <2>1. i \in 1..(Len(buf) - r) /\ i \in 1..((n + Len(rest)) - n)
      BY <1>1, <1>2
    <2>2. r + i \in 1..Len(buf) /\ (n - r) + (r + i) = n + i
      BY <1>1, <2>1
    <2> QED  BY <1>2, <1>3, <1>5, <2>1, <2>2
  <1>8. rest = part
    BY <1>2, <1>5, <1>6, <1>7, SeqEqual
  <1> QED  BY <1>2, <1>4, <1>8 DEF part, Unsent

\* The length of a text that has no zero byte up to e.
LEMMA TextLength ==
    ASSUME NEW c \in Seq(Byte)
    PROVE  /\ string_length(c) \in 0..Len(c)
           /\ \A e \in 0..Len(c) : (\A i \in 1..e : c[i] # 0) => e <= string_length(c)
  <1>1. Len(c) \in Nat
    BY LenProperties
  <1>2. CASE (\A i \in 1..Len(c) : c[i] # 0) /\ string_length(c) = Len(c)
    BY <1>1, <1>2
  <1>3. CASE \E p \in 1..Len(c) : /\ c[p] = 0 /\ \A i \in 1..(p - 1) : c[i] # 0
                                  /\ string_length(c) = IF p = 1 THEN 1 ELSE p - 1
    <2>1. PICK p \in 1..Len(c) : /\ c[p] = 0
                                 /\ string_length(c) = IF p = 1 THEN 1 ELSE p - 1
      BY <1>3
    <2>2. string_length(c) \in 0..Len(c)
      BY <1>1, <2>1
    <2>3. ASSUME NEW e \in 0..Len(c), \A i \in 1..e : c[i] # 0
          PROVE  e <= string_length(c)
      <3>1. ~(p \in 1..e)
        BY <2>1, <2>3
      <3>2. e < p
        BY <1>1, <3>1
      <3> QED  BY <1>1, <2>1, <3>2
    <2> QED  BY <2>2, <2>3
  <1> QED  BY <1>2, <1>3, StringLength

\* The room for the segments that a sub-block still has.
LEMMA SubblockRoom ==
    ASSUME NEW L \in Nat, NEW q \in 0..127, NEW b \in 0..255, NEW N \in Nat, q < b,
           L + 7 * (b - q) + 2 <= N
    PROVE  L <= N - 9 /\ L + 7 * (b - q) <= N - 2
  OBVIOUS

\* CO_SDOserver_t and its buffer.
LEMMA InvBuffer ==
    ASSUME Inv
    PROVE  BufferInBounds
  <1>1. SDO \in Server /\ Basic(SDO, od) /\ Phase(SDO, od)
    BY DEF Inv, ServerInv, Basic
  <1>2. CO_SDOserver_t(SDO)
    <2>1. {SDO.valid, SDO.rxNew, SDO.toggle, SDO.finished, SDO.block_crcEnabled} \subseteq BOOLEAN
      BY <1>1, ServerFlags, Zenon
    <2>2. /\ SDO.state \in CO_SDO_state /\ SDO.mux \in Nat \X Nat
          /\ SDO.stream.dataOffset \in Nat /\ SDO.stream.dataLength \in Nat
          /\ SDO.sizeInd \in Nat /\ SDO.sizeTran \in Nat /\ SDO.bufOffsetRd \in Nat
          /\ SDO.timeoutTimer \in 0..SDOtimeoutTime
          /\ SDO.block_timeoutTimer \in 0..block_SDOtimeoutTime
          /\ SDO.block_seqno \in 0..127 /\ SDO.block_blksize \in 0..255
          /\ SDO.block_noData \in 0..7
      BY <1>1, ServerFields DEF Byte
    <2> QED  BY <2>1, <2>2, Zenon DEF CO_SDOserver_t
  <1>3. Len(SDO.buf) \in Nat /\ SDO.bufOffsetRd \in Nat /\ BUFFER_SIZE \in Nat
    BY <1>1, ServerFields, BufferAssumption
  <1>4. Len(SDO.buf) <= BUFFER_SIZE /\ SDO.bufOffsetRd \in 0..Len(SDO.buf)
    <2>1. Len(SDO.buf) <= BUFFER_SIZE /\ SDO.bufOffsetRd <= Len(SDO.buf)
      BY <1>1, ZenonT(60) DEF Basic
    <2> QED  BY <1>3, <2>1, SMTT(40)
  <1>5. SDO.state = "DOWNLOAD_BLK_SUBBLOCK_REQ" =>
          /\ Len(SDO.buf) <= BUFFER_SIZE - 9
          /\ SDO.block_seqno < SDO.block_blksize
          /\ Len(SDO.buf) + 7 * (SDO.block_blksize - SDO.block_seqno) <= BUFFER_SIZE - 2
    <2>1. SUFFICES ASSUME SDO.state = "DOWNLOAD_BLK_SUBBLOCK_REQ"
                   PROVE  /\ Len(SDO.buf) <= BUFFER_SIZE - 9
                          /\ SDO.block_seqno < SDO.block_blksize
                          /\ Len(SDO.buf) + 7 * (SDO.block_blksize - SDO.block_seqno)
                               <= BUFFER_SIZE - 2
      OBVIOUS
    <2>2. Subblock(SDO, od)
      BY <1>1, <2>1, Zenon DEF Phase, Downloading
    <2>3. /\ SDO.block_seqno < SDO.block_blksize
          /\ Len(SDO.buf) + 7 * (SDO.block_blksize - SDO.block_seqno) + 2 <= BUFFER_SIZE
      BY <2>2, Zenon DEF Subblock
    <2>4. SDO.block_seqno \in 0..127 /\ SDO.block_blksize \in 0..255
      BY <1>1, ServerFields DEF Byte
    <2> QED  BY <1>3, <2>3, <2>4, SubblockRoom
  <1>6. SDO.state = "DOWNLOAD_BLK_END_REQ" => Len(SDO.buf) >= 7
    BY <1>1, Zenon DEF Phase, Downloading
  <1>7. SDO.state = "DOWNLOAD_SEGMENT_REQ" => Len(SDO.buf) + 9 <= BUFFER_SIZE
    BY <1>1, Zenon DEF Phase, Downloading, Segmented
  <1> QED  BY <1>2, <1>4, <1>5, <1>6, <1>7, Zenon DEF BufferInBounds

\* The bytes of an upload.
LEMMA InvUploads ==
    ASSUME Inv
    PROVE  UploadWindow
  <1> SUFFICES ASSUME SDO.state \in UploadStates
               PROVE  LET rest == SubSeq(SDO.buf, SDO.bufOffsetRd + 1, Len(SDO.buf))
                          upto == SDO.sizeTran + Len(rest)
                          length == content_length(SDO.mux)
                      IN  /\ upto <= Len(od[SDO.mux])
                          /\ rest = SubSeq(od[SDO.mux], SDO.sizeTran + 1, upto)
                          /\ IF SDO.finished
                             THEN upto \in length..(IF length < BUFFER_SIZE THEN length
                                                    ELSE length + 1)
                             ELSE SDO.stream.dataOffset = upto /\ upto <= length
    BY Zenon DEF UploadWindow
  <1> DEFINE c == od[SDO.mux]
             rest == SubSeq(SDO.buf, SDO.bufOffsetRd + 1, Len(SDO.buf))
             upto == SDO.sizeTran + Len(rest)
             length == content_length(SDO.mux)
  <1>1. SDO \in Server /\ od \in Dictionary /\ Basic(SDO, od) /\ Phase(SDO, od)
    BY DEF Inv, ServerInv, Basic
  <1>2. SDO.mux \in Objects
    BY <1>1 DEF Phase, Resting, UploadStates
  <1>3. c \in Seq(Byte) /\ Len(c) \in Nat
    BY <1>1, <1>2, VariableOf
  <1>4. Loaded(SDO, od)
    BY <1>1, Zenon DEF Phase, Uploading
  <1>5. /\ SDO.buf \in Seq(Byte) /\ Len(SDO.buf) \in Nat /\ SDO.bufOffsetRd \in Nat
        /\ SDO.sizeTran \in Nat /\ BUFFER_SIZE \in Nat
    BY <1>1, ServerFields, BufferAssumption
  <1>6. SDO.bufOffsetRd <= Len(SDO.buf)
    BY <1>1, Zenon DEF Basic
  <1>7. Window(SDO.buf, c, SDO.sizeTran - SDO.bufOffsetRd)
    BY <1>4, Zenon DEF Loaded, base
  <1>8. Len(rest) = Len(SDO.buf) - SDO.bufOffsetRd /\ upto <= Len(c)
        /\ rest = SubSeq(c, SDO.sizeTran + 1, upto)
    <2>1. Unsent(rest, SDO.buf, c, SDO.bufOffsetRd, SDO.sizeTran)
      <3>1. rest = SubSeq(SDO.buf, SDO.bufOffsetRd + 1, Len(SDO.buf))
        OBVIOUS
      <3> HIDE DEF c, rest
      <3> QED  BY <1>3, <1>5, <1>6, <1>7, <3>1, WindowRest
    <2> HIDE DEF c, rest
    <2> QED  BY <2>1, Zenon DEF Unsent
  <1> HIDE DEF rest
  <1>9. upto = end(SDO) /\ upto \in Nat
    <2> DEFINE n == SDO.sizeTran
               r == SDO.bufOffsetRd
               l == Len(SDO.buf)
    <2>1. end(SDO) = n - r + l
      BY Zenon DEF end
    <2>2. upto = n + (l - r)
      BY <1>8, Zenon
    <2>3. n \in Nat /\ r \in Nat /\ l \in Nat /\ r <= l
      BY <1>5, <1>6, Zenon
    <2> HIDE DEF n, r, l, upto
    <2>4. n + (l - r) = n - r + l /\ n + (l - r) \in Nat
      BY <2>3
    <2> QED  BY <2>1, <2>2, <2>4, Zenon
  <1>10. length = Length(SDO.mux, od)
    BY Zenon DEF content_length, Length, is_text
  <1> HIDE DEF upto, length
  <1>11. length \in 0..Len(c)
    <2>1. length = string_length(c) \/ length = Len(c)
      BY <1>10, Zenon DEF Length
    <2> HIDE DEF c
    <2> QED  BY <1>3, <2>1, TextLength
  <1>12. CASE SDO.finished = TRUE
    <2>1. end(SDO) = length \/ (end(SDO) > BUFFER_SIZE /\ end(SDO) = length + 1)
      BY <1>4, <1>10, <1>12, Zenon DEF Loaded, Ended
    <2>2. upto \in length..(IF length < BUFFER_SIZE THEN length ELSE length + 1)
      <3> HIDE DEF c
      <3> QED  BY <1>3, <1>5, <1>9, <1>11, <2>1
    <2> QED  BY <1>8, <1>12, <2>2, Zenon DEF upto, rest, length
  <1>13. CASE SDO.finished = FALSE
    <2>1. Unread(SDO, od)
      BY <1>4, <1>13, Zenon DEF Loaded
    <2>2. SDO.stream.dataOffset = upto
      BY <1>9, <2>1, Zenon DEF Unread
    <2>3. upto <= length
      <3>1. CASE is_text(SDO.mux)
        <4>1. \A i \in 1..upto : c[i] # 0
          BY <1>9, <2>1, <3>1, Zenon DEF Unread
        <4>2. length = string_length(c)
          BY <1>10, <3>1, Zenon DEF Length
        <4> HIDE DEF c
        <4>3. upto \in 0..Len(c)
          BY <1>3, <1>8, <1>9
        <4> QED  BY <1>3, <4>1, <4>2, <4>3, TextLength
      <3>2. CASE ~is_text(SDO.mux)
        <4>1. length = Len(c)
          BY <1>10, <3>2, Zenon DEF Length
        <4> QED  BY <1>8, <4>1, Zenon
      <3> QED  BY <3>1, <3>2
    <2> QED  BY <1>8, <1>13, <2>2, <2>3, Zenon DEF upto, rest, length
  <1>14. SDO.finished \in BOOLEAN
    BY <1>1, ServerFlags
  <1> QED  BY <1>12, <1>13, <1>14, Zenon

\* The bytes of a download.
LEMMA InvDownloads ==
    ASSUME Inv
    PROVE  DownloadWindow
  <1>1. SDO \in Server /\ Phase(SDO, od)
    BY DEF Inv, ServerInv, Basic
  <1>2. SDO.finished \in BOOLEAN
    BY <1>1, ServerFlags
  <1>3. Downloading(SDO, od)
    BY <1>1, Zenon DEF Phase
  <1>4. SUFFICES ASSUME SDO.state \in {"DOWNLOAD_SEGMENT_REQ", "DOWNLOAD_SEGMENT_RSP",
                                       "DOWNLOAD_BLK_SUBBLOCK_REQ",
                                       "DOWNLOAD_BLK_SUBBLOCK_RSP", "DOWNLOAD_BLK_END_REQ"},
                        SDO.state = "DOWNLOAD_SEGMENT_RSP" => ~SDO.finished
                 PROVE  SDO.stream.dataOffset + Len(SDO.buf) = SDO.sizeTran
    BY Zenon DEF DownloadWindow
  <1>5. SDO.state = "DOWNLOAD_SEGMENT_RSP" => SDO.finished = FALSE
    BY <1>2, <1>4, Zenon
  <1>6. Filled(SDO, od)
    BY <1>3, <1>4, <1>5, Zenon DEF Downloading, Segmented, Subblock, SubblockEnd
  <1> QED  BY <1>6, Zenon DEF Filled

\* The time of a server without a client.
LEMMA InvRecovers ==
    ASSUME Inv
    PROVE  RecoversInTime
  <1>1. ServerInv(SDO, od) /\ waited + Rest(SDO) <= Patience /\ SDO \in Server
    BY DEF Inv, ServerInv, Basic
  <1>2. Patience \in Nat /\ Patience > 0
    BY TimeAssumption
  <1>3. Rest(SDO) \in 0..Patience
    BY <1>1, RestBound
  <1>4. SUFFICES ASSUME waited = Patience
                 PROVE  SDO.state = "IDLE" /\ ~SDO.rxNew
    BY Zenon DEF RecoversInTime
  <1>5. Rest(SDO) = 0
    BY <1>1, <1>2, <1>3, <1>4
  <1>6. SDO.rxNew # TRUE
    <2>1. SDO.rxNew = TRUE => Rest(SDO) = Patience
      BY Zenon DEF Rest
    <2>2. Patience # 0
      BY <1>2
    <2> QED  BY <1>5, <2>1, <2>2, Zenon
  <1>7. SDO.rxNew = FALSE
    BY <1>1, <1>6, ServerFlags, Zenon
  <1>8. Todo(SDO) = 0
    BY <1>5, <1>6, Zenon DEF Rest
  <1>9. SDO.state = "IDLE"
    <2>1. SDO.state # "IDLE" => Todo(SDO) > 0
      BY <1>1, TodoBound
    <2> QED  BY <1>8, <2>1
  <1> QED  BY <1>7, <1>9, Zenon

\* A write that a call makes.
LEMMA CalledWhole ==
    ASSUME Inv, NEW dt, NEW full, Called(dt, full), NEW mux \in DOMAIN od, od'[mux] # od[mux]
    PROVE  \/ SDO.state \in BlockStates \cup {"DOWNLOAD_BLK_SUBBLOCK_REQ"}
           \/ Len(od[mux]) > BUFFER_SIZE - 9
           \/ /\ SDO'.finished
              /\ SDO'.state \in {"IDLE", "DOWNLOAD_INITIATE_RSP", "DOWNLOAD_SEGMENT_RSP"}
  <1>1. PICK r : SDO' = r.s /\ od' = r.od /\ Processed(r, SDO, od, dt, full)
    BY Zenon DEF Called
  <1>2. mux \in Objects
    BY DEF Inv, ServerInv, Basic, Dictionary
  <1>3. WholeStep(r, SDO, od)
    BY <1>1, Zenon DEF Processed
  <1>4. r.od[mux] # od[mux]
    BY <1>1, Zenon
  <1>5. \/ SDO.state \in BlockStates \cup {"DOWNLOAD_BLK_SUBBLOCK_REQ"}
        \/ Len(od[mux]) > BUFFER_SIZE - 9
        \/ /\ r.s.finished = TRUE
           /\ r.s.state \in {"IDLE", "DOWNLOAD_INITIATE_RSP", "DOWNLOAD_SEGMENT_RSP"}
    BY <1>2, <1>3, <1>4, Zenon DEF WholeStep
  <1> QED  BY <1>1, <1>5, Zenon

\* No other step writes.
LEMMA StepWhole ==
    ASSUME Inv, [Next]_vars, NEW mux \in DOMAIN od, od'[mux] # od[mux]
    PROVE  \/ SDO.state \in BlockStates \cup {"DOWNLOAD_BLK_SUBBLOCK_REQ"}
           \/ Len(od[mux]) > BUFFER_SIZE - 9
           \/ /\ SDO'.finished
              /\ SDO'.state \in {"IDLE", "DOWNLOAD_INITIATE_RSP", "DOWNLOAD_SEGMENT_RSP"}
  <1>1. CASE Receive
    BY <1>1, Zenon DEF Receive
  <1>2. CASE Process
    <2>1. Called(0, FALSE)
      BY <1>2, Calls DEF Process
    <2> QED  BY <2>1, CalledWhole
  <1>3. CASE Tick
    <2>1. Called(1, FALSE)
      BY <1>3, Calls DEF Tick
    <2> QED  BY <2>1, CalledWhole
  <1>4. CASE ProcessFull
    <2>1. Called(1, TRUE)
      BY <1>4, Calls DEF ProcessFull
    <2> QED  BY <2>1, CalledWhole
  <1>5. CASE ProcessStopped
    <2>1. Called(0, FALSE)
      BY <1>5, Calls DEF ProcessStopped
    <2> QED  BY <2>1, CalledWhole
  <1>6. CASE FallSilent
    BY <1>6, Zenon DEF FallSilent
  <1>7. CASE UNCHANGED vars
    BY <1>7, Zenon DEF vars
  <1> QED  BY <1>1, <1>2, <1>3, <1>4, <1>5, <1>6, <1>7, Zenon DEF Next

-----------------------------------------------------------------------------
(* Theorems *)

\* The invariant holds in every state.
LEMMA ServerKeeps == Spec => []Inv
  BY InitInv, StepInv, PTL DEF Spec

\* Whatever a client sends and whenever it sends it, the segments of
\* receive_segment find their room in the buffer, no read runs past what was
\* written, and no counter or timer of CO_SDOserver_t leaves its type.
THEOREM ServerBuffer == Spec => []BufferInBounds
  BY ServerKeeps, InvBuffer, PTL

\* Every byte of a transfer is accounted for: what was sent and what the buffer
\* still holds is the variable, also after a sub-block was rewound, and what
\* was written and what the buffer still holds was received.
THEOREM ServerBytes == Spec => []BytesAreAccounted
  <1>1. Inv => BytesAreAccounted
    BY InvUploads, InvDownloads, Zenon DEF BytesAreAccounted
  <1> QED  BY <1>1, ServerKeeps, PTL

\* A server whose client fell silent is idle again within Patience ticks,
\* whatever the state of the transfer was.
THEOREM ServerRecovers == Spec => []RecoversInTime
  BY ServerKeeps, InvRecovers, PTL

\* An expedited or segmented download changes a variable that fits into the
\* buffer as a whole, in the step that acknowledges it.
THEOREM ServerWhole == Spec => SegmentedWritesAreWhole
  <1> DEFINE WholeWrite ==
        \A mux \in DOMAIN od :
           od'[mux] # od[mux] =>
              \/ SDO.state \in BlockStates \cup {"DOWNLOAD_BLK_SUBBLOCK_REQ"}
              \/ Len(od[mux]) > BUFFER_SIZE - 9
              \/ SDO'.finished
                 /\ SDO'.state \in {"IDLE", "DOWNLOAD_INITIATE_RSP", "DOWNLOAD_SEGMENT_RSP"}
  <1>1. Inv /\ [Next]_vars => [WholeWrite]_vars
    BY StepWhole, Zenon
  <1> QED  BY <1>1, ServerKeeps, PTL DEF Spec, SegmentedWritesAreWhole

=============================================================================

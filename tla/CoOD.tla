-------------------------------- MODULE CoOD --------------------------------
(***************************************************************************)
(* The object dictionary interface of CANopenNode, CO_ODinterface.c: how   *)
(* an entry and its sub-index are found, and how a variable is read and    *)
(* written through a stream in one piece or in several.                    *)
(*                                                                         *)
(* An entry is [odObjectType, sub], where sub maps the sub-indexes that    *)
(* the object has to [attribute, dataLength]; attribute is a subset of     *)
(* SDO_R, SDO_W and STR.  A variable is the sequence of its bytes.         *)
(* Extensions (read and write functions of the application) are not part   *)
(* of the model: every access is to the original location.                 *)
(***************************************************************************)
EXTENDS Integers, Sequences

\* ODT_VAR has sub-index 0 only, ODT_ARR 0 .. subEntriesCount - 1, ODT_REC
\* the sub-indexes that its list names.
OD_getSub(entries, index, subIndex) ==
    IF index \notin DOMAIN entries THEN "IDX_NOT_EXIST"
    ELSE LET entry == entries[index] IN
         CASE entry.odObjectType = "VAR" ->
                IF subIndex > 0 THEN "SUB_NOT_EXIST" ELSE "OK"
           [] entry.odObjectType \in {"ARR", "REC"} ->
                IF subIndex \notin DOMAIN entry.sub THEN "SUB_NOT_EXIST" ELSE "OK"
           [] OTHER -> "DEV_INCOMPAT"

\* The stream that OD_getSub opens.
OD_stream(entries, index, subIndex) ==
    LET var == entries[index].sub[subIndex] IN
    [attribute |-> var.attribute, dataLength |-> var.dataLength, dataOffset |-> 0]

\* ODR_t to abort code; the codes of both enumerations have the same names
\* but for the two below.
OD_getSDOabCode(odRet) ==
    CASE odRet = "IDX_NOT_EXIST" -> "NOT_EXIST"
      [] odRet = "SUB_NOT_EXIST" -> "SUB_UNKNOWN"
      [] odRet = "DEV_INCOMPAT"  -> "DEVICE_INCOMPAT"
      [] OTHER -> odRet

\* Read at most count bytes of a variable from where the stream stands. The
\* last piece, also a first one that is the whole, resets the offset.
OD_readOriginal(data, stream, count) ==
    LET rest == stream.dataLength - stream.dataOffset
        n    == IF rest > count THEN count ELSE rest
    IN  IF (stream.dataOffset > 0 \/ stream.dataLength > count) /\ rest <= 0
        THEN [ret |-> "DEV_INCOMPAT", bytes |-> <<>>, stream |-> stream]
        ELSE [ret    |-> IF rest > count THEN "PARTIAL" ELSE "OK",
              bytes  |-> SubSeq(data, stream.dataOffset + 1, stream.dataOffset + n),
              stream |-> [stream EXCEPT !.dataOffset =
                              IF rest > count THEN @ + n ELSE 0]]

\* Write bytes into a variable at the place where the stream stands. Bytes
\* that do not fit are refused, with the stream already back at its start.
OD_writeOriginal(data, stream, bytes) ==
    LET count == Len(bytes)
        rest  == stream.dataLength - stream.dataOffset
        from  == stream.dataOffset
        moved == [stream EXCEPT !.dataOffset = IF rest > count THEN @ + count ELSE 0]
    IN  IF (from > 0 \/ stream.dataLength > count) /\ rest <= 0
        THEN [ret |-> "DEV_INCOMPAT", data |-> data, stream |-> stream]
        ELSE IF rest < count
        THEN [ret |-> "DATA_LONG", data |-> data, stream |-> moved]
        ELSE [ret    |-> IF rest > count THEN "PARTIAL" ELSE "OK",
              data   |-> [i \in DOMAIN data |->
                            IF i > from /\ i <= from + count THEN bytes[i - from]
                            ELSE data[i]],
              stream |-> moved]
=============================================================================

------------------------------ MODULE MCCoSdo ------------------------------
(***************************************************************************)
(* CANopenNode's SDO server with a client, and its SDO client with a       *)
(* server, that may send anything at any time.  A behaviour is about one   *)
(* of the two sides; the other one stands still.                           *)
(***************************************************************************)
EXTENDS CoSdoServer

---------------------------------------------------------------------------
(* The server.  A small object dictionary and one frame per case that the  *)
(* server tells apart.  The buffer keeps the shape of the real one:        *)
(* 7 * 127 + 11 bytes.                                                     *)

RW == {"SDO_R", "SDO_W"}

\* 1 fits into an expedited transfer, 2 into the buffer, 3 is a string and 4 is
\* larger than the buffer.
MCEntries ==
    [i \in 1..6 |->
      CASE i = 1 -> [odObjectType |-> "VAR", sub |-> [x \in {0} |-> [attribute |-> RW, dataLength |-> 4]]]
        [] i = 2 -> [odObjectType |-> "REC", sub |-> [x \in {2} |-> [attribute |-> RW, dataLength |-> 16]]]
        [] i = 3 -> [odObjectType |-> "ARR", sub |-> [x \in {0, 1} |->
                       IF x = 0 THEN [attribute |-> {"SDO_R"}, dataLength |-> 1]
                       ELSE [attribute |-> RW \cup {"STR"}, dataLength |-> 9]]]
        [] i = 4 -> [odObjectType |-> "VAR", sub |-> [x \in {0} |-> [attribute |-> RW, dataLength |-> 30]]]
        [] i = 5 -> [odObjectType |-> "VAR", sub |-> [x \in {0} |-> [attribute |-> {"SDO_W"}, dataLength |-> 2]]]
        [] i = 6 -> [odObjectType |-> "VAR", sub |-> [x \in {0} |-> [attribute |-> {"SDO_R", "STR"}, dataLength |-> 28]]]]

MCInitialOd ==
    [mux \in {<<1, 0>>, <<2, 2>>, <<3, 0>>, <<3, 1>>, <<4, 0>>, <<5, 0>>, <<6, 0>>} |->
       [i \in 1..MCEntries[mux[1]].sub[mux[2]].dataLength |->
          IF (mux = <<3, 1>> /\ i > 5) \/ (mux = <<6, 0>> /\ i > 25) THEN 0 ELSE IF mux = <<3, 0>> THEN 1 ELSE i]]

nines == [i \in 1..7 |-> 99]
Data(cmd) == [Frame(cmd) EXCEPT !.bytes = nines]
Sized(cmd, mux, size) == [MuxFrame(cmd, mux) EXCEPT !.size = size]
Ack(seq, blk) == [Frame(162) EXCEPT !.seq = seq, !.blk = blk]

Aborts == {Frame(128)}

\* Downloads: expedited, segmented and block, into variables of each kind.
DownloadRequests ==
    {[MuxFrame(35, <<1, 0>>) EXCEPT !.bytes = nines],      \* 0x23, four bytes
     [MuxFrame(34, <<3, 1>>) EXCEPT !.bytes = nines],      \* 0x22, size not indicated
     MuxFrame(47, <<1, 0>>), MuxFrame(47, <<3, 0>>),
     Sized(33, <<2, 2>>, 16), MuxFrame(32, <<4, 0>>),
     Sized(198, <<2, 2>>, 16), MuxFrame(192, <<4, 0>>)}
    \cup {Data(0), Data(16), Data(11), Data(5)}
    \cup {Data(1), Data(2), Data(129), Data(130)}
    \cup {[Frame(193 + 4 * n) EXCEPT !.crc = [i \in 1..16 |-> 99]] : n \in {0, 5}}
    \cup Aborts

\* Uploads of all kinds, with good and bad acknowledgements.
UploadRequests ==
    {MuxFrame(64, mux) : mux \in {<<1, 0>>, <<2, 2>>, <<3, 1>>, <<4, 0>>, <<5, 0>>, <<6, 0>>, <<2, 0>>}}
    \cup {[MuxFrame(164, mux) EXCEPT !.blk = 2, !.pst = 5] : mux \in {<<1, 0>>, <<3, 1>>, <<4, 0>>}}
    \cup {[MuxFrame(160, <<2, 2>>) EXCEPT !.blk = 3]}
    \cup {[MuxFrame(160, <<4, 0>>) EXCEPT !.blk = 128]}
    \cup {Frame(96), Frame(112), Frame(161), Frame(163)}
    \cup {Ack(seq, blk) : seq \in 0..3, blk \in {1, 3}} \cup {Ack(0, 0)}
    \cup Aborts

\* Nothing, or an aborted block download and an aborted block upload.
MCHistories ==
    {<<>>,
     <<Sized(198, <<2, 2>>, 16), Data(1), Data(130), Frame(128),
       [MuxFrame(164, <<4, 0>>) EXCEPT !.blk = 1], Frame(163), Ack(1, 1), Frame(96)>>}

MCClients == [downloads |-> DownloadRequests, uploads |-> UploadRequests]

---------------------------------------------------------------------------
(* The client: one transfer with each kind of server. *)

MCOwnEntries ==
    [i \in 1..3 |->
      [odObjectType |-> "VAR",
       sub |-> [x \in {0} |->
         CASE i = 1 -> [attribute |-> RW, dataLength |-> 20]
           [] i = 2 -> [attribute |-> RW \cup {"STR"}, dataLength |-> 6]
           [] i = 3 -> [attribute |-> {"SDO_W"}, dataLength |-> 4]]]]
MCOwnOd ==
    [mux \in {<<1, 0>>, <<2, 0>>, <<3, 0>>} |->
      [i \in 1..MCOwnEntries[mux[1]].sub[mux[2]].dataLength |->
         IF mux = <<2, 0>> /\ i > 3 THEN 0 ELSE i]]

Job(dir, mux, size, n, block, local) ==
    [dir |-> dir, mux |-> mux, size |-> size, data |-> [i \in 1..n |-> i],
     block |-> block, local |-> local]

RemoteDownloads ==
    {Job("down", <<1, 0>>, s, 4, FALSE, FALSE) : s \in {0, 3, 4}}
    \cup {Job("down", <<1, 0>>, s, 18, b, FALSE) : s \in {0, 18}, b \in BOOLEAN}
    \cup {Job("down", <<1, 0>>, 20, 18, FALSE, FALSE)}
LocalJobs ==
    {Job("down", <<1, 0>>, 0, 20, FALSE, TRUE), Job("down", <<2, 0>>, 4, 4, FALSE, TRUE),
     Job("down", <<1, 0>>, 0, 25, FALSE, TRUE), Job("down", <<1, 0>>, 0, 6, FALSE, TRUE)}
    \cup {Job("up", mux, 0, 0, FALSE, TRUE) : mux \in {<<1, 0>>, <<2, 0>>, <<9, 0>>}}
DownloadJobs == RemoteDownloads \cup LocalJobs
UploadJobs == {Job("up", <<1, 0>>, 0, 0, b, FALSE) : b \in BOOLEAN}

DownloadResponses ==
    {MuxFrame(96, <<1, 0>>), MuxFrame(96, <<2, 0>>), Frame(32), Frame(48), Frame(128), Frame(161)}
    \cup {[MuxFrame(164, <<1, 0>>) EXCEPT !.blk = b] : b \in {0, 1, 3}}
    \cup {Ack(seq, blk) : seq \in {0, 1, 3}, blk \in {1, 3}} \cup {Ack(2, 0)}
UploadResponses ==
    {[MuxFrame(67, <<1, 0>>) EXCEPT !.bytes = nines], [MuxFrame(66, <<1, 0>>) EXCEPT !.bytes = nines],
     MuxFrame(64, <<1, 0>>), Sized(65, <<1, 0>>, 14), MuxFrame(64, <<2, 0>>), Frame(128)}
    \cup {Data(0), Data(16), Data(9), Frame(96)}
    \cup {Sized(198, <<1, 0>>, 16), MuxFrame(192, <<1, 0>>), MuxFrame(196, <<2, 0>>)}
    \cup {Data(n) : n \in 1..3} \cup {Data(128 + n) : n \in 1..3}
    \cup {[Frame(193 + 4 * n) EXCEPT !.crc = [i \in 1..16 |-> 99]] : n \in {0, 5}}
MCJobs == DownloadJobs \cup UploadJobs
MCResponses == [down |-> DownloadResponses, up |-> UploadResponses]

VARIABLES side, SDO_C, own, app, silent, c_waited

C == INSTANCE CoSdoClient WITH
       OwnEntries <- MCOwnEntries, OwnOd <- MCOwnOd, CLI_BUFFER_SIZE <- 16, CLI_MAX_BLKSIZE <- 3,
       CLI_PST <- 6, CliTimeoutTime <- 2, CliBlockTimeoutTime <- 1, Jobs <- MCJobs, Chunk <- 9,
       UploadBound <- 15, Responses <- MCResponses, CliPatience <- 7, waited <- c_waited

MCInit ==
    /\ side \in {"server", "client"}
    /\ C!Init /\ Init
    /\ side = "client" => SDO = InitServer /\ client = "uploads"

ServerSide == side = "server" /\ Next /\ UNCHANGED <<side, SDO_C, own, app, silent, c_waited>>
ClientSide == side = "client" /\ C!Next /\ UNCHANGED <<side, vars>>
MCSpec == MCInit /\ [][ServerSide \/ ClientSide]_<<side, vars, C!vars>>

---------------------------------------------------------------------------
(* The properties of CoSdoClient *)

\* The client's buffer loses, doubles or reorders no byte of a transfer.
ClientBytesAreAccounted == C!BytesAreAccounted

\* A download is reported as done only when all of its data was sent.
DoneIsComplete == C!DoneIsComplete

\* The client ends its transfer when the server falls silent.
EndsInTime == C!EndsInTime
=============================================================================

# A TLA+ model of canopen-sdo

`canopen-sdo` transfers the entries of a CANopen device's object dictionary
over CAN: a client *uploads* (reads) or *downloads* (writes) an entry of a
server, in one frame when the value has at most four bytes (expedited) and in
frames of seven bytes otherwise (segmented). Both sides are state machines
without I/O that a caller drives; an async layer drives the client over a real
bus, and an example shows the loop that drives the server.

The repository holds a second implementation, which the crate is tested
against: `canopend-sdo-test`, that is the CANopenNode stack on CANopenLinux, in
C, under `CANopenNode-test/`. It is a whole CANopen device: SDO server and
client with block transfers, emergency, NMT and heartbeat, SYNC, PDO,
safety-relevant data (SRDO), layer setting (LSS) and a gateway for commands
typed as text.

This directory models both in TLA+: the modules `Sdo...` the Rust crate, the
modules `Co...` the C stack. TLC checks the models on small instances, and TLAPS
proves the properties of the crate's two state machines, and of six components
of the C stack, for every instance.
`PROJECT.json` maps every definition to the lines it models.

## The crate

| part | source | state | operations |
|---|---|---|---|
| frames | `src/frame.rs`, `src/wire.rs`, `src/abort.rs` | none | COB-IDs, command bytes, the encoders and decoders of frames, abort codes |
| client | `src/client.rs` | the transfer in flight (`State`), one frame to send (`pending_tx`), one deadline | `begin_upload`, `begin_download`, `handle_frame`, `handle_timeout`, `abort`, `poll_transmit` |
| server | `src/server.rs` | the transfer in flight with its fixed buffer `[u8; N]`, one frame to send, one deadline | `handle_frame` with one handler per request, `handle_timeout`, `poll_transmit` |
| async glue | `src/asynch.rs` | one client and one subscription per call, the attempt number | `upload_bytes`, `download_bytes`, their `_retry` loops, `drive` |
| server loop | `examples/server_demo.rs` | the dictionary | the receive/expire/send loop, `read` and `write` of `DemoOd` |
| error types | `src/error.rs` | none | the outcomes of the calls |

The two state machines meet only through frames. A client call makes a new
`SdoClient`, subscribes to the responses of *all* nodes, and runs `drive`: send
what is pending, wait for a frame or the deadline, feed it, until there is an
outcome or an error. A retry is a new call. The server calls back into the
application's dictionary inside `handle_frame`.

What is hard about it:

* SDO frames carry no transfer number. An initiate frame names its object; a
  segment names nothing and has one toggle bit. What a late, repeated or lost
  frame of an earlier attempt does to the next one is decided by those bits.
* Client and server have timers of their own, and a client that gives up does
  not tell the server (see *The findings*), so a retry starts while the server
  is still in the middle of the last attempt.
* Every handler has several ways to end a transfer, and each has to treat the
  state, the timer and the slot alike.
* The server's buffer is fixed, and the sizes come from the other side.
* The application changes its objects while they are being read.

| module | what it models |
|---|---|
| `SdoWire` | frames. Byte 0 is the number on the wire and its bits are computed; bytes 1..7 are the fields read from them: object (`mux`), size, abort code, zero-padded data bytes |
| `SdoServer` | the server with an arbitrary caller: any request of `Requests`, in any order, at any time; the pending response may be taken or not; the application changes its objects |
| `SdoClient` | the client with an arbitrary caller: transfers begun at any time, any response of `Responses`, calls to `abort`, time |
| `SdoBus` | one client call after another, driven by `drive` and the retry loop, against one server driven by the demo loop, over a bus with faults. Client and server are instances of the two modules above, not copies of them |
| `MCSdoServer`, `MCSdoClient`, `MCSdoBus` | the constants for TLC |
| `SdoWireProofs`, `SdoServerProofs`, `SdoClientProofs` | the proofs |

A definition has the name of the function it models. An action of `SdoServer`
or `SdoClient` is one public call: the whole handler, with its early returns as
disjuncts. `Option<SdoFrame>` is a sequence of at most one frame,
`None` of a deadline or an announced size is -1, and what the call returned is
`ret`. In the server `buf[..len]` is the sequence `buf`. The client's
`DownloadPhase` payloads (`expedited`, `last`) are the field `flag`.

In `SdoBus` time is relative: deadlines hold the time left, so the clock needs
no bound. Two queues hold the frames that are on the bus or in the receiver's
subscription; CAN keeps the order of one sender's frames. `Tick` lets time pass
when nothing else can happen, `LateTick` at any other moment. A response is
dropped (`Unheard`) when no call is listening. A behaviour follows one of
`Scenarios`, which gives every kind of fault a budget:

| fault | budget | the code's view of it |
|---|---|---|
| `Lose` | `lost` | a frame missing from the bus or from a lagging subscription |
| `Repeat` | `repeated` | CAN's retransmission of a frame that was already accepted |
| `DriveIoError` | `io` | `subscribe`, `send` or `recv` returns `Err` |
| `LateTick` | `late` | a bus or task slower than a timeout |
| `AppUpdate` | `updates` | the server's application stores a new value |

## The C stack

`CANopenNode-test/Makefile` builds it with `CO_SINGLE_THREAD`: one event loop
takes frames from the driver, which calls the receive function of an object at
once, and calls `CO_process` with the time that has passed. So a receive
function runs as a whole between two calls of a process function, never inside
one, and the two share the structure of the object. What can go wrong is in
which order, how often, and with how much time between them these calls come;
that is what the models leave open.

| part | source (under `CANopenNode/`) | state | operations |
|---|---|---|---|
| object dictionary | `301/CO_ODinterface.c` | values, a stream with its offset | find a sub-entry, read and write in pieces |
| SDO server | `301/CO_SDOserver.c` | state, buffer of 900 bytes with two offsets, sub-block, timers | `CO_SDO_receive`, `CO_SDOserver_process` |
| SDO client | `301/CO_SDOclient.c` | state, ring buffer, sub-block, timers | `CO_SDOclient_receive`, initiate, `Download`, `Upload`, buffer functions, close |
| gateway | `309/CO_gateway_ascii.c` | the state of the command, a command and a response buffer | the SDO and the LSS commands from the first token to the answer |
| ring buffer and texts | `301/CO_fifo.c` | read, write and alternate read pointer; started, step and bits left over | byte, token and command operations; hex, string, base64 and numbers in both directions |
| emergency | `301/CO_Emergency.c` | error bits, one ring for queue and history, overflow, inhibit timer | `CO_error`, `CO_EM_process`, objects 0x1003, 0x1014, 0x1015, status bits |
| NMT, heartbeat producer | `301/CO_NMT_Heartbeat.c` | operating state, internal command, timer | receive, `CO_NMT_process`, 0x1017 |
| heartbeat consumer | `301/CO_HBconsumer.c` | per monitored node its state and timer | receive, `CO_HBconsumer_process`, 0x1016 |
| SYNC | `301/CO_SYNC.c`, `.h` | counter, timer, toggle of the receive buffers | receive, `CO_SYNC_process`, 0x1005, 0x1019 |
| PDO | `301/CO_PDO.c` | mapping, two receive buffers, event and inhibit timers, the SYNC cycle | receive, `CO_RPDO_process`, `CO_TPDO_process`, 0x14xx, 0x16xx, 0x18xx, 0x1Axx |
| SRDO | `304/CO_SRDO.c` | the pair of frames, two timers, validity of the configuration | receive, `CO_SRDO_process`, `CO_SRDO_config`, guarded writes |
| LSS slave | `305/CO_LSSslave.c` | waiting or configuration, fastscan position, pending node-id and bit rate | receive, `CO_LSSslave_process` |
| LSS master | `305/CO_LSSmaster.c` | state, command, timer, fastscan position | all services, called until they end |
| composition | `CANopen.c`, `CO_main_basic.c` | the NMT reset command | `CO_process`, `CO_process_SYNC`, `_RPDO`, `_TPDO`, `_SRDO` and their order |

What is hard about it:

* A receive function keeps one frame, or writes segments straight into the
  buffer of a transfer that the process function is working on.
* Buffers are emptied and refilled in the middle of a transfer, and a lost
  segment rewinds them.
* Text and data pass through small buffers in pieces of any size, so every
  conversion has to remember where it stopped.
* Timers advance only when a process function is called, by as much as the
  call says, and stop at limits.
* Parameters of an object are written while it runs, and are only partly
  checked against each other.
* Master and slave of LSS have no transfer numbers either, and every slave
  answers with the same frame.

| module | what it models |
|---|---|
| `CoOD` | the dictionary with partial reads and writes |
| `CoSdoFrame` | frames, states and abort codes of both SDO sides |
| `CoSdoServer`, `CoSdoClient` | one side each, with a peer that sends any of a set of frames at any time and may fall silent |
| `CoGateway` | the gateway's SDO read and write commands: states, held responses, purging after an abort, a user who does not type or read on |
| `CoSdoTransfer` | user, gateway, client and server (by `INSTANCE`) on a bus with faults, with a retry |
| `CoFifo`, `FifoQueue` | the ring buffer with its pointers, and the bounded queue it implements |
| `CoFifoPrint`, `CoFifoScan`, `CoFifoNumbers`, `CoFifoText` | data to text, text to data, numbers, and the reference definition of the encodings |
| `CoEmergency`, `CoNMT`, `CoHBconsumer` | operators on the structure of each object |
| `CoNode` | the device of these three: `CO_process` and what happens between two calls |
| `CoSync`, `CoPdo` | operators on the structure of each object |
| `CoPdoNode` | the device of SYNC, an RPDO and a TPDO |
| `CoSrdo`, `CoSrdoPair` | an SRDO; its producer and its consumer on one bus |
| `CoLssSlave`, `CoLssMaster`, `CoLss` | the two sides; the gateway's LSS commands with one master and several slaves on one bus |
| `MCCoSdo`, `MCCoSdoTransfer`, `MCCoFifo`, `MCCoNode`, `MCCoPdo` | the constants for TLC |
| `LoopProofs`, `CoSdoServerProofs`, `CoNodeProofs`, `CoPdoProofs` (PDO and SRDO), `CoFifoProofs` | the proofs |

In the C models an object is a record with the fields of its C structure, and
an operator with the name of the C function takes it and returns it. A process
function is a chain of such operators, one per case of its `switch` or per
block; an action is one call from outside. Where a component has properties
that need memory (the age of the last heartbeat, what a listener of emergencies
believes) the variables for it are marked as such and no operator reads them.
A CRC is the sequence of the bytes it was fed, so two are equal exactly when
the data is. An inverted SRDO value is written as the value it inverts.

A module `MC...` that holds two independent parts (server and client side of
SDO; buffer, printing, scanning and numbers; device and LSS; process data and
safety data) has a variable `part` or `side`: a behaviour is about one of them
and the other stands still. `scenario` in a behaviour names the setting it is
about: what is configured, which faults happen, how many events there are.

Definitions under a comment beginning with *Defect* or *Mutant* are deliberately wrong
variants of the definition that follows. No specification uses them; each shows
that some property would notice the mistake.

## The runs

| run | distinct states | what it shows |
|---|---|---|
| `server` | 147,200 | fed anything in any order, the crate's server keeps its buffer in bounds (`TransferInBounds`), its timer armed exactly during segmented transfers (`TimerMatchesTransfer`), and changes an object only by a whole, acknowledged transfer (`WritesAreWholeTransfers`) |
| `client` | 11,976 | the same of the client's slices and timer; its one transmit slot never holds a frame of another transfer or step (`PendingIsCurrent`); every transfer ends with the outcome its state justifies, and by frames of its own node (`EndsAreAccounted`) |
| `bus_faults` | 233,452 | with up to two frames lost and three attempts no loss is visible to the caller (`RetriesMaskLoss`), a completed upload returns a value the object had during the call (`UploadsAreFresh`), a completed download was written (`DownloadsAreWritten`), and every call returns (`CallsReturn`); with late answers instead, a download reported as completed is written sooner or later (`DownloadsGetWritten`), and no transfer holds the server for ever (`ServerRecovers`) |
| `bus_stale` | 2,278,072 | with a repeated frame, a failing access and a late tick, frames of earlier attempts reach later ones: still no object is torn (`ObjectsAreWhole`) and no upload returns a mixture or another object's value (`UploadsAreWhole`) |
| `bus_abort` | violation | `AbortsAreSent` fails, see *The findings* |
| `co_sdo` | 874,815 | each SDO side of the C stack against any peer. Server: the buffer assertions in its comments hold (`BufferInBounds`), no byte is lost, doubled or skipped when the buffer is emptied, refilled or rewound (`BytesAreAccounted`), a variable that fits the buffer is written whole or not at all (`SegmentedWritesAreWhole`), and it is idle soon after its client is gone (`RecoversInTime`). Client: the same accounting (`ClientBytesAreAccounted`), no download is done before all is sent (`DoneIsComplete`), and a silent server ends it (`EndsInTime`) |
| `co_transfer` | 392,205 | user, gateway, client and server: what the gateway answers is true, whatever was lost or late and whatever an earlier attempt left behind (`SuccessIsTrue`); a prompt bus gives no reason to fail and nobody waits for ever (`Unhindered`); a lost segment of a block is repaired (`LostSegmentsAreRepaired`) |
| `co_fifo` | 177,059 | the ring buffer refines a bounded queue wherever the data wraps (`ImplementsQueue`); text shown in pieces is the encoding of the data (`PrintsThePrefix`), text taken in pieces gives its data and leaves the next command alone, after a comment too unless its delimiter is read inside it (`ScansTheValue`), and integers survive both, at the limits of their types too (`NumbersKeepTheirValue`) |
| `co_fifo_whole` | violation | `PrintsTheWhole` fails, see *The findings* |
| `co_node` | 741,516 | heartbeats tell the state in time (`HeartbeatsAreTimely`); a silent peer is noticed in time, no live one is taken for dead, and the node leaves operational (`DeadPeersAreNoticed`); who listens to the emergencies knows the errors, or is told that some were dropped (`EmergenciesTellTheErrors`); 0x1003 is the true history while the same ring is still being sent (`HistoryIsTrue`). LSS: no two slaves get one node-id from a search, and an announced assignment is pending in the slave with that address (`NodeIdsAreAssigned`) |
| `co_pdo` | 1,450,426 | whatever is written in whichever order, a valid PDO exchanges what the dictionary says (`MappingIsSound`); an RPDO acts on the last message before the SYNC (`RpdoFollowsSync`); a TPDO is sent when due and only then (`TpdoWhenDue`). SRDO: an established consumer has a genuine, fresh value received under a signed configuration (`SafetyDataIsSound`) |
| `co_pdo_timeout` | violation | `TimeoutIsReported` fails, see *The findings* |

### Bounds

Crate. `N = 8` is the smallest buffer with a whole and a partial segment; values
have 0, 4, 8 and 9 bytes (empty, expedited, exactly full, too large), payloads
of the client 0, 4, 5, 7, 8 and 15 (both sides of the expedited and of the
segment boundary, and three segments, so that the toggle returns to its first
value). The frames fed are one per case that a handler tells apart: right and
wrong object, node, toggle and command, `c` bit set and clear, size announced
and not. `MaxNow = 3` lets a timeout of 2 be re-armed after it started to run.
`MaxReceived` ends an upload whose server never sets the `c` bit.
On the bus there are two objects whose segmented values have the same length, so
that nothing but their content tells their segments apart; the second one also
takes an expedited value. No value is shared, so a value shows where it came
from. Two calls are made, so that the frames of one can reach the other. A
client timeout of 1 against a server timeout of 3 lets the client give up twice
within one server timeout.

SDO of the C stack. The server's buffer keeps the shape of the real one, a
sub-block and 11 bytes: 25 bytes for sub-blocks of 2. There are variables below
the expedited limit, within the buffer, larger than the buffer, and strings, one
of which ends with the first byte of the second piece that is read of it. The
server also starts from what an aborted block download and upload leave in its
structure (`Histories`). The client's buffer of 16 bytes is smaller than its
18-byte transfers. `Patience` (6, 7) is the sum of the timeouts that may follow
each other. In `co_transfer` a client buffer of 22 bytes, a command buffer of
24 and a response buffer of 12 all fill up within a 28-byte transfer; one fault
happens, and each plan is either prompt (time passes only when nothing else can
happen) or has two attempts and three or four ticks at any moment.

Ring buffer and texts. `bufSize = 4` wraps every operation at every place.
Messages have up to five bytes and values up to six, with rooms of 4 to 8
characters, which divides and does not divide each encoding; they contain a
quote, a NUL and bytes whose high and low bits differ. Numbers are computed with
bytes of two bits, so that `uint32_t` has eight bits and `long` sixteen, and the
typed numbers are those around every limit.

Device. `fifoSize = 3` overflows with three errors. A call takes 1 or 2 ticks, so
that times of 2 and 3 are met exactly and passed. Scenarios have at most 4 or 5
events from outside and any number of calls between them, ages are counted up
to 5. LSS addresses have two bits per part (`Width = 2`), three slaves take all
choices of five addresses, one message or answer is lost or late, and sessions
have up to five commands.

Process data. `TimerLimit = 5` stands for 2^32, beyond all times used. Two
objects are mapped of one, four and eight bytes, which together fit or exceed a
frame. Up to eight events follow each other, enough for a SYNC counter of three
to go round twice; the other scenarios have five or six. In the SRDO runs two or three
events (faults, commands, writes) fall on two nodes that are called every one or
two ticks, with a cycle time of 3 and a validation time of 1.

All runs but `server` and `client` are configured with `CHECK_DEADLOCK FALSE`:
when all budgets are used and no timer runs, the system is rightly at rest.

### Fairness

`SdoBus!FairSpec` assumes weak fairness of the client task, of the server task,
of the arrival of a response when nobody listens, and of time passing. The tasks
are polled by their runtimes as long as something is ready; neither blocks
outside `select`. Nothing is assumed of either application, or of the faults: a
call need not be made, and a fault need not happen. `drive`'s biased `select`
prefers a frame to the deadline; the model lets either go first.

The C stack is driven by calls that carry the time, so what must eventually
happen is stated with the time it may take: `RecoversInTime`, `EndsInTime`,
`HeartbeatsAreTimely`, `DeadPeersAreNoticed`, `TpdoWhenDue`. These are stronger
than liveness and need no fairness.

## The findings

### The abort of a timed-out call is never sent

`drive` comments the end of its timeout branch with "Timeout path queues an
abort frame; drain it next loop." (`src/asynch.rs:183`). There is no next loop:
`handle_timeout` returns `Err(ClientAborted(ProtocolTimeout))` whenever it
queued an abort, and the `?` on line 180 leaves `drive`, which drops the client
and the frame. The same holds for the `?` on line 174 after a toggle or length
error. The run `bus_abort` shows it with one lost frame. The consequence is
bounded: the server falls back to idle at its own timeout (`ServerRecovers`) or
at the next initiate request, which is why retries work (`RetriesMaskLoss`).

### A text can lose its end

`CO_fifo.h:416` says of `readB642a` "Encoding is as specified in RFC 2045", and
line 411 of `readVs2a` "A visible string is enclosed with double quotes". When
the room is used up as the last byte is read, the bits kept in `aux` with the
pads, or the closing quote, are left for a next call (`CO_fifo.c:769`, 725). The
gateway does not make that call, because the fifo is empty and the transfer has
ended (`CO_gateway_ascii.c:1597`). The run `co_fifo_whole` shows it with one
byte of data. Hex digits are not affected (`PrintsThePrefix` includes that).

### An RPDO time-out can go unreported

`CO_PDO.h:217` calls `timeoutTime_us` the "Maximum timeout time between received
PDOs in microseconds". `CO_PDO.c:827` advances the timer only while it is below
the limit and reports only when it is above: a call that lands on the limit
exactly stops the timer there for good. The code asks for that call itself,
because `timerNext_us` is set to the difference (836-841). Shown by
`co_pdo_timeout`.

## Limits that the checking brought out

### The crate

These are consequences of the protocol, which the runs above are bounded to
avoid or phrased to allow:

* `RetriesMaskLoss` needs a server timeout longer than the failed attempts
  together. With `ServerTimeout = 2` and two losses the server's own
  `ProtocolTimeout` abort of the first attempt reaches a later attempt for the
  same object and ends it as `ServerAborted`, which is not retried.
* `DownloadsAreWritten` fails once an acknowledgement can be late, repeated, or
  left behind by a failed `recv`: the acknowledgement of an earlier attempt on
  the same object is accepted. What remains true when no frame is lost is that
  the data gets written (`DownloadsGetWritten`).
* `UploadsAreWhole` holds for the faults of `bus_stale`, and for one loss with one
  failing access or one late tick. It fails for heavier combinations (two late
  ticks and a loss; two failing accesses, a loss and an update between them):
  a stale segment with the right toggle then completes a newer value of the
  same length.

### The C stack

What the properties above except, or what was seen in the code while modelling.
No run is about these; each is in the model as it is in the code.

SDO and gateway (`CO_SDOserver.c`, `CO_SDOclient.c`, `CO_gateway_ascii.c`):

* A block download writes every sub-block as it comes, so it is not atomic;
  `SegmentedWritesAreWhole` is about the others.
* `WRITE_ABORTED` is left as soon as one call finds nothing to purge (:1646)
  although the comment says "Stay in this state, until all data transferred via
  commFifo will be purged" (:1645): what is typed later of the aborted value is
  taken as a command and answered with a second error.
* While the gateway waits for more data it does not call
  `CO_SDOclientDownload`, so an abort by the server, or a timeout, is noticed
  only when the gateway's own time is over. Each turn of the block download
  loop is given the same time difference.
* An abort that finds the transmit buffer full is sent by a later call, whose
  local `abortCode` no longer has the reason (`CO_SDOserver.c:1114`).
* A string is cut at its terminator. When the terminator is the first byte of a
  refill of the server's buffer, one NUL is sent as data (`CO_SDOserver.c:544`):
  `UploadWindow` allows it for strings of at least `BUFFER_SIZE` characters.
* A local upload refuses a write-only variable and then reads it all the same,
  which replaces the result (`CO_SDOclient.c:1132`).
* The number of segments that a server asks for in the next sub-block is not
  checked (`CO_SDOclient.c:705`); the sub-blocks of the model are too small for
  it to matter.

Ring buffer and texts (`CO_fifo.c`):

* A comment whose end has not been typed yet is cleared as far as it is there;
  `CO_fifo_readToken` takes the rest for tokens (:388).
* A comment after a value can swallow the next line: in a comment the scanners
  skip to a delimiter before they look at the character that they have (:1161).
  If that character is the delimiter itself, they skip the line after it. This
  happens when the comment is empty, and with every comment when a call of the
  scanner ends just before its delimiter, because the rest had not been typed
  or the source held no more. `CoFifoScan` reaches the second case; its history
  variable `late` marks both, and `NextCommandIsKept`, without its condition
  `~late`, fails there.
* One stray character between a string and the end of the line is dropped
  without an error (:1337). A comment directly after a single hex digit drops
  that digit (:1187). The texts of `co_fifo` keep clear of both.
* The 64-bit result of `strtoul` is cut to 32 bits before the limit of an 8- or
  16-bit type is tested (:840): a number beyond 32 bits may be taken as a small
  one. `NumbersKeepTheirValue` says that all numbers of 32 bits beyond the limit
  are refused. A 64-bit real is read with `strtof` (:1101), so the property is
  about integers.

Emergency, NMT, heartbeat:

* Emergencies are sent although 0x1014 disables the producer
  (`CO_Emergency.c:571-582` never tests it); after that, writing COB-ID 0x80
  makes it send under 0x80 while 0x80 plus node-id is read back.
* `CAN_BUS_WARNING` is announced with `CO_EMC_NO_ERROR` (:501), and a report of
  a bit that does not exist sets another bit than the message names. Both are
  excepted from `EmergenciesTellTheErrors`.
* A node that is STOPPED itself for two calls takes all monitored nodes for
  active and operational and resets its heartbeat errors
  (`CO_HBconsumer.c:308`, 425).
* NMT commands and heartbeats have one slot each: the second of two between
  calls hides the first, a remote boot-up included.

SYNC, PDO, SRDO:

* Two SYNCs between two calls, or a change of the transmission type, let an
  older synchronous RPDO overwrite a newer one (`CO_PDO.c:457`, 733); excepted
  from `RpdoFollowsSync`. The timer of a synchronous RPDO counts only calls with
  a SYNC.
* The default COB-ID written without node-id is used as written but read back
  with it (:391, 513). An erroneous entry beyond the mapped count
  invalidates a PDO at start (:182-190). Mapping a dummy keeps the event flag of
  the object before it (:95-103); what this flag asks for is excepted from
  `TpdoWhenDue`. Disabling and enabling a TPDO between two calls does not restart
  it, nor its cycle, but writing the inhibit time in between ends the one that
  runs (:955). A cyclic TPDO that waits for the start value goes on waiting when
  0x1019 or the start value is set to 0, for a counter that may never come
  (:1315-1326).
* `rxSrdoShort` is cleared by initialisation only. Dummies do not count in the
  length that configuration checks but do in processing, which ends in
  `error_internal`. Direction 3 is accepted. A frame that is still in the driver
  is sent although `error_txFail` was entered. Timers restart before they are
  tested, so an inverted frame may be late by one call.

LSS:

* A slave in configuration answers fastscan and foreign selection messages as
  services (`CO_LSSslave.c:163-167`, 281, 408-412). If the message that
  deselects it is lost, it answers the next search and is given the next
  node-id, and the earlier announcement becomes false: the model loses any other
  message, not that one.
* A slave that still has an answer to send drops the next message (:47),
  deselection included; commands are given on a quiet bus.
* Slaves that differ only in skipped parts of the address are selected together.
* `CO_LSSmaster_swStateSelect` in an invalid state sets the master to waiting
  while slaves stay selected (`CO_LSSmaster.c:261-265`). An acknowledgement
  lost during a scan ends the search, which is reported as finished
  (`CO_gateway_ascii.c:1826`).
* Without a callback for bit rates the slave does not answer a request to set
  one.

## The proofs

A theorem holds for every value of the constants: every buffer size, time,
dictionary, number of peers, and every length of the behaviour.

| theorem (module) | statement | from |
|---|---|---|
| `ServerTypeOK`, `ServerTimer`, `ServerBounds` (`SdoServerProofs`) | `[]TypeOK`, `[]TimerMatchesTransfer`, `[]TransferInBounds` | `IInv`, the three together |
| `ServerWrites` | `WritesAreWholeTransfers` | `IInv` |
| `ClientTypeOK`, `ClientTimer`, `ClientDownloadBounds` (`SdoClientProofs`) | `[]TypeOK`, `[]TimerMatchesTransfer`, `[]DownloadInBounds` | `IInv`, the three together |
| `ClientSlot` | `[]PendingIsCurrent` | `IInv` and the slot |
| `ClientEnds` | `EndsAreAccounted` | `IInv /\ Received`: an upload holds bytes of its node only |
| `ServerBuffer`, `ServerBytes`, `ServerRecovers` (`CoSdoServerProofs`) | `[]BufferInBounds`, `[]BytesAreAccounted`, `[]RecoversInTime` | `Inv` |
| `ServerWhole` | `SegmentedWritesAreWhole` | `Inv` |
| `NodeHeartbeats` (`CoNodeProofs`) | `[]HeartbeatsAreTimely` | `BeatInv` |
| `NodePeers`, `NodeHistory`, `NodeEmergencies` | `[]DeadPeersAreNoticed`, `[]HistoryIsTrue`, `[]EmergenciesTellTheErrors` | `BeatInv /\ PeerInv` |
| `PdoMapping` (`CoPdoProofs`) | `[]MappingIsSound` | `PdoInv` |
| `RpdoSync` | `RpdoFollowsSync` | `PdoInv /\ FollowInv` |
| `TpdoWhen` | `TpdoWhenDue` | `PdoInv /\ FollowInv /\ WhenInv` |
| `SafetyData` | `[]SafetyDataIsSound` | `PairInv` |
| `FifoIsAQueue` (`CoFifoProofs`) | `ImplementsQueue`: `CoFifo` refines `FifoQueue` | `FifoInv` |

### The crate

    IInv == TypeOK /\ TimerMatchesTransfer /\ TransferInBounds     (server)
    IInv == TypeOK /\ TimerMatchesTransfer /\ DownloadInBounds     (client)

The conjuncts need each other: a bound such as `sent < Len(buf)` is preserved
only because `sent` is a multiple of seven until the last segment, which in turn
makes the toggle the parity of the segments, and the deadline is a number only
because the state has its type. Every call ends in one of a few ways (abort,
reset, last response, next response; ignore, end, abort, next request). There is
one lemma for each, a lemma per handler that applies them to its branches, and
one step per action. The slot of the client and the two action properties follow
from the same lemmas: each way to end says what it leaves in the slot, in the
dictionary and in the result. `SdoWireProofs` holds what both need of the frames:
encoders build frames, slices have the decoded length, and the arithmetic of
sevens.

Assumed is what the modules assume: constants have their types, and a
frame fed to `handle_frame` has the data bytes that an eight-byte frame has
(four after an object, seven in a segment) and, if it is an abort, a code.

### The C SDO server

    Inv == /\ ServerInv(SDO, od)
           /\ over = FALSE => waited = 0  /\  waited + Rest(SDO) <= Patience

`ServerInv` says what each state of `CO_SDOserver_t` means for its buffer and its
variable. In a download (`Filled`) every byte is either written or in the buffer,
and two more have room for the terminator of a string; in a sub-block
(`Subblock`) so have all the segments that are still announced, which is what
`receive_segment` relies on without looking. In an upload (`Loaded`) the buffer is
the `Window` of the variable that ends where the stream stands. As long as there
is more to read the buffer is full and was read in whole segments (`Unread`),
so that a sub-block that was announced can be filled (`Asked`) and rewound
(`Sent`). At the end it is the whole variable, or the string in it (`Ended`).

`CO_SDOserver_process` is four stages: what a request does (`Handled`, and
`Pending` for all of them), the timers (`Timed`), the answer (`Transmitted`) and
the abort (`Finished`); `Processed` is the whole call. Between the stages the
invariant is weaker, because a state such as `DOWNLOAD_BLK_INITIATE_REQ` is only
passed through. There is a lemma for each function of the C file and each case
of its `switch` statements. That a variable is written as a whole (`Whole`,
`WholeStep`) goes along with them: outside of a block download, the call that
changes a variable of at most `BUFFER_SIZE - 9` bytes is the one that acknowledges
the finished transfer.

`Todo(s)` counts the ticks a server left alone still takes: what is left of its
timer, and one for each answer and each segment it sends before the timer runs.
It never grows without a frame, falls with every tick and is at most `Patience`.
For this a sub-block must not be longer than `Patience` allows (`TimeAssumption`).

The first state is one that earlier transfers have left behind. `After` is a
recursive function over their requests; `AnswerKept` (a request keeps the
invariant) and the loop lemmas give `AnsweredBefore`.

Assumed besides the sizes (`BufferAssumption`, which includes the 20 bytes that
`CO_SDOserver.c:25` requires) is that every object has its bytes and a
variable has sub-index 0 (`DictionaryAssumption`), and that a frame has the
fields of eight bytes (`FrameAssumption`).

### Emergency, NMT, heartbeat

The first part of `CoNodeProofs` says what each operation of the emergency object
keeps. The ring serves as queue and as history: the k-th newest message of the log is at
`place(fifoWrPtr, k)` of the buffer (`History`), whatever has been sent. For the
listener, `Tells` compares its belief with the error bits except where a message was
dropped; the stack's own condition `EMERGENCY_BUFFER_FULL` is never among those,
because it is announced only when there is room.

`BeatInv` couples the producer's timer, which counts down, with the age of the
last heartbeat, which counts up. `PeerInv` adds the same for every monitored
node (timer and age differ by at most one call), and that a peer in timeout is
an error bit which nothing but the heartbeat consumer resets and which keeps
the node from being operational. The three theorems on emergencies and peers
come from `BeatInv /\ PeerInv`, because one call of `CO_process` runs all three
objects on shared state.

The loops of `CO_EM_process` over the status bits and of `CO_HBconsumer_process`
over the monitored nodes are recursive functions, as are those of the ring buffer
below. The library's
induction theorems take an operator as a parameter, which the provers cannot
instantiate; `LoopProofs` states induction for a set, from the well-founded order
of the numbers, and derives that a loop exists and that a set which every pass
keeps holds its result.

`ScenariosAssumption` says of the application that it does not itself report or
reset `EMERGENCY_BUFFER_FULL` and `HEARTBEAT_CONSUMER`, which belong to the stack,
and that ages are counted as far as the times they are compared with;
`TimesAssumption`, that there is a longest time between two calls.

### PDO

    PdoInv == /\ RpdoOK(rpdo)  /\ TpdoOK(tpdo)
              /\ "GENERIC_SOFTWARE_ERROR" \notin errs  /\ ...  (types)

A PDO is in good order (`PdoOK`) if each of its places either reflects the entry
of the dictionary or is marked as erroneous (`Reflects`), what is mapped is what
the dictionary counts, in a frame of the sum of the places (`Counted`), and a
valid PDO has the identifier that is read back (`Identified`). `MappingIsSound`
looks at valid PDOs only; the invariant must hold of the others too, because the
mapping of a PDO is written while it is not valid, one entry at a time, and its
COB-ID afterwards. `RpdoOK` adds the receive buffers, `TpdoOK` the transmit
buffer, whose length and SYNC flag must follow mapping and type.

There is a lemma for each object that is written (`PdoMappingWritten`, `RpdoWritten`,
`TpdoWritten`), for both initializations and for each block of the two process
functions; what these leave alone is collected in `PdoKept`, `RpdoKept` and
`TpdoKept`. The loop of `PDO_initMapping` over the entries is followed with
`LoopProofs` (`EntriesLoop`). That a reset would set up a valid PDO the same
(`entriesGood`) compares what the writes made of the places with what this loop
would make of them (`usable`).

`RpdoSync` is about steps, and needs to know where the messages are that the
property only numbers:

    FollowInv == /\ syncs = IF sync.CANrxNew THEN 1 ELSE 0
                 /\ ~rpdo.valid => latest = 0 /\ atSync = 0
                 /\ rpdo.valid /\ ~disturbed => Follows(rpdo, sync, vals, ...)
                 /\ ...  (types)

`Follows` says that the buffer which is being filled holds the last message, or is
empty because nothing came since the last SYNC, and that the other one holds the
last message before the SYNC, or is empty because the mapped objects have its
value; and that the latter is so unless a SYNC waits for a call. A SYNC swaps the
buffers (`FollowSync`), a message overwrites one (`FollowMessage`), a change of the
transmission type finds both empty or disturbs (`FollowWriteRpdo`), and a call
takes the other one after the SYNC that it acts on, its own included, which
comes only when none waits (`SyncProcessed`, `FollowsProcess`).

`TpdoWhen` relates what the code counts down to what the property counts up.

    WhenInv == /\ AskedOK /\ CycleOK /\ RequestOK /\ TimesOK
               /\ first => tpdo.sendRequest /\ tpdo.inhibitTimer = 0

`AskedOK`: the objects that ask are those whose flag is cleared. `CycleOK`: the
one byte `syncCounter` is what is left of the cycle, or one of the marks 255
(before the first SYNC) and 254 (waiting for the start value). `RequestOK`: the
request and the two timers follow from what asked and from the time since the
last TPDO. The property alone is not inductive: it compares each call with the
time that passed, and only the timers say what the next call will do. A call is
first reduced to what it does to these fields (`CallAs`, `TpdoProcessAs`), then
whether it sends is compared with the property (`CallsWhenDue`), and what it
leaves behind with the invariant (`WhenIdle`, `WhenSent`, `WhenUnsent`).

Assumed is that the values which are written have the type of the object they
are written to (`ScenariosAssumption`; a reserved type, an identifier in use or a
mapping that is too long may well be written), that objects have a length
(`ObjectsAssumption`) and are what is requested (`RequestsAssumption`), and that
the time since a TPDO is counted as far as its timers (`MaxAgeAssumption`).

### SRDO

`PairInv` relates the two nodes, the frames between them, and what is recorded
for the property. The producer sends nothing that a fault makes (`TxOK`). Of the two
frames in the consumer's buffer, one that a fault made never agrees with the other
(`DataOK`). What the consumer works with is what its dictionary
says and has signed (`Configured`). The ages of the frame in the buffer and of the
value go with the two timers, behind which they may be by the time since the last
call (`AgesOK`). A failure lasts as long as the node is operational (`FailureOK`).

`PairsAssumption` says that one node is producer and the other consumer, that
configuration writes do not make a second producer of the consumer, and that
the application's values are different from those which stand for nothing
received and for corrupted data.

### The ring buffer

`FifoIsAQueue` is a refinement: every initial state of `CoFifo` maps to one of
`FifoQueue`, and every action to the action of the same name. The queue is
`contents(fifo)`, what a pointer meets from `readPtr` to `writePtr`. The invariant
is small,

    FifoInv == /\ fifo \in CO_fifo_t  /\ alt \in BOOLEAN
               /\ alt => between(readPtr, altReadPtr) <= Len(contents(fifo))

because the work is in the calls. A few lemmas on pointers say that the place
`k` steps from `readPtr` holds character `k + 1` of the queue, that taking `k`
characters leaves the rest, and that one place stays empty. From there on a loop is
followed in positions of the queue, with an assertion for each: `Filled` (write),
`ReadUpTo` (read), `TrimUpTo` (trimming) and `TokenUpTo` (tokens). The
last one says in which `Phase` the walk is with respect to the positions `b`, `e`
and `x` at which the token begins, ends and is followed by something, and that
`Cut`, the part of the token copied so far, is limited by the room. The
two searches with `memchr` are shown to find the first delimiter (`CommandEnd`).

Assumed is that the buffer has at least two places, that the two delimiters are
different characters and not blanks, and that texts consist of characters and
counts are natural numbers. A loop of `CO_fifo.c` that ends by itself is a recursive
function with as many turns as the buffer has places.

### How they were found

Each invariant was an `INVARIANT` of TLC on the run's instance before it was
proved: `BeatInv` and `PeerInv` in 540,383 states, `PairInv` in 864,785,
`FifoInv` in 15,768 with a buffer of three places, `PdoInv` and `FollowInv` in
1,235,055, `WhenInv` in 1,074,920, and the parts of `ServerInv` with `Rest` in
954,803. This showed that `UploadWindow` was wrong for a string longer than the
buffer (see *The C stack*), which no variable of the run was until then. Proving
`SafetyData` showed that the recorded age of received data was reset by a frame
with a foreign identifier too, which made the property weaker than it reads; it is
reset by an accepted frame only. Proving `TpdoWhen` showed four cases in which
`TpdoWhenDue` as it was stated did not hold of the code, and which no scenario
of the run had: an inhibit time written while the TPDO is disabled, 0x1019 or
the start value changed while the first cycle waits, another parameter written
in the first half cycle, and a flag that stopped being stale after it had asked.
`noted` was added to tell them apart, and `co_pdo` now has scenarios for them.

### Only model-checked

* The properties of `SdoBus`, which are claimed for budgets of faults: *Limits*
  names budgets for which some of them fail.
* `CoSdoClient` and `CoSdoTransfer`.
* The text formats of `MCCoFifo`: what their recursive definitions compute is
  induction over data.
* `NodeIdsAreAssigned` of `MCCoNode`.
* `CallsReturn`, `DownloadsGetWritten` and `ServerRecovers`: liveness, which is
  outside the prover's reach.

## Not modelled

The crate:

* The byte order of index and size, and the numeric table of abort codes:
  fields in `SdoWire`.
* `can_to_sdo`, which drops CAN frames that are not standard data frames of
  eight bytes.
* Calls in parallel and other nodes on the bus. The client alone is checked
  against frames of another node and object. So a subscription that never runs
  dry, and with it `select`'s preference for frames, is not covered.
* A server shared by several masters, which `src/server.rs` excludes.
* Allocation (the client reserves the announced size) and the overflow of
  `now + timeout`, which `src/lib.rs` leaves to the caller.
* An error of `bus.send` in the demo, which ends that program.
* Logging, `Display` and the other examples.

The C stack:

* Code that is not compiled: node guarding, trace, the EEPROM storage, the
  variant of PDO without access functions (`CO_PDO.c:276-371`), the second
  thread, big-endian swapping.
* Storage: what it promises rests on the file system, and nothing else depends
  on it while the program runs.
* TIME, LEDs and GFC: a copied clock, a table of patterns and one callback.
* Additional SDO servers and the reconfiguration of SDO channels (0x1201,
  0x1280).
* The syntax of gateway commands and the commands that assign a setting, print
  a text or send one NMT frame.
* Memory allocation and the numbering of CAN buffers at start; sockets, epoll,
  options and signals; the CRC table; the search in the dictionary (`OD_find`)
  and its typed getters and setters.
* Generated dictionaries: constants of the models.

## Plan

Done: the crate's state machines, their composition with retries and faults;
the C stack's components that keep state, the compositions in which they
interact, and the refinement of the queue; the proofs above.

1. The offsets of `CoSdoClient`'s buffer, then `ClientBytesAreAccounted`.
2. That `SdoBus` preserves the invariants of its two instances.
3. `SdoCodec`: frames as eight bytes; every field of `SdoWire` decoded from what
   the encoders put there, for the boundary values of index, size and
   length; abort codes and `From<u32>`; `can_to_sdo`.

---------------------------- MODULE CoLssMaster -----------------------------
(***************************************************************************)
(* The master of the layer setting services, CO_LSSmaster.c.  Its          *)
(* functions are called again and again until they stop returning          *)
(* WAIT_SLAVE; each gives [m, ret, send, value]: the master then, the      *)
(* return value, the messages sent, and what an output parameter gets, the *)
(* fastscan structure or an inquired value.                                *)
(***************************************************************************)
EXTENDS CoLssSlave, Sequences, FiniteSets

CONSTANT Timeout  \* timeout_us

CO_LSSmaster_init ==
    [state |-> "WAITING", command |-> "WAITING", timeoutTimer |-> 0, CANrxNew |-> FALSE, CANrxData |-> LssReply("none", 0),
     fsState |-> "CHECK", fsLssSub |-> 0, fsBitChecked |-> 0, fsIdNumber |-> 0]

CO_LSSmaster_receive(m, reply) ==
    IF m.CANrxNew \/ m.command = "WAITING" THEN m ELSE [m EXCEPT !.CANrxData = reply, !.CANrxNew = TRUE]

Returned(m, ret, send, value) == [m |-> m, ret |-> ret, send |-> send, value |-> value]
Refused(m, ret, value) == Returned(m, ret, <<>>, value)

\* The command is over with anything but these two.
Finished(r) == IF r.ret \in {"INVALID_STATE", "WAIT_SLAVE"} THEN r ELSE [r EXCEPT !.m.command = "WAITING"]

timed_out(m, dt) == m.timeoutTimer + dt >= Timeout

CO_LSSmaster_check_timeout(m, dt, value) ==
    IF timed_out(m, dt) THEN Returned([m EXCEPT !.timeoutTimer = 0], "TIMEOUT", <<>>, value)
    ELSE Returned([m EXCEPT !.timeoutTimer = @ + dt], "WAIT_SLAVE", <<>>, value)

request(m, command, messages, value) ==
    Returned([m EXCEPT !.command = command, !.timeoutTimer = 0, !.CANrxNew = FALSE], "WAIT_SLAVE", messages, value)

\* A message with another command specifier is dropped.
await(m, dt, cs, value) ==
    IF m.CANrxNew /\ m.CANrxData.cs = cs THEN Returned([m EXCEPT !.CANrxNew = FALSE], "OK", <<>>, value)
    ELSE CO_LSSmaster_check_timeout([m EXCEPT !.CANrxNew = FALSE], dt, value)

-----------------------------------------------------------------------------
(* Switching *)

switchStateSelectInitiate(m, address) ==
    request([m EXCEPT !.state = "CFG_SELECTIVE"], "SWITCH_STATE",
            [i \in 1..4 |-> LssMessage("SWITCH_SEL", address[i - 1], i - 1)], 0)

switch_all(m) ==
    Returned([m EXCEPT !.state = "CFG_GLOBAL", !.CANrxNew = FALSE], "OK",
             <<LssMessage("SWITCH_GLOBAL", "CONFIGURATION", 0)>>, 0)

\* A call that is refused leaves the master waiting too, with what is
\* selected still selected.
CO_LSSmaster_swStateSelect(m, dt, all, address) ==
    LET r == IF m.state = "WAITING" /\ m.command = "WAITING"
             THEN IF all THEN switch_all(m) ELSE switchStateSelectInitiate(m, address)
             ELSE IF m.command = "SWITCH_STATE" THEN await(m, dt, "SEL", 0)
             ELSE Refused(m, "INVALID_STATE", 0)
    IN  IF r.ret \in {"TIMEOUT", "INVALID_STATE"}
        THEN [r EXCEPT !.m.state = "WAITING", !.m.command = "WAITING"] ELSE Finished(r)

CO_LSSmaster_swStateDeselect(m) ==
    Returned([m EXCEPT !.state = "WAITING", !.command = "WAITING", !.timeoutTimer = 0, !.CANrxNew = FALSE],
             "OK", <<LssMessage("SWITCH_GLOBAL", "WAITING", 0)>>, 0)

-----------------------------------------------------------------------------
(* Configuration and inquiry *)

configureCheckWait(m, dt, cs) ==
    LET r == await(m, dt, cs, 0) IN
    IF r.ret # "OK" \/ m.CANrxData.val = 0 THEN r
    ELSE [r EXCEPT !.ret = IF m.CANrxData.val = 255 THEN "OK_MANUFACTURER" ELSE "OK_ILLEGAL_ARGUMENT"]

configure(m, dt, allowed, cs, val) ==
    Finished(IF allowed /\ m.command = "WAITING" THEN request(m, cs, <<LssMessage(cs, val, 0)>>, 0)
             ELSE IF m.command = cs THEN configureCheckWait(m, dt, cs)
             ELSE Refused(m, "INVALID_STATE", 0))

CO_LSSmaster_configureBitTiming(m, dt, rate) == configure(m, dt, m.state = "CFG_SELECTIVE", "CFG_BIT_TIMING", rate)

CO_LSSmaster_configureNodeId(m, dt, nodeId) ==
    IF ~CO_LSS_NODE_ID_VALID(nodeId) THEN Refused(m, "ILLEGAL_ARGUMENT", 0)
    ELSE configure(m, dt, m.state = "CFG_SELECTIVE" \/ (m.state = "CFG_GLOBAL" /\ nodeId = UNASSIGNED),
                   "CFG_NODE_ID", nodeId)

CO_LSSmaster_configureStore(m, dt) == configure(m, dt, m.state = "CFG_SELECTIVE", "CFG_STORE", 0)

CO_LSSmaster_ActivateBit(m) ==
    IF m.state = "CFG_GLOBAL" /\ m.command = "WAITING"
    THEN Returned([m EXCEPT !.CANrxNew = FALSE], "OK", <<LssMessage("CFG_ACTIVATE_BIT_TIMING", 0, 0)>>, 0)
    ELSE Refused(m, "INVALID_STATE", 0)

\* The value is taken from whatever message came.
inquireCheckWait(m, dt, sub, value) ==
    await(m, dt, inquireCs[sub], IF m.CANrxNew THEN m.CANrxData.val ELSE value)

selected_any(m) == m.state \in {"CFG_SELECTIVE", "CFG_GLOBAL"}

CO_LSSmaster_Inquire(m, dt, sub, value) ==
    LET r == IF selected_any(m) /\ m.command = "WAITING" THEN request(m, "INQUIRE", <<LssMessage("INQUIRE", 0, sub)>>, value)
             ELSE IF m.command = "INQUIRE" THEN inquireCheckWait(m, dt, sub, value)
             ELSE Refused(m, "INVALID_STATE", value)
    IN  IF r.ret = "WAIT_SLAVE" THEN r ELSE [r EXCEPT !.m.command = "WAITING"]

\* The command is named after the part.
inquire_part(m, p, address) == request(m, inquireCs[p], <<LssMessage("INQUIRE", 0, p)>>, address)

CO_LSSmaster_InquireLssAddress(m, dt, address) ==
    IF selected_any(m) /\ m.command = "WAITING" THEN inquire_part(m, 0, address)
    ELSE IF \A p \in Parts : m.command # inquireCs[p] THEN Refused(m, "INVALID_STATE", address)
    ELSE LET p == CHOOSE q \in Parts : m.command = inquireCs[q]
             r == inquireCheckWait(m, dt, p, address[p])
             told == [address EXCEPT ![p] = r.value]
         IN  IF r.ret = "OK" /\ p # SERIAL THEN inquire_part(r.m, p + 1, told)
             ELSE Finished([r EXCEPT !.value = told])

-----------------------------------------------------------------------------
(* Fastscan.  fs is [scan, match, found]; scan[p] is SCAN, MATCH or SKIP.   *)

FsSendMsg(m, idNumber, bit, sub, next, fs) ==
    Returned([m EXCEPT !.timeoutTimer = 0, !.CANrxNew = FALSE], "WAIT_SLAVE",
             <<[cs |-> "FASTSCAN", val |-> idNumber, bit |-> bit, sub |-> sub, next |-> next]>>, fs)

FsSearchNext(m, fs) ==
    LET later == {p \in Parts : p > m.fsLssSub /\ fs.scan[p] # "SKIP"} IN
    IF later = {} THEN 0 ELSE CHOOSE p \in later : \A q \in later : p <= q

\* A part that is matched is not scanned, only verified.
FsScanInitiate(m, sub, fs) ==
    LET at == [m EXCEPT !.fsLssSub = sub, !.fsIdNumber = 0, !.fsState = "SCAN"] IN
    IF fs.scan[sub] = "MATCH" THEN Returned(at, "WAIT_SLAVE", <<>>, fs)
    ELSE FsSendMsg([at EXCEPT !.fsBitChecked = Width - 1], 0, Width - 1, sub, sub, fs)

FsVerifyInitiate(m, fs) ==
    LET id == IF fs.scan[m.fsLssSub] = "MATCH" THEN fs.match[m.fsLssSub] ELSE m.fsIdNumber IN
    FsSendMsg([m EXCEPT !.fsIdNumber = id, !.fsBitChecked = 0, !.fsState = "VERIFY"],
              id, 0, m.fsLssSub, FsSearchNext(m, fs), fs)

ident(m) == m.CANrxNew /\ m.CANrxData.cs = "IDENT_SLAVE"
heard(m) == [m EXCEPT !.timeoutTimer = 0, !.CANrxNew = FALSE]

FsCheckWait(m, fs) ==
    IF ident(m) THEN FsScanInitiate(heard(m), 0, [fs EXCEPT !.found = [p \in Parts |-> 0]])
    ELSE Returned(heard(m), "SCAN_NOACK", <<>>, fs)

\* No answer: the bit is 1.
FsScanWait(m, fs) ==
    LET checked == [heard(m) EXCEPT !.fsIdNumber = IF m.CANrxNew THEN @ ELSE @ + 2^m.fsBitChecked] IN
    IF m.CANrxNew /\ ~ident(m) THEN Returned(heard(m), "SCAN_FAILED", <<>>, fs)
    ELSE IF m.fsBitChecked = 0 THEN FsVerifyInitiate(checked, fs)
    ELSE FsSendMsg([checked EXCEPT !.fsBitChecked = @ - 1], checked.fsIdNumber, m.fsBitChecked - 1,
                   m.fsLssSub, m.fsLssSub, fs)

FsVerifyWait(m, fs) ==
    LET found == [fs EXCEPT !.found[m.fsLssSub] = IF ident(m) THEN m.fsIdNumber ELSE 0] IN
    IF ~ident(m) THEN Returned(heard(m), IF m.CANrxNew THEN "SCAN_FAILED" ELSE "SCAN_NOACK", <<>>, found)
    ELSE IF FsSearchNext(m, fs) = 0
    THEN Returned([heard(m) EXCEPT !.state = "CFG_SELECTIVE"], "SCAN_FINISHED", <<>>, found)
    ELSE FsScanInitiate(heard(m), FsSearchNext(m, fs), found)

FsStep(m, dt, fs) ==
    IF m.fsState = "SCAN" /\ fs.scan[m.fsLssSub] = "MATCH" THEN FsVerifyInitiate(m, fs)
    ELSE IF ~timed_out(m, dt) THEN CO_LSSmaster_check_timeout(m, dt, fs)
    ELSE CASE m.fsState = "CHECK"  -> FsCheckWait(m, fs)
           [] m.fsState = "SCAN"   -> FsScanWait(m, fs)
           [] m.fsState = "VERIFY" -> FsVerifyWait(m, fs)

illegal_scan(fs) == fs.scan[0] = "SKIP" \/ Cardinality({p \in Parts : fs.scan[p] = "SKIP"}) > 2

CO_LSSmaster_IdentifyFastscan(m, dt, fs) ==
    IF illegal_scan(fs) THEN Refused(m, "ILLEGAL_ARGUMENT", fs)
    ELSE IF m.state # "WAITING" \/ m.command \notin {"WAITING", "IDENTIFY_FASTSCAN"} THEN Refused(m, "INVALID_STATE", fs)
    ELSE IF m.command = "WAITING"
    THEN FsSendMsg([m EXCEPT !.command = "IDENTIFY_FASTSCAN", !.fsState = "CHECK"], 0, CONFIRM, 0, 0, fs)
    ELSE Finished(FsStep(m, dt, fs))
=============================================================================

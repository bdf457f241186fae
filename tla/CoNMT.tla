------------------------------- MODULE CoNMT --------------------------------
(***************************************************************************)
(* The NMT slave and heartbeat producer of CANopenNode,                    *)
(* CO_NMT_Heartbeat.c.  nmt is a record with the fields of CO_NMT_t; its   *)
(* NMTcontrol is [mask, flags], the bits of the error register that matter *)
(* and the CO_NMT_... flags that are set.  Times are in ticks.             *)
(***************************************************************************)
EXTENDS Integers, CoEmergency

NmtStates == {"INITIALIZING", "PRE_OPERATIONAL", "OPERATIONAL", "STOPPED"}
NmtCommands == {"ENTER_OPERATIONAL", "ENTER_STOPPED", "ENTER_PRE_OPERATIONAL",
                "RESET_NODE", "RESET_COMMUNICATION"}

NMTisPreOrOperational(state) == state \in {"PRE_OPERATIONAL", "OPERATIONAL"}

CO_NMT_init(control, HBtime, firstHBTime) ==
    [operatingState |-> "INITIALIZING", operatingStatePrev |-> "INITIALIZING",
     internalCommand |-> "NO_COMMAND", NMTcontrol |-> control,
     HBproducerTime |-> HBtime,
     HBproducerTimer |-> IF firstHBTime > HBtime THEN HBtime ELSE firstHBTime]

\* CO_NMT_receive for a command to this node or to all, and
\* CO_NMT_sendCommand of this node's own master: one command is kept.
CO_NMT_receive(nmt, command) == [nmt EXCEPT !.internalCommand = command]

OD_write_1017(nmt, HBtime) == [nmt EXCEPT !.HBproducerTime = HBtime, !.HBproducerTimer = 0]

\* Mutant: a change of the state is not announced by a heartbeat of its own.
beat_due_on_time(nmt, timer) ==
    \/ nmt.operatingState = "INITIALIZING"
    \/ nmt.HBproducerTime # 0 /\ timer = 0

\* A heartbeat goes out when the timer has run down, and at once after the
\* state has changed; the boot-up message always.
beat_due(nmt, timer) ==
    \/ nmt.operatingState = "INITIALIZING"
    \/ nmt.HBproducerTime # 0 /\ (timer = 0 \/ nmt.operatingState # nmt.operatingStatePrev)

after_command(state, command) ==
    CASE command = "ENTER_OPERATIONAL"     -> "OPERATIONAL"
      [] command = "ENTER_STOPPED"         -> "STOPPED"
      [] command = "ENTER_PRE_OPERATIONAL" -> "PRE_OPERATIONAL"
      [] OTHER -> state

\* The errors that end, or prevent, the operational state.
error_condition(control, em) ==
    \/ "ERR_ON_BUSOFF_HB" \in control.flags
       /\ em.errorStatusBits \cap {"CAN_TX_BUS_OFF", "HEARTBEAT_CONSUMER", "HB_CONSUMER_REMOTE_RESET"} # {}
    \/ "ERR_ON_ERR_REG" \in control.flags /\ em.errorRegister \cap control.mask # {}

\* Mutant: only a node that is operational already is looked at for errors.
after_errors_late(state, before, control, failed) ==
    IF before = "OPERATIONAL" /\ state = "OPERATIONAL" /\ failed
    THEN IF "ERR_TO_STOPPED" \in control.flags THEN "STOPPED" ELSE "PRE_OPERATIONAL"
    ELSE IF "ERR_FREE_TO_OPERATIONAL" \in control.flags /\ state = "PRE_OPERATIONAL" /\ ~failed
    THEN "OPERATIONAL" ELSE state

after_errors(state, before, control, failed) ==
    IF state = "OPERATIONAL" /\ failed
    THEN IF "ERR_TO_STOPPED" \in control.flags THEN "STOPPED" ELSE "PRE_OPERATIONAL"
    ELSE IF "ERR_FREE_TO_OPERATIONAL" \in control.flags /\ state = "PRE_OPERATIONAL" /\ ~failed
    THEN "OPERATIONAL" ELSE state

\* CO_NMT_process: [nmt, beat, reset], with the heartbeat that it sends, or
\* "none", and the reset that the application has to do.
CO_NMT_process(nmt, em, dt) ==
    LET timer  == IF nmt.HBproducerTimer > dt THEN nmt.HBproducerTimer - dt ELSE 0
        due    == beat_due(nmt, timer)
        booted == IF nmt.operatingState # "INITIALIZING" THEN nmt.operatingState
                  ELSE IF "STARTUP_TO_OPERATIONAL" \in nmt.NMTcontrol.flags THEN "OPERATIONAL"
                  ELSE "PRE_OPERATIONAL"
        state  == after_errors(after_command(booted, nmt.internalCommand), nmt.operatingState,
                               nmt.NMTcontrol, error_condition(nmt.NMTcontrol, em))
    IN  [nmt   |-> [nmt EXCEPT !.HBproducerTimer =
                                   IF due /\ nmt.operatingState # "INITIALIZING"
                                   THEN nmt.HBproducerTime ELSE timer,
                               !.operatingStatePrev = booted,
                               !.internalCommand = "NO_COMMAND",
                               !.operatingState = state],
         beat  |-> IF due THEN nmt.operatingState ELSE "none",
         reset |-> CASE nmt.internalCommand = "RESET_NODE" -> "RESET_APP"
                     [] nmt.internalCommand = "RESET_COMMUNICATION" -> "RESET_COMM"
                     [] OTHER -> "RESET_NOT"]
=============================================================================

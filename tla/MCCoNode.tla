------------------------------ MODULE MCCoNode ------------------------------
(***************************************************************************)
(* A node for TLC: its state and heartbeats, its errors, and its peers; and *)
(* the slaves that the layer setting services set up.  A behaviour is about *)
(* one part; the other stands still.                                       *)
(***************************************************************************)
EXTENDS CoNode, Functions

CONSTANT LssScenarios  \* of CoLss

VARIABLES part, l_scenario, initial, master, slaves, gtwa, last, announced, selection, given, down, up, faults

l_vars == <<l_scenario, initial, master, slaves, gtwa, last, announced, selection, given, down, up, faults>>

Entry(p, t) == [nodeId |-> p, time |-> t]
Control(mask, flags) == [mask |-> mask, flags |-> flags]
Nothing == [control |-> Control({}, {}), first |-> 1, cobIds |-> {}, inhibits |-> {0},
            HBtimes |-> {0}, entries |-> <<>>, errors |-> {}, statusBits |-> {}, flags |-> {}, commands |-> {},
            peers |-> {}, written |-> {}, busy |-> FALSE, events |-> 5]

Cases ==
    [none |-> Nothing,
     beats |-> [Nothing EXCEPT !.control = Control({"COMMUNICATION", "GENERIC"},
                                                   {"STARTUP_TO_OPERATIONAL", "ERR_ON_ERR_REG"}),
                               !.first = 2, !.HBtimes = {0, 2, 3}, !.commands = NmtCommands,
                               !.errors = {"GENERIC_ERROR"}, !.inhibits = {0}],
     errors |-> [Nothing EXCEPT !.errors = {"GENERIC_ERROR", "MANUFACTURER", "nonexistent"},
                                !.inhibits = {0, 2}, !.busy = TRUE, !.statusBits = {{"MANUFACTURER"}},
                                !.flags = {{}, {"TX_WARNING", "TX_BUS_OFF"}}],
     cobid |-> [Nothing EXCEPT !.errors = {"MANUFACTURER"}, !.busy = TRUE,
                               !.cobIds = [valid : BOOLEAN, id : {"default", "own", "other"}]],
     peers |-> [Nothing EXCEPT !.control = Control({}, {"ERR_ON_BUSOFF_HB", "ERR_FREE_TO_OPERATIONAL"}),
                               !.commands = {"ENTER_OPERATIONAL", "ENTER_STOPPED"},
                               !.events = 4, !.peers = {1, 2}, !.entries = <<Entry(1, 3), Entry(0, 0)>>,
                               !.written = {Entry(1, 3), Entry(2, 2), Entry(0, 3)}],
     strict |-> [Nothing EXCEPT !.control = Control({"COMMUNICATION"}, {"ERR_ON_BUSOFF_HB",
                                                    "ERR_ON_ERR_REG", "ERR_TO_STOPPED"}),
                                !.commands = {"ENTER_OPERATIONAL", "RESET_COMMUNICATION"},
                                !.peers = {1}, !.entries = <<Entry(1, 2), Entry(1, 3)>>,
                                !.flags = {{}, {"TX_BUS_OFF"}}]]

MCScenarios == [s \in DOMAIN Cases |-> Cases[s]]
-----------------------------------------------------------------------------
(* Layer setting: searches of three slaves, with faults, and commands given  *)
(* one after the other.  Slaves that differ in skipped parts only would be   *)
(* selected together.                                                        *)

Address(a) == [p \in 0..3 |-> a[p + 1]]
Fs(scan, match) == [scan |-> [p \in 0..3 |-> scan[p + 1]], match |-> Address(match), found |-> Address(<<0, 0, 0, 0>>)]
Full == Fs(<<"SCAN", "SCAN", "SCAN", "SCAN">>, <<0, 0, 0, 0>>)
Matching == Fs(<<"MATCH", "SCAN", "MATCH", "SCAN">>, <<1, 0, 2, 0>>)
Skipping == Fs(<<"SCAN", "SKIP", "SCAN", "SKIP">>, <<0, 0, 0, 0>>)
Illegal == Fs(<<"SKIP", "SCAN", "SCAN", "SCAN">>, <<0, 0, 0, 0>>)

Named(name) == [name |-> name]
Switch(on) == [name |-> "lss_switch_glob", on |-> on]
Select(a) == [name |-> "lss_switch_sel", address |-> Address(a)]
SetNode(nid) == [name |-> "lss_set_node", nid |-> nid]
SetRate(rate) == [name |-> "lss_conf_bitrate", rate |-> rate]
Inquire(sub) == [name |-> "lss_inquire", sub |-> sub]
AllNodes(nid, store, fs) == [name |-> "lss_allnodes", nid |-> nid, store |-> store, fs |-> fs]

Addresses == {Address(a) : a \in {<<0, 1, 3, 1>>, <<0, 1, 2, 2>>, <<1, 0, 2, 0>>, <<1, 3, 2, 0>>, <<0, 0, 0, 0>>}}
Unconfigured == {[s \in {"a", "b", "c"} |-> [address |-> f[s], id |-> 255]] : f \in Injection({"a", "b", "c"}, Addresses)}
Search(command, kinds, budget) ==
    [buses |-> Unconfigured, commands |-> {command}, length |-> 1, rates |-> {}, faults |-> kinds, events |-> budget]
Session(length, commands) ==
    [buses |-> {[a |-> [address |-> Address(<<0, 1, 3, 1>>), id |-> 255],
                 c |-> [address |-> Address(<<1, 0, 2, 0>>), id |-> 5]]},
     commands |-> commands \cup {Switch(FALSE)}, length |-> length, rates |-> {10}, faults |-> {}, events |-> 0]

LssCases ==
    [all      |-> Search(AllNodes(2, TRUE, Full), {"message", "answer", "late"}, 1),
     match    |-> Search(AllNodes(2, FALSE, Matching), {"message", "answer", "late"}, 1),
     skip     |-> [Search(AllNodes(2, FALSE, Skipping), {"message", "answer", "late"}, 1)
                     EXCEPT !.buses = {b \in @ : IsInjective([s \in DOMAIN b |-> <<b[s].address[0], b[s].address[2]>>])}],
     last     |-> Search(AllNodes(126, FALSE, Full), {}, 0),
     session  |-> Session(5, {Select(<<0, 1, 3, 1>>), Select(<<0, 1, 2, 1>>), Named("lss_store"), Named("lss_inquire_addr"),
                              Named("lss_fastscan"), AllNodes(2, TRUE, Illegal)} \cup {SetNode(k) : k \in {0, 7, 255}}),
     global   |-> Session(3, {Switch(TRUE), Named("lss_activate_bitrate"), Named("lss_fastscan")}
                             \cup {SetNode(k) : k \in {7, 255}}),
     settings |-> Session(3, {Select(<<1, 0, 2, 0>>)} \cup {Inquire(k) : k \in {1, 4}} \cup {SetRate(k) : k \in {10, 20}})]
MCLss == [s \in DOMAIN LssCases |-> LssCases[s]]

L == INSTANCE CoLss WITH Width <- 2, Timeout <- 2, Scenarios <- LssScenarios, scenario <- l_scenario

NoLss == /\ l_scenario = 0 /\ initial = 0 /\ master = 0 /\ slaves = 0 /\ gtwa = 0 /\ last = 0 /\ announced = 0
         /\ selection = 0 /\ given = 0 /\ down = 0 /\ up = 0 /\ faults = 0
MCInit == Init /\ \/ part = "node" /\ NoLss
                  \/ part = "lss" /\ scenario = "none" /\ L!Init

Device == part = "node" /\ Next /\ UNCHANGED <<part, l_vars>>
LayerSetting == part = "lss" /\ L!Next /\ UNCHANGED <<part, vars>>

MCSpec == MCInit /\ [][Device \/ LayerSetting]_<<part, vars, l_vars>>

-----------------------------------------------------------------------------
(* What the layer setting services announce and leave behind is right       *)
(* (CO_LSSmaster_IdentifyFastscan, CO_LSSslave_receive, lss_allnodes).      *)
NodeIdsAreAssigned == part = "lss" => L!NodeIdsAreAssigned
=============================================================================

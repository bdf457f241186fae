------------------------------- MODULE MCCoPdo -------------------------------
(***************************************************************************)
(* Process data and safety-relevant data for TLC.  A behaviour is about    *)
(* one part; the other stands still.                                       *)
(***************************************************************************)
EXTENDS CoPdoNode, CoSrdoPair

VARIABLE part

(* Process data: order, events, cycles, mapping *)

MCObjects == [x |-> [dataLength |-> 1, rpdo |-> TRUE, tpdo |-> TRUE, flag |-> TRUE],
              y |-> [dataLength |-> 4, rpdo |-> TRUE, tpdo |-> TRUE, flag |-> FALSE],
              z |-> [dataLength |-> 8, rpdo |-> TRUE, tpdo |-> TRUE, flag |-> TRUE],
              w |-> [dataLength |-> 4, rpdo |-> FALSE, tpdo |-> FALSE, flag |-> FALSE]]

Map(obj, len) == [obj |-> obj, len |-> len, odd |-> FALSE]
Cob(valid, id) == [valid |-> valid, id |-> id]
Od(cobId, type, count, maps) == [cobId |-> cobId, type |-> type, count |-> count, maps |-> maps,
                                 event |-> 0, inhibit |-> 0, start |-> 0]
Off == Od(Cob(FALSE, "base"), 254, 0, <<Map("dummy", 0), Map("dummy", 0)>>)
Counter(k) == [DLC |-> 1, counter |-> k]
Plain == [DLC |-> 0, counter |-> 0]

Nothing == [sync |-> [cobId |-> [producer |-> FALSE, id |-> "default"], period |-> 0, window |-> 0, ovf |-> 0],
            rpdo |-> {Off}, tpdo |-> {Off}, states |-> {}, DLCs |-> {}, SYNCs |-> {}, r14xx |-> {},
            r16xx |-> {}, t18xx |-> {}, t1Axx |-> {}, s1005 |-> {}, s1006 |-> {}, s1019 |-> {},
            requests |-> {}, reset |-> FALSE, times |-> {1}, events |-> 6]

RpdoXY(type) == Od(Cob(TRUE, "base"), type, 2, <<Map("x", 1), Map("y", 4)>>)
TpdoXZ(type, event, inhibit, start) ==
    [Od(Cob(TRUE, "other"), type, 2, <<Map("x", 1), Map("z", 2)>>)
       EXCEPT !.event = event, !.inhibit = inhibit, !.start = start]

\* Entries to map, of which several cannot be.
Entries == {Map("x", 1), Map("y", 4), Map("z", 8), Map("y", 2), Map("dummy", 0), Map("dummy", 2), Map("w", 4),
            Map("nowhere", 1), Map("x", 2), Map("z", 9), [Map("y", 1) EXCEPT !.odd = TRUE]}
MapWrites == {<<0, k>> : k \in 0..3} \cup {<<1, m>> : m \in Entries}
             \cup {<<2, m>> : m \in {Map("x", 1), Map("y", 4), Map("dummy", 2)}}
CobWrites == {<<1, Cob(TRUE, id)>> : id \in {"zero", "restricted", "base", "own", "other"}}
             \cup {<<1, Cob(FALSE, id)>> : id \in {"extended", "base", "own"}}
OnOff == {<<1, Cob(valid, "other")>> : valid \in BOOLEAN}
BadMaps == {Od(Cob(TRUE, "base"), 1, 2, <<Map("y", 4), Map("z", 8)>>),
            Od(Cob(TRUE, "other"), 1, 1, <<Map("y", 4), Map("w", 4)>>),
            Od(Cob(TRUE, "zero"), 254, 1, <<Map("y", 4), Map("x", 1)>>),
            Od(Cob(TRUE, "base"), 245, 1, <<Map("dummy", 0), Map("x", 1)>>)}

Cases ==
    [none   |-> Nothing,
     order  |-> [Nothing EXCEPT !.rpdo = {RpdoXY(t) : t \in {1, 254}}, !.states = {"OPERATIONAL", "STOPPED"},
                                !.DLCs = {4, 5, 6}, !.SYNCs = {Plain, Counter(1)}, !.times = {4},
                                !.r14xx = {<<2, 1>>, <<2, 254>>, <<2, 250>>}],
     own    |-> [Nothing EXCEPT !.rpdo = {RpdoXY(1)}, !.states = {"OPERATIONAL"}, !.DLCs = {5},
                                !.SYNCs = {Plain, Counter(1)}, !.s1006 = {0, 2}, !.s1019 = {0, 1, 2, 241},
                                !.s1005 = [producer : BOOLEAN, id : {"default", "other", "restricted"}],
                                !.sync = [Nothing.sync EXCEPT !.window = 1, !.ovf = 1],
                                !.times = {1, 2}, !.events = 5],
     events |-> [Nothing EXCEPT !.tpdo = {TpdoXZ(t, e, i, 0) : t \in {0, 254}, e \in {0, 3}, i \in {0, 2}},
                                !.states = {"OPERATIONAL", "PRE_OPERATIONAL"}, !.requests = {"x", "y", "z"},
                                !.SYNCs = {Plain}, !.times = {1, 2},
                                !.t18xx = OnOff \cup {<<2, 0>>, <<2, 255>>, <<5, 2>>, <<5, 0>>, <<3, 3>>}],
     cycles |-> [Nothing EXCEPT !.tpdo = {TpdoXZ(t, 0, 0, s) : t \in {1, 2, 3}, s \in {0, 2}},
                                !.states = {"OPERATIONAL", "PRE_OPERATIONAL"},
                                !.SYNCs = {Counter(k) : k \in 1..3}, !.events = 8, !.times = {4},
                                !.sync = [Nothing.sync EXCEPT !.ovf = 3], !.s1019 = {0},
                                !.t18xx = OnOff \cup {<<2, 2>>, <<2, 4>>, <<5, 2>>, <<6, 3>>}],
     rmap   |-> [Nothing EXCEPT !.rpdo = {RpdoXY(254)} \cup BadMaps, !.states = {"OPERATIONAL"}, !.DLCs = {4, 8},
                                !.r14xx = CobWrites, !.r16xx = MapWrites, !.reset = TRUE, !.times = {4}],
     tmap   |-> [Nothing EXCEPT !.tpdo = {TpdoXZ(254, 0, 0, 0)} \cup BadMaps, !.states = {"OPERATIONAL"},
                                !.t18xx = CobWrites \cup {<<2, 1>>, <<6, 2>>},
                                !.t1Axx = MapWrites, !.reset = TRUE, !.times = {4}]]

MCScenarios == [s \in DOMAIN Cases |-> Cases[s]]

MCQuiet == [quiet |-> [Nothing EXCEPT !.rpdo = {[RpdoXY(254) EXCEPT !.event = 4]}, !.states = {"OPERATIONAL"},
                                      !.DLCs = {5}, !.times = {1, 2}, !.r14xx = {<<5, 3>>}]]
-----------------------------------------------------------------------------
(* Safety-relevant data: faults of the bus, values that change and a busy    *)
(* driver, and configurations of the consumer                                *)

SrdoOd(dir, cob, count, map) ==
    [valid |-> TRUE, dir |-> dir, cycle |-> 3, validation |-> 1, cob |-> cob, count |-> count, map |-> map,
     signature |-> [dir |-> dir, cycle |-> 3, validation |-> 1, cob |-> IF cob = "default" THEN "own" ELSE cob,
                    count |-> count, map |-> map]]
Good == SrdoOd(2, "default", 2, "pair")
Steady == [tx |-> SrdoOd(1, "default", 2, "pair"), rx |-> {Good}, start |-> {"tx", "rx"}, values |-> {},
           faults |-> {}, writes |-> {}, commands |-> {"tx", "rx"}, call |-> 2, wire |-> 1, events |-> 2]

SrdoWrites == {<<"13FE", TRUE>>, <<"13FE", FALSE>>, <<"13FF", "now">>, <<"13FF", "other">>}
              \cup {<<"comm", "cycle", t>> : t \in {1, 4}} \cup {<<"comm", "validation", 0>>}
              \cup {<<"comm", "cob", c>> : c \in {"own", "outside"}} \cup {<<"comm", "dir", d>> : d \in {0, 2, 3}}
              \cup {<<"map", "count", k>> : k \in {0, 2}} \cup {<<"map", "map", m>> : m \in {"pair", "dummies"}}
Consumers == {Good, [Good EXCEPT !.cycle = 4, !.valid = FALSE],
              SrdoOd(2, "other", 2, "pair"), SrdoOd(3, "default", 2, "pair"),
              SrdoOd(2, "default", 2, "dummies"), SrdoOd(2, "default", 2, "unknown")}
             \cup {[SrdoOd(0, "default", c[1], c[2]) EXCEPT !.valid = FALSE] : c \in {<<0, "unequal">>, <<2, "pair">>}}

SrdoCases ==
    [none   |-> [Steady EXCEPT !.start = {}],
     fault  |-> [Steady EXCEPT !.faults = {"lost", "broken", "short", "again"}],
     value  |-> [Steady EXCEPT !.faults = {"busy", "failed"}, !.values = {2}],
     config |-> [Steady EXCEPT !.rx = Consumers, !.start = {"tx"}, !.writes = SrdoWrites,
                               !.commands = {"rx", "reset"}, !.call = 1, !.events = 3]]
MCPairs == [s \in DOMAIN SrdoCases |-> SrdoCases[s]]

MCInit == /\ Init /\ PairInit
          /\ \/ part = "pdo" /\ pair = "none"
             \/ part = "srdo" /\ scenario = "none" /\ pair # "none"

ProcessData == part = "pdo" /\ Next /\ UNCHANGED <<part, pairVars>>
SafetyData == part = "srdo" /\ PairNext /\ UNCHANGED <<part, vars>>

MCSpec == MCInit /\ [][ProcessData \/ SafetyData]_<<part, vars, pairVars>>
PdoSpec == MCInit /\ part = "pdo" /\ [][ProcessData]_<<part, vars, pairVars>>
=============================================================================

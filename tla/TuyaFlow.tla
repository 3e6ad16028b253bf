------------------------------- MODULE TuyaFlow -------------------------------
(***************************************************************************)
(* How a Tuya device becomes an entry: the steps of the config flow        *)
(* (config_flow.py, cloud.py), LAN discovery, which raises flows of its    *)
(* own (discovery.py), and the options flow of an entry.  Flows run side   *)
(* by side; what keeps them apart is the unique id each takes.             *)
(*                                                                         *)
(* A step runs between two awaits.  Home Assistant's flow manager is       *)
(* external: it ends a flow that takes a unique id another flow has, and   *)
(* refuses input that is not in a form's schema.                           *)
(***************************************************************************)
EXTENDS Integers, FiniteSets

CONSTANTS
    Devices, Hub, Child,    \* device ids; the id of a child of Hub
    Options,                \* type keys offered for each id
    Flows,                  \* bound: flows raised, 1..n
    None

ASSUME FlowAssumption == None \notin Devices \cup {Child} /\ Hub \in Devices /\ 0 \notin Flows

Ids == Devices \cup {Child}
Device(i) == IF i = Child THEN Hub ELSE i
Keys == UNION {Options[i] : i \in Ids}

VARIABLES
    entries,    \* of each id: the type key of its entry, or None
    flow,       \* of each flow: see NoFlow
    cache,      \* auth_cache: logged in at the cloud
    disc,       \* the discovery service
    opt,        \* of each id: its options flow is "no", "form" or "test"
    paused      \* of each id: the device of its entry polls temporarily

tuya == <<entries, flow, cache, disc, opt, paused>>

\* `uid`: the unique id taken; `found`: the discovered device; `id`: the one
\* entered; `holds`: the test paused the device it will resume.
NoFlow == [step |-> "none", uid |-> None, found |-> None, id |-> None, holds |-> FALSE,
           key |-> None, auth |-> "none", listed |-> {}]
Ended == [NoFlow EXCEPT !.step = "end"]
NoDisc == [on |-> FALSE, scanning |-> FALSE, seen |-> {}, todo |-> {}]

TuyaInit ==
    /\ entries = [i \in Ids |-> None]
    /\ flow = [f \in Flows |-> NoFlow]
    /\ cache = FALSE
    /\ disc = NoDisc
    /\ opt = [i \in Ids |-> "no"]
    /\ paused = [i \in Ids |-> FALSE]

-----------------------------------------------------------------------------
(* The flow.                                                               *)

Next1(f) == flow[f].step = "none" /\ \A g \in Flows : flow[g].step = "none" => f <= g
Goes(f, step) == flow' = [flow EXCEPT ![f].step = step]

\* The form of the local step; what was found is its defaults.
Local(r) == [r EXCEPT !.step = "local", !.auth = "none", !.found = None]

Creates(f) ==
    /\ Next1(f)
    /\ Goes(f, "user")
    /\ UNCHANGED <<entries, cache, disc, opt, paused>>

Manual(f) ==
    /\ flow[f].step = "user"
    /\ flow' = [flow EXCEPT ![f] = Local(@)]
    /\ UNCHANGED <<entries, cache, disc, opt, paused>>

\* async_get_devices: `exists` is known of devices, not of children.
Listed == {i \in Ids : i = Child \/ entries[i] = None}
Lists(r) == IF Listed = {} THEN Ended ELSE [r EXCEPT !.step = "choose", !.listed = Listed]

\* async_step_user, "cloud" and "cloud_fresh_login".
UsesCloud(f, fresh) ==
    LET auth == IF fresh THEN "no"
                ELSE IF flow[f].auth # "none" THEN flow[f].auth
                ELSE IF cache THEN "yes" ELSE "no"
        r == [flow[f] EXCEPT !.auth = auth, !.step = "cloud"]
    IN  /\ flow[f].step = "user"
        /\ cache' = (cache /\ ~fresh)
        /\ \/ flow' = [flow EXCEPT ![f] = r]
           \/ auth = "yes" /\ flow' = [flow EXCEPT ![f] = Lists(r)]
        /\ UNCHANGED <<entries, disc, opt, paused>>

\* async_step_cloud; a wrong code shows the form again.
GetsQrCode(f) ==
    /\ flow[f].step = "cloud"
    /\ Goes(f, "scan")
    /\ UNCHANGED <<entries, cache, disc, opt, paused>>

\* async_step_scan; a failed login clears the cache of all.
Scans(f, ok) ==
    LET r == [flow[f] EXCEPT !.auth = IF ok THEN "yes" ELSE "no"]
    IN  /\ flow[f].step = "scan"
        /\ cache' = ok
        /\ flow' = [flow EXCEPT ![f] =
               IF ~ok THEN r ELSE IF r.found # None THEN Local(r) ELSE Lists(r)]
        /\ UNCHANGED <<entries, disc, opt, paused>>

\* async_step_choose_device: a child wants its hub, a device none; else the
\* form again.
ChoosesDevice(f, i, hub) ==
    /\ flow[f].step = "choose"
    /\ i \in flow[f].listed
    /\ (i = Child) = (hub # None)
    /\ flow' = [flow EXCEPT ![f].step = "search", ![f].found = i, ![f].listed = {}]
    /\ UNCHANGED <<entries, cache, disc, opt, paused>>

\* async_step_search: with or without an address found.
Searches(f) ==
    /\ flow[f].step = "search"
    /\ flow' = [flow EXCEPT ![f] = Local(@)]
    /\ UNCHANGED <<entries, cache, disc, opt, paused>>

\* async_test_connection, its beginning: the device of an entry is paused.
Tests(f, i) ==
    /\ flow[f].step = "local"
    /\ flow' = [flow EXCEPT ![f].step = "test", ![f].id = i, ![f].holds = entries[i] # None]
    /\ paused' = [paused EXCEPT ![i] = @ \/ entries[i] # None]
    /\ UNCHANGED <<entries, cache, disc, opt>>

Taken(f, i) == \E g \in Flows \ {f} : flow[g].uid = i

\* Mutant: a flow that is under way does not count.
UniqueUnlessEntry(f, i) == entries[i] = None

\* async_set_unique_id, _abort_if_unique_id_configured.
Unique(f, i) == ~Taken(f, i) /\ entries[i] = None

\* Mutant: the device is resumed after a good test only.
ResumedIfGood(i, holds, good) == [paused EXCEPT ![i] = @ /\ ~(holds /\ good)]

\* async_test_connection, its end.
Resumed(i, holds, good) == [paused EXCEPT ![i] = @ /\ ~holds]

\* async_step_local after the test.
TestEnds(f, good) ==
    LET i == flow[f].id
        r == [flow[f] EXCEPT !.holds = FALSE]
    IN  /\ flow[f].step = "test"
        /\ paused' = Resumed(i, flow[f].holds, good)
        /\ flow' = [flow EXCEPT ![f] =
               CASE ~good -> [r EXCEPT !.step = "local", !.id = None]
                 [] good /\ (~Unique(f, i) \/ Options[i] = {}) -> Ended
                 [] OTHER -> [r EXCEPT !.step = "type", !.uid = i]]
        /\ UNCHANGED <<entries, cache, disc, opt>>

\* async_step_select_type: the schema knows the keys offered.
SelectsType(f, key) ==
    /\ flow[f].step = "type"
    /\ key \in Options[flow[f].id]
    /\ flow' = [flow EXCEPT ![f].step = "name", ![f].key = key]
    /\ UNCHANGED <<entries, cache, disc, opt, paused>>

\* async_step_choose_entities; the set-up of an entry starts discovery.
Named(f) ==
    /\ flow[f].step = "name"
    /\ entries' = [entries EXCEPT ![flow[f].id] = flow[f].key]
    /\ flow' = [flow EXCEPT ![f] = Ended]
    /\ disc' = IF disc.on THEN disc ELSE [NoDisc EXCEPT !.on = TRUE]
    /\ UNCHANGED <<cache, opt, paused>>

Dismisses(f) ==
    /\ flow[f].step \in {"user", "cloud", "scan", "choose", "search", "local", "type", "name"}
    /\ flow' = [flow EXCEPT ![f] = Ended]
    /\ UNCHANGED <<entries, cache, disc, opt, paused>>

-----------------------------------------------------------------------------
(* OptionsFlowHandler, and the end of an entry.                            *)

\* The device is a new one: a test under way no longer holds it.
Renewed(i) ==
    /\ flow' = [f \in Flows |-> IF flow[f].id = i THEN [flow[f] EXCEPT !.holds = FALSE] ELSE flow[f]]
    /\ paused' = [paused EXCEPT ![i] = FALSE]

TestsOptions(i) ==
    /\ entries[i] # None
    /\ opt[i] = "no"
    /\ opt' = [opt EXCEPT ![i] = "test"]
    /\ paused' = [paused EXCEPT ![i] = TRUE]
    /\ UNCHANGED <<entries, flow, cache, disc>>

\* A good test stores the options, and the update listener reloads.
OptionsTested(i, good) ==
    /\ opt[i] = "test"
    /\ opt' = [opt EXCEPT ![i] = "no"]
    /\ IF good THEN Renewed(i) ELSE paused' = Resumed(i, TRUE, good) /\ flow' = flow
    /\ UNCHANGED <<entries, cache, disc>>

\* The last entry that is unloaded stops discovery, but not its scan (one that
\* is still out when discovery starts again is left out).
Deletes(i) ==
    /\ entries[i] # None
    /\ entries' = [entries EXCEPT ![i] = None]
    /\ disc' = IF \A j \in Ids \ {i} : entries[j] = None THEN [disc EXCEPT !.on = FALSE] ELSE disc
    /\ opt' = [opt EXCEPT ![i] = "no"]
    /\ Renewed(i)
    /\ UNCHANGED cache

-----------------------------------------------------------------------------
(* discovery.py                                                            *)

ScanStarts ==
    /\ disc.on
    /\ ~disc.scanning
    /\ disc' = [disc EXCEPT !.scanning = TRUE]
    /\ UNCHANGED <<entries, flow, cache, opt, paused>>

\* What is configured is looked up once, before the first flow is raised; an
\* entry of a child stands for its hub.
ScanReturns(found) ==
    LET new == {d \in found : \A i \in Ids : Device(i) = d => entries[i] = None}
    IN  /\ disc.scanning
        /\ disc.todo = {}
        /\ disc' = [disc EXCEPT !.todo = new \ disc.seen, !.scanning = new \ disc.seen # {}]
        /\ UNCHANGED <<entries, flow, cache, opt, paused>>

\* _discover_new, and async_step_integration_discovery of the flow it raises.
Discovers(d) ==
    /\ d \in disc.todo
    /\ disc' = [disc EXCEPT !.todo = @ \ {d}, !.seen = @ \cup {d}, !.scanning = disc.todo # {d}]
    /\ IF Unique(0, d)
       THEN \E f \in Flows : Next1(f) /\ flow' = [flow EXCEPT ![f] =
                [NoFlow EXCEPT !.step = "user", !.uid = d, !.found = d]]
       ELSE flow' = flow
    /\ UNCHANGED <<entries, cache, opt, paused>>

-----------------------------------------------------------------------------
HaRestarts ==
    /\ flow' = [f \in Flows |-> IF flow[f].step = "none" THEN NoFlow ELSE Ended]
    /\ cache' = FALSE
    /\ disc' = [NoDisc EXCEPT !.on = \E i \in Ids : entries[i] # None]
    /\ opt' = [i \in Ids |-> "no"]
    /\ paused' = [i \in Ids |-> FALSE]
    /\ UNCHANGED entries

\* What a user, and the test it waits for, does with flow f.
Uses(f) ==
    \/ Creates(f) \/ Manual(f) \/ GetsQrCode(f) \/ Searches(f) \/ Named(f) \/ Dismisses(f)
    \/ \E b \in BOOLEAN : UsesCloud(f, b) \/ Scans(f, b) \/ TestEnds(f, b)
    \/ \E i \in Ids : Tests(f, i) \/ \E h \in {Hub, None} : ChoosesDevice(f, i, h)
    \/ \E k \in Keys : SelectsType(f, k)

\* What happens now and then.
Upsets == HaRestarts \/ \E i \in Ids : TestsOptions(i) \/ Deletes(i)

\* What goes on whoever started it.
Runs ==
    \/ \E i \in Ids, good \in BOOLEAN : OptionsTested(i, good)
    \/ ScanStarts
    \/ \E s \in SUBSET Devices : ScanReturns(s)
    \/ \E d \in Devices : Discovers(d)

-----------------------------------------------------------------------------
(* Properties.                                                             *)

\* However many users, import requests and scans add devices at once, no two
\* flows go on with one id, and none with an id that has an entry by then: an
\* entry is never made twice, nor over another one.
OneEach ==
    \A f \in Flows : flow[f].uid # None =>
        /\ entries[flow[f].uid] = None
        /\ \A g \in Flows \ {f} : flow[g].uid # flow[f].uid
        /\ flow[f].step = "name" => flow[f].id = flow[f].uid

\* A device that was paused for a test polls on as before once no test of it
\* runs, whichever of several tests, a reload or the end of its entry came first.
PauseEnds ==
    \A i \in Ids : paused[i] =>
        opt[i] = "test" \/ \E f \in Flows : flow[f].step = "test" /\ flow[f].id = i
=============================================================================

----------------------------- MODULE TuyaLifecycle -----------------------------
(***************************************************************************)
(* tuya_local/__init__.py and device.py: set-up, unloading and retry of    *)
(* the entries of a gateway and its child devices, the connection and lock *)
(* they share through hass.data, and the monitor loop of each device       *)
(* object, which runs while entities are registered with it.               *)
(*                                                                         *)
(* A step runs between two awaits.  What a poll does is TuyaDevice and     *)
(* TuyaProtocol; the shutdown of Home Assistant is left out.               *)
(***************************************************************************)
EXTENDS Integers, FiniteSets

CONSTANTS
    Gateway, Children,  \* entries; the children's data name the gateway
    Ents,               \* entities of each entry
    MaxSetups,          \* bound: device objects made
    MaxRenames          \* bound: entities taken out and added again

VARIABLES
    ha,         \* Home Assistant is "starting" or "running"
    bucket,     \* hass.data[DOMAIN] by device id
    obj,        \* device objects, in the order of their making
    entry,      \* of each entry: its state and its object
    ent,        \* of each entry and entity
    owner,      \* of each lock: the object that holds it; 0
    renames,
    hist        \* history, read by properties only

vars == <<ha, bucket, obj, entry, ent, owner, renames, hist>>

Entries == {Gateway} \cup Children
NoBucket == [dev |-> -1, api |-> 0, lock |-> 0]
Objects == DOMAIN obj

Init ==
    /\ ha \in {"starting", "running"}
    /\ bucket = [d \in Entries |-> NoBucket]
    /\ obj = [n \in {} |-> 0]
    /\ entry = [d \in Entries |-> [st |-> "out", obj |-> 0]]
    /\ ent = [d \in Entries |-> [e \in Ents |-> "out"]]
    /\ owner = [l \in 1..MaxSetups |-> 0]
    /\ renames = MaxRenames
    /\ hist = [cut |-> FALSE, early |-> {}, missed |-> {}]

-----------------------------------------------------------------------------
(* TuyaLocalDevice                                                         *)

\* Mutant: the loop finds that it does not run.
StartedIdle(o) == [o EXCEPT !.task = IF @ = "none" THEN "check" ELSE @]

\* actually_start: a task that is there, over or not, is kept.
Started(o) == [o EXCEPT !.running = TRUE, !.task = IF @ = "none" THEN "check" ELSE @]

\* register_entity, start.
Registered(o, e) ==
    LET r == [o EXCEPT !.children = @ \cup {e}]
    IN  IF r.running \/ r.listener # "none" THEN r
        ELSE IF ha = "running" THEN Started(r)
        ELSE [r EXCEPT !.listener = "waits"]

\* async_stop, until it waits for the task.
Stopped(o) == [o EXCEPT !.running = FALSE, !.children = {}]

\* async_unregister_entity
Unregistered(o, e) ==
    LET r == [o EXCEPT !.children = @ \ {e}] IN IF r.children = {} THEN Stopped(r) ELSE r

\* Started finds a task that is over and that its stop has not yet cleared.
Misses(n) ==
    obj[n].task = "over" /\ ~obj[n].running /\ obj[n].listener = "none" /\ ha = "running"

-----------------------------------------------------------------------------
(* async_setup_entry                                                       *)

\* Mutant: a child always makes its own lock.
SharedLocksNot(d, n) == [api |-> IF bucket[Gateway] = NoBucket THEN n ELSE bucket[Gateway].api,
                         lock |-> IF bucket[Gateway] = NoBucket \/ d # Gateway THEN n ELSE bucket[Gateway].lock]

\* __init__: connection and lock of whoever named this gateway first.
Shared(d, n) == IF bucket[Gateway] = NoBucket THEN [api |-> n, lock |-> n]
                ELSE [api |-> bucket[Gateway].api, lock |-> bucket[Gateway].lock]

\* setup_device
Constructs(d) ==
    LET n == Cardinality(Objects) + 1
        s == Shared(d, n)
        raw == [dev |-> 0, api |-> s.api, lock |-> s.lock]
    IN  /\ entry[d].st \in {"out", "retry"}
        /\ n <= MaxSetups
        /\ obj' = [m \in Objects \cup {n} |->
               IF m # n THEN obj[m]
               ELSE [id |-> d, api |-> s.api, lock |-> s.lock, children |-> {},
                     running |-> FALSE, listener |-> "none", task |-> "none"]]
        /\ bucket' = [i \in Entries |->
               IF i = d THEN [raw EXCEPT !.dev = n]
               ELSE IF i = Gateway /\ bucket[i] = NoBucket THEN raw ELSE bucket[i]]
        /\ entry' = [entry EXCEPT ![d] = [st |-> "refresh", obj |-> n]]
        /\ UNCHANGED <<ha, ent, owner, renames, hist>>

Uses(n) == entry[obj[n].id].obj = n /\ entry[obj[n].id].st \in {"refresh", "loaded", "unload", "delete"}

\* The gateway's bucket goes while somebody uses its connection.
Cuts(d) == d = Gateway /\ \E n \in Objects : Uses(n) /\ obj[n].id # d /\ obj[n].api = bucket[d].api

\* No state: cleanup_failed_device, and Home Assistant tries again.
NotReady(d) ==
    /\ entry[d].st = "refresh"
    /\ entry' = [entry EXCEPT ![d].st = "retry"]
    /\ bucket' = [bucket EXCEPT ![d] = NoBucket]
    /\ hist' = [hist EXCEPT !.cut = @ \/ Cuts(d)]
    /\ UNCHANGED <<ha, obj, ent, owner, renames>>

\* async_tuya_setup_platform
Added(d) == [ent EXCEPT ![d] = [e \in Ents |-> "add"]]

Ready(d) ==
    /\ entry[d].st = "refresh"
    /\ entry' = [entry EXCEPT ![d].st = "loaded"]
    /\ ent' = Added(d)
    /\ UNCHANGED <<ha, bucket, obj, owner, renames, hist>>

\* async_added_to_hass
Adds(d, e) ==
    LET n == entry[d].obj
    IN  /\ entry[d].st = "loaded"
        /\ ent[d][e] = "add"
        /\ ent' = [ent EXCEPT ![d][e] = "in"]
        /\ obj' = [obj EXCEPT ![n] = Registered(@, e)]
        /\ hist' = IF Misses(n) THEN [hist EXCEPT !.missed = @ \cup {n}] ELSE hist
        /\ UNCHANGED <<ha, bucket, entry, owner, renames>>

HaStarts ==
    /\ ha = "starting"
    /\ ha' = "running"
    /\ obj' = [n \in Objects |-> IF obj[n].listener = "waits"
                                 THEN [Started(obj[n]) EXCEPT !.listener = "left"] ELSE obj[n]]
    /\ UNCHANGED <<bucket, entry, ent, owner, renames, hist>>

-----------------------------------------------------------------------------
(* Entities leave: renamed by the user, or unloaded with their entry.      *)

Waiting == [add |-> "stop-add", out |-> "stop-out"]

\* async_will_remove_from_hass: the last one waits for the loop's end.
Leaves(d, e, after) ==
    LET o == Unregistered(obj[entry[d].obj], e)
        waits == o.children = {} /\ o.task # "none"
    IN  /\ ent[d][e] = "in"
        /\ obj' = [obj EXCEPT ![entry[d].obj] = o]
        /\ ent' = [ent EXCEPT ![d][e] = IF waits THEN Waiting[after] ELSE after]

Renames(d, e) ==
    /\ entry[d].st = "loaded"
    /\ renames > 0
    /\ renames' = renames - 1
    /\ Leaves(d, e, "add")
    /\ UNCHANGED <<ha, bucket, entry, owner, hist>>

\* async_unload_entry; the update listener's reload is that and Constructs.
Unloads(d) ==
    /\ entry[d].st = "loaded"
    /\ \A e \in Ents : ent[d][e] = "in"
    /\ entry' = [entry EXCEPT ![d].st = "unload"]
    /\ UNCHANGED <<ha, bucket, obj, ent, owner, renames, hist>>

UnloadsPlatform(d, e) ==
    /\ entry[d].st = "unload"
    /\ Leaves(d, e, "out")
    /\ UNCHANGED <<ha, bucket, entry, owner, renames, hist>>

\* async_delete_device: its stop.
Deletes(d) ==
    LET n == entry[d].obj
    IN  /\ entry[d].st = "unload"
        /\ \A e \in Ents : ent[d][e] = "out"
        /\ entry' = [entry EXCEPT ![d].st = "delete"]
        /\ obj' = [obj EXCEPT ![n] = Stopped(@)]
        /\ UNCHANGED <<ha, bucket, ent, owner, renames, hist>>

\* The task of object n is over, and whoever waits for it goes on.
Joins(n) ==
    LET d == obj[n].id
    IN  /\ obj[n].task = "over"
        /\ \/ entry[d] = [st |-> "delete", obj |-> n]
           \/ entry[d].obj = n /\ \E e \in Ents : ent[d][e] \in {"stop-add", "stop-out"}
        /\ obj' = [obj EXCEPT ![n].task = "none"]
        /\ ent' = [ent EXCEPT ![d] = [e \in Ents |->
               CASE @[e] = "stop-add" -> "add"
                 [] @[e] = "stop-out" -> "out"
                 [] OTHER -> @[e]]]
        /\ UNCHANGED <<ha, bucket, entry, owner, renames, hist>>

\* Buckets are dropped.
Deleted(d) ==
    LET n == entry[d].obj
    IN  /\ entry[d].st = "delete"
        /\ obj[n].task = "none"
        /\ entry' = [entry EXCEPT ![d].st = "out"]
        /\ bucket' = [bucket EXCEPT ![d] = NoBucket]
        /\ hist' = [hist EXCEPT !.cut = @ \/ Cuts(d),
                                !.early = IF obj[n].listener = "waits" THEN @ \cup {n} ELSE @]
        /\ UNCHANGED <<ha, obj, ent, owner, renames>>

-----------------------------------------------------------------------------
(* receive_loop, async_receive                                             *)

Task(n, from, to) == obj[n].task = from /\ obj' = [obj EXCEPT ![n].task = to]

Checks(n) ==
    /\ Task(n, "check", IF obj[n].running THEN "acquire" ELSE "over")
    /\ UNCHANGED <<ha, bucket, entry, ent, owner, renames, hist>>

Acquires(n) ==
    /\ Task(n, "acquire", "poll")
    /\ owner[obj[n].lock] = 0
    /\ owner' = [owner EXCEPT ![obj[n].lock] = n]
    /\ UNCHANGED <<ha, bucket, entry, ent, renames, hist>>

\* "finally": the poll, good or bad, is over; the sleep follows.
Releases(n) ==
    /\ Task(n, "poll", "check")
    /\ owner' = [owner EXCEPT ![obj[n].lock] = 0]
    /\ UNCHANGED <<ha, bucket, entry, ent, renames, hist>>

-----------------------------------------------------------------------------
Next ==
    \/ HaStarts
    \/ \E d \in Entries :
          \/ Constructs(d) \/ NotReady(d) \/ Ready(d) \/ Unloads(d) \/ Deletes(d) \/ Deleted(d)
          \/ \E e \in Ents : Adds(d, e) \/ Renames(d, e) \/ UnloadsPlatform(d, e)
    \/ \E n \in Objects : Joins(n) \/ Checks(n) \/ Acquires(n) \/ Releases(n)

Spec == Init /\ [][Next]_vars

-----------------------------------------------------------------------------
(* Properties.                                                             *)

\* While no gateway's entry has failed or been unloaded under its children,
\* every device of the gateway, whoever was set up first, uses one connection;
\* and devices on one connection poll it one at a time, whatever was unloaded,
\* retried or reloaded in between.
OneConnection ==
    /\ ~hist.cut => \A n, m \in Objects : Uses(n) /\ Uses(m) => obj[n].api = obj[m].api
    /\ \A n, m \in Objects : n # m /\ obj[n].api = obj[m].api =>
           ~(obj[n].task = "poll" /\ obj[m].task = "poll")

Loops(n) == obj[n].task \in {"check", "acquire", "poll"}

\* A device that has entities is monitored, and one that was unloaded is not,
\* through renames, reloads and retries.  The exceptions are the code's: a
\* device whose monitor was started by the start of Home Assistant never starts
\* it again; an entity may come between a loop's end and its stop's; and the
\* start of Home Assistant still starts a device that was unloaded before it.
Monitored ==
    \A n \in Objects :
        /\ Uses(n) /\ ha = "running" /\ obj[n].children # {} =>
               Loops(n) \/ obj[n].listener = "left" \/ n \in hist.missed
        /\ Loops(n) => Uses(n) \/ n \in hist.early
=============================================================================

----------------------------- MODULE TuyaMigration -----------------------------
(***************************************************************************)
(* tuya_local/__init__.py, async_migrate_entry: what an entry of an older  *)
(* release goes through when Home Assistant loads it.  The tables of names *)
(* are those of the source (TuyaRenames).                                  *)
(*                                                                         *)
(* A step is what one "if entry.version" does to the entry, or what it     *)
(* does to one entity.  Home Assistant keeps the entry and the entity      *)
(* registry in two files that are written some time after a change, and    *)
(* may stop in between; an entry that is refused is tried again at the     *)
(* next start.  Device settings other than the type are left out.          *)
(***************************************************************************)
EXTENDS TuyaRenames, Integers, Sequences, FiniteSets

CONSTANTS
    Devices,        \* entry, configuration file and entities before the start
    MaxStops        \* bound

Types == {"none", "auto", "known", "removed"}
EntryType == [level : Nat, data : Types, opt : Types, child : BOOLEAN,
              uid : {"unset", "id", "scoped"}]    \* "id" is the gateway's
EntityType == [on : STRING, key : STRING, old : BOOLEAN,
               of : {"id", "scoped", "None", "removed"}]
ConfType == [on : STRING, key : STRING, named : BOOLEAN]

\* Only release 13.22 gave a child an id of its own; "removed" is said of no
\* entity that is there.
ASSUME MigrationAssumption ==
    /\ MaxStops \in Nat
    /\ \A d \in Devices :
          /\ d.entry \in EntryType
          /\ d.entry.uid = "scoped" => d.entry.level >= 1322
          /\ d.registry \subseteq {e \in EntityType : e.of # "removed"}
          /\ d.conf \subseteq ConfType

VARIABLES
    entry,          \* the config entry
    conf,           \* the entities of its configuration file
    registry,       \* its entities in Home Assistant's registry
    pc,             \* of async_migrate_entry
    disk,           \* entry and registry as they were loaded
    stops,
    hist            \* history, read by properties only

vars == <<entry, conf, registry, pc, disk, stops, hist>>

\* A version, and for version 13 its minor version: 1301 is 13.1.
Order == <<200, 300, 400, 600, 900, 1000, 1100, 1200, 1301, 1302, 1303, 1304, 1305, 1306,
           1307, 1308, 1309, 1310, 1312, 1313, 1315, 1316, 1317, 1318, 1319, 1320, 1321, 1322>>
Levels == {Order[i] : i \in 1..Len(Order)}

NoType == "none"
\* get_config, and entry.data | entry.options.
HasConf(type) == type = "known"
TypeOf(e) == IF e.opt # NoType THEN e.opt ELSE e.data

\* get_device_unique_id, as the prefix of the entities' ids.
Uid == IF entry.uid = "unset" THEN "id" ELSE entry.uid

Init ==
    /\ \E d \in Devices :
          /\ entry = d.entry
          /\ conf = d.conf
          /\ registry = d.registry
    /\ pc = [status |-> "next", at |-> 0, todo |-> {}]
    /\ disk = [entry |-> entry, registry |-> registry]
    /\ stops = MaxStops
    /\ hist = [entry |-> entry, registry |-> registry, lost |-> FALSE]

-----------------------------------------------------------------------------
(* What becomes of one entity.                                             *)

\* The file's order of entities is not modelled: some order, always the same.
First(C) == CHOOSE c \in C : TRUE

Unnamed(on) == {c \in conf : c.on = on /\ ~c.named}

\* "If the entity still exists in the config, do not migrate".
Known(e, uid) == ~e.old /\ e.of = uid /\ \E c \in conf : c.on = e.on /\ c.key = e.key

Rows(table, e) == {r \in table : ~e.old /\ r.on = e.on /\ e.key \in r.olds}

Ends(c, new) == c.key = new \/ (new = "" /\ <<c.on, c.key>> \in EndsInPlatform)

Targets(table, e) ==
    {c \in Unnamed(e.on) : \E r \in Rows(table, e) : r.new # NoName /\ Ends(c, r.new)}

Renamed(e, uid, c) == [e EXCEPT !.key = c.key, !.old = FALSE, !.of = uid]

\* endswith(None) raises, for the first entity it is asked of.
Raises(table, e, uid) ==
    ~Known(e, uid) /\ Unnamed(e.on) # {} /\ \E r \in Rows(table, e) : r.new = NoName

\* Mutant: what the configuration still has is renamed all the same.
ReplaceAll(table, e, uid) ==
    IF Targets(table, e) = {} THEN e
    ELSE Renamed(e, uid, First(Targets(table, e)))

\* replace_unique_ids
Replace(table, e, uid) ==
    IF Known(e, uid) \/ Targets(table, e) = {} THEN e
    ELSE Renamed(e, uid, First(Targets(table, e)))

\* update_unique_id12: ids of the device and a name, without the platform.
OldStyle(e) ==
    LET C == {c \in conf : e.old /\ c.on = e.on /\ (IF c.named THEN c.key ELSE "") = e.key}
    IN  IF C = {} THEN e ELSE [e EXCEPT !.key = First(C).key, !.old = FALSE]

\* update_unique_id13: what ends in its platform's name takes the name of the
\* first entity of the platform.
DeviceClass(e, uid) ==
    IF ~e.old /\ <<e.on, e.key>> \in EndsInPlatform
    THEN IF Unnamed(e.on) = {} THEN e ELSE Renamed(e, uid, First(Unnamed(e.on)))
    ELSE Replace(Table1, e, uid)

\* update_gateway_scoped_unique_id
Scoped(e, child) == IF child /\ e.of = "id" THEN [e EXCEPT !.of = "scoped"] ELSE e

\* update_unique_id compares a platform with the integration's name: no entity.
Outcome(at, e, uid, child) ==
    IF e.of = "removed" THEN e
    ELSE CASE at = 1200 -> OldStyle(e)
           [] at = 1301 -> DeviceClass(e, uid)
           [] at = 1312 -> IF e.of = "None" THEN [e EXCEPT !.of = "removed"] ELSE e
           [] at = 1322 -> IF uid = "id" THEN Scoped(e, child) ELSE e
           [] at \in DOMAIN Tables \ {1301} -> Replace(Tables[at], e, uid)
           [] OTHER -> e

Left(S) == {e \in S : e.of # "removed"}

Fatal(at, e, uid) == at \in DOMAIN Tables \ {1301} /\ Raises(Tables[at], e, uid)

-----------------------------------------------------------------------------
(* async_migrate_entry                                                     *)

Ahead == {t \in Levels : t > pc.at /\ t > entry.level}
Reaches(t) == pc.status = "next" /\ t \in Ahead /\ \A u \in Ahead : t <= u

Goes(status) == pc' = [pc EXCEPT !.status = status]
Past(t) == pc' = [status |-> "next", at |-> t, todo |-> {}]

\* async_update_entry
Updated(e, level, data, opt, uid) ==
    [level |-> level, data |-> data, opt |-> opt, uid |-> uid, child |-> e.child]

\* "Removal of Auto detection": of the data only id, key and host remain.  To
\* detect a type setup_device is called, which misses two keys and raises.
From1 ==
    /\ Reaches(200)
    /\ IF TypeOf(entry) \in {NoType, "auto"}
       THEN Goes("raised") /\ UNCHANGED entry
       ELSE entry' = Updated(entry, 200, NoType, entry.opt, entry.uid) /\ Past(200)
    /\ UNCHANGED <<conf, registry, disk, stops, hist>>

\* "Ensure type has been migrated."
From2 ==
    /\ Reaches(300)
    /\ IF TypeOf(entry) \in {NoType, "auto"}
       THEN Goes("raised") /\ UNCHANGED entry
       ELSE entry' = Updated(entry, 300, TypeOf(entry), NoType, entry.uid) /\ Past(300)
    /\ UNCHANGED <<conf, registry, disk, stops, hist>>

\* To a file's name; a smart plug is asked which of two it is.
From3 ==
    /\ Reaches(400)
    /\ IF ~HasConf(TypeOf(entry))
       THEN Goes("raised") /\ UNCHANGED entry
       ELSE entry' = Updated(entry, 400, TypeOf(entry), entry.opt, entry.uid) /\ Past(400)
    /\ UNCHANGED <<conf, registry, disk, stops, hist>>

\* 9: "trim the config back to required config only"; 10: protocol version;
\* 11: poll only.
Trims(t) ==
    /\ Reaches(t)
    /\ entry' = Updated(entry, t, TypeOf(entry), NoType, entry.uid)
    /\ Past(t)
    /\ UNCHANGED <<conf, registry, disk, stops, hist>>

\* 13.4: a duplicate configuration was removed.
Retypes ==
    /\ Reaches(1304)
    /\ entry' = Updated(entry, 1304,
           IF TypeOf(entry) = "removed" THEN "known" ELSE TypeOf(entry), entry.opt, entry.uid)
    /\ Past(1304)
    /\ UNCHANGED <<conf, registry, disk, stops, hist>>

WithEntities == Levels \ {200, 300, 400, 900, 1000, 1100, 1304}
NeedsConf == WithEntities \ {1312, 1322}

Begins(t) ==
    /\ Reaches(t)
    /\ IF t \in NeedsConf /\ ~HasConf(entry.data)
       THEN Goes("refused") /\ UNCHANGED entry
       ELSE /\ pc' = [status |-> "entities", at |-> t, todo |-> registry]
            \* 13.12: "HA stopped populating unique_id"
            /\ entry' = IF t = 1312 THEN Updated(entry, entry.level, entry.data, entry.opt, Uid) ELSE entry
    /\ UNCHANGED <<conf, registry, disk, stops, hist>>

\* async_migrate_entries: one entity; an id that is taken raises.
Entity(e) ==
    LET to == Outcome(pc.at, e, Uid, entry.child)
    IN  /\ pc.status = "entities"
        /\ e \in pc.todo
        /\ IF Fatal(pc.at, e, Uid) \/ (to # e /\ to \in registry)
           THEN Goes("raised") /\ UNCHANGED registry
           ELSE /\ pc' = [pc EXCEPT !.todo = @ \ {e}]
                /\ registry' = Left((registry \ {e}) \cup {to})
        /\ UNCHANGED <<entry, conf, disk, stops, hist>>

\* Mutant: the entry is updated before its entities.
StoresEarly ==
    /\ pc.status = "entities"
    /\ entry' = Updated(entry,
           IF pc.at = 1305 THEN entry.level ELSE pc.at, entry.data, entry.opt,
           IF pc.at = 1322 /\ Uid = "id" /\ entry.child THEN "scoped" ELSE entry.uid)
    /\ Past(pc.at)
    /\ UNCHANGED <<conf, registry, disk, stops, hist>>

\* The step is over.  13.5 is not written down.
Stores ==
    /\ pc.status = "entities"
    /\ pc.todo = {}
    /\ entry' = Updated(entry,
           IF pc.at = 1305 THEN entry.level ELSE pc.at, entry.data, entry.opt,
           IF pc.at = 1322 /\ Uid = "id" /\ entry.child THEN "scoped" ELSE entry.uid)
    /\ Past(pc.at)
    /\ UNCHANGED <<conf, registry, disk, stops, hist>>

Ends13 ==
    /\ pc.status = "next"
    /\ Ahead = {}
    /\ Goes("done")
    /\ UNCHANGED <<entry, conf, registry, disk, stops, hist>>

\* The entry was written without what became of its entities; or entities
\* without the entry that earlier steps do not leave as they are: those that
\* bear the gateway's id, and those that a step after 13.1 has given a name that
\* ends in the platform's, which 13.1 takes for one without a name.
Torn(e, r) ==
    \/ r # registry /\ e # disk.entry
    \/ e.uid # "scoped" /\ \E f \in r : f.of = "scoped"
    \/ /\ r = registry /\ e.level < 1301 /\ entry.level >= 1301
       /\ \E f \in r : DeviceClass(f, "id") # f

\* Home Assistant stops, with or without what it has not written yet, and
\* loads the entry again.
Stops ==
    /\ stops > 0
    /\ stops' = stops - 1
    /\ entry' \in {entry, disk.entry}
    /\ registry' \in {registry, disk.registry}
    /\ disk' = [entry |-> entry', registry |-> registry']
    /\ pc' = [status |-> "next", at |-> 0, todo |-> {}]
    /\ hist' = [hist EXCEPT !.lost = @ \/ Torn(entry', registry')]
    /\ UNCHANGED conf

-----------------------------------------------------------------------------
Migrates ==
    \/ From1 \/ From2 \/ From3 \/ Retypes \/ Stores \/ Ends13
    \/ \E t \in {900, 1000, 1100} : Trims(t)
    \/ \E t \in WithEntities : Begins(t)
    \/ \E e \in registry : Entity(e)

Next == Migrates \/ Stops

Spec == Init /\ [][Next]_vars

-----------------------------------------------------------------------------
(* Properties.                                                             *)

\* What the first i steps make of an entity when nothing interrupts them.
Undisturbed(e) ==
    LET uid == IF hist.entry.uid = "unset" THEN "id" ELSE hist.entry.uid
        done[i \in 0..Len(Order)] ==
            IF i = 0 THEN e
            ELSE IF Order[i] <= hist.entry.level THEN done[i - 1]
            ELSE Outcome(Order[i], done[i - 1], uid, hist.entry.child)
    IN  done

After(e) == Undisturbed(e)[Len(Order)]

\* Wherever Home Assistant was stopped, and whatever it had written by then,
\* every entity ends up where an undisturbed migration takes it, but for files
\* that do not go together (Torn).
EndsAsUndisturbed ==
    pc.status = "done" /\ ~hist.lost => registry = Left({After(e) : e \in hist.registry})

\* An entity that its configuration file still has keeps its id, but for the
\* gateway in front: from version 13 on no step, nor one of a retry, takes it
\* away.
KnownStays ==
    [][entry.level >= 1301 /\ stops' = stops =>
        \A e \in registry : Known(e, "id") =>
            \E f \in registry' : f.on = e.on /\ f.key = e.key /\ f.of \in {"id", "scoped"}]_vars
=============================================================================

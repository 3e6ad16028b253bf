---------------------------- MODULE ContainerStart ----------------------------
(***************************************************************************)
(* image/rootfs/etc/cont-init.d and brand_frontend_assets.py: what a start *)
(* of the Home Assistant container does to files before Home Assistant     *)
(* runs.  97 seeds what is missing in /config, 98 brands the frontend's    *)
(* assets in place, 99 installs the custom components anew.                *)
(*                                                                         *)
(* A step is one command or one file operation; the container may be       *)
(* stopped between any two.  /config is a volume, the assets belong to the *)
(* container.  A read-only /config, which is left alone, is left out.      *)
(***************************************************************************)
EXTENDS FiniteSets, Naturals, Sequences

CONSTANTS
    Seeds,          \* configuration, secrets, packages, www, themes
    Assets,         \* files of hass_frontend that are branded, with siblings
    Texts,          \* intents and Core's own files that are branded
    Components,     \* tuya_local, hlk_dio16, home_box_admin
    MaxStops        \* bound

VARIABLES
    config,     \* each seed and component in /config
    asset,      \* text of each asset
    packed,     \* assets with their .br and .gz files
    script,     \* the script that runs, and what it has still to look at
    busy,       \* the item that is being written or removed
    stops,
    hist        \* history: items whose write was interrupted

vars == <<config, asset, packed, script, busy, stops, hist>>

Idle == "idle"
\* 97, 98 (the frontend, then the other texts), 99, Home Assistant.
Stages == <<Seeds, Assets, Texts, Components, {}>>
Script(n) == [n |-> n, todo |-> Stages[n]]
Running == script.n = 5

Init ==
    /\ config \in [Seeds \cup Components -> {"absent", "user"}]
    /\ asset = [a \in Assets \cup Texts |-> "stock"]
    /\ packed = Assets
    /\ script = Script(1)
    /\ busy = Idle
    /\ stops = MaxStops
    /\ hist = [hit |-> {}]

-----------------------------------------------------------------------------
Takes(i) == busy = Idle /\ i \in script.todo
Looked(i) == script' = [script EXCEPT !.todo = @ \ {i}]

Continues ==
    /\ ~Running
    /\ script.todo = {}
    /\ busy = Idle
    /\ script' = Script(script.n + 1)
    /\ UNCHANGED <<config, asset, packed, busy, stops, hist>>

\* seed_file, seed_tree: only what does not exist is copied.
Seeding(i) ==
    /\ Takes(i)
    /\ i \in Seeds
    /\ IF config[i] = "absent"
       THEN busy' = i /\ config' = [config EXCEPT ![i] = "partial"] /\ UNCHANGED script
       ELSE Looked(i) /\ UNCHANGED <<busy, config>>
    /\ UNCHANGED <<asset, packed, stops, hist>>

\* Mutant: a component that is there is kept.
InstallingMissing(i) ==
    /\ Takes(i)
    /\ i \in Components
    /\ IF config[i] = "absent"
       THEN busy' = i /\ config' = [config EXCEPT ![i] = "partial"] /\ UNCHANGED script
       ELSE Looked(i) /\ UNCHANGED <<busy, config>>
    /\ UNCHANGED <<asset, packed, stops, hist>>

\* rm -rf and then cp -a: the old one is gone first.
Installing(i) ==
    /\ Takes(i)
    /\ i \in Components
    /\ IF config[i] = "absent"
       THEN busy' = i /\ config' = [config EXCEPT ![i] = "partial"]
       ELSE UNCHANGED busy /\ config' = [config EXCEPT ![i] = "absent"]
    /\ UNCHANGED <<script, asset, packed, stops, hist>>

Copied(i) ==
    /\ busy = i
    /\ i \in Seeds \cup Components
    /\ config' = [config EXCEPT ![i] = "image"]
    /\ busy' = Idle
    /\ Looked(i)
    /\ UNCHANGED <<asset, packed, stops, hist>>

\* patch_file, and the functions that patch the other texts: what branding does
\* not change, or what does not parse, is left alone.
Branding(a) ==
    /\ Takes(a)
    /\ a \in Assets \cup Texts
    /\ IF asset[a] = "stock"
       THEN busy' = a /\ asset' = [asset EXCEPT ![a] = "torn"] /\ UNCHANGED script
       ELSE Looked(a) /\ UNCHANGED <<busy, asset>>
    /\ UNCHANGED <<config, packed, stops, hist>>

Branded(a) ==
    /\ busy = a
    /\ a \in Assets
    /\ asset[a] = "torn"
    /\ asset' = [asset EXCEPT ![a] = "branded"]
    /\ UNCHANGED <<config, packed, script, busy, stops, hist>>

\* Its compressed siblings are unlinked, for they would be served instead.
Unpacks(a) ==
    /\ busy = a
    /\ a \in Assets
    /\ asset[a] = "branded"
    /\ packed' = packed \ {a}
    /\ busy' = Idle
    /\ Looked(a)
    /\ UNCHANGED <<config, asset, stops, hist>>

\* patch_intents, patch_default_agent_name, patch_logbook_core.
Rewritten(t) ==
    /\ busy = t
    /\ t \in Texts
    /\ asset' = [asset EXCEPT ![t] = "branded"]
    /\ busy' = Idle
    /\ Looked(t)
    /\ UNCHANGED <<config, packed, stops, hist>>

Stops ==
    /\ stops > 0
    /\ stops' = stops - 1
    /\ hist' = [hist EXCEPT !.hit = @ \cup ({busy} \ {Idle})]
    /\ busy' = Idle
    /\ script' = Script(1)
    /\ \/ UNCHANGED <<asset, packed>>
       \/ asset' = [a \in Assets \cup Texts |-> "stock"] /\ packed' = Assets
    /\ UNCHANGED config

\* A person edits what was seeded.
Edits(i) ==
    /\ Running
    /\ i \in Seeds
    /\ config[i] # "user"
    /\ config' = [config EXCEPT ![i] = "user"]
    /\ UNCHANGED <<asset, packed, script, busy, stops, hist>>

-----------------------------------------------------------------------------
Starts ==
    \/ Continues
    \/ \E i \in Seeds \cup Components : Seeding(i) \/ Installing(i) \/ Copied(i)
    \/ \E a \in Assets \cup Texts : Branding(a) \/ Branded(a) \/ Unpacks(a) \/ Rewritten(a)

Next == Starts \/ Stops \/ \E i \in Seeds : Edits(i)

Spec == Init /\ [][Next]_vars

-----------------------------------------------------------------------------
(* Properties.                                                             *)

Served(a) == IF a \in packed THEN "stock" ELSE asset[a]

\* When Home Assistant runs its custom components are whole and the image's,
\* wherever earlier starts were stopped; and what else is not whole, or is
\* served without the brand, was being written when the container was stopped.
\* (That is not repaired: a partial copy exists, and a branded text is left
\* alone with its compressed siblings.)
StartsWhole ==
    Running =>
        /\ \A i \in Components : config[i] = "image"
        /\ \A i \in Seeds : config[i] \in {"absent", "partial"} => i \in hist.hit
        /\ \A a \in Assets \cup Texts : Served(a) # "branded" => a \in hist.hit
=============================================================================

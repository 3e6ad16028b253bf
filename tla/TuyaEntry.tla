------------------------------- MODULE TuyaEntry -------------------------------
(***************************************************************************)
(* What tuya_local/__init__.py does with a config entry: it migrates an    *)
(* older one (TuyaMigration), and sets it up, unloads and retries it       *)
(* (TuyaLifecycle).                                                        *)
(*                                                                         *)
(* Home Assistant migrates an entry before it sets it up, and the set-up   *)
(* looks at no name that a migration changes; so a behaviour of this       *)
(* module is one of one part, with the other at rest.                      *)
(***************************************************************************)
EXTENDS TuyaMigration

CONSTANTS Gateway, Children, Ents, MaxSetups, MaxRenames    \* TuyaLifecycle

ASSUME EntryAssumption ==
    /\ Gateway \notin Children
    /\ {MaxSetups, MaxRenames} \subseteq Nat

VARIABLES part, ha, bucket, obj, setup, ent, owner, renames, past

Life == INSTANCE TuyaLifecycle WITH entry <- setup, hist <- past

lifevars == <<ha, bucket, obj, setup, ent, owner, renames, past>>

EntryInit ==
    /\ part \in {"migration", "setup"}
    /\ Init /\ Life!Init
    /\ part # "migration" =>
           LET d == CHOOSE d \in Devices : TRUE
           IN  entry = d.entry /\ conf = d.conf /\ registry = d.registry
    /\ part # "setup" => ha = "running"

EntryNext ==
    \/ part = "migration" /\ Next /\ UNCHANGED <<part, lifevars>>
    \/ part = "setup" /\ Life!Next /\ UNCHANGED <<part, vars>>

EntrySpec == EntryInit /\ [][EntryNext]_<<part, vars, lifevars>>

-----------------------------------------------------------------------------
\* The properties of set-up and unloading, said where they are defined; those
\* of the migration are TuyaMigration's.
OneConnection == Life!OneConnection
Monitored == Life!Monitored
=============================================================================

------------------------------ MODULE BoxServices ------------------------------
(***************************************************************************)
(* The small services around Home Assistant: WireGuard's containers, the   *)
(* egress filter, the SOCKS relay and the start of a container.            *)
(* They share no state, so that what holds of one of them does not depend  *)
(* on the others: a behaviour of this module is one of one part, with the  *)
(* other parts at rest.                                                    *)
(***************************************************************************)
EXTENDS SocksRelay

CONSTANTS
    Requests, MaxSaves, MaxFaults,          \* WgApply
    HasIp6,                                 \* Egress
    Seeds, Assets, Texts, Components,              \* ContainerStart
    MaxStops                                \* Egress, ContainerStart

ASSUME ServicesAssumption ==
    /\ {MaxSaves, MaxFaults, MaxChunks, MaxStops} \subseteq Nat
    /\ HasIp6 \in BOOLEAN
    \* Names of different files; none of them is Start!Idle.
    /\ "idle" \notin Seeds \cup Assets \cup Texts \cup Components
    /\ Seeds \cap (Assets \cup Texts \cup Components) = {}
    /\ Components \cap (Assets \cup Texts) = {}
    /\ Assets \cap Texts = {}

VARIABLES
    part,
    conf, wg, proxy, apply, faults, wghist,
    chain, jump, pc, stops,
    config, asset, packed, init, busy, restarts, starthist

Wg == INSTANCE WgApply WITH hist <- wghist
Filter == INSTANCE Egress
Start == INSTANCE ContainerStart WITH script <- init, stops <- restarts, hist <- starthist

Parts == {"wg", "egress", "relay", "start"}
wgvars == <<conf, wg, proxy, apply, faults, wghist>>
egressvars == <<chain, jump, pc, stops>>
startvars == <<config, asset, packed, init, busy, restarts, starthist>>

ServicesInit ==
    /\ part \in Parts
    /\ Wg!Init /\ Filter!Init /\ Init /\ Start!Init
    /\ part # "wg" => wg = Wg!NoContainer /\ proxy = Wg!Absent
    /\ part # "start" => \A i \in Seeds \cup Components : config[i] = "absent"

ServicesNext ==
    \/ part = "wg" /\ Wg!Next /\ UNCHANGED <<part, egressvars, vars, startvars>>
    \/ part = "egress" /\ Filter!Next /\ UNCHANGED <<part, wgvars, vars, startvars>>
    \/ part = "relay" /\ Next /\ UNCHANGED <<part, wgvars, egressvars, startvars>>
    \/ part = "start" /\ Start!Next /\ UNCHANGED <<part, wgvars, egressvars, vars>>

ServicesSpec ==
    ServicesInit /\ [][ServicesNext]_<<part, wgvars, egressvars, vars, startvars>>

\* The relay's threads run.  A side that has seen an end closes, or is cut off.
FairSpec ==
    /\ ServicesSpec
    /\ WF_vars(part = "relay" /\ Threads)
    /\ \A s \in Sides :
           WF_vars(part = "relay" /\ got[s].end /\ (SideCloses(s) \/ SideBreaks(s)))

-----------------------------------------------------------------------------
\* The properties of the parts, each said where it is defined; those of the relay
\* are SocksRelay's.  Of requests to apply keys (wg_store.py),
AppliesPublish == Wg!AppliesPublish

\* of the egress filter (protect-egress.sh),
Installed == Filter!Installed

\* and of the files that Home Assistant starts with (cont-init.d).
StartsWhole == Start!StartsWhole
=============================================================================

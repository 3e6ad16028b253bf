-------------------------------- MODULE WgApply --------------------------------
(***************************************************************************)
(* platform/wg_store.py: requests to apply WireGuard keys, which restart   *)
(* or create one container and put a proxy into its network.               *)
(*                                                                         *)
(* A step is one docker command: the enroll UI serves each request in a    *)
(* thread of its own, and "Retry wait" sends another one at any time.      *)
(***************************************************************************)
EXTENDS Integers, FiniteSets

CONSTANTS
    Requests,       \* POST /api/wg/apply
    MaxSaves,       \* bound: keys saved, each with its number; 0 is none
    MaxFaults       \* bound: docker commands that fail or time out

VARIABLES
    conf,       \* wg0.conf: which keys
    wg,         \* the WireGuard container: which run of it, with which keys
    proxy,      \* the proxy container: in the network of which run
    apply,      \* the requests
    faults,
    hist        \* history, read by properties only

vars == <<conf, wg, proxy, apply, faults, hist>>

NoContainer == [state |-> "absent", run |-> 0, keys |-> 0]
Absent == -1    \* no proxy container

Init ==
    /\ conf = 0
    /\ wg \in {NoContainer, [NoContainer EXCEPT !.state = "stopped"]}
    /\ proxy \in {Absent, 0}
    /\ apply = [r \in Requests |-> "new"]
    /\ faults = MaxFaults
    /\ hist = [saves |-> 0, failed |-> FALSE, asked |-> 0]

-----------------------------------------------------------------------------
Goes(r, pc) == apply' = [apply EXCEPT ![r] = pc]

\* save_wg_from_payload, and clear_wg.
SavesKeys ==
    /\ hist.saves < MaxSaves
    /\ conf' = hist.saves + 1
    /\ hist' = [hist EXCEPT !.saves = @ + 1]
    /\ UNCHANGED <<wg, proxy, apply, faults>>

ClearsKeys ==
    /\ conf # 0
    /\ conf' = 0
    /\ UNCHANGED <<wg, proxy, apply, faults, hist>>

\* apply_wireguard without keys answers no_wg_conf.
Posts(r) ==
    /\ apply[r] = "new"
    /\ Goes(r, IF conf = 0 THEN "done" ELSE "inspect")
    /\ hist' = [hist EXCEPT !.asked = IF conf = 0 THEN @ ELSE conf]
    /\ UNCHANGED <<conf, wg, proxy, faults>>

Inspects(r) ==
    /\ apply[r] = "inspect"
    /\ Goes(r, CASE wg.state = "absent" -> "create"
                 [] wg.state = "stopped" -> "start"
                 [] OTHER -> "restart")
    /\ UNCHANGED <<conf, wg, proxy, faults, hist>>

\* A run of the container reads the keys that are there.
StartsRun == wg' = [state |-> "running", run |-> wg.run + 1, keys |-> conf]

Starts(r) ==
    /\ apply[r] = "start"
    /\ IF wg.state = "stopped" THEN StartsRun ELSE UNCHANGED wg
    /\ Goes(r, "restart")
    /\ UNCHANGED <<conf, proxy, faults, hist>>

Restarts(r) ==
    /\ apply[r] = "restart"
    /\ StartsRun
    /\ Goes(r, "rm")
    /\ UNCHANGED <<conf, proxy, faults, hist>>

\* docker run --name: somebody else may have created the container by now.
Creates(r) ==
    /\ apply[r] = "create"
    /\ IF wg.state = "absent" THEN StartsRun /\ Goes(r, "rm")
       ELSE Goes(r, "done") /\ UNCHANGED wg
    /\ UNCHANGED <<conf, proxy, faults, hist>>

\* Mutant: a proxy that is there is kept.
KeepsProxy(r) ==
    /\ apply[r] = "rm"
    /\ Goes(r, IF proxy = Absent THEN "proxy" ELSE "done")
    /\ UNCHANGED <<conf, wg, proxy, faults, hist>>

\* ensure_wg_ha_proxy: "network_mode=container:WG dies across WG restarts --
\* always recreate".
RemovesProxy(r) ==
    /\ apply[r] = "rm"
    /\ proxy' = Absent
    /\ Goes(r, "proxy")
    /\ UNCHANGED <<conf, wg, faults, hist>>

RunsProxy(r) ==
    /\ apply[r] = "proxy"
    /\ proxy' = IF proxy = Absent THEN wg.run ELSE proxy
    /\ Goes(r, "done")
    /\ UNCHANGED <<conf, wg, faults, hist>>

\* A command fails, or subprocess.run stops waiting for one that docker
\* carries out: the request is over.
Fails(r) ==
    /\ faults > 0
    /\ faults' = faults - 1
    /\ apply[r] \in {"inspect", "restart", "create", "rm", "proxy"}
    /\ Goes(r, "done")
    /\ hist' = [hist EXCEPT !.failed = TRUE]
    /\ \/ UNCHANGED <<wg, proxy>>
       \/ apply[r] = "restart" /\ StartsRun /\ UNCHANGED proxy
       \/ apply[r] = "rm" /\ proxy' = Absent /\ UNCHANGED wg
    /\ UNCHANGED conf

-----------------------------------------------------------------------------
Next ==
    \/ SavesKeys
    \/ ClearsKeys
    \/ \E r \in Requests :
          \/ Posts(r) \/ Inspects(r) \/ Starts(r) \/ Restarts(r) \/ Creates(r)
          \/ RemovesProxy(r) \/ RunsProxy(r) \/ Fails(r)

Spec == Init /\ [][Next]_vars

-----------------------------------------------------------------------------
(* Properties.                                                             *)

\* When no request is under way and no docker command has failed, the box is
\* on the overlay with the keys that were last asked for, and Home Assistant is
\* published on the network of that very run of the container: requests that
\* overlap never leave the proxy in the network of a run that is over.
AppliesPublish ==
    (\A r \in Requests : apply[r] \in {"new", "done"}) /\ ~hist.failed /\ hist.asked \in {conf} \ {0}
        => wg.state = "running" /\ wg.keys = conf /\ proxy = wg.run
=============================================================================

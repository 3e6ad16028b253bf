-------------------------------- MODULE Egress --------------------------------
(***************************************************************************)
(* network/protect-egress.sh, run whenever its container starts in the     *)
(* network of Home Assistant: a chain of accepted networks that ends in a  *)
(* REJECT, and a jump to it from OUTPUT, for IPv4 and then for IPv6.       *)
(*                                                                         *)
(* A step is one iptables call.  The rules outlive the container that set  *)
(* them, and not a restart of Home Assistant, whose network is made anew.  *)
(***************************************************************************)
EXTENDS Integers, Sequences

CONSTANTS
    HasIp6,         \* ip6tables is installed
    MaxStops        \* bound: stops of either container

VARIABLES
    chain,      \* HA-PRIVACY of each family; NoChain before -N
    jump,       \* OUTPUT jumps to it
    pc,         \* of the script
    stops

vars == <<chain, jump, pc, stops>>

Families == {"v4", "v6"}
NoChain == <<"none">>
\* A command that is no rule's name adds none; rules that accept destinations
\* of the same kind are one.
Script == <<"flush", "lo", "established", "private", "reject", "jump">>

Init ==
    /\ chain = [f \in Families |-> NoChain]
    /\ jump = [f \in Families |-> FALSE]
    /\ pc = <<"v4", 1>>
    /\ stops = MaxStops

\* What becomes of a packet to a network: OUTPUT itself accepts.
Passes(f, to) ==
    \/ ~jump[f]
    \/ \E i \in 1..Len(chain[f]) :
          chain[f][i] = to /\ \A j \in 1..i - 1 : chain[f][j] # "reject"
    \/ \A i \in 1..Len(chain[f]) : chain[f][i] # "reject"

Ended == pc[1] = "end"
AfterV4 == IF HasIp6 THEN <<"v6", 1>> ELSE <<"end", 0>>

\* Mutant: a filter that is there is left as it is.
BeginsOnce == IF jump["v4"] THEN <<"end", 0>> ELSE <<"v4", 1>>

Begins == <<"v4", 1>>

\* ensure_chain, ensure_v6: one more command.
Runs ==
    LET f == pc[1]
        step == Script[pc[2]]
    IN  /\ ~Ended
        /\ chain' = CASE step = "flush" -> [chain EXCEPT ![f] = <<>>]
                      [] step = "jump" -> chain
                      [] OTHER -> [chain EXCEPT ![f] = Append(@, step)]
        /\ jump' = [jump EXCEPT ![f] = @ \/ step = "jump"]
        /\ pc' = IF pc[2] < Len(Script) THEN <<f, pc[2] + 1>>
                 ELSE IF f = "v4" THEN AfterV4 ELSE <<"end", 0>>
        /\ UNCHANGED stops

\* The container starts again, wherever the script was.
Restarts ==
    /\ stops > 0
    /\ stops' = stops - 1
    /\ pc' = Begins
    /\ UNCHANGED <<chain, jump>>

\* Home Assistant starts again, and the container that shares its network.
NewNetwork ==
    /\ stops > 0
    /\ stops' = stops - 1
    /\ chain' = [f \in Families |-> NoChain]
    /\ jump' = [f \in Families |-> FALSE]
    /\ pc' = <<"v4", 1>>

Next == Runs \/ Restarts \/ NewNetwork

Spec == Init /\ [][Next]_vars

-----------------------------------------------------------------------------
(* Properties.                                                             *)

\* Once the script has ended, however often it was stopped half way before,
\* Home Assistant reaches no public network; and no run of it, whole or not,
\* ever shuts it off from the private ones.  (Between the flush and the last
\* rule of a later run everything passes.)
Installed ==
    \A f \in Families :
        /\ Ended /\ (f = "v4" \/ HasIp6) => ~Passes(f, "public")
        /\ \A to \in {"private", "lo", "established"} : Passes(f, to)
=============================================================================

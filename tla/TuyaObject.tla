------------------------------ MODULE TuyaObject ------------------------------
(***************************************************************************)
(* A TuyaLocalDevice and the rules of its device file: what is shown of    *)
(* it (TuyaDevice), the attempts of a call and the protocol version they   *)
(* are made with (TuyaProtocol), and the values of an entity (TuyaDps).    *)
(*                                                                         *)
(* The three meet only in what a call brings and in what is asked of one,  *)
(* which each of them takes as any; so a behaviour of this module is one   *)
(* of one part, with the other parts at rest.                              *)
(***************************************************************************)
EXTENDS TuyaDevice, TLC

CONSTANTS
    Callers, Poll, N, Default, Single, FailureReset,        \* TuyaProtocol
    MaxCommands,
    Entities, Unit, Absent, Null, Fails                     \* TuyaDps

ASSUME ObjectAssumption ==
    /\ Poll \in Callers
    /\ {N, Single} \subseteq Nat \ {0}
    /\ Default \in 1..N
    /\ {FailureReset, MaxCommands} \subseteq Nat
    /\ Unit \in Nat \ {0}
    /\ Null # Absent
    /\ \A x \in {Null, Absent} : x \notin ({"n", "x"} \X Int) \cup ({"s"} \X STRING) \cup ({"b"} \X BOOLEAN)

VARIABLES
    part,
    configured, index, working, failures, api, call, device, commands, outages, callhist,
    entity, points, last

Protocol == INSTANCE TuyaProtocol WITH faults <- outages, hist <- callhist
Rules == INSTANCE TuyaDps WITH device <- points

Parts == {"state", "protocol", "rules"}
callvars == <<configured, index, working, failures, api, call, device, commands, outages, callhist>>
rulevars == <<entity, points, last>>

Some(S) == CHOOSE x \in S : TRUE

ObjectInit ==
    /\ part \in Parts
    /\ Init /\ Protocol!Init /\ Rules!Init
    /\ part # "state" =>
           /\ \A c \in Commands : cmd[c].dp = Some(Dps) /\ cmd[c].value = Some(Values)
           /\ \A d \in Dps : board[d] = Some(Values)
    /\ part # "protocol" => configured = Protocol!Auto /\ device = [speaks |-> Default, up |-> TRUE]
    /\ part # "rules" =>
           /\ entity = Some(Entities)
           /\ \A i \in DOMAIN points : points[i] = Some(entity.raws[i])

ObjectNext ==
    \/ part = "state" /\ Next /\ UNCHANGED <<part, callvars, rulevars>>
    \/ part = "protocol" /\ Protocol!Next /\ UNCHANGED <<part, vars, rulevars>>
    \/ part = "rules" /\ Rules!Next /\ UNCHANGED <<part, vars, callvars>>

ObjectSpec == ObjectInit /\ [][ObjectNext]_<<part, vars, callvars, rulevars>>

\* The executor runs what it is given, the receive loop goes on (it polls again
\* when its cache is old, whatever the board reports), and time passes; the
\* event loop and the executor serve every caller that has a call to make.
FairSpec ==
    /\ ObjectSpec
    /\ WF_vars(part = "state" /\ \E c \in Commands : Command(c))
    /\ WF_vars(part = "state" /\ \E d \in Dps : FakeItTimeout(d))
    /\ WF_vars(part = "state" /\ Loop)
    /\ \A c \in Callers : WF_callvars(part = "protocol" /\ Protocol!Goes(c))

-----------------------------------------------------------------------------
\* The properties of the parts, each said where it is defined; OverlayHolds and
\* LoneLastReaches are TuyaDevice's.  Of what Home Assistant comes to show
\* (device.py),
BoardShown == part = "state" => ShowsBoard

\* of the attempts and versions of calls (device.py),
LoneCallTriesAll == Protocol!LoneCallTriesAll
FindsVersion == part = "protocol" => Protocol!FindsVersion

\* and of the rules of device files (device_config.py).
ReadsBack == Rules!ReadsBack
AsDocumented == Rules!AsDocumented
=============================================================================

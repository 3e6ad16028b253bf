--------------------------------- MODULE Blind ---------------------------------
(***************************************************************************)
(* image/packages/living_room_blind.yaml: a cover on two relays.  Each of  *)
(* its commands is a script of Home Assistant, which runs beside the other *)
(* two but not twice at once ("single").  A switch call takes as long as   *)
(* the relay board does (HlkDio16).                                        *)
(***************************************************************************)
EXTENDS Integers, Sequences

CONSTANTS
    MaxCommands     \* bound: commands given

VARIABLES
    on,         \* relays that are on
    script,     \* what is left of each script
    commands

vars == <<on, script, commands>>

Up == "DO03"
Down == "DO04"
Scripts == {"open", "close", "stop"}

Actions(s) ==
    CASE s = "open" -> <<[turn |-> "off", relays |-> {Down}], [turn |-> "on", relays |-> {Up}]>>
      [] s = "close" -> <<[turn |-> "off", relays |-> {Up}], [turn |-> "on", relays |-> {Down}]>>
      [] s = "stop" -> <<[turn |-> "off", relays |-> {Up, Down}]>>

Init ==
    /\ on = {}
    /\ script = [s \in Scripts |-> <<>>]
    /\ commands = MaxCommands

Idle(s) == script[s] = <<>>

Commands(s) ==
    /\ commands > 0
    /\ Idle(s)
    /\ commands' = commands - 1
    /\ script' = [script EXCEPT ![s] = Actions(s)]
    /\ UNCHANGED on

\* turn_off of two relays reaches one after the other.
Steps(s) ==
    /\ ~Idle(s)
    /\ LET a == Head(script[s])
           left(r) == IF a.relays = {r} THEN Tail(script[s])
                      ELSE <<[a EXCEPT !.relays = @ \ {r}]>> \o Tail(script[s])
       IN  \E r \in a.relays :
              /\ on' = IF a.turn = "on" THEN on \cup {r} ELSE on \ {r}
              /\ script' = [script EXCEPT ![s] = left(r)]
    /\ UNCHANGED commands

Next == \E s \in Scripts : Commands(s) \/ Steps(s)

Spec == Init /\ [][Next]_vars

-----------------------------------------------------------------------------
(* Properties.                                                             *)

\* "Living-room blind from two HLK relays (never leave both on)": the cover's
\* commands, given in any order and while others run, never have both on.
NeverBoth == on # {Up, Down}
=============================================================================

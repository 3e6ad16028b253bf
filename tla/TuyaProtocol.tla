----------------------------- MODULE TuyaProtocol -----------------------------
(***************************************************************************)
(* tuya_local/device.py: attempts of a call to the device, and the         *)
(* protocol version they are made with.  The receive loop and commands     *)
(* make calls at the same time on the same connection object.              *)
(*                                                                         *)
(* A step is what the event loop does between two awaits, or what a call   *)
(* in the executor does.  What the calls bring is in TuyaDevice.           *)
(***************************************************************************)
EXTENDS Integers

CONSTANTS
    Callers,        \* coroutines that make calls, one after the other
    Poll,           \* the receive loop, which never stops calling
    N,              \* number of API_PROTOCOL_VERSIONS
    Default,        \* the version of a new connection object (tinytuya)
    Single,         \* _SINGLE_PROTO_CONNECTION_ATTEMPTS
    FailureReset,   \* _AUTO_FAILURE_RESET_COUNT
    MaxCommands,    \* bound: calls of the other callers
    MaxFaults       \* bound: outages and updates of the device, and attempts
                    \* that fail for another reason

Auto == 0       \* for the configured version
Versions == 1..N

VARIABLES
    configured, \* _protocol_configured
    index,      \* _api_protocol_version_index, 0 for None
    working,    \* _api_protocol_working
    failures,   \* _api_working_protocol_failures
    api,        \* version of the connection object
    call,       \* what each caller is doing
    device,     \* the version the device speaks, and whether it answers
    commands, faults,
    hist        \* history, read by properties only

vars == <<configured, index, working, failures, api, call, device, commands, faults, hist>>

Idle == [pc |-> "idle", i |-> 0, of |-> 0, version |-> Auto]
Unseen == [tried |-> {}, alone |-> TRUE]

Init ==
    /\ configured \in Versions \cup {Auto}
    /\ index = 0
    /\ working = FALSE
    /\ failures = 0
    /\ api = Default
    /\ call = [c \in Callers |-> Idle]
    /\ device \in [speaks : Versions, up : BOOLEAN]
    /\ commands = MaxCommands
    /\ faults = MaxFaults
    /\ hist = [c \in Callers |-> Unseen]

-----------------------------------------------------------------------------
(* _rotate_api_protocol_version until it waits for the executor.           *)

\* Mutant: the list starts again with its second version.
RotatedToSecond == IF index = 0 THEN IF configured = Auto THEN 1 ELSE configured
                   ELSE IF configured = Auto THEN IF index = N THEN 2 ELSE index + 1
                   ELSE index

Rotated == IF index = 0 THEN IF configured = Auto THEN 1 ELSE configured
           ELSE IF configured = Auto THEN (index % N) + 1
           ELSE index

-----------------------------------------------------------------------------
(* _retry_on_failed_connection.                                            *)

\* How many attempts a call gets.
Connections == IF configured = Auto /\ ~working THEN 2 * N + 1 ELSE Single

Starts(c) == [call EXCEPT ![c] = [Idle EXCEPT !.pc = "try", !.of = Connections]]

Calls(c) ==
    /\ call[c].pc = "idle"
    /\ commands' = IF c = Poll THEN commands ELSE commands - 1
    /\ commands' >= 0
    /\ IF index = 0
       THEN /\ index' = Rotated
            /\ call' = [call EXCEPT ![c] = [Idle EXCEPT !.pc = "first", !.version = Rotated]]
       ELSE /\ call' = Starts(c)
            /\ UNCHANGED index
    /\ LET alone == \A b \in Callers \ {c} : call[b].pc = "idle"
       IN  hist' = [b \in Callers |->
                       IF b = c THEN [Unseen EXCEPT !.alone = alone]
                       ELSE IF call[b].pc = "idle" THEN Unseen
                       ELSE [Unseen EXCEPT !.alone = FALSE]]
    /\ UNCHANGED <<configured, working, failures, api, device, faults>>

\* set_version, in the executor: versions set at once may arrive in the
\* other order.
SetsVersion(c) ==
    /\ call[c].pc \in {"first", "set"}
    /\ api' = call[c].version
    /\ call' = IF call[c].pc = "first" THEN Starts(c)
               ELSE IF call[c].i = call[c].of THEN [call EXCEPT ![c] = Idle]
               ELSE [call EXCEPT ![c].pc = "try"]
    /\ hist' = IF call'[c] = Idle THEN [hist EXCEPT ![c] = Unseen] ELSE hist
    /\ UNCHANGED <<configured, index, working, failures, device, commands, faults>>

\* A poll that gets an answer.  Of a command, what tinytuya returns is dropped,
\* an error too (_set_values): it succeeds in any version and with no device.
Succeeds(c) ==
    /\ call[c].pc = "try"
    /\ c = Poll => device.up /\ api = device.speaks
    /\ working' = TRUE
    /\ failures' = 0
    /\ call' = [call EXCEPT ![c] = Idle]
    /\ hist' = [hist EXCEPT ![c] = Unseen]
    /\ UNCHANGED <<configured, index, api, device, commands, faults>>

\* Mutant: a version that has once worked is never given up.
FailedKeeping(last) ==
    /\ failures' = IF last /\ failures <= FailureReset THEN failures + 1 ELSE failures
    /\ UNCHANGED working

\* The last attempt counts as one failure; more than _AUTO_FAILURE_RESET_COUNT
\* of them end what worked.  (Bound: they are not counted any further.)
Failed(last) ==
    /\ failures' = IF last /\ failures <= FailureReset THEN failures + 1 ELSE failures
    /\ working' = (working /\ failures' <= FailureReset)

\* An attempt that fails, as one of a command does only when the call raises:
\* unless a version is known to work, the next one is made with another.
GivesUp(c) ==
    LET i == call[c].i + 1
        last == i = call[c].of
        seen == [hist[c] EXCEPT !.tried = @ \cup {api}]
    IN  /\ call[c].pc = "try"
        /\ IF device.up /\ api = device.speaks
           THEN faults > 0 /\ faults' = faults - 1
           ELSE UNCHANGED faults
        /\ Failed(last)
        /\ IF working'
           THEN /\ call' = [call EXCEPT ![c] = IF last THEN Idle ELSE [@ EXCEPT !.i = i]]
                /\ UNCHANGED index
           ELSE /\ index' = Rotated
                /\ call' = [call EXCEPT ![c].pc = "set", ![c].i = i, ![c].version = Rotated]
        /\ hist' = [hist EXCEPT ![c] = IF call'[c] = Idle THEN Unseen
                                       ELSE IF @.alone THEN seen ELSE @]
        /\ UNCHANGED <<configured, api, device, commands>>

\* The device goes away, comes back, or speaks another version.
DeviceChanges ==
    /\ faults > 0
    /\ faults' = faults - 1
    /\ device' \in {[device EXCEPT !.up = ~@]} \cup
                   {[device EXCEPT !.speaks = v] : v \in Versions \ {device.speaks}}
    /\ UNCHANGED <<configured, index, working, failures, api, call, commands, hist>>

-----------------------------------------------------------------------------
Goes(c) == Calls(c) \/ SetsVersion(c) \/ Succeeds(c) \/ GivesUp(c)

Next == (\E c \in Callers : Goes(c)) \/ DeviceChanges

Spec == Init /\ [][Next]_vars

-----------------------------------------------------------------------------
(* Properties.                                                             *)

\* The last attempt has failed and the version is rotated once more.
LastTried(c) == call[c].pc = "set" /\ call[c].i = call[c].of /\ call'[c] = Idle

\* A call on a version that is not known to work, with no other call beside it,
\* fails only after every version was tried ("more attempts are needed in auto
\* mode so we can cycle through all the possibilities").  A command whose error
\* was returned has not failed.
LoneCallTriesAll ==
    [][\A c \in Callers :
          LastTried(c) /\ hist[c].alone /\ configured = Auto /\ call[c].of # Single
             => hist[c].tried = Versions]_vars

\* A device that answers, in a version that may be used, is in the end spoken
\* to in its version: calls at once that rotate it twice, or set it in the
\* other order, only delay that, and so do commands that succeed in another
\* version and clear the count of the polls that fail in it, once they have ended.
FindsVersion ==
    <>[](device.up /\ configured \in {Auto, device.speaks})
        => <>[](working /\ api = device.speaks)
=============================================================================

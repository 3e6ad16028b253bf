------------------------------ MODULE TuyaDevice ------------------------------
(***************************************************************************)
(* tuya_local/device.py: the state of a Tuya device as Home Assistant      *)
(* shows it, kept from what the receive loop polls and from the commands   *)
(* that are not confirmed yet.                                             *)
(*                                                                         *)
(* A step is what the event loop does between two awaits, or what a call   *)
(* in the executor does to the board; a thread marks its updates as sent   *)
(* in a step of its own.  A poll that fails has used up its attempts       *)
(* (TuyaProtocol has them one by one).  A datapoint has been sent for more *)
(* than _FAKE_IT_TIMEOUT at any time, because no call is bounded by it.    *)
(***************************************************************************)
EXTENDS Integers, Sequences, FiniteSets

CONSTANTS
    Dps,            \* datapoints
    Values,         \* their values
    None,
    Commands,       \* calls of async_set_properties, each made once
    Attempts,       \* _SINGLE_PROTO_CONNECTION_ATTEMPTS
    MaxReports,     \* bound: reports on their way
    MaxFaults       \* bound: calls to the board that fail, noticed or not, and
                    \* changes that the board makes by itself

ASSUME DeviceAssumption ==
    /\ None \notin Values \cup [value : Values, sent : BOOLEAN]
    /\ Attempts \in Nat \ {0}
    /\ {MaxReports, MaxFaults} \subseteq Nat

VARIABLES
    cached,     \* _cached_state; updated_at > 0 when it is not empty
    pending,    \* _pending_updates
    cmd,        \* the commands
    poll,       \* what the receive loop is doing
    board,      \* the datapoints of the board
    reports,    \* the board's unasked reports, on their way
    faults,
    hist        \* history, read by properties only

vars == <<cached, pending, cmd, poll, board, reports, faults, hist>>

Nowhere == [d \in Dps |-> None]

Init ==
    /\ cached = Nowhere
    /\ pending = Nowhere
    /\ cmd \in [Commands -> [pc : {"new"}, dp : Dps, value : Values, props : {Nowhere},
                             left : {Attempts}]]
    /\ poll = [pc |-> "top", got |-> Nowhere]
    /\ board \in [Dps -> Values]
    /\ reports = <<>>
    /\ faults = MaxFaults
    /\ hist = [last |-> Nowhere, crossed |-> {}, dropped |-> {}, taken |-> {}, unheard |-> {}]

-----------------------------------------------------------------------------
(* What is shown.                                                          *)

HasReturnedState == cached # Nowhere

\* get_property: pending updates are laid over the cached state.
Property(d) == IF pending[d] # None THEN pending[d].value ELSE cached[d]

\* _get_unsent_properties
Unsent == [d \in Dps |-> IF pending[d] # None /\ ~pending[d].sent
                         THEN pending[d].value ELSE None]

\* Mutant: a report ends every update of what it reports.
UnconfirmedAny(data) ==
    [d \in Dps |-> IF data[d] # None THEN None ELSE pending[d]]

\* Mutant: an update that was not sent ends so too.
UnconfirmedUnsent(data) ==
    [d \in Dps |-> IF pending[d] # None /\ data[d] = pending[d].value
                   THEN None ELSE pending[d]]

\* _remove_properties_from_pending_updates: an update that was sent ends with
\* the report of its own value.
Unconfirmed(data) ==
    [d \in Dps |-> IF pending[d] # None /\ pending[d].sent /\ data[d] = pending[d].value
                   THEN None ELSE pending[d]]

Merged(old, data) == [d \in Dps |-> IF data[d] # None THEN data[d] ELSE old[d]]

\* _reset_cached_state, which forgets the commands that were not sent too.
Resets ==
    /\ cached' = Nowhere
    /\ pending' = Nowhere
    /\ hist' = [hist EXCEPT !.dropped = @ \cup {c \in Commands : cmd[c].pc = "debounce"}]

-----------------------------------------------------------------------------
(* Commands.                                                               *)

Sending(d) == {c \in Commands : cmd[c].pc \in {"send", "mark"} /\ cmd[c].props[d] # None}

\* async_set_properties until its debounce sleep.
Commanded(c) ==
    LET d == cmd[c].dp
    IN  /\ cmd[c].pc = "new"
        /\ pending' = [pending EXCEPT ![d] = [value |-> cmd[c].value, sent |-> FALSE]]
        /\ cmd' = [cmd EXCEPT ![c].pc = "debounce"]
        /\ hist' = [hist EXCEPT !.last[d] = c,
                                !.crossed = IF Sending(d) = {} THEN @ ELSE @ \cup {c}]
        /\ UNCHANGED <<cached, poll, board, reports, faults>>

\* _send_pending_updates: every update not sent yet, whoever asked for it.
StartsSending(c) ==
    /\ cmd[c].pc = "debounce"
    /\ cmd' = [cmd EXCEPT ![c].pc = "send", ![c].props = Unsent]
    /\ UNCHANGED <<cached, pending, poll, board, reports, faults, hist>>

\* The commands, the last of their datapoints, whose values props are.
Latest(props) == {l \in Commands : hist.last[cmd[l].dp] = l /\ props[cmd[l].dp] = cmd[l].value}

\* set_multiple_values reaches the board, which takes the values and, to an
\* open connection, reports them.
Sends(c) ==
    LET props == cmd[c].props
    IN  /\ cmd[c].pc = "send"
        /\ board' = Merged(board, props)
        /\ reports' \in {reports} \cup (IF Len(reports) < MaxReports /\ props # Nowhere
                                        THEN {Append(reports, props)} ELSE {})
        /\ cmd' = [cmd EXCEPT ![c].pc = "mark"]
        /\ hist' = [hist EXCEPT !.taken = @ \cup Latest(props)]
        /\ UNCHANGED <<cached, pending, poll, faults>>

\* It does not, and returns the error.  _set_values drops what it returns, so
\* that the call goes on as if the board had taken the values.
SendsUnheard(c) ==
    /\ cmd[c].pc = "send"
    /\ faults > 0
    /\ faults' = faults - 1
    /\ cmd' = [cmd EXCEPT ![c].pc = "mark"]
    /\ hist' = [hist EXCEPT !.unheard = @ \cup Latest(cmd[c].props)]
    /\ UNCHANGED <<cached, pending, poll, board, reports>>

\* An attempt fails.  The last one resets the state.
Attempted(c) ==
    /\ cmd' = [cmd EXCEPT ![c].pc = IF cmd[c].left = 1 THEN "failed" ELSE "send",
                          ![c].left = @ - 1]
    /\ IF cmd[c].left = 1 THEN Resets ELSE UNCHANGED <<cached, pending, hist>>

\* set_multiple_values raises: of its failures only these are failed attempts.
SendFails(c) ==
    /\ cmd[c].pc = "send"
    /\ faults > 0
    /\ faults' = faults - 1
    /\ Attempted(c)
    /\ UNCHANGED <<poll, board, reports>>

Asked(props) == {d \in Dps : props[d] # None}

\* Mutant: nothing is marked as sent.
MarksNothing(c) ==
    /\ cmd[c].pc = "mark"
    /\ cmd' = [cmd EXCEPT ![c].pc = "done"]
    /\ UNCHANGED <<cached, pending, poll, board, reports, faults, hist>>

\* The thread marks by key what it has sent: the update it finds may be a
\* newer one.  A key that is gone counts as a failed attempt.
Marks(c) ==
    LET props == cmd[c].props
    IN  /\ cmd[c].pc = "mark"
        /\ IF \A d \in Asked(props) : pending[d] # None
           THEN /\ pending' = [d \in Dps |->
                      IF d \in Asked(props) THEN [pending[d] EXCEPT !.sent = TRUE]
                      ELSE pending[d]]
                /\ cmd' = [cmd EXCEPT ![c].pc = "done"]
                /\ UNCHANGED <<cached, hist>>
           ELSE Attempted(c)
        /\ UNCHANGED <<poll, board, reports, faults>>

\* _get_pending_updates drops what was sent _FAKE_IT_TIMEOUT ago.
FakeItTimeout(d) ==
    /\ pending[d] # None
    /\ pending[d].sent
    /\ pending' = [pending EXCEPT ![d] = None]
    /\ UNCHANGED <<cached, cmd, poll, board, reports, faults, hist>>

-----------------------------------------------------------------------------
(* The receive loop.                                                       *)

\* A status poll: the first one, and every _CACHE_TIMEOUT.
Polls ==
    /\ poll.pc = "top"
    /\ poll' = [poll EXCEPT !.pc = "status"]
    /\ UNCHANGED <<cached, pending, cmd, board, reports, faults, hist>>

StatusAnswered ==
    /\ poll.pc = "status"
    /\ poll' = [pc |-> "merge", got |-> board]
    /\ UNCHANGED <<cached, pending, cmd, board, reports, faults, hist>>

\* On a persistent connection, which takes a first state, the loop receives
\* what the board reports.
Receives ==
    /\ poll.pc = "top"
    /\ HasReturnedState
    /\ reports # <<>>
    /\ poll' = [pc |-> "merge", got |-> Head(reports)]
    /\ reports' = Tail(reports)
    /\ UNCHANGED <<cached, pending, cmd, board, faults, hist>>

\* receive_loop merges what has come.
Receipt ==
    /\ poll.pc = "merge"
    /\ cached' = Merged(cached, poll.got)
    /\ pending' = Unconfirmed(poll.got)
    /\ poll' = [pc |-> "top", got |-> Nowhere]
    /\ UNCHANGED <<cmd, board, reports, faults, hist>>

\* The connection is closed and the state reset; reports are lost with it.
PollFails ==
    /\ poll.pc = "status"
    /\ faults > 0
    /\ faults' = faults - 1
    /\ Resets
    /\ poll' = [poll EXCEPT !.pc = "top"]
    /\ reports' = <<>>
    /\ UNCHANGED <<cmd, board>>

\* Somebody presses the switch.
BoardChanges(d) ==
    /\ faults > 0
    /\ faults' = faults - 1
    /\ \E v \in Values \ {board[d]} :
          /\ board' = [board EXCEPT ![d] = v]
          /\ reports' \in {reports} \cup
                (IF Len(reports) < MaxReports
                 THEN {Append(reports, [Nowhere EXCEPT ![d] = v])} ELSE {})
    /\ UNCHANGED <<cached, pending, cmd, poll, hist>>

-----------------------------------------------------------------------------
Command(c) ==
    \/ StartsSending(c)
    \/ Sends(c)
    \/ Marks(c)

Loop == Polls \/ StatusAnswered \/ Receipt

Next ==
    \/ \E c \in Commands : Commanded(c) \/ Command(c) \/ SendsUnheard(c) \/ SendFails(c)
    \/ \E d \in Dps : FakeItTimeout(d) \/ BoardChanges(d)
    \/ Loop \/ Receives \/ PollFails

Spec == Init /\ [][Next]_vars

-----------------------------------------------------------------------------
(* Properties.                                                             *)

\* "A temporary list of changed properties that we can overlay onto the state
\* while we wait for the board": what a command has asked for is shown until
\* another command, its confirmation, its time-out, or a failed connection.
\* No poll that was under way shows an older value in between.
OverlayHolds ==
    [][\A d \in Dps :
          pending[d] # None /\ cached' # Nowhere /\ Property(d)' # Property(d)
             => \/ hist'.last[d] # hist.last[d]
                \/ pending[d].sent /\ pending'[d] = None /\ cached' = cached]_vars

\* A command that was the last for its datapoint has reached the board when it
\* is done, unless another one was being sent when it was made, the state was
\* reset before it was sent, or the error of a send of it was not looked at.
LoneLastReaches ==
    \A c \in Commands :
        cmd[c].pc = "done" /\ hist.last[cmd[c].dp] = c
            => c \in hist.taken \cup hist.crossed \cup hist.dropped \cup hist.unheard

\* When commands are over, what is shown comes to be what the board does, and
\* no update stays pending.
ShowsBoard == <>[](\A d \in Dps : pending[d] = None /\ cached[d] = board[d])
=============================================================================

------------------------------ MODULE HlkDio16 ------------------------------
(***************************************************************************)
(* image/custom_components/hlk_dio16: the relay board's TCP client and the *)
(* Home Assistant coordinator that drives it.                              *)
(*                                                                         *)
(* The tasks are the coordinator's poll and the switch service calls.  An  *)
(* action is what one task does between two awaits.  The board's relay     *)
(* states are abstracted to the number of controls it has executed, ver:   *)
(* a state frame carries the version it was built from.                    *)
(***************************************************************************)
EXTENDS ReconnectPolicy, Integers, Sequences

CONSTANTS
    Poll,           \* the coordinator's refresh task
    Setters,        \* switch turn_on / turn_off service calls
    Replies,        \* what the firmware may answer a control with
    MaxSkips,       \* frames _read_frame_matching skips before it gives up
    MaxConns,       \* bound: connections that are not yet finished
    MaxSets,        \* bound: service calls
    MaxFaults,      \* bound: timeouts, garbled frames and dropped connections
    MaxLate         \* bound: state frames that miss the 0.4 s follow-up wait

ASSUME HlkAssumption ==
    /\ Poll \notin Setters
    /\ Replies \subseteq {<<"ack">>, <<"out">>, <<"ack", "out">>}
    /\ Replies # {}
    /\ {MaxSkips, MaxConns, MaxSets, MaxFaults, MaxLate} \subseteq Nat
    /\ MaxConns > 0

Tasks == Setters \cup {Poll}
Conns == 1..MaxConns
None == 0           \* no connection: _reader and _writer are None

VARIABLES
    ver,            \* board: controls executed
    slot,           \* board: the one connection it serves
    conns,          \* the TCP connections, both directions
    sock,           \* client._reader and client._writer
    lockq,          \* client._lock: its holder, then its waiters in order
    task,           \* the control state of each task
    data,           \* version of coordinator.data["outputs"]
    available,      \* coordinator.last_update_success
    aged,           \* last success is older than AVAILABILITY_GRACE_SECONDS
    budget,         \* what is left of the bounds on the environment
    hist            \* history, read by properties only

hlkVars == <<ver, slot, conns, sock, lockq, task, data, available,
             aged, budget, hist>>
vars == <<hlkVars, policyVars>>

Frame == [kind : {"ack", "in", "out"}, ver : Nat]
Request == [kind : {"in", "out", "ctl"}, by : Tasks]
Conn == [up : BOOLEAN,                      \* the client has not closed it
         end : {"open", "fin", "rst"},      \* what the board did to it
         c2d : Seq(Request), d2c : Seq(Frame)]
Where == {"idle", "connect", "lock", "lockedConnect", "read", "control",
          "follow", "drop", "coordinatorDrop"}
Task == [pc : Where, op : {"in", "out", "ctl"},
         on : Conns \cup {None},            \* the reader it awaits
         skips : Nat]

NoConn == [up |-> FALSE, end |-> "fin", c2d |-> <<>>, d2c |-> <<>>]
Fresh == [up |-> TRUE, end |-> "open", c2d |-> <<>>, d2c |-> <<>>]

\* The entry is set up: connected, health-checked, first refresh done.
Init ==
    /\ ver = 0
    /\ slot = 1
    /\ conns = [c \in Conns |-> IF c = 1 THEN Fresh ELSE NoConn]
    /\ sock = 1
    /\ lockq = <<>>
    /\ task = [t \in Tasks |-> [pc |-> "idle", op |-> "in", on |-> None,
                                skips |-> 0]]
    /\ data = 0
    /\ available = TRUE
    /\ aged = FALSE
    /\ budget = [sets |-> MaxSets, faults |-> MaxFaults, late |-> MaxLate]
    /\ hist = [dirty |-> {}, from |-> 0, mine |-> [t \in Tasks |-> 0]]
    /\ PolicyInit

-----------------------------------------------------------------------------
(* Client helpers.                                                         *)

Connected == sock # None /\ conns[sock].end # "rst"

\* A connection nobody refers to any more is closed by StreamWriter.__del__,
\* one that disconnect() takes by writer.close().
\* What had arrived can still be read by a task that awaits it.
Closed(cs, c) ==
    IF c = None THEN cs
    ELSE [cs EXCEPT ![c].up = FALSE,
                    ![c].d2c = IF \E t \in Tasks : task[t].on = c
                               THEN @ ELSE <<>>]

Sent(cs, c, t, kind) ==
    [cs EXCEPT ![c].c2d = Append(@, [kind |-> kind, by |-> t])]

At(t, pc) == task[t].pc = pc
Goes(t, pc) == task' = [task EXCEPT ![t].pc = pc, ![t].on = None]
\* The task asks for the lock, for the transaction op.
Queues(t, op) == task' = [task EXCEPT ![t] =
                     [pc |-> "lock", op |-> op, on |-> None, skips |-> 0]]
Holds(t) == lockq # <<>> /\ Head(lockq) = t
\* Mutant: no input command 0x02 tells the two state frames apart.
AnyState(t) == "out"
Accepts(t) == IF task[t].op = "in" THEN "in" ELSE "out"

\* The first request of a transaction goes out and the task awaits its answer.
Begins(t, cs, c) ==
    /\ conns' = Sent(cs, c, t, task[t].op)
    /\ task' = [task EXCEPT ![t].on = c, ![t].skips = 0,
                    ![t].pc = IF task[t].op = "ctl" THEN "control" ELSE "read"]

Dirty(S) == hist' = [hist EXCEPT !.dirty = @ \cup (S \ {None})]

-----------------------------------------------------------------------------
(* How a call of the coordinator ends.                                     *)

Idle(t) == task' = [task EXCEPT ![t] =
                [pc |-> "idle", op |-> "in", on |-> None, skips |-> 0]]

\* Mutant: no grace.
ReportedAtOnce(t) ==
    /\ Idle(t)
    /\ available' = IF t = Poll THEN FALSE ELSE available

\* A failed poll serves the last data during the grace; a failed service call
\* raises and leaves the entities as they are.
Reported(t) ==
    /\ Idle(t)
    /\ available' = IF t = Poll THEN ~aged ELSE available

\* Mutant: the failure is noted and the socket kept.
NoteOnly(t, cs, s) ==
    /\ OnFailure
    /\ sock' = s
    /\ conns' = cs
    /\ Reported(t)

\* _async_note_failure: back off, then drop whatever socket the client has.
NoteFailure(t, cs, s) ==
    /\ OnFailure
    /\ sock' = None
    /\ conns' = Closed(cs, s)
    /\ IF s = None THEN Reported(t)
                   ELSE Goes(t, "coordinatorDrop") /\ UNCHANGED available

\* Mutant: disconnect() reads its socket after the await, too.
DroppedAgain(t) ==
    /\ At(t, "coordinatorDrop")
    /\ Reported(t)
    /\ conns' = Closed(conns, sock)
    /\ sock' = None
    /\ UNCHANGED <<ver, slot, lockq, data, aged, budget, hist, policyVars>>

CoordinatorDropped(t) ==
    /\ At(t, "coordinatorDrop")
    /\ Reported(t)
    /\ UNCHANGED <<ver, slot, conns, sock, lockq, data, aged, budget,
                   hist, policyVars>>

\* Mutant: only a service call resets the backoff.
SucceedsBackedOff(t, v) ==
    /\ IF t = Poll THEN UNCHANGED policyVars ELSE OnSuccess
    /\ data' = v
    /\ available' = TRUE
    /\ aged' = FALSE
    /\ Idle(t)

Succeeds(t, v) ==
    /\ OnSuccess
    /\ data' = v
    /\ available' = TRUE
    /\ aged' = FALSE
    /\ Idle(t)

\* An AssertionError or AttributeError on a vanished reader or writer is no
\* HlkDio16Error: no failure is noted and nothing is dropped.
Errors(t) ==
    /\ Idle(t)
    /\ available' = IF t = Poll THEN FALSE ELSE available

-----------------------------------------------------------------------------
(* Calls, and connect(), which the poll makes without the lock.            *)

\* Mutant: the poll reads the outputs only.
OutputsOnly == "out"

\* A poll reads the inputs, then the outputs.
FirstRead == "in"

PollStarts ==
    /\ At(Poll, "idle")
    /\ hist' = [hist EXCEPT !.from = ver]
    /\ IF Connected THEN /\ Queues(Poll, FirstRead)
                         /\ lockq' = Append(lockq, Poll)
                    ELSE /\ Goes(Poll, "connect")
                         /\ UNCHANGED lockq
    /\ UNCHANGED <<ver, slot, conns, sock, data, available, aged,
                   budget, policyVars>>

SetStarts(t) ==
    /\ At(t, "idle")
    /\ budget.sets > 0
    /\ budget' = [budget EXCEPT !.sets = @ - 1]
    /\ Queues(t, "ctl")
    /\ lockq' = Append(lockq, t)
    /\ hist' = [hist EXCEPT !.mine[t] = 0]
    /\ UNCHANGED <<ver, slot, conns, sock, data, available, aged,
                   policyVars>>

\* A task whose connection is closed or reset is already scheduled: the event
\* loop runs it before a connection attempt can complete.
Awaiting(t) == task[t].pc \in {"read", "control", "follow"}
Settled == \A t \in Tasks : Awaiting(t) =>
               conns[task[t].on].up /\ conns[task[t].on].end # "rst"

\* open_connection succeeds: the board's one slot is free.
Finished(c) == ~conns[c].up /\ slot # c /\ \A t \in Tasks : task[t].on # c
NewConn == CHOOSE c \in Conns : Finished(c)

\* Mutant: the old connection is not closed.
OpenedBeside == [conns EXCEPT ![NewConn] = Fresh]

Opened == [Closed(conns, sock) EXCEPT ![NewConn] = Fresh]
Connects ==
    /\ Settled
    /\ slot = None
    /\ \E c \in Conns : Finished(c)
    /\ slot' = NewConn
    /\ sock' = NewConn
    /\ hist' = [hist EXCEPT !.dirty = @ \ {NewConn}]

\* It is refused while the board serves another connection, or fails.
Refused ==
    /\ Settled
    /\ \/ slot # None /\ UNCHANGED budget
       \/ budget.faults > 0 /\ budget' = [budget EXCEPT !.faults = @ - 1]

PollConnects ==
    /\ At(Poll, "connect")
    /\ Connects
    /\ conns' = Opened
    /\ Queues(Poll, FirstRead)
    /\ lockq' = Append(lockq, Poll)
    /\ UNCHANGED <<ver, data, available, aged, budget, policyVars>>

\* The failed connect() clears _reader and _writer, whoever set them.
PollConnectFails ==
    /\ At(Poll, "connect")
    /\ Refused
    /\ NoteFailure(Poll, Closed(conns, sock), None)
    /\ UNCHANGED <<ver, slot, lockq, data, aged, hist>>

-----------------------------------------------------------------------------
(* Transactions, under the lock.                                           *)

TransactionStarts(t) ==
    /\ At(t, "lock")
    /\ Holds(t)
    /\ IF Connected THEN Begins(t, conns, sock)
                    ELSE Goes(t, "lockedConnect") /\ UNCHANGED conns
    /\ UNCHANGED <<ver, slot, sock, lockq, data, available, aged,
                   budget, hist, policyVars>>

LockedConnects(t) ==
    /\ At(t, "lockedConnect")
    /\ Connects
    /\ Begins(t, Opened, NewConn)
    /\ UNCHANGED <<ver, lockq, data, available, aged, budget, policyVars>>

LockedConnectFails(t) ==
    /\ At(t, "lockedConnect")
    /\ Refused
    /\ lockq' = Tail(lockq)
    /\ NoteFailure(t, Closed(conns, sock), None)
    /\ UNCHANGED <<ver, slot, data, aged, hist>>

Incoming(t) == conns[task[t].on].d2c
Takes(t) == conns' = [conns EXCEPT ![task[t].on].d2c = Tail(@)]

\* The frame the transaction waited for: the poll goes on to the outputs,
\* every other call has its result.
Answered(t) ==
    /\ Awaiting(t)
    /\ Incoming(t) # <<>>
    /\ Head(Incoming(t)).kind = Accepts(t)
    /\ Takes(t)
    /\ IF task[t].op = "in"
       THEN /\ Queues(t, "out")
            /\ lockq' = Append(Tail(lockq), t)
            /\ UNCHANGED <<data, available, aged, policyVars>>
       ELSE /\ Succeeds(t, Head(Incoming(t)).ver)
            /\ lockq' = Tail(lockq)
    /\ UNCHANGED <<ver, slot, sock, budget, hist>>

\* Go back to _read_one_frame, which asserts that there is a reader.
AwaitsAgain(t, pc, skips) ==
    IF sock = None
    THEN /\ Errors(t)
         /\ lockq' = Tail(lockq)
    ELSE /\ task' = [task EXCEPT ![t].pc = pc, ![t].on = sock,
                                 ![t].skips = skips]
         /\ UNCHANGED <<available, lockq>>

\* Any other frame: a reply to the control, or a leftover to be skipped.
OtherFrame(t) ==
    /\ Awaiting(t)
    /\ Incoming(t) # <<>>
    /\ Head(Incoming(t)).kind # Accepts(t)
    /\ Takes(t)
    /\ \/ At(t, "read") /\ task[t].skips < MaxSkips
          /\ AwaitsAgain(t, "read", task[t].skips + 1)
       \/ At(t, "control") /\ Head(Incoming(t)).kind = "ack"
          /\ AwaitsAgain(t, "follow", 0)
       \/ At(t, "control") /\ Head(Incoming(t)).kind # "ack"
          /\ AwaitsAgain(t, "control", 0)
       \/ At(t, "follow") /\ AwaitsAgain(t, "control", 0)
    /\ UNCHANGED <<ver, slot, sock, data, aged, budget, hist,
                   policyVars>>

\* No state frame within 0.4 s of the ack: ask for the outputs.
FollowTimesOut(t) ==
    /\ At(t, "follow")
    /\ IF Incoming(t) = <<>>
       THEN UNCHANGED budget
       ELSE budget.late > 0 /\ budget' = [budget EXCEPT !.late = @ - 1]
    /\ IF sock = None
       THEN Errors(t) /\ lockq' = Tail(lockq) /\ UNCHANGED conns
       ELSE /\ conns' = Sent(conns, sock, t, "out")
            /\ task' = [task EXCEPT ![t].pc = "read", ![t].on = sock,
                                    ![t].skips = 0]
            /\ UNCHANGED <<available, lockq>>
    /\ UNCHANGED <<ver, slot, sock, data, aged, hist, policyVars>>

\* Timeout, OSError or protocol error: the client drops its socket.
ClientErrs(t) ==
    /\ Awaiting(t)
    /\ LET c == conns[task[t].on] IN
       \/ c.end = "rst" /\ UNCHANGED budget
       \/ /\ At(t, "read") /\ task[t].skips = MaxSkips
          /\ c.d2c # <<>> /\ Head(c.d2c).kind # Accepts(t)
          /\ UNCHANGED budget
       \/ /\ ~At(t, "follow") /\ c.up /\ c.end = "open"
          /\ c.c2d = <<>> /\ c.d2c = <<>>
          /\ UNCHANGED budget
       \/ budget.faults > 0 /\ budget' = [budget EXCEPT !.faults = @ - 1]
    /\ Dirty({task[t].on})
    /\ IF sock = None
       THEN /\ lockq' = Tail(lockq)
            /\ NoteFailure(t, conns, None)
       ELSE /\ Goes(t, "drop")
            /\ conns' = Closed(conns, sock)
            /\ sock' = None
            /\ UNCHANGED <<lockq, available, policyVars>>
    /\ UNCHANGED <<ver, slot, data, aged>>

ClientDropped(t) ==
    /\ At(t, "drop")
    /\ lockq' = Tail(lockq)
    /\ NoteFailure(t, conns, sock)
    /\ UNCHANGED <<ver, slot, data, aged, budget, hist>>

\* Mutant: this way out of the transaction keeps the lock.
EndOfFileLocked(t) ==
    /\ Awaiting(t)
    /\ ~conns[task[t].on].up \/ conns[task[t].on].end = "fin"
    /\ Dirty({task[t].on})
    /\ NoteFailure(t, conns, sock)
    /\ UNCHANGED <<ver, slot, lockq, data, aged, budget>>

\* End of file is an HlkDio16ConnectionError, which the client lets through.
EndOfFile(t) ==
    /\ Awaiting(t)
    /\ LET c == conns[task[t].on] IN
       \/ ~c.up
       \/ c.end = "fin" /\ c.d2c = <<>>
    /\ Dirty({task[t].on})
    /\ lockq' = Tail(lockq)
    /\ NoteFailure(t, conns, sock)
    /\ UNCHANGED <<ver, slot, data, aged, budget>>

-----------------------------------------------------------------------------
(* The board, the network and the clock.                                   *)

Serve ==
    /\ slot # None
    /\ conns[slot].c2d # <<>>
    /\ LET req == Head(conns[slot].c2d)
           Reply(fs) == conns' = [conns EXCEPT ![slot].c2d = Tail(@),
                                               ![slot].d2c = @ \o fs]
       IN \/ /\ req.kind # "ctl"
             /\ Reply(<<[kind |-> req.kind, ver |-> ver]>>)
             /\ UNCHANGED <<ver, hist>>
          \/ /\ req.kind = "ctl"
             /\ ver' = ver + 1
             /\ \E r \in Replies :
                    Reply([i \in 1..Len(r) |-> [kind |-> r[i], ver |-> ver']])
             /\ hist' = [hist EXCEPT !.mine[req.by] =
                             IF task[req.by].pc = "idle" THEN @ ELSE ver']
    /\ UNCHANGED <<slot, sock, lockq, task, data, available, aged,
                   budget, policyVars>>

BoardSeesClose ==
    /\ slot # None
    /\ ~conns[slot].up
    /\ slot' = None
    /\ conns' = [conns EXCEPT ![slot].c2d = <<>>]
    /\ UNCHANGED <<ver, sock, lockq, task, data, available, aged, budget,
                   hist, policyVars>>

ConnectionLost ==
    /\ slot # None
    /\ budget.faults > 0
    /\ budget' = [budget EXCEPT !.faults = @ - 1]
    /\ \E e \in {"fin", "rst"} :
           conns' = [conns EXCEPT ![slot].end = e, ![slot].c2d = <<>>]
    /\ slot' = None
    /\ UNCHANGED <<ver, sock, lockq, task, data, available, aged, hist,
                   policyVars>>

GraceEnds ==
    /\ ~aged
    /\ aged' = TRUE
    /\ UNCHANGED <<ver, slot, conns, sock, lockq, task, data,
                   available, budget, hist, policyVars>>

Steps(t) ==
    \/ TransactionStarts(t)
    \/ LockedConnects(t)
    \/ LockedConnectFails(t)
    \/ Answered(t)
    \/ OtherFrame(t)
    \/ FollowTimesOut(t)
    \/ ClientErrs(t)
    \/ ClientDropped(t)
    \/ EndOfFile(t)
    \/ CoordinatorDropped(t)

PollSteps == PollStarts \/ PollConnects \/ PollConnectFails \/ Steps(Poll)

Next ==
    \/ PollSteps
    \/ \E t \in Setters : SetStarts(t) \/ Steps(t)
    \/ Serve
    \/ BoardSeesClose
    \/ ConnectionLost
    \/ GraceEnds

Spec == Init /\ [][Next]_vars

\* The event loop runs every task that can run, and the board, one loop, answers
\* or frees its slot; nothing makes a user call, a fault or the clock happen.
FairSpec ==
    /\ Spec
    /\ WF_vars(PollSteps)
    /\ \A t \in Setters : WF_vars(Steps(t))
    /\ WF_vars(Serve \/ BoardSeesClose)

-----------------------------------------------------------------------------
(* Properties.                                                             *)

TypeOK ==
    /\ PolicyTypeOK
    /\ ver \in Nat
    /\ slot \in Conns \cup {None}
    /\ conns \in [Conns -> Conn]
    /\ sock \in Conns \cup {None}
    /\ lockq \in Seq(Tasks)
    /\ task \in [Tasks -> Task]
    /\ data \in Nat
    /\ available \in BOOLEAN
    /\ aged \in BOOLEAN
    /\ budget \in [sets : Nat, faults : Nat, late : Nat]
    /\ hist \in [dirty : SUBSET Conns, from : Nat, mine : [Tasks -> Nat]]

\* A dead path is never polled faster than the first backoff allows, whatever
\* the mix of failing polls and failing service calls (const.py:12).
NeverHammers == failures # 0 => interval \in BackoffStart..BackoffMax

\* Every way a transaction can end releases the lock once and only its holder
\* is ever past it: the client's "single-flight transaction queue".
InTransaction(t) ==
    task[t].pc \in {"lockedConnect", "read", "control", "follow", "drop"}
Wants(t) == At(t, "lock") \/ InTransaction(t)
LockDiscipline ==
    /\ \A t \in Tasks : InTransaction(t) => Holds(t)
    /\ \A t \in Tasks : Wants(t) <=> \E i \in 1..Len(lockq) : lockq[i] = t
    /\ \A i, j \in 1..Len(lockq) : lockq[i] = lockq[j] => i = j

\* A connection on which a transaction failed, and that may still carry its
\* answer, is never the client's socket again: end of file is not handled by
\* the client and relies on the coordinator's disconnect.
FailedConnNeverReused == sock \notin hist.dirty

\* An input state is only ever read by the poll that asked for it: the current
\* connection carries an input request or frame only while the poll awaits it.
InputsIn(q) == {i \in 1..Len(q) : q[i].kind = "in"}
InputsAnswerOwnPoll ==
    sock # None =>
        LET c == conns[sock] IN
        /\ \A i, j \in InputsIn(c.c2d) : i = j
        /\ \A i, j \in InputsIn(c.d2c) : i = j
        /\ InputsIn(c.c2d) = {} \/ InputsIn(c.d2c) = {}
        /\ InputsIn(c.c2d) \cup InputsIn(c.d2c) # {} =>
               At(Poll, "read") /\ task[Poll].op = "in" /\ task[Poll].on = sock

\* Entities go unavailable only when the last success is older than the grace,
\* whichever of the failure paths a poll takes (docs/HLK_DIO16.md:98).
GraceHonoured == ~available => aged

\* No connection stays open beside the client's socket: an abandoned one would
\* keep the board's only slot for ever, since nobody could close it.
NoLeakedConnection == \A c \in Conns : conns[c].up => c = sock

\* A finished poll shows every control the board had executed when the poll
\* started: reading the inputs first drains the leftovers of late answers.
PollShowsEarlierControls ==
    [][Answered(Poll) /\ task[Poll].op = "out" => data' >= hist.from]_vars

\* No other task closes or replaces the connection the task awaits.
Undisturbed(t) == Awaiting(t) /\ task'[t] = task[t] =>
    /\ conns'[task[t].on].up = conns[task[t].on].up
    /\ sock' = sock

\* The poll's own transactions are never disturbed.
PollUndisturbed == [][Undisturbed(Poll)]_vars

\* Once the faults are over the coordinator shows the board's relay states
\* again and again, and its failure count returns to zero; and every service
\* call returns or raises, also one that waits for the lock.
Recovers ==
    /\ []<>(data = ver /\ available)
    /\ failures # 0 ~> failures = 0
    /\ \A t \in Setters : ~At(t, "idle") ~> At(t, "idle")

-----------------------------------------------------------------------------
(* What the source says of itself and TLC refutes: see the README.         *)

\* set_output returns relay states that include its own control
\* (client.py:130 "Set one output channel and return refreshed output states").
SetShowsOwnControl ==
    [][\A t \in Setters : Answered(t) =>
           hist.mine[t] # 0 /\ data' >= hist.mine[t]]_vars

\* No task's transaction is ever disturbed (client.py:42 "single-flight
\* transaction queue").
SingleFlight == [][\A t \in Tasks : Undisturbed(t)]_vars
=============================================================================

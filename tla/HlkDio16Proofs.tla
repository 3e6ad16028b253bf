--------------------------- MODULE HlkDio16Proofs ---------------------------
(***************************************************************************)
(* Theorems about HlkDio16, for every number of service calls, replies and *)
(* faults.  Most rest on type correctness and on the lock: whoever is past *)
(* TransactionStarts is the head of the lock queue, so only one task at a  *)
(* time can reach the steps that change the client's socket.               *)
(***************************************************************************)
EXTENDS HlkDio16, TLAPS

-----------------------------------------------------------------------------
(* The policy.                                                             *)

PolicyInv ==
    /\ failures \in 0..FailureCap
    /\ delay \in BackoffStart..BackoffMax
    /\ interval \in ScanInterval..BackoffMax
    /\ NeverHammers

LEMMA PolicyInitial == PolicyInit => PolicyInv
BY PolicyAssumption DEF PolicyInit, PolicyInv, NeverHammers

LEMMA PolicyFailure == PolicyInv /\ OnFailure => PolicyInv'
BY PolicyAssumption DEF PolicyInv, OnFailure, NeverHammers, Lesser

LEMMA PolicySuccess == PolicyInv /\ OnSuccess => PolicyInv'
BY PolicyAssumption DEF PolicyInv, OnSuccess, NeverHammers

LEMMA PolicyStutter == PolicyInv /\ UNCHANGED policyVars => PolicyInv'
BY DEF PolicyInv, policyVars, NeverHammers

\* Every step runs the policy at most once.
LEMMA PolicySteps ==
    [Next]_vars => OnFailure \/ OnSuccess \/ UNCHANGED policyVars
<1> USE DEF NoteFailure, Succeeds
<1>1. ASSUME NEW t \in Tasks, Steps(t)
      PROVE  OnFailure \/ OnSuccess \/ UNCHANGED policyVars
    BY <1>1 DEF Steps, TransactionStarts, LockedConnects, LockedConnectFails,
       Answered, OtherFrame, FollowTimesOut, ClientErrs, ClientDropped,
       EndOfFile, CoordinatorDropped
<1>2. ASSUME PollStarts \/ PollConnects \/ PollConnectFails
      PROVE  OnFailure \/ OnSuccess \/ UNCHANGED policyVars
    BY <1>2 DEF PollStarts, PollConnects, PollConnectFails
<1>3. ASSUME NEW t \in Setters, SetStarts(t)
      PROVE  UNCHANGED policyVars
    BY <1>3 DEF SetStarts
<1>4. ASSUME Serve \/ BoardSeesClose \/ ConnectionLost \/ GraceEnds
      PROVE  UNCHANGED policyVars
    BY <1>4 DEF Serve, BoardSeesClose, ConnectionLost, GraceEnds
<1> QED
    BY <1>1, <1>2, <1>3, <1>4 DEF Next, PollSteps, Tasks, vars

\* Whatever mix of polls and service calls fails, the poll interval is between
\* the first backoff and the maximum: a dead path is never hammered.
THEOREM Backoff == Spec => []NeverHammers
<1>1. Init => PolicyInv
    BY PolicyInitial DEF Init
<1>2. PolicyInv /\ [Next]_vars => PolicyInv'
    BY PolicySteps, PolicyFailure, PolicySuccess, PolicyStutter
<1>3. PolicyInv => NeverHammers
    BY DEF PolicyInv
<1> QED
    BY <1>1, <1>2, <1>3, PTL DEF Spec

-----------------------------------------------------------------------------
(* Type correctness.                                                       *)

LEMMA ClosedType ==
    ASSUME NEW cs \in [Conns -> Conn], NEW c \in Conns \cup {None}
    PROVE  Closed(cs, c) \in [Conns -> Conn]
<1>1. CASE c = None
    BY <1>1 DEF Closed
<1>2. CASE c # None
  <2> DEFINE kept == IF \E t \in Tasks : task[t].on = c THEN cs[c].d2c ELSE <<>>
  <2>1. c \in Conns
      BY <1>2
  <2>2. kept \in Seq(Frame)
      BY <2>1 DEF Conn
  <2>3. [cs[c] EXCEPT !.up = FALSE, !.d2c = kept] \in Conn
      BY <2>1, <2>2 DEF Conn
  <2>4. Closed(cs, c) = [cs EXCEPT ![c] = [cs[c] EXCEPT !.up = FALSE, !.d2c = kept]]
      BY <1>2 DEF Closed
  <2> QED
      BY <2>3, <2>4
<1> QED
    BY <1>1, <1>2

LEMMA SentType ==
    ASSUME NEW cs \in [Conns -> Conn], NEW c \in Conns, NEW t \in Tasks,
           NEW kind \in {"in", "out", "ctl"}
    PROVE  Sent(cs, c, t, kind) \in [Conns -> Conn]
<1>1. [kind |-> kind, by |-> t] \in Request
    BY DEF Request
<1>2. cs[c].c2d \in Seq(Request)
    BY DEF Conn
<1>3. Append(cs[c].c2d, [kind |-> kind, by |-> t]) \in Seq(Request)
    BY <1>1, <1>2
<1>4. [cs[c] EXCEPT !.c2d = Append(cs[c].c2d, [kind |-> kind, by |-> t])] \in Conn
    BY <1>3 DEF Conn
<1> QED
    BY <1>4 DEF Sent

\* Moving a task to another place keeps its record well-typed.
LEMMA GoesType ==
    ASSUME task \in [Tasks -> Task], NEW t \in Tasks, NEW pc \in Where,
           Goes(t, pc)
    PROVE  task' \in [Tasks -> Task]
BY DEF Goes, Task

LEMMA IdleType ==
    ASSUME task \in [Tasks -> Task], NEW t \in Tasks, Idle(t)
    PROVE  task' \in [Tasks -> Task]
BY DEF Idle, Task, Where

LEMMA QueuesType ==
    ASSUME task \in [Tasks -> Task], NEW t \in Tasks,
           NEW op \in {"in", "out", "ctl"}, Queues(t, op)
    PROVE  task' \in [Tasks -> Task]
BY DEF Queues, Task, Where

LEMMA BeginsType ==
    ASSUME TypeOK, NEW t \in Tasks, NEW cs \in [Conns -> Conn], NEW c \in Conns,
           Begins(t, cs, c)
    PROVE  /\ conns' \in [Conns -> Conn]
           /\ task' \in [Tasks -> Task]
<1>1. task[t] \in Task
    BY DEF TypeOK
<1>2. task[t].op \in {"in", "out", "ctl"}
    BY <1>1 DEF Task
<1>3. conns' \in [Conns -> Conn]
    BY <1>2, SentType DEF Begins
<1>4. task' \in [Tasks -> Task]
    BY <1>1 DEF Begins, TypeOK, Task, Where
<1> QED
    BY <1>3, <1>4

LEMMA NoteFailureType ==
    ASSUME TypeOK, NEW t \in Tasks, NEW cs \in [Conns -> Conn],
           NEW c \in Conns \cup {None}, NoteFailure(t, cs, c)
    PROVE  /\ PolicyTypeOK'
           /\ sock' \in Conns \cup {None}
           /\ conns' \in [Conns -> Conn]
           /\ task' \in [Tasks -> Task]
           /\ available' \in BOOLEAN
<1>1. PolicyTypeOK'
    BY PolicyAssumption
       DEF NoteFailure, OnFailure, PolicyTypeOK, TypeOK, Lesser
<1>2. sock' = None /\ conns' \in [Conns -> Conn]
    BY ClosedType DEF NoteFailure
<1>3. task \in [Tasks -> Task] /\ available \in BOOLEAN /\ aged \in BOOLEAN
    BY DEF TypeOK
<1>4. CASE c = None
    BY <1>1, <1>2, <1>3, <1>4, IdleType DEF NoteFailure, Reported
<1>5. CASE c # None
  <2>1. "coordinatorDrop" \in Where
      BY DEF Where
  <2>2. Goes(t, "coordinatorDrop") /\ available' = available
      BY <1>5 DEF NoteFailure
  <2> QED
      BY <1>1, <1>2, <1>3, <2>1, <2>2, GoesType
<1> QED
    BY <1>4, <1>5

LEMMA ConnectsType ==
    ASSUME TypeOK, Connects
    PROVE  /\ NewConn \in Conns
           /\ Opened \in [Conns -> Conn]
           /\ slot' \in Conns \cup {None}
           /\ sock' \in Conns \cup {None}
           /\ hist' \in [dirty : SUBSET Conns, from : Nat,
                         mine : [Tasks -> Nat]]
<1>1. NewConn \in Conns
    BY DEF Connects, NewConn
<1>2. Fresh \in Conn
    BY DEF Fresh, Conn
<1>3. Closed(conns, sock) \in [Conns -> Conn]
    BY ClosedType DEF TypeOK
<1>4. Opened \in [Conns -> Conn]
    BY <1>1, <1>2, <1>3 DEF Opened
<1>5. hist' \in [dirty : SUBSET Conns, from : Nat, mine : [Tasks -> Nat]]
    BY DEF Connects, TypeOK
<1> QED
    BY <1>1, <1>4, <1>5 DEF Connects

LEMMA DirtyType ==
    ASSUME TypeOK, NEW S \in SUBSET (Conns \cup {None}), Dirty(S)
    PROVE  hist' \in [dirty : SUBSET Conns, from : Nat, mine : [Tasks -> Nat]]
BY DEF Dirty, TypeOK

HistType == [dirty : SUBSET Conns, from : Nat, mine : [Tasks -> Nat]]

LEMMA PollStepsType == TypeOK /\ (PollStarts \/ PollConnects \/ PollConnectFails)
                       => TypeOK'
<1> SUFFICES ASSUME TypeOK PROVE
        /\ PollStarts => TypeOK'
        /\ PollConnects => TypeOK'
        /\ PollConnectFails => TypeOK'
    OBVIOUS
<1> Poll \in Tasks
    BY DEF Tasks
<1>1. ASSUME PollStarts PROVE TypeOK'
  <2>1. task' \in [Tasks -> Task] /\ lockq' \in Seq(Tasks)
    <3>1. CASE Connected
      <4>1. Queues(Poll, "in") /\ lockq' = Append(lockq, Poll)
          BY <1>1, <3>1 DEF PollStarts, FirstRead
      <4>2. task' \in [Tasks -> Task]
          BY <4>1, QueuesType DEF TypeOK
      <4> QED
          BY <4>1, <4>2 DEF TypeOK
    <3>2. CASE ~Connected
        BY <1>1, <3>2, GoesType DEF PollStarts, TypeOK, Where
    <3> QED BY <3>1, <3>2
  <2>2. hist' \in HistType
      BY <1>1 DEF PollStarts, TypeOK, HistType
  <2> QED
      BY <1>1, <2>1, <2>2
         DEF PollStarts, TypeOK, HistType, PolicyTypeOK, policyVars
<1>2. ASSUME PollConnects PROVE TypeOK'
  <2>1. task' \in [Tasks -> Task] /\ lockq' \in Seq(Tasks)
      BY <1>2, QueuesType DEF PollConnects, TypeOK, FirstRead
  <2> QED
      BY <1>2, <2>1, ConnectsType
         DEF PollConnects, TypeOK, PolicyTypeOK, policyVars
<1>3. ASSUME PollConnectFails PROVE TypeOK'
  <2>1. Closed(conns, sock) \in [Conns -> Conn]
      BY ClosedType DEF TypeOK
  <2>2. budget' \in [sets : Nat, faults : Nat, late : Nat]
      BY <1>3 DEF PollConnectFails, Refused, TypeOK
  <2> QED
      BY <1>3, <2>1, <2>2, NoteFailureType DEF PollConnectFails, TypeOK
<1> QED
    BY <1>1, <1>2, <1>3

LEMMA TakesType ==
    ASSUME TypeOK, NEW t \in Tasks, task[t].on \in Conns, Incoming(t) # <<>>,
           Takes(t)
    PROVE  conns' \in [Conns -> Conn]
<1>1. conns[task[t].on] \in Conn
    BY DEF TypeOK
<1>2. Tail(Incoming(t)) \in Seq(Frame)
    BY <1>1 DEF Incoming, Conn
<1>3. [conns[task[t].on] EXCEPT !.d2c = Tail(Incoming(t))] \in Conn
    BY <1>1, <1>2 DEF Conn
<1> QED
    BY <1>3 DEF Takes, Incoming, TypeOK

LEMMA SetStartsType ==
    ASSUME TypeOK, NEW t \in Setters, SetStarts(t)
    PROVE  TypeOK'
<1>1. t \in Tasks
    BY DEF Tasks
<1>2. task' \in [Tasks -> Task] /\ lockq' \in Seq(Tasks)
    BY <1>1, QueuesType DEF SetStarts, TypeOK
<1>3. hist' \in HistType
    BY <1>1 DEF SetStarts, TypeOK, HistType
<1>4. budget' \in [sets : Nat, faults : Nat, late : Nat]
  <2>1. budget.sets \in Nat /\ budget.sets - 1 \in Nat
      BY DEF SetStarts, TypeOK
  <2> QED
      BY <2>1 DEF SetStarts, TypeOK
<1> QED
    BY <1>2, <1>3, <1>4 DEF SetStarts, TypeOK, HistType, PolicyTypeOK, policyVars

\* A task that awaits a frame awaits it on a connection.
OnConn == \A t \in Tasks : Awaiting(t) => task[t].on \in Conns

LEMMA StepsType ==
    ASSUME TypeOK, LockDiscipline, OnConn, NEW t \in Tasks, Steps(t)
    PROVE  TypeOK'
<1> USE DEF PolicyTypeOK, policyVars
<1>a. InTransaction(t) => Tail(lockq) \in Seq(Tasks)
    BY DEF LockDiscipline, Holds, TypeOK
<1>b. Awaiting(t) => task[t].on \in Conns /\ InTransaction(t)
    BY DEF OnConn, Awaiting, InTransaction
<1>1. CASE TransactionStarts(t)
  <2>1. CASE Connected
    <3>1. sock \in Conns
        BY <2>1 DEF Connected, TypeOK
    <3>2. Begins(t, conns, sock)
        BY <1>1, <2>1 DEF TransactionStarts
    <3> QED
        BY <1>1, <3>1, <3>2, BeginsType DEF TransactionStarts, TypeOK
  <2>2. CASE ~Connected
      BY <1>1, <2>2, GoesType DEF TransactionStarts, TypeOK, Where
  <2> QED BY <2>1, <2>2
<1>2. CASE LockedConnects(t)
    BY <1>2, ConnectsType, BeginsType DEF LockedConnects, TypeOK
<1>3. CASE LockedConnectFails(t)
  <2>1. Closed(conns, sock) \in [Conns -> Conn]
      BY ClosedType DEF TypeOK
  <2>2. budget' \in [sets : Nat, faults : Nat, late : Nat]
      BY <1>3 DEF LockedConnectFails, Refused, TypeOK
  <2>3. lockq' \in Seq(Tasks)
      BY <1>3, <1>a DEF LockedConnectFails, At, InTransaction
  <2> QED
      BY <1>3, <2>1, <2>2, <2>3, NoteFailureType DEF LockedConnectFails, TypeOK
<1>4. CASE Answered(t)
  <2>1. conns' \in [Conns -> Conn]
      BY <1>4, <1>b, TakesType DEF Answered
  <2>2. Tail(lockq) \in Seq(Tasks)
      BY <1>4, <1>a, <1>b DEF Answered
  <2>3. CASE task[t].op = "in"
    <3>1. task' \in [Tasks -> Task]
        BY <1>4, <2>3, QueuesType DEF Answered, TypeOK
    <3>2. lockq' \in Seq(Tasks)
        BY <1>4, <2>2, <2>3 DEF Answered
    <3> QED
        BY <1>4, <2>1, <2>3, <3>1, <3>2 DEF Answered, TypeOK
  <2>4. CASE task[t].op # "in"
    <3>1. Head(Incoming(t)) \in Frame
        BY <1>4, <1>b DEF Answered, Incoming, TypeOK, Conn
    <3>2. task' \in [Tasks -> Task]
        BY <1>4, <2>4, IdleType DEF Answered, Succeeds, TypeOK
    <3>3. data' \in Nat /\ available' \in BOOLEAN /\ aged' \in BOOLEAN
        BY <1>4, <2>4, <3>1 DEF Answered, Succeeds, Frame
    <3>4. PolicyTypeOK'
        BY <1>4, <2>4, PolicyAssumption DEF Answered, Succeeds, OnSuccess
    <3> QED
        BY <1>4, <2>1, <2>2, <2>4, <3>2, <3>3, <3>4 DEF Answered, TypeOK
  <2> QED BY <2>3, <2>4

<1>5. CASE OtherFrame(t)
  <2>1. conns' \in [Conns -> Conn]
      BY <1>5, <1>b, TakesType DEF OtherFrame
  <2>2. Tail(lockq) \in Seq(Tasks)
      BY <1>5, <1>a, <1>b DEF OtherFrame
  <2>3. ASSUME NEW pc \in {"read", "control", "follow"}, NEW k \in Nat,
               AwaitsAgain(t, pc, k)
        PROVE  /\ task' \in [Tasks -> Task] /\ lockq' \in Seq(Tasks)
               /\ available' \in BOOLEAN
    <3>1. CASE sock = None
        BY <2>2, <2>3, <3>1, IdleType DEF AwaitsAgain, Errors, TypeOK
    <3>2. CASE sock # None
      <4>1. task[t] \in Task /\ sock \in Conns
          BY <3>2 DEF TypeOK
      <4>2. [task[t] EXCEPT !.pc = pc, !.on = sock, !.skips = k] \in Task
          BY <4>1 DEF Task, Where
      <4> QED
          BY <2>3, <3>2, <4>2 DEF AwaitsAgain, TypeOK
    <3> QED BY <3>1, <3>2
  <2>4. task[t].skips + 1 \in Nat
      BY DEF TypeOK, Task
  <2>5. /\ task' \in [Tasks -> Task] /\ lockq' \in Seq(Tasks)
        /\ available' \in BOOLEAN
      BY <1>5, <2>3, <2>4 DEF OtherFrame
  <2> QED
      BY <1>5, <2>1, <2>5 DEF OtherFrame, TypeOK
<1>6. CASE FollowTimesOut(t)
  <2>1. budget' \in [sets : Nat, faults : Nat, late : Nat]
    <3>1. budget.late > 0 => budget.late - 1 \in Nat
        BY DEF TypeOK
    <3> QED
        BY <1>6, <3>1 DEF FollowTimesOut, TypeOK
  <2>2. Tail(lockq) \in Seq(Tasks)
      BY <1>6, <1>a DEF FollowTimesOut, At, InTransaction
  <2>3. /\ task' \in [Tasks -> Task] /\ lockq' \in Seq(Tasks)
        /\ available' \in BOOLEAN /\ conns' \in [Conns -> Conn]
    <3>1. CASE sock = None
        BY <1>6, <2>2, <3>1, IdleType DEF FollowTimesOut, Errors, TypeOK
    <3>2. CASE sock # None
      <4>1. task[t] \in Task /\ sock \in Conns
          BY <3>2 DEF TypeOK
      <4>2. [task[t] EXCEPT !.pc = "read", !.on = sock, !.skips = 0] \in Task
          BY <4>1 DEF Task, Where
      <4>3. Sent(conns, sock, t, "out") \in [Conns -> Conn]
          BY <4>1, SentType DEF TypeOK
      <4> QED
          BY <1>6, <3>2, <4>2, <4>3 DEF FollowTimesOut, TypeOK
    <3> QED BY <3>1, <3>2
  <2> QED
      BY <1>6, <2>1, <2>3 DEF FollowTimesOut, TypeOK
<1>7. CASE ClientErrs(t)
  <2>1. budget' \in [sets : Nat, faults : Nat, late : Nat]
    <3>1. budget.faults > 0 => budget.faults - 1 \in Nat
        BY DEF TypeOK
    <3> QED
        BY <1>7, <3>1 DEF ClientErrs, TypeOK
  <2>2. Tail(lockq) \in Seq(Tasks)
      BY <1>7, <1>a, <1>b DEF ClientErrs
  <2>3. {task[t].on} \in SUBSET (Conns \cup {None})
      BY <1>7, <1>b DEF ClientErrs
  <2>4. CASE sock = None
      BY <1>7, <2>1, <2>2, <2>3, <2>4, DirtyType, NoteFailureType
         DEF ClientErrs, TypeOK
  <2>5. CASE sock # None
    <3>1. Closed(conns, sock) \in [Conns -> Conn]
        BY ClosedType DEF TypeOK
    <3>2. task' \in [Tasks -> Task]
        BY <1>7, <2>5, GoesType DEF ClientErrs, TypeOK, Where
    <3> QED
        BY <1>7, <2>1, <2>3, <2>5, <3>1, <3>2, DirtyType DEF ClientErrs, TypeOK
  <2> QED BY <2>4, <2>5
<1>8. CASE ClientDropped(t)
  <2>1. lockq' \in Seq(Tasks)
      BY <1>8, <1>a DEF ClientDropped, At, InTransaction
  <2> QED
      BY <1>8, <2>1, NoteFailureType DEF ClientDropped, TypeOK
<1>9. CASE EndOfFile(t)
  <2>1. lockq' \in Seq(Tasks)
      BY <1>9, <1>a, <1>b DEF EndOfFile
  <2>2. {task[t].on} \in SUBSET (Conns \cup {None})
      BY <1>9, <1>b DEF EndOfFile
  <2> QED
      BY <1>9, <2>1, <2>2, DirtyType, NoteFailureType DEF EndOfFile, TypeOK
<1>10. CASE CoordinatorDropped(t)
    BY <1>10, IdleType DEF CoordinatorDropped, Reported, TypeOK
<1> QED
    BY <1>1, <1>2, <1>3, <1>4, <1>5, <1>6, <1>7, <1>8, <1>9, <1>10 DEF Steps

LEMMA BoardType ==
    ASSUME TypeOK, Serve \/ BoardSeesClose \/ ConnectionLost \/ GraceEnds
    PROVE  TypeOK'
<1> USE DEF PolicyTypeOK, policyVars
<1>1. slot # None => slot \in Conns /\ conns[slot] \in Conn
    BY DEF TypeOK
<1>2. CASE Serve
  <2> DEFINE req == Head(conns[slot].c2d)
  <2>1. slot \in Conns /\ conns[slot] \in Conn
      BY <1>1, <1>2 DEF Serve
  <2>2. req \in Request /\ Tail(conns[slot].c2d) \in Seq(Request)
    <3>1. conns[slot].c2d \in Seq(Request) /\ conns[slot].c2d # <<>>
        BY <1>2, <2>1 DEF Serve, Conn
    <3> QED
        BY <3>1
  <2>3. ASSUME NEW fs \in Seq(Frame),
               conns' = [conns EXCEPT ![slot].c2d = Tail(@),
                                      ![slot].d2c = @ \o fs]
        PROVE  conns' \in [Conns -> Conn]
    <3>1. conns[slot].d2c \o fs \in Seq(Frame)
        BY <2>1 DEF Conn
    <3>2. [conns[slot] EXCEPT !.c2d = Tail(conns[slot].c2d),
                              !.d2c = conns[slot].d2c \o fs] \in Conn
        BY <2>1, <2>2, <3>1 DEF Conn
    <3> QED
        BY <2>3, <3>2 DEF TypeOK
  <2>4. CASE req.kind # "ctl"
    <3>1. [kind |-> req.kind, ver |-> ver] \in Frame
        BY <2>2, <2>4 DEF Request, Frame, TypeOK
    <3>2. <<[kind |-> req.kind, ver |-> ver]>> \in Seq(Frame)
        BY <3>1
    <3>3. conns' \in [Conns -> Conn]
        BY <1>2, <2>3, <2>4, <3>2 DEF Serve
    <3> QED
        BY <1>2, <2>4, <3>3 DEF Serve, TypeOK
  <2>5. CASE req.kind = "ctl"
    <3>1. ver' \in Nat
      <4>1. ver' = ver + 1
          BY <1>2, <2>5 DEF Serve
      <4> QED
          BY <4>1 DEF TypeOK
    <3>2. ASSUME NEW r \in Replies
          PROVE  [i \in 1..Len(r) |-> [kind |-> r[i], ver |-> ver']] \in Seq(Frame)
      <4>1. r \in Seq({"ack", "out"})
        <5>1. r \in {<<"ack">>, <<"out">>, <<"ack", "out">>}
            BY HlkAssumption
        <5>2. CASE r = <<"ack">>
            BY <5>2
        <5>3. CASE r = <<"out">>
            BY <5>3
        <5>4. CASE r = <<"ack", "out">>
            BY <5>4
        <5> QED
            BY <5>1, <5>2, <5>3, <5>4
      <4>2. \A i \in 1..Len(r) : [kind |-> r[i], ver |-> ver'] \in Frame
          BY <3>1, <4>1 DEF Frame
      <4> QED
          BY <4>1, <4>2
    <3>3. conns' \in [Conns -> Conn]
        BY <1>2, <2>3, <2>5, <3>2 DEF Serve
    <3>4. hist' \in HistType
      <4> DEFINE v == IF task[req.by].pc = "idle" THEN hist.mine[req.by]
                                                  ELSE ver'
      <4>1. hist' = [hist EXCEPT !.mine[req.by] = v]
          BY <1>2, <2>5 DEF Serve
      <4>2. req.by \in Tasks
          BY <2>2 DEF Request
      <4>3. hist \in HistType
          BY DEF TypeOK, HistType
      <4>4. v \in Nat
          BY <3>1, <4>2, <4>3 DEF HistType
      <4> HIDE DEF v, req
      <4> QED
          BY <4>1, <4>2, <4>3, <4>4 DEF HistType
    <3> QED
        BY <1>2, <2>5, <3>1, <3>3, <3>4 DEF Serve, TypeOK, HistType
  <2> QED BY <2>4, <2>5
<1>3. CASE BoardSeesClose
  <2>1. <<>> \in Seq(Request)
      OBVIOUS
  <2>2. [conns[slot] EXCEPT !.c2d = <<>>] \in Conn
      BY <1>1, <1>3, <2>1 DEF BoardSeesClose, Conn
  <2> QED
      BY <1>3, <2>2 DEF BoardSeesClose, TypeOK
<1>4. CASE ConnectionLost
  <2>1. <<>> \in Seq(Request)
      OBVIOUS
  <2>2. \A e \in {"fin", "rst"} :
            [conns[slot] EXCEPT !.end = e, !.c2d = <<>>] \in Conn
      BY <1>1, <1>4, <2>1 DEF ConnectionLost, Conn
  <2>3. conns' \in [Conns -> Conn]
      BY <1>4, <2>2 DEF ConnectionLost, TypeOK
  <2>4. budget.faults > 0 => budget.faults - 1 \in Nat
      BY DEF TypeOK
  <2>5. budget' \in [sets : Nat, faults : Nat, late : Nat]
      BY <1>4, <2>4 DEF ConnectionLost, TypeOK
  <2> QED
      BY <1>4, <2>3, <2>5 DEF ConnectionLost, TypeOK
<1>5. CASE GraceEnds
    BY <1>5 DEF GraceEnds, TypeOK
<1> QED
    BY <1>2, <1>3, <1>4, <1>5

-----------------------------------------------------------------------------
(* The lock.  A step of a task does one of four things to the queue.       *)

KeepsPlace(t) == /\ lockq' = lockq
                 /\ Wants(t)' <=> Wants(t)
                 /\ InTransaction(t)' => Holds(t)
Enters(t) == ~Wants(t) /\ lockq' = Append(lockq, t) /\ At(t, "lock")'
Leaves(t) == InTransaction(t) /\ lockq' = Tail(lockq) /\ ~Wants(t)'
Requeues(t) == /\ InTransaction(t)
               /\ lockq' = Append(Tail(lockq), t)
               /\ At(t, "lock")'
Others(t) == \A u \in Tasks \ {t} : task'[u] = task[u]
Moves(t) ==
    /\ Others(t)
    /\ Awaiting(t)' => task'[t].on \in Conns
    /\ KeepsPlace(t) \/ Enters(t) \/ Leaves(t) \/ Requeues(t)

LEMMA AppendFacts ==
    ASSUME NEW q \in Seq(Tasks), NEW t \in Tasks
    PROVE  /\ Append(q, t) \in Seq(Tasks)
           /\ Len(Append(q, t)) = Len(q) + 1
           /\ \A i \in 1..Len(q) : Append(q, t)[i] = q[i]
           /\ Append(q, t)[Len(q) + 1] = t
OBVIOUS

LEMMA TailFacts ==
    ASSUME NEW q \in Seq(Tasks), q # <<>>
    PROVE  /\ Tail(q) \in Seq(Tasks)
           /\ Len(Tail(q)) = Len(q) - 1
           /\ \A i \in 1..(Len(q) - 1) : Tail(q)[i] = q[i + 1]
           /\ Head(q) = q[1]
           /\ Len(q) \in Nat \ {0}
OBVIOUS

\* The discipline of a queue q, for a set W of tasks that want the lock.
Disciplined(q, W) ==
    /\ \A t \in Tasks : t \in W <=> \E i \in 1..Len(q) : q[i] = t
    /\ \A i, j \in 1..Len(q) : q[i] = q[j] => i = j

LEMMA EnterQueue ==
    ASSUME NEW q \in Seq(Tasks), NEW W \in SUBSET Tasks, NEW t \in Tasks \ W,
           Disciplined(q, W)
    PROVE  Disciplined(Append(q, t), W \cup {t})
BY AppendFacts DEF Disciplined

LEMMA LeaveQueue ==
    ASSUME NEW q \in Seq(Tasks), NEW W \in SUBSET Tasks, q # <<>>,
           Disciplined(q, W)
    PROVE  Disciplined(Tail(q), W \ {Head(q)})
<1> USE TailFacts
<1>1. ASSUME NEW t \in Tasks, t \in W, t # Head(q)
      PROVE  \E i \in 1..Len(Tail(q)) : Tail(q)[i] = t
  <2>1. PICK i \in 1..Len(q) : q[i] = t
      BY <1>1 DEF Disciplined
  <2>2. i # 1
      BY <1>1, <2>1
  <2>3. i - 1 \in 1..(Len(q) - 1) /\ Tail(q)[i - 1] = t
      BY <2>1, <2>2
  <2> QED
      BY <2>3
<1>2. ASSUME NEW t \in Tasks, NEW i \in 1..Len(Tail(q)), Tail(q)[i] = t
      PROVE  t \in W /\ t # Head(q)
  <2>1. i + 1 \in 1..Len(q) /\ 1 \in 1..Len(q) /\ q[i + 1] = t
      BY <1>2
  <2> QED
      BY <2>1 DEF Disciplined
<1>3. ASSUME NEW i \in 1..Len(Tail(q)), NEW j \in 1..Len(Tail(q)),
             Tail(q)[i] = Tail(q)[j]
      PROVE  i = j
  <2>1. i + 1 \in 1..Len(q) /\ j + 1 \in 1..Len(q) /\ q[i + 1] = q[j + 1]
      BY <1>3
  <2>2. i + 1 = j + 1
      BY <2>1 DEF Disciplined
  <2> QED
      BY <2>2
<1> QED
    BY <1>1, <1>2, <1>3 DEF Disciplined

\* Where the ways to leave a task put it.
LEMMA Placed ==
    ASSUME task \in [Tasks -> Task], NEW t \in Tasks
    PROVE  /\ Idle(t) => Others(t) /\ ~Wants(t)' /\ ~Awaiting(t)'
           /\ \A pc : Goes(t, pc) => Others(t) /\ task'[t].pc = pc
           /\ \A op : Queues(t, op) => Others(t) /\ task'[t].pc = "lock"
           /\ \A cs, c : Begins(t, cs, c) =>
                 /\ Others(t)
                 /\ task'[t].pc \in {"control", "read"}
                 /\ task'[t].on = c
           /\ \A cs, c : NoteFailure(t, cs, c) =>
                 Others(t) /\ ~Wants(t)' /\ ~Awaiting(t)'
<1> USE DEF Others, Wants, Awaiting, InTransaction, At, Task
<1>1. Idle(t) => Others(t) /\ ~Wants(t)' /\ ~Awaiting(t)'
    BY DEF Idle
<1>2. ASSUME NEW pc, Goes(t, pc) PROVE Others(t) /\ task'[t].pc = pc
    BY <1>2 DEF Goes
<1>3. ASSUME NEW op, Queues(t, op) PROVE Others(t) /\ task'[t].pc = "lock"
    BY <1>3 DEF Queues
<1>4. ASSUME NEW cs, NEW c, Begins(t, cs, c)
      PROVE  /\ Others(t)
             /\ task'[t].pc \in {"control", "read"}
             /\ task'[t].on = c
    BY <1>4 DEF Begins
<1>5. ASSUME NEW cs, NEW c, NoteFailure(t, cs, c)
      PROVE  Others(t) /\ ~Wants(t)' /\ ~Awaiting(t)'
    BY <1>1, <1>2, <1>5 DEF NoteFailure, Reported
<1> QED
    BY <1>1, <1>2, <1>3, <1>4, <1>5

LEMMA StepsMove ==
    ASSUME TypeOK, LockDiscipline, OnConn, NEW t \in Tasks, Steps(t)
    PROVE  Moves(t)
<1> task \in [Tasks -> Task]
    BY DEF TypeOK
<1> USE Placed DEF Moves, At, InTransaction, Awaiting, Wants
<1>a. InTransaction(t) => Holds(t)
    BY DEF LockDiscipline
<1>1. CASE TransactionStarts(t)
  <2>1. Holds(t) /\ At(t, "lock") /\ lockq' = lockq
      BY <1>1 DEF TransactionStarts
  <2>2. CASE Connected
    <3>1. sock \in Conns
        BY <2>2 DEF Connected, TypeOK
    <3> QED
        BY <1>1, <2>1, <2>2, <3>1 DEF TransactionStarts, KeepsPlace
  <2>3. CASE ~Connected
      BY <1>1, <2>1, <2>3 DEF TransactionStarts, KeepsPlace
  <2> QED BY <2>2, <2>3
<1>2. CASE LockedConnects(t)
  <2>1. NewConn \in Conns
      BY <1>2, ConnectsType DEF LockedConnects
  <2> QED
      BY <1>2, <1>a, <2>1 DEF LockedConnects, KeepsPlace
<1>3. CASE LockedConnectFails(t)
    BY <1>3 DEF LockedConnectFails, Leaves
<1>4. CASE Answered(t)
  <2>1. CASE task[t].op = "in"
      BY <1>4, <2>1 DEF Answered, Requeues
  <2>2. CASE task[t].op # "in"
      BY <1>4, <2>2 DEF Answered, Succeeds, Leaves
  <2> QED BY <2>1, <2>2
<1>5. CASE OtherFrame(t)
  <2>1. ASSUME NEW pc \in {"read", "control", "follow"}, NEW k,
               AwaitsAgain(t, pc, k)
        PROVE  Moves(t)
    <3>1. InTransaction(t)
        BY <1>5 DEF OtherFrame
    <3>2. CASE sock = None
        BY <2>1, <3>1, <3>2 DEF AwaitsAgain, Errors, Leaves
    <3>3. CASE sock # None
      <4>1. sock \in Conns
          BY <3>3 DEF TypeOK
      <4>2. /\ Others(t) /\ task'[t].pc = pc /\ task'[t].on = sock
            /\ lockq' = lockq
          BY <2>1, <3>3 DEF AwaitsAgain, Others, Task
      <4> QED
          BY <1>a, <3>1, <4>1, <4>2 DEF KeepsPlace
    <3> QED BY <3>2, <3>3
  <2> QED
      BY <1>5, <2>1 DEF OtherFrame
<1>6. CASE FollowTimesOut(t)
  <2>1. InTransaction(t)
      BY <1>6 DEF FollowTimesOut
  <2>2. CASE sock = None
      BY <1>6, <2>1, <2>2 DEF FollowTimesOut, Errors, Leaves
  <2>3. CASE sock # None
    <3>1. sock \in Conns
        BY <2>3 DEF TypeOK
    <3>2. /\ Others(t) /\ task'[t].pc = "read" /\ task'[t].on = sock
          /\ lockq' = lockq
        BY <1>6, <2>3 DEF FollowTimesOut, Others, Task
    <3> QED
        BY <1>a, <2>1, <3>1, <3>2 DEF KeepsPlace
  <2> QED BY <2>2, <2>3
<1>7. CASE ClientErrs(t)
  <2>1. InTransaction(t)
      BY <1>7 DEF ClientErrs
  <2>2. CASE sock = None
      BY <1>7, <2>1, <2>2 DEF ClientErrs, Leaves
  <2>3. CASE sock # None
      BY <1>7, <1>a, <2>1, <2>3 DEF ClientErrs, KeepsPlace
  <2> QED BY <2>2, <2>3
<1>8. CASE ClientDropped(t)
    BY <1>8 DEF ClientDropped, Leaves
<1>9. CASE EndOfFile(t)
    BY <1>9 DEF EndOfFile, Leaves
<1>10. CASE CoordinatorDropped(t)
    BY <1>10 DEF CoordinatorDropped, Reported, KeepsPlace
<1> QED
    BY <1>1, <1>2, <1>3, <1>4, <1>5, <1>6, <1>7, <1>8, <1>9, <1>10 DEF Steps

LEMMA StartsMove ==
    ASSUME TypeOK
    PROVE  /\ PollStarts \/ PollConnects \/ PollConnectFails => Moves(Poll)
           /\ \A t \in Setters : SetStarts(t) => Moves(t)
<1> task \in [Tasks -> Task] /\ Poll \in Tasks /\ Setters \subseteq Tasks
    BY DEF TypeOK, Tasks
<1> USE Placed DEF Moves, At, InTransaction, Awaiting, Wants
<1>1. ASSUME PollStarts PROVE Moves(Poll)
  <2>1. CASE Connected
      BY <1>1, <2>1 DEF PollStarts, Enters
  <2>2. CASE ~Connected
      BY <1>1, <2>2 DEF PollStarts, KeepsPlace
  <2> QED BY <2>1, <2>2
<1>2. ASSUME PollConnects PROVE Moves(Poll)
    BY <1>2 DEF PollConnects, Enters
<1>3. ASSUME PollConnectFails PROVE Moves(Poll)
    BY <1>3 DEF PollConnectFails, KeepsPlace
<1>4. ASSUME NEW t \in Setters, SetStarts(t) PROVE Moves(t)
    BY <1>4 DEF SetStarts, Enters
<1> QED
    BY <1>1, <1>2, <1>3, <1>4

LEMMA DisciplineKept ==
    ASSUME TypeOK, LockDiscipline, NEW t \in Tasks, Moves(t)
    PROVE  LockDiscipline'
<1> DEFINE W == {u \in Tasks : Wants(u)}
           Wn == {u \in Tasks : Wants(u)'}
<1>1. lockq \in Seq(Tasks)
    BY DEF TypeOK
<1>2. Disciplined(lockq, W)
    BY DEF Disciplined, LockDiscipline
<1>3. \A u \in Tasks \ {t} : Wants(u)' = Wants(u)
    BY DEF Moves, Others, Wants, At, InTransaction
<1>4. \A u \in Tasks \ {t} : InTransaction(u)' => Holds(u)
    BY DEF Moves, Others, LockDiscipline, InTransaction
<1>5. \A u \in Tasks : Wants(u)' \in BOOLEAN /\ Wants(u) \in BOOLEAN
    BY DEF Wants, At, InTransaction
<1>6. ASSUME Disciplined(lockq', Wn), \A u \in Tasks : InTransaction(u)' => Holds(u)'
      PROVE  LockDiscipline'
  <2>1. \A u \in Tasks : Wants(u)' <=> \E i \in 1..Len(lockq') : lockq'[i] = u
      BY <1>5, <1>6 DEF Disciplined
  <2>2. \A i, j \in 1..Len(lockq') : lockq'[i] = lockq'[j] => i = j
      BY <1>6 DEF Disciplined
  <2> QED
      BY <1>6, <2>1, <2>2 DEF LockDiscipline
\* Nobody else is in a transaction while t is.
<1>7. ASSUME InTransaction(t), NEW u \in Tasks \ {t}
      PROVE  ~InTransaction(u)'
    BY <1>4, <1>7 DEF LockDiscipline, Holds
<1>8. CASE KeepsPlace(t)
  <2>1. Wn = W
      BY <1>3, <1>8 DEF KeepsPlace
  <2>2. \A u \in Tasks : InTransaction(u)' => Holds(u)'
      BY <1>4, <1>8 DEF KeepsPlace, Holds
  <2> QED
      BY <1>2, <1>6, <1>8, <2>1, <2>2 DEF KeepsPlace
<1>9. CASE Enters(t)
  <2>1. Wn = W \cup {t} /\ t \in Tasks \ W /\ ~InTransaction(t)'
      BY <1>3, <1>9 DEF Enters, Wants, At, InTransaction
  <2>2. Disciplined(lockq', Wn)
    <3> HIDE DEF W, Wn
    <3> QED
      BY <1>1, <1>2, <1>9, <2>1, EnterQueue DEF Enters, W
  <2>3. \A u \in Tasks : Holds(u) => Holds(u)'
    <3>1. lockq' = Append(lockq, t)
        BY <1>9 DEF Enters
    <3>2. lockq # <<>> => lockq' # <<>> /\ Head(lockq') = Head(lockq)
        BY <1>1, <3>1
    <3> QED
        BY <3>2 DEF Holds
  <2> QED
      BY <1>4, <1>6, <2>1, <2>2, <2>3
<1>10. CASE Leaves(t)
  <2>1. lockq # <<>> /\ Head(lockq) = t
      BY <1>10 DEF Leaves, LockDiscipline, Holds
  <2>2. Wn = W \ {t} /\ ~InTransaction(t)'
      BY <1>3, <1>10 DEF Leaves, Wants
  <2>3. Disciplined(lockq', Wn)
    <3> HIDE DEF Wn
    <3> QED
      BY <1>1, <1>2, <1>10, <2>1, <2>2, LeaveQueue DEF Leaves
  <2> QED
      BY <1>6, <1>7, <1>10, <2>2, <2>3 DEF Leaves
<1>11. CASE Requeues(t)
  <2>1. lockq # <<>> /\ Head(lockq) = t
      BY <1>11 DEF Requeues, LockDiscipline, Holds
  <2>2. Wn = (W \ {t}) \cup {t} /\ ~InTransaction(t)'
      BY <1>3, <1>11 DEF Requeues, Wants, At, InTransaction
  <2>3. Disciplined(Tail(lockq), W \ {t}) /\ Tail(lockq) \in Seq(Tasks)
      BY <1>1, <1>2, <2>1, LeaveQueue, TailFacts
  <2>4. Disciplined(lockq', Wn)
    <3> HIDE DEF Wn
    <3> DEFINE V == W \ {t}
    <3>1. V \in SUBSET Tasks /\ t \in Tasks \ V
        OBVIOUS
    <3> HIDE DEF V
    <3>2. Disciplined(Append(Tail(lockq), t), V \cup {t})
        BY <2>3, <3>1, EnterQueue DEF V
    <3> QED
        BY <1>11, <2>2, <3>2 DEF Requeues, V
  <2> QED
      BY <1>6, <1>7, <1>11, <2>2, <2>4 DEF Requeues
<1> QED
    BY <1>8, <1>9, <1>10, <1>11 DEF Moves

LEMMA OnConnKept ==
    ASSUME OnConn, NEW t \in Tasks, Moves(t)
    PROVE  OnConn'
BY DEF OnConn, Moves, Others, Awaiting

-----------------------------------------------------------------------------
(* The inductive invariant.                                                *)

Locked == TypeOK /\ LockDiscipline /\ OnConn

LEMMA LockedInitial == Init => Locked
<1> SUFFICES ASSUME Init PROVE Locked
    OBVIOUS
<1>1. TypeOK
  <2>1. <<>> \in Seq(Request) /\ <<>> \in Seq(Frame) /\ <<>> \in Seq(Tasks)
      OBVIOUS
  <2>2. Fresh \in Conn /\ NoConn \in Conn
      BY <2>1 DEF Fresh, NoConn, Conn
  <2>3. 1 \in Conns
      BY HlkAssumption DEF Conns
  <2>4. PolicyTypeOK
      BY PolicyAssumption DEF Init, PolicyInit, PolicyTypeOK
  <2>5. budget \in [sets : Nat, faults : Nat, late : Nat]
      BY HlkAssumption DEF Init
  <2>6. task \in [Tasks -> Task]
      BY DEF Init, Task, Where
  <2>7. hist \in HistType
      BY DEF Init, HistType
  <2> QED
      BY <2>1, <2>2, <2>3, <2>4, <2>5, <2>6, <2>7 DEF Init, TypeOK, HistType
<1>2. LockDiscipline
    BY DEF Init, LockDiscipline, Wants, At, InTransaction
<1>3. OnConn
    BY DEF Init, OnConn, Awaiting
<1> QED
    BY <1>1, <1>2, <1>3 DEF Locked

LEMMA LockedKept == Locked /\ [Next]_vars => Locked'
<1> SUFFICES ASSUME Locked, [Next]_vars PROVE Locked'
    OBVIOUS
<1> TypeOK /\ LockDiscipline /\ OnConn
    BY DEF Locked
<1>1. ASSUME NEW t \in Tasks, Moves(t), TypeOK' PROVE Locked'
    BY <1>1, DisciplineKept, OnConnKept DEF Locked
<1>2. ASSUME NEW t \in Tasks, Steps(t) PROVE Locked'
    BY <1>1, <1>2, StepsType, StepsMove
<1>3. CASE PollStarts \/ PollConnects \/ PollConnectFails
    BY <1>1, <1>3, PollStepsType, StartsMove DEF Tasks
<1>4. ASSUME NEW t \in Setters, SetStarts(t) PROVE Locked'
    BY <1>1, <1>4, SetStartsType, StartsMove DEF Tasks
<1>5. ASSUME TypeOK', UNCHANGED <<lockq, task>> PROVE Locked'
  <2>1. LockDiscipline'
      BY <1>5 DEF LockDiscipline, Wants, At, InTransaction, Holds
  <2>2. OnConn'
      BY <1>5 DEF OnConn, Awaiting
  <2> QED
      BY <1>5, <2>1, <2>2 DEF Locked
<1>6. CASE Serve \/ BoardSeesClose \/ ConnectionLost \/ GraceEnds
  <2>1. UNCHANGED <<lockq, task>>
      BY <1>6 DEF Serve, BoardSeesClose, ConnectionLost, GraceEnds
  <2> QED
      BY <1>5, <1>6, <2>1, BoardType
<1>7. CASE UNCHANGED vars
  <2>1. TypeOK'
      BY <1>7 DEF TypeOK, PolicyTypeOK, vars, hlkVars, policyVars
  <2> QED
      BY <1>5, <1>7, <2>1 DEF vars, hlkVars
<1> QED
    BY <1>2, <1>3, <1>4, <1>6, <1>7 DEF Next, PollSteps, Tasks

LEMMA AlwaysLocked == Spec => []Locked
BY LockedInitial, LockedKept, PTL DEF Spec

\* Every variable of the client, the coordinator and the board keeps its type.
THEOREM TypeCorrect == Spec => []TypeOK
<1>1. Locked => TypeOK
    BY DEF Locked
<1> QED
    BY <1>1, AlwaysLocked, PTL

\* Every way a transaction ends releases the client's lock exactly once, and
\* only the holder of the lock is inside a transaction.
THEOREM SingleHolder == Spec => []LockDiscipline
<1>1. Locked => LockDiscipline
    BY DEF Locked
<1> QED
    BY <1>1, AlwaysLocked, PTL

-----------------------------------------------------------------------------
(* The socket.  A step leaves the client's socket alone, drops it together *)
(* with every open connection, or replaces it by a new connection.         *)

Untouched == /\ sock' = sock
             /\ hist'.dirty = hist.dirty
             /\ \A c \in Conns : conns'[c].up = conns[c].up
Dropped == /\ sock' = None
           /\ \A c \in Conns : ~conns'[c].up
Replaced == /\ sock' = NewConn
            /\ NewConn \in Conns /\ Finished(NewConn)
            /\ hist'.dirty = hist.dirty \ {NewConn}
            /\ \A c \in Conns : conns'[c].up => c = NewConn
SocketStep == Untouched \/ Dropped \/ Replaced

LEMMA ClosedUp ==
    ASSUME NEW cs \in [Conns -> Conn], NEW c \in Conns \cup {None}
    PROVE  \A d \in Conns : Closed(cs, c)[d].up = (cs[d].up /\ d # c)
<1>1. \A d \in Conns : cs[d].up \in BOOLEAN
    BY DEF Conn
<1>2. None \notin Conns
    BY DEF None, Conns
<1>3. CASE c = None
    BY <1>1, <1>2, <1>3, Zenon DEF Closed
<1>4. CASE c # None
  <2> DEFINE k == IF \E t \in Tasks : task[t].on = c THEN cs[c].d2c ELSE <<>>
             r == [cs[c] EXCEPT !.up = FALSE, !.d2c = k]
  <2>1. Closed(cs, c) = [cs EXCEPT ![c] = r]
      BY <1>4 DEF Closed
  <2>2. r.up = FALSE
      BY <1>4 DEF Conn
  <2> HIDE DEF r
  <2> QED
      BY <1>1, <2>1, <2>2
<1> QED
    BY <1>3, <1>4

LEMMA SentUp ==
    ASSUME NEW cs \in [Conns -> Conn], NEW c \in Conns, NEW t \in Tasks,
           NEW kind \in {"in", "out", "ctl"}
    PROVE  \A d \in Conns : Sent(cs, c, t, kind)[d].up = cs[d].up
BY DEF Sent, Conn

\* What the failure path and a connection do to the socket.
LEMMA DropsAll ==
    ASSUME TypeOK, NoLeakedConnection, NEW t \in Tasks
    PROVE  /\ NoteFailure(t, conns, sock) => Dropped
           /\ NoteFailure(t, Closed(conns, sock), None) => Dropped
<1> conns \in [Conns -> Conn] /\ sock \in Conns \cup {None}
    BY DEF TypeOK
<1>1. \A d \in Conns : ~Closed(conns, sock)[d].up
    BY ClosedUp DEF NoLeakedConnection
<1>2. Closed(Closed(conns, sock), None) = Closed(conns, sock)
    BY DEF Closed
<1> QED
    BY <1>1, <1>2 DEF NoteFailure, Dropped

LEMMA OpenedUp ==
    ASSUME TypeOK, NoLeakedConnection, Connects
    PROVE  /\ NewConn \in Conns
           /\ Finished(NewConn)
           /\ Opened \in [Conns -> Conn]
           /\ \A c \in Conns : Opened[c].up => c = NewConn
           /\ sock' = NewConn
           /\ hist'.dirty = hist.dirty \ {NewConn}
<1>1. NewConn \in Conns /\ Opened \in [Conns -> Conn]
    BY ConnectsType
<1>2. conns \in [Conns -> Conn] /\ sock \in Conns \cup {None}
    BY DEF TypeOK
<1>3. \A d \in Conns : ~Closed(conns, sock)[d].up
    BY <1>2, ClosedUp DEF NoLeakedConnection
<1>4. \A c \in Conns : Opened[c].up => c = NewConn
    BY <1>1, <1>2, <1>3, ClosedType DEF Opened
<1>5. Finished(NewConn)
    BY DEF Connects, NewConn
<1> QED
    BY <1>1, <1>4, <1>5 DEF Connects, TypeOK

LEMMA StepsSocket ==
    ASSUME Locked, NoLeakedConnection, NEW t \in Tasks, Steps(t)
    PROVE  SocketStep
<1> TypeOK /\ conns \in [Conns -> Conn] /\ sock \in Conns \cup {None}
    BY DEF Locked, TypeOK
<1> USE DEF SocketStep
<1>a. Awaiting(t) => task[t].on \in Conns
    BY DEF Locked, OnConn
<1>b. task[t].op \in {"in", "out", "ctl"}
    BY DEF TypeOK, Task
<1>c. ASSUME task[t].on \in Conns, Takes(t)
      PROVE  \A c \in Conns : conns'[c].up = conns[c].up
    BY <1>c DEF Takes, Conn
<1>1. CASE TransactionStarts(t)
  <2>1. CASE Connected
    <3>1. sock \in Conns
        BY <2>1 DEF Connected
    <3> QED
        BY <1>1, <1>b, <2>1, <3>1, SentUp
           DEF TransactionStarts, Begins, Untouched
  <2>2. CASE ~Connected
      BY <1>1, <2>2 DEF TransactionStarts, Untouched
  <2> QED BY <2>1, <2>2
<1>2. CASE LockedConnects(t)
  <2>1. Connects
      BY <1>2 DEF LockedConnects
  <2>2. conns' = Sent(Opened, NewConn, t, task[t].op)
      BY <1>2 DEF LockedConnects, Begins
  <2> QED
      BY <1>b, <2>1, <2>2, OpenedUp, SentUp DEF Replaced
<1>3. CASE LockedConnectFails(t)
    BY <1>3, DropsAll DEF LockedConnectFails
<1>4. CASE Answered(t)
    BY <1>4, <1>a, <1>c DEF Answered, Untouched
<1>5. CASE OtherFrame(t)
    BY <1>5, <1>a, <1>c DEF OtherFrame, Untouched
<1>6. CASE FollowTimesOut(t)
  <2>1. CASE sock = None
      BY <1>6, <2>1 DEF FollowTimesOut, Untouched
  <2>2. CASE sock # None
      BY <1>6, <2>2, SentUp DEF FollowTimesOut, Untouched
  <2> QED BY <2>1, <2>2
<1>7. CASE ClientErrs(t)
  <2>1. CASE sock = None
    <3>1. NoteFailure(t, conns, sock)
        BY <1>7, <2>1 DEF ClientErrs
    <3> QED
        BY <3>1, DropsAll
  <2>2. CASE sock # None
    <3>1. conns' = Closed(conns, sock) /\ sock' = None
        BY <1>7, <2>2 DEF ClientErrs
    <3> QED
        BY <3>1, ClosedUp DEF Dropped, NoLeakedConnection
  <2> QED BY <2>1, <2>2
<1>8. CASE ClientDropped(t)
    BY <1>8, DropsAll DEF ClientDropped
<1>9. CASE EndOfFile(t)
    BY <1>9, DropsAll DEF EndOfFile
<1>10. CASE CoordinatorDropped(t)
    BY <1>10 DEF CoordinatorDropped, Untouched
<1> QED
    BY <1>1, <1>2, <1>3, <1>4, <1>5, <1>6, <1>7, <1>8, <1>9, <1>10 DEF Steps

LEMMA NextSocket ==
    ASSUME Locked, NoLeakedConnection, [Next]_vars
    PROVE  SocketStep
<1> TypeOK /\ conns \in [Conns -> Conn]
    BY DEF Locked, TypeOK
<1> USE DEF SocketStep
<1>1. ASSUME PollStarts PROVE Untouched
    BY <1>1 DEF PollStarts, Untouched, TypeOK
<1>2. ASSUME PollConnects PROVE Replaced
    BY <1>2, OpenedUp DEF PollConnects, Replaced
<1>3. ASSUME PollConnectFails PROVE Dropped
    BY <1>3, DropsAll DEF PollConnectFails, Tasks
<1>4. ASSUME NEW t \in Setters, SetStarts(t) PROVE Untouched
    BY <1>4 DEF SetStarts, Untouched, TypeOK
<1>5. ASSUME Serve PROVE Untouched
  <2>1. PICK q, d : conns' = [conns EXCEPT ![slot].c2d = q, ![slot].d2c = d]
      BY <1>5 DEF Serve
  <2>2. slot \in Conns
      BY <1>5 DEF Serve, TypeOK
  <2>3. conns' = [conns EXCEPT ![slot] = [conns[slot] EXCEPT !.c2d = q, !.d2c = d]]
      BY <2>1, <2>2
  <2>4. \A c \in Conns : conns'[c].up = conns[c].up
      BY <2>2, <2>3 DEF Conn
  <2>5. hist'.dirty = hist.dirty /\ sock' = sock
      BY <1>5 DEF Serve, TypeOK
  <2> QED
      BY <2>4, <2>5 DEF Untouched
<1>6. ASSUME BoardSeesClose PROVE Untouched
    BY <1>6 DEF BoardSeesClose, Untouched, TypeOK, Conn
<1>7. ASSUME ConnectionLost PROVE Untouched
    BY <1>7 DEF ConnectionLost, Untouched, TypeOK, Conn
<1>8. ASSUME GraceEnds \/ UNCHANGED vars PROVE Untouched
    BY <1>8 DEF GraceEnds, Untouched, vars, hlkVars
<1> QED
    BY <1>1, <1>2, <1>3, <1>4, <1>5, <1>6, <1>7, <1>8, StepsSocket
       DEF Next, PollSteps, Tasks

\* An abandoned connection would hold the board's only slot for ever: no
\* connection is ever open beside the client's socket.
THEOREM NoLeak == Spec => []NoLeakedConnection
<1>1. Init => NoLeakedConnection
    BY DEF Init, NoLeakedConnection, NoConn
<1>2. Locked /\ NoLeakedConnection /\ [Next]_vars => NoLeakedConnection'
    BY NextSocket
       DEF SocketStep, Untouched, Dropped, Replaced, NoLeakedConnection
<1> QED
    BY <1>1, <1>2, AlwaysLocked, PTL DEF Spec

\* A connection on which a transaction failed may still deliver its answer:
\* it is never the client's socket again.
THEOREM FailedNeverReused == Spec => []FailedConnNeverReused
<1>1. Init => NoLeakedConnection /\ FailedConnNeverReused
    BY DEF Init, NoLeakedConnection, NoConn, FailedConnNeverReused
<1>2. /\ Locked /\ NoLeakedConnection /\ FailedConnNeverReused
      /\ [Next]_vars
      => (NoLeakedConnection /\ FailedConnNeverReused)'
  <2> SUFFICES ASSUME Locked, NoLeakedConnection, FailedConnNeverReused,
                      [Next]_vars
               PROVE  (NoLeakedConnection /\ FailedConnNeverReused)'
      OBVIOUS
  <2>1. SocketStep
      BY NextSocket
  <2>2. None \notin hist'.dirty
      BY LockedKept DEF Locked, TypeOK, None, Conns
  <2>3. FailedConnNeverReused'
      BY <2>1, <2>2
         DEF SocketStep, Untouched, Dropped, Replaced, FailedConnNeverReused
  <2>4. NoLeakedConnection'
      BY <2>1
         DEF SocketStep, Untouched, Dropped, Replaced, NoLeakedConnection
  <2> QED
      BY <2>3, <2>4
<1> QED
    BY <1>1, <1>2, AlwaysLocked, PTL DEF Spec

-----------------------------------------------------------------------------
(* The poll.  Nobody connects or drops a socket under the poll: whoever    *)
(* does is past the lock, or is the poll itself.                           *)

PollOwns == Awaiting(Poll) => task[Poll].on = sock

\* While the poll awaits a frame the other tasks leave the socket alone.
LEMMA OthersQuiet ==
    ASSUME Locked, Awaiting(Poll), NEW t \in Setters, SetStarts(t) \/ Steps(t)
    PROVE  /\ task'[Poll] = task[Poll]
           /\ sock' = sock
           /\ conns' = conns
           /\ available' = available \/ available' = TRUE
           /\ aged' = aged
<1> TypeOK /\ t \in Tasks /\ Poll \in Tasks /\ t # Poll
    BY HlkAssumption DEF Locked, Tasks
<1>1. Holds(Poll)
    BY DEF Locked, LockDiscipline, Awaiting, InTransaction
<1>2. ~Holds(t) /\ ~InTransaction(t)
    BY <1>1 DEF Holds, Locked, LockDiscipline
<1>3. task'[Poll] = task[Poll]
    BY StartsMove, StepsMove DEF Moves, Others, Locked
<1>4. CASE SetStarts(t)
    BY <1>3, <1>4 DEF SetStarts
<1>5. CASE Steps(t)
  <2>1. CoordinatorDropped(t)
      BY <1>2, <1>5 DEF Steps, TransactionStarts, LockedConnects,
         LockedConnectFails, Answered, OtherFrame, FollowTimesOut, ClientErrs,
         ClientDropped, EndOfFile, Awaiting, At, InTransaction
  <2> QED
      BY <1>3, <2>1, HlkAssumption DEF CoordinatorDropped, Reported
<1> QED
    BY <1>4, <1>5

LEMMA PollOwnsKept == Locked /\ PollOwns /\ [Next]_vars => PollOwns'
<1> SUFFICES ASSUME Locked, PollOwns, [Next]_vars, Awaiting(Poll)'
             PROVE  task'[Poll].on = sock'
    BY DEF PollOwns
<1> TypeOK /\ Poll \in Tasks /\ task \in [Tasks -> Task]
    BY DEF Locked, TypeOK, Tasks
<1> USE DEF At, Awaiting
<1>1. CASE Steps(Poll)
  <2> USE Placed
  <2>1. CASE TransactionStarts(Poll)
      BY <2>1 DEF TransactionStarts
  <2>2. CASE LockedConnects(Poll)
      BY <2>2 DEF LockedConnects, Connects
  <2>3. CASE LockedConnectFails(Poll)
      BY <2>3 DEF LockedConnectFails
  <2>4. CASE Answered(Poll)
      BY <2>4 DEF Answered, Succeeds
  <2>5. CASE OtherFrame(Poll)
    <3>1. ASSUME NEW pc, NEW k, AwaitsAgain(Poll, pc, k)
          PROVE  Awaiting(Poll)' => task'[Poll].on = sock
      <4>1. CASE sock = None
          BY <3>1, <4>1 DEF AwaitsAgain, Errors
      <4>2. CASE sock # None
          BY <3>1, <4>2 DEF AwaitsAgain, Task
      <4> QED BY <4>1, <4>2
    <3> QED
        BY <2>5, <3>1 DEF OtherFrame
  <2>6. CASE FollowTimesOut(Poll)
    <3>1. CASE sock = None
        BY <2>6, <3>1 DEF FollowTimesOut, Errors
    <3>2. CASE sock # None
        BY <2>6, <3>2 DEF FollowTimesOut, Task
    <3> QED BY <3>1, <3>2
  <2>7. CASE ClientErrs(Poll)
      BY <2>7 DEF ClientErrs
  <2>8. CASE ClientDropped(Poll)
      BY <2>8 DEF ClientDropped
  <2>9. CASE EndOfFile(Poll)
      BY <2>9 DEF EndOfFile
  <2>10. CASE CoordinatorDropped(Poll)
      BY <2>10 DEF CoordinatorDropped, Reported
  <2> QED
      BY <1>1, <2>1, <2>2, <2>3, <2>4, <2>5, <2>6, <2>7, <2>8, <2>9, <2>10
         DEF Steps
<1>2. CASE PollStarts
    BY <1>2, Placed DEF PollStarts
<1>3. CASE PollConnects
    BY <1>3, Placed DEF PollConnects
<1>4. CASE PollConnectFails
    BY <1>4, Placed DEF PollConnectFails
<1>5. ASSUME NEW t \in Setters, SetStarts(t) \/ Steps(t)
      PROVE  task'[Poll].on = sock'
  <2>1. task'[Poll] = task[Poll]
      BY <1>5, StartsMove, StepsMove, HlkAssumption
         DEF Moves, Others, Locked, Tasks
  <2> QED
      BY <1>5, <2>1, OthersQuiet DEF PollOwns
<1>6. CASE Serve \/ BoardSeesClose \/ ConnectionLost \/ GraceEnds
    BY <1>6 DEF Serve, BoardSeesClose, ConnectionLost, GraceEnds, PollOwns
<1>7. CASE UNCHANGED vars
    BY <1>7 DEF vars, hlkVars, PollOwns
<1> QED
    BY <1>1, <1>2, <1>3, <1>4, <1>5, <1>6, <1>7 DEF Next, PollSteps

LEMMA AlwaysPollOwns == Spec => [](Locked /\ PollOwns)
<1>1. Init => PollOwns
    BY DEF Init, PollOwns, Awaiting, Tasks
<1> QED
    BY <1>1, PollOwnsKept, AlwaysLocked, PTL DEF Spec

\* A transaction of the poll is never disturbed: no other task closes or
\* replaces the connection it awaits.
THEOREM PollAlone == Spec => PollUndisturbed
<1>1. /\ Locked /\ PollOwns /\ NoLeakedConnection /\ [Next]_vars
      /\ Locked' /\ PollOwns'
      => [Undisturbed(Poll)]_vars
  <2> SUFFICES ASSUME Locked, PollOwns, NoLeakedConnection, [Next]_vars,
                      Locked', PollOwns',
                      Awaiting(Poll), task'[Poll] = task[Poll]
               PROVE  /\ conns'[task[Poll].on].up = conns[task[Poll].on].up
                      /\ sock' = sock
      BY DEF Undisturbed
  <2> Poll \in Tasks
      BY DEF Tasks
  <2>1. Awaiting(Poll)'
      BY DEF Awaiting
  <2>2. sock' = task[Poll].on /\ sock = task[Poll].on /\ sock \in Conns
      BY <2>1 DEF PollOwns, Locked, OnConn
  <2>3. Untouched
    <3>1. sock' # None
        BY <2>2 DEF None, Conns
    <3>2. ~Replaced
        BY <2>2 DEF Replaced, Finished
    <3> QED
        BY <3>1, <3>2, NextSocket DEF SocketStep, Dropped
  <2> QED
      BY <2>2, <2>3 DEF Untouched
<1> QED
    BY <1>1, AlwaysPollOwns, NoLeak, PTL DEF Spec, PollUndisturbed

LEMMA StepsGrace ==
    ASSUME Locked, PollOwns, GraceHonoured, NEW t \in Tasks, Steps(t)
    PROVE  GraceHonoured'
<1> TypeOK /\ available \in BOOLEAN /\ aged \in BOOLEAN
    BY DEF Locked, TypeOK
<1> USE DEF GraceHonoured
\* Only a service call can lose its reader.
<1>a. ASSUME Awaiting(t), sock = None, Errors(t)
      PROVE  available' = available
  <2>1. t # Poll
      BY <1>a DEF Locked, OnConn, PollOwns, None, Conns
  <2> QED
      BY <1>a, <2>1 DEF Errors
<1>b. ASSUME NEW cs, NEW c, NoteFailure(t, cs, c), aged' = aged
      PROVE  ~available' => aged'
    BY <1>b DEF NoteFailure, Reported
<1>1. CASE TransactionStarts(t)
    BY <1>1 DEF TransactionStarts
<1>2. CASE LockedConnects(t)
    BY <1>2 DEF LockedConnects
<1>3. CASE LockedConnectFails(t)
    BY <1>3, <1>b DEF LockedConnectFails
<1>4. CASE Answered(t)
    BY <1>4 DEF Answered, Succeeds
<1>5. CASE OtherFrame(t)
  <2>1. ASSUME NEW pc, NEW k, AwaitsAgain(t, pc, k)
        PROVE  available' = available
      BY <1>5, <1>a, <2>1 DEF OtherFrame, AwaitsAgain
  <2> QED
      BY <1>5, <2>1 DEF OtherFrame
<1>6. CASE FollowTimesOut(t)
  <2>1. Awaiting(t)
      BY <1>6 DEF FollowTimesOut, At, Awaiting
  <2> QED
      BY <1>6, <1>a, <2>1 DEF FollowTimesOut
<1>7. CASE ClientErrs(t)
  <2>1. CASE sock = None
      BY <1>7, <1>b, <2>1 DEF ClientErrs
  <2>2. CASE sock # None
      BY <1>7, <2>2 DEF ClientErrs
  <2> QED BY <2>1, <2>2
<1>8. CASE ClientDropped(t)
    BY <1>8, <1>b DEF ClientDropped
<1>9. CASE EndOfFile(t)
    BY <1>9, <1>b DEF EndOfFile
<1>10. CASE CoordinatorDropped(t)
    BY <1>10 DEF CoordinatorDropped, Reported
<1> QED
    BY <1>1, <1>2, <1>3, <1>4, <1>5, <1>6, <1>7, <1>8, <1>9, <1>10 DEF Steps

\* Whichever way a poll fails, the entities stay available until the last
\* success is older than the grace.
THEOREM Grace == Spec => []GraceHonoured
<1>1. Init => GraceHonoured
    BY DEF Init, GraceHonoured
<1>2. Locked /\ PollOwns /\ GraceHonoured /\ [Next]_vars => GraceHonoured'
  <2> SUFFICES ASSUME Locked, PollOwns, GraceHonoured, [Next]_vars
               PROVE  GraceHonoured'
      OBVIOUS
  <2> USE DEF GraceHonoured
  <2>1. ASSUME NEW t \in Tasks, Steps(t) PROVE GraceHonoured'
      BY <2>1, StepsGrace
  <2>2. CASE PollStarts \/ PollConnects
      BY <2>2 DEF PollStarts, PollConnects
  <2>3. CASE PollConnectFails
      BY <2>3 DEF PollConnectFails, NoteFailure, Reported, Locked, TypeOK
  <2>4. ASSUME NEW t \in Setters, SetStarts(t) PROVE GraceHonoured'
      BY <2>4 DEF SetStarts
  <2>5. CASE Serve \/ BoardSeesClose \/ ConnectionLost \/ GraceEnds
      BY <2>5 DEF Serve, BoardSeesClose, ConnectionLost, GraceEnds
  <2>6. CASE UNCHANGED vars
      BY <2>6 DEF vars, hlkVars
  <2> QED
      BY <2>1, <2>2, <2>3, <2>4, <2>5, <2>6 DEF Next, PollSteps, Tasks
<1> QED
    BY <1>1, <1>2, AlwaysPollOwns, PTL DEF Spec

-----------------------------------------------------------------------------
(* The queues of the client's connection, while the poll rests, reads the  *)
(* inputs, or goes on to the outputs.                                      *)

Single(q) == \A i, j \in 1..Len(q) : q[i].kind = "in" /\ q[j].kind = "in" => i = j
Clean(q) == \A i \in 1..Len(q) : q[i].kind # "in"

\* At most one input request or frame; what came after it, and all that is there
\* once the poll has read it, is not older than the poll, which began at v.
Carries(cq, dq, phase, v) ==
    /\ Single(cq) /\ Single(dq)
    /\ Clean(cq) \/ Clean(dq)
    /\ phase # "inputs" => Clean(cq) /\ Clean(dq)
    /\ phase = "outputs" => \A j \in 1..Len(dq) : dq[j].ver >= v
    /\ \A i, j \in 1..Len(dq) : dq[i].kind = "in" /\ i <= j => dq[j].ver >= v

LEMMA CarriesNothing ==
    ASSUME NEW phase, NEW v
    PROVE  Carries(<<>>, <<>>, phase, v)
BY DEF Carries, Single, Clean

\* A request that does not ask for the inputs.
LEMMA CarriesSent ==
    ASSUME NEW cq \in Seq(Request), NEW dq \in Seq(Frame), NEW phase, NEW v \in Nat, NEW x \in Request,
           Carries(cq, dq, phase, v), x.kind # "in"
    PROVE  Carries(Append(cq, x), dq, phase, v)
<1>1. /\ Len(Append(cq, x)) = Len(cq) + 1 /\ Len(cq) \in Nat
      /\ \A i \in 1..Len(cq) : Append(cq, x)[i] = cq[i]
      /\ Append(cq, x)[Len(cq) + 1] = x
  OBVIOUS
<1>2. Single(Append(cq, x)) /\ (Clean(cq) => Clean(Append(cq, x)))
  BY <1>1 DEF Carries, Single, Clean
<1> QED BY <1>2 DEF Carries

\* The poll asks for the inputs.
LEMMA CarriesAsked ==
    ASSUME NEW cq \in Seq(Request), NEW dq \in Seq(Frame), NEW phase, NEW v \in Nat, NEW x \in Request,
           Carries(cq, dq, phase, v), phase # "inputs"
    PROVE  Carries(Append(cq, x), dq, "inputs", v)
<1>1. /\ Len(Append(cq, x)) = Len(cq) + 1 /\ Len(cq) \in Nat
      /\ \A i \in 1..Len(cq) : Append(cq, x)[i] = cq[i]
  OBVIOUS
<1>2. Clean(cq) /\ Clean(dq) /\ Single(dq)
  BY DEF Carries
<1>3. Single(Append(cq, x))
  BY <1>1, <1>2 DEF Single, Clean
<1>4. \A i, j \in 1..Len(dq) : dq[i].kind = "in" /\ i <= j => dq[j].ver >= v
  BY <1>2 DEF Clean
<1> QED BY <1>2, <1>3, <1>4 DEF Carries

LEMMA FrameTail ==
    ASSUME NEW q \in Seq(Frame), q # <<>>
    PROVE  /\ Tail(q) \in Seq(Frame)
           /\ Len(Tail(q)) = Len(q) - 1 /\ Len(q) \in Nat \ {0}
           /\ \A i \in 1..(Len(q) - 1) : Tail(q)[i] = q[i + 1] /\ i + 1 \in 1..Len(q)
           /\ Head(q) = q[1] /\ 1 \in 1..Len(q)
OBVIOUS

LEMMA RequestTail ==
    ASSUME NEW q \in Seq(Request), q # <<>>
    PROVE  /\ Tail(q) \in Seq(Request)
           /\ Len(Tail(q)) = Len(q) - 1 /\ Len(q) \in Nat \ {0}
           /\ \A i \in 1..(Len(q) - 1) : Tail(q)[i] = q[i + 1] /\ i + 1 \in 1..Len(q)
           /\ Head(q) = q[1] /\ 1 \in 1..Len(q)
OBVIOUS

\* A frame is read.
LEMMA CarriesTaken ==
    ASSUME NEW cq \in Seq(Request), NEW dq \in Seq(Frame), NEW phase, NEW v \in Nat,
           Carries(cq, dq, phase, v), dq # <<>>
    PROVE  Carries(cq, Tail(dq), phase, v)
<1>1. Single(Tail(dq)) /\ (Clean(dq) => Clean(Tail(dq)))
  <2>1. \A i, j \in 1..Len(Tail(dq)) : Tail(dq)[i].kind = "in" /\ Tail(dq)[j].kind = "in" => i + 1 = j + 1
    BY FrameTail DEF Carries, Single
  <2>2. \A i, j \in 1..Len(Tail(dq)) : Tail(dq)[i].kind = "in" /\ Tail(dq)[j].kind = "in" => i = j
    BY <2>1
  <2>3. Clean(dq) => Clean(Tail(dq))
    BY FrameTail DEF Clean
  <2> QED BY <2>2, <2>3 DEF Single
<1>2. phase = "outputs" => \A j \in 1..Len(Tail(dq)) : Tail(dq)[j].ver >= v
  BY FrameTail DEF Carries
<1>3. \A i, j \in 1..Len(Tail(dq)) : Tail(dq)[i].kind = "in" /\ i <= j => Tail(dq)[j].ver >= v
  <2>1. ASSUME NEW i \in 1..Len(Tail(dq)), NEW j \in 1..Len(Tail(dq)), Tail(dq)[i].kind = "in", i <= j
        PROVE  Tail(dq)[j].ver >= v
    <3>1. i + 1 \in 1..Len(dq) /\ j + 1 \in 1..Len(dq) /\ i + 1 <= j + 1
          /\ Tail(dq)[i] = dq[i + 1] /\ Tail(dq)[j] = dq[j + 1]
      BY <2>1, FrameTail
    <3> QED BY <2>1, <3>1 DEF Carries
  <2> QED BY <2>1
<1> QED BY <1>1, <1>2, <1>3 DEF Carries

\* The inputs are read: nothing that is left is older than the poll.
LEMMA CarriesInputs ==
    ASSUME NEW cq \in Seq(Request), NEW dq \in Seq(Frame), NEW phase, NEW v \in Nat,
           Carries(cq, dq, phase, v), dq # <<>>, Head(dq).kind = "in"
    PROVE  Carries(cq, Tail(dq), "outputs", v)
<1>1. 1 \in 1..Len(dq) /\ dq[1].kind = "in"
  BY FrameTail
<1>2. Carries(cq, Tail(dq), phase, v)
  BY CarriesTaken
<1>3. Clean(cq)
  BY <1>1 DEF Carries, Clean
<1>4. Clean(Tail(dq))
  <2>1. \A i \in 1..Len(dq) : dq[i].kind = "in" => i = 1
    BY <1>1 DEF Carries, Single
  <2> QED BY <2>1, FrameTail DEF Clean
<1>5. \A j \in 1..Len(Tail(dq)) : Tail(dq)[j].ver >= v
  <2>1. ASSUME NEW j \in 1..Len(Tail(dq)) PROVE Tail(dq)[j].ver >= v
    <3>1. j + 1 \in 1..Len(dq) /\ 1 <= j + 1 /\ Tail(dq)[j] = dq[j + 1]
      BY <2>1, FrameTail
    <3> QED BY <1>1, <3>1 DEF Carries
  <2> QED BY <2>1
<1> QED BY <1>2, <1>3, <1>4, <1>5 DEF Carries

\* The poll does not await inputs, and may begin anew.
LEMMA CarriesRests ==
    ASSUME NEW cq \in Seq(Request), NEW dq \in Seq(Frame), NEW phase, NEW v, NEW w, NEW next,
           Carries(cq, dq, phase, v), phase # "inputs",
           next = "outputs" => phase = "outputs" /\ w = v
    PROVE  Carries(cq, dq, next, w)
BY DEF Carries, Clean

LEMMA CarriesCut ==
    ASSUME NEW cq \in Seq(Request), NEW dq \in Seq(Frame), NEW phase, NEW v,
           Carries(cq, dq, phase, v)
    PROVE  Carries(<<>>, dq, phase, v)
BY DEF Carries, Single, Clean

\* The board serves a request.
LEMMA CarriesServed ==
    ASSUME NEW cq \in Seq(Request), NEW dq \in Seq(Frame), NEW phase, NEW v \in Nat, NEW fs \in Seq(Frame),
           Carries(cq, dq, phase, v), cq # <<>>,
           \A i \in 1..Len(fs) : fs[i].ver >= v,
           Head(cq).kind = "in" => Len(fs) = 1,
           Head(cq).kind # "in" => Clean(fs)
    PROVE  Carries(Tail(cq), dq \o fs, phase, v)
<1> DEFINE q == dq \o fs
<1>1. /\ Len(q) = Len(dq) + Len(fs) /\ Len(dq) \in Nat /\ Len(fs) \in Nat
      /\ \A i \in 1..Len(dq) : q[i] = dq[i]
      /\ \A i \in 1..Len(q) : i \notin 1..Len(dq) => i - Len(dq) \in 1..Len(fs) /\ q[i] = fs[i - Len(dq)]
  OBVIOUS
<1>2. \A i \in 1..Len(q) : i \notin 1..Len(dq) => q[i].ver >= v
  BY <1>1
<1>3. Single(Tail(cq)) /\ (Clean(cq) => Clean(Tail(cq)))
  <2>1. \A i, j \in 1..Len(Tail(cq)) : Tail(cq)[i].kind = "in" /\ Tail(cq)[j].kind = "in" => i + 1 = j + 1
    BY RequestTail DEF Carries, Single
  <2>2. \A i, j \in 1..Len(Tail(cq)) : Tail(cq)[i].kind = "in" /\ Tail(cq)[j].kind = "in" => i = j
    BY <2>1
  <2>3. Clean(cq) => Clean(Tail(cq))
    BY RequestTail DEF Clean
  <2> QED BY <2>2, <2>3 DEF Single
<1> HIDE DEF q
<1>4. phase = "outputs" => \A j \in 1..Len(q) : q[j].ver >= v
  BY <1>1, <1>2 DEF Carries
<1>5. \A i, j \in 1..Len(q) : q[i].kind = "in" /\ i <= j => q[j].ver >= v
  <2>1. ASSUME NEW i \in 1..Len(q), NEW j \in 1..Len(q), q[i].kind = "in", i <= j
        PROVE  q[j].ver >= v
    <3>1. CASE j \notin 1..Len(dq)
      BY <1>2, <3>1
    <3>2. CASE j \in 1..Len(dq)
      <4>1. i \in 1..Len(dq)
        BY <2>1, <3>2, <1>1
      <4>2. q[i] = dq[i] /\ q[j] = dq[j]
        BY <4>1, <3>2, <1>1
      <4> QED BY <2>1, <3>2, <4>1, <4>2 DEF Carries
    <3> QED BY <3>1, <3>2
  <2> QED BY <2>1
<1>6. CASE Head(cq).kind = "in"
  <2>1. 1 \in 1..Len(cq) /\ cq[1].kind = "in"
    BY <1>6, RequestTail
  <2>2. ~Clean(cq) /\ Clean(dq) /\ phase = "inputs"
    BY <2>1 DEF Carries, Clean
  <2>3. Clean(Tail(cq))
    <3>1. \A i \in 1..Len(cq) : cq[i].kind = "in" => i = 1
      BY <2>1 DEF Carries, Single
    <3> QED BY <3>1, RequestTail DEF Clean
  <2>4. Single(q)
    <3>1. ASSUME NEW i \in 1..Len(q), q[i].kind = "in" PROVE i = Len(dq) + 1
      <4>1. i \notin 1..Len(dq)
        BY <1>1, <2>2, <3>1 DEF Clean
      <4>2. i - Len(dq) \in 1..Len(fs) /\ Len(fs) = 1
        BY <1>1, <1>6, <4>1
      <4> QED BY <1>1, <4>2
    <3> QED BY <3>1 DEF Single
  <2> QED BY <1>3, <1>5, <2>2, <2>3, <2>4 DEF Carries, q
<1>7. CASE Head(cq).kind # "in"
  <2>1. \A i \in 1..Len(q) : q[i].kind = "in" => i \in 1..Len(dq) /\ q[i] = dq[i]
    BY <1>1, <1>7 DEF Clean
  <2>2. Single(q)
    BY <2>1 DEF Carries, Single
  <2>3. Clean(dq) => Clean(q)
    BY <2>1 DEF Clean
  <2> QED BY <1>3, <1>4, <1>5, <2>2, <2>3 DEF Carries, q
<1> QED BY <1>6, <1>7

-----------------------------------------------------------------------------
(* What the poll asks for is its own.                                      *)

Phase(r) == IF r.pc = "read" /\ r.op = "in" THEN "inputs"
            ELSE IF r.op = "out" /\ r.pc \in {"lock", "lockedConnect", "read", "control", "follow", "drop"}
                 THEN "outputs" ELSE "rest"

\* The poll goes from one phase to another without reading the inputs.
PhasePasses(p, q) == p = q \/ (p # "inputs" /\ q # "outputs")

QueuesOK(cs, s, r, v) == s # None => Carries(cs[s].c2d, cs[s].d2c, Phase(r), v)

InputsInv ==
    /\ QueuesOK(conns, sock, task[Poll], hist.from)
    /\ hist.from <= ver
    /\ \A t \in Setters : Wants(t) => task[t].op = "ctl"

LEMMA ConnQueues ==
    ASSUME TypeOK, NEW c \in Conns
    PROVE  conns[c].c2d \in Seq(Request) /\ conns[c].d2c \in Seq(Frame)
BY DEF TypeOK, Conn

\* Of the queues of one connection, one changes.
LEMMA SentQueues ==
    ASSUME NEW cs \in [Conns -> Conn], NEW c \in Conns, NEW t \in Tasks, NEW kind \in {"in", "out", "ctl"}
    PROVE  /\ Sent(cs, c, t, kind)[c].c2d = Append(cs[c].c2d, [kind |-> kind, by |-> t])
           /\ Sent(cs, c, t, kind)[c].d2c = cs[c].d2c
BY DEF Sent, Conn

LEMMA TakenQueues ==
    ASSUME TypeOK, NEW t \in Tasks, task[t].on \in Conns, Takes(t), sock \in Conns
    PROVE  /\ conns'[sock].c2d = conns[sock].c2d
           /\ conns'[sock].d2c = IF task[t].on = sock THEN Tail(conns[sock].d2c) ELSE conns[sock].d2c
<1>1. conns \in [Conns -> Conn]
  BY DEF TypeOK
<1> DEFINE r == [conns[task[t].on] EXCEPT !.d2c = Tail(conns[task[t].on].d2c)]
<1>2. conns' = [conns EXCEPT ![task[t].on] = r]
  BY <1>1 DEF Takes
<1>3. r.c2d = conns[task[t].on].c2d /\ r.d2c = Tail(conns[task[t].on].d2c)
  BY <1>1 DEF Conn
<1> HIDE DEF r
<1> QED BY <1>1, <1>2, <1>3

LEMMA OpenedQueues ==
    ASSUME TypeOK, Connects
    PROVE  /\ sock' = NewConn /\ NewConn \in Conns /\ Opened \in [Conns -> Conn]
           /\ Opened[NewConn].c2d = <<>> /\ Opened[NewConn].d2c = <<>>
           /\ hist'.from = hist.from
<1>1. NewConn \in Conns /\ Opened \in [Conns -> Conn] /\ Closed(conns, sock) \in [Conns -> Conn]
  BY ConnectsType, ClosedType DEF TypeOK
<1>2. Opened[NewConn] = Fresh
  BY <1>1 DEF Opened
<1>3. hist'.from = hist.from
  BY DEF Connects, TypeOK
<1> QED BY <1>1, <1>2, <1>3 DEF Connects, Fresh

\* Where the ways to leave a task put its record.
LEMMA PutAt ==
    ASSUME task \in [Tasks -> Task], NEW t \in Tasks
    PROVE  /\ Idle(t) => task'[t].pc = "idle"
           /\ \A pc : Goes(t, pc) => task'[t].pc = pc /\ task'[t].op = task[t].op
           /\ \A op : Queues(t, op) => task'[t].pc = "lock" /\ task'[t].op = op
           /\ \A cs, c : Begins(t, cs, c) =>
                 /\ task'[t].op = task[t].op
                 /\ task'[t].pc = IF task[t].op = "ctl" THEN "control" ELSE "read"
           /\ \A pc, k : AwaitsAgain(t, pc, k) /\ sock # None =>
                 task'[t].pc = pc /\ task'[t].op = task[t].op
           /\ \A cs, c : NoteFailure(t, cs, c) => sock' = None /\ ~Wants(t)'
<1>1. Idle(t) => task'[t].pc = "idle"
  BY DEF Idle
<1>2. ASSUME NEW pc, Goes(t, pc) PROVE task'[t].pc = pc /\ task'[t].op = task[t].op
  BY <1>2 DEF Goes, Task
<1>3. ASSUME NEW op, Queues(t, op) PROVE task'[t].pc = "lock" /\ task'[t].op = op
  BY <1>3 DEF Queues
<1>4. ASSUME NEW cs, NEW c, Begins(t, cs, c)
      PROVE  /\ task'[t].op = task[t].op
             /\ task'[t].pc = IF task[t].op = "ctl" THEN "control" ELSE "read"
  BY <1>4 DEF Begins, Task
<1>5. ASSUME NEW pc, NEW k, AwaitsAgain(t, pc, k), sock # None
      PROVE  task'[t].pc = pc /\ task'[t].op = task[t].op
  BY <1>5 DEF AwaitsAgain, Task
<1>6. ASSUME NEW cs, NEW c, NoteFailure(t, cs, c)
      PROVE  sock' = None /\ ~Wants(t)'
  BY <1>6, Placed DEF NoteFailure
<1> QED BY <1>1, <1>2, <1>3, <1>4, <1>5, <1>6

\* The steps of a task under the lock: the queues of the client's connection.
LEMMA StepsQueues ==
    ASSUME Locked, PollOwns, InputsInv, NEW t \in Tasks, Steps(t)
    PROVE  QueuesOK(conns', sock', task'[Poll], hist'.from)
<1>1. /\ TypeOK /\ conns \in [Conns -> Conn] /\ sock \in Conns \cup {None} /\ task \in [Tasks -> Task]
      /\ Poll \in Tasks /\ hist.from \in Nat /\ task[t].op \in {"in", "out", "ctl"}
  BY DEF Locked, TypeOK, Tasks, Task
<1>2. QueuesOK(conns, sock, task[Poll], hist.from)
  BY DEF InputsInv
<1>3. t # Poll => t \in Setters /\ task'[Poll] = task[Poll]
  BY <1>1, StepsMove DEF Moves, Others, Locked, Tasks
<1>4. t # Poll /\ Wants(t) => task[t].op = "ctl"
  BY <1>3 DEF InputsInv
<1>5. ASSUME UNCHANGED <<conns, sock>>, hist'.from = hist.from,
             t = Poll => PhasePasses(Phase(task[Poll]), Phase(task'[Poll]))
      PROVE  QueuesOK(conns', sock', task'[Poll], hist'.from)
  <2> SUFFICES ASSUME sock \in Conns
               PROVE  Carries(conns[sock].c2d, conns[sock].d2c, Phase(task'[Poll]), hist.from)
    BY <1>1, <1>5 DEF QueuesOK
  <2>1. Carries(conns[sock].c2d, conns[sock].d2c, Phase(task[Poll]), hist.from)
    BY <1>2 DEF QueuesOK, None, Conns
  <2>2. CASE Phase(task'[Poll]) = Phase(task[Poll])
    BY <2>1, <2>2
  <2>3. CASE Phase(task[Poll]) # "inputs" /\ Phase(task'[Poll]) # "outputs"
    BY <1>1, <2>1, <2>3, ConnQueues, CarriesRests
  <2> QED BY <1>3, <1>5, <2>2, <2>3 DEF PhasePasses
\* A request is sent on the client's connection.
<1>6. ASSUME NEW kind \in {"in", "out", "ctl"}, sock \in Conns, sock' = sock, hist'.from = hist.from,
             conns' = Sent(conns, sock, t, kind),
             kind = "in" => t = Poll /\ Phase(task[Poll]) # "inputs" /\ Phase(task'[Poll]) = "inputs",
             t = Poll /\ kind # "in" => PhasePasses(Phase(task[Poll]), Phase(task'[Poll]))
      PROVE  QueuesOK(conns', sock', task'[Poll], hist'.from)
  <2> DEFINE x == [kind |-> kind, by |-> t]
  <2>1. x \in Request /\ x.kind = kind
    BY DEF Request
  <2>2. conns'[sock].c2d = Append(conns[sock].c2d, x) /\ conns'[sock].d2c = conns[sock].d2c
    BY <1>1, <1>6, SentQueues
  <2> HIDE DEF x
  <2>3. Carries(conns[sock].c2d, conns[sock].d2c, Phase(task[Poll]), hist.from)
    BY <1>2, <1>6 DEF QueuesOK, None, Conns
  <2>4. conns[sock].c2d \in Seq(Request) /\ conns[sock].d2c \in Seq(Frame)
    BY <1>1, <1>6, ConnQueues
  <2>5. CASE kind = "in"
    BY <1>1, <1>6, <2>1, <2>2, <2>3, <2>4, <2>5, CarriesAsked DEF QueuesOK
  <2>6. CASE kind # "in" /\ Phase(task'[Poll]) = Phase(task[Poll])
    BY <1>1, <1>6, <2>1, <2>2, <2>3, <2>4, <2>6, CarriesSent DEF QueuesOK
  <2>7. CASE kind # "in" /\ Phase(task[Poll]) # "inputs" /\ Phase(task'[Poll]) # "outputs"
    <3>1. Carries(conns[sock].c2d, conns[sock].d2c, Phase(task'[Poll]), hist.from)
      BY <2>3, <2>4, <2>7, CarriesRests
    <3> QED BY <1>1, <1>6, <2>1, <2>2, <2>4, <2>7, <3>1, CarriesSent DEF QueuesOK
  <2> QED BY <1>3, <1>6, <2>5, <2>6, <2>7 DEF PhasePasses
<1>7. CASE TransactionStarts(t)
  <2>1. hist' = hist /\ sock' = sock /\ task[t].pc = "lock" /\ Wants(t)
    BY <1>7 DEF TransactionStarts, At, Wants
  <2>2. CASE Connected
    <3>1. Begins(t, conns, sock) /\ sock \in Conns
      BY <1>1, <1>7, <2>2 DEF TransactionStarts, Connected
    <3>2. conns' = Sent(conns, sock, t, task[t].op)
      BY <3>1 DEF Begins
    <3>3. task'[t].op = task[t].op /\ task'[t].pc = IF task[t].op = "ctl" THEN "control" ELSE "read"
      BY <1>1, <3>1, PutAt
    <3>4. t = Poll => IF task[t].op = "in" THEN Phase(task[Poll]) # "inputs" /\ Phase(task'[Poll]) = "inputs"
                                          ELSE PhasePasses(Phase(task[Poll]), Phase(task'[Poll]))
      BY <1>1, <2>1, <3>3 DEF Phase, PhasePasses
    <3>5. task[t].op = "in" => t = Poll
      BY <1>4, <2>1
    <3>6. hist'.from = hist.from
      BY <2>1
    <3> QED BY <1>1, <1>6, <2>1, <3>1, <3>2, <3>4, <3>5, <3>6
  <2>3. CASE ~Connected
    <3>1. Goes(t, "lockedConnect") /\ conns' = conns
      BY <1>7, <2>3 DEF TransactionStarts
    <3>2. t = Poll => PhasePasses(Phase(task[Poll]), Phase(task'[Poll]))
      BY <1>1, <2>1, <3>1, PutAt DEF Phase, PhasePasses
    <3>3. hist'.from = hist.from
      BY <2>1
    <3> QED BY <1>5, <2>1, <3>1, <3>2, <3>3
  <2> QED BY <2>2, <2>3
<1>8. CASE LockedConnects(t)
  <2> DEFINE x == [kind |-> task[t].op, by |-> t]
  <2>1. Connects /\ Begins(t, Opened, NewConn) /\ Wants(t)
    BY <1>8 DEF LockedConnects, At, Wants, InTransaction
  <2>2. /\ sock' = NewConn /\ NewConn \in Conns /\ Opened \in [Conns -> Conn]
        /\ Opened[NewConn].c2d = <<>> /\ Opened[NewConn].d2c = <<>> /\ hist'.from = hist.from
    BY <1>1, <2>1, OpenedQueues
  <2>3. conns' = Sent(Opened, NewConn, t, task[t].op)
    BY <2>1 DEF Begins
  <2>4. conns'[sock'].c2d = Append(<<>>, x) /\ conns'[sock'].d2c = <<>>
    <3>1. /\ Sent(Opened, NewConn, t, task[t].op)[NewConn].c2d = Append(Opened[NewConn].c2d, x)
          /\ Sent(Opened, NewConn, t, task[t].op)[NewConn].d2c = Opened[NewConn].d2c
      BY <1>1, <2>2, SentQueues
    <3> QED BY <2>2, <2>3, <3>1
  <2>5. x \in Request /\ x.kind = task[t].op
    BY <1>1 DEF Request
  <2> HIDE DEF x
  <2>6. task'[t].op = task[t].op /\ task'[t].pc = IF task[t].op = "ctl" THEN "control" ELSE "read"
    BY <1>1, <2>1, PutAt
  <2>7. task[t].op = "in" => t = Poll /\ Phase(task'[Poll]) = "inputs"
    BY <1>4, <2>1, <2>6 DEF Phase
  <2>8. <<>> \in Seq(Request) /\ <<>> \in Seq(Frame)
    OBVIOUS
  <2>9. CASE task[t].op = "in"
    <3>1. Carries(<<>>, <<>>, "rest", hist.from)
      BY CarriesNothing
    <3>2. Carries(Append(<<>>, x), <<>>, "inputs", hist.from)
      BY <1>1, <2>5, <2>8, <3>1, CarriesAsked
    <3> QED BY <2>2, <2>4, <2>7, <2>9, <3>2 DEF QueuesOK
  <2>10. CASE task[t].op # "in"
    <3>1. Carries(<<>>, <<>>, Phase(task'[Poll]), hist.from)
      BY CarriesNothing
    <3>2. Carries(Append(<<>>, x), <<>>, Phase(task'[Poll]), hist.from)
      BY <1>1, <2>5, <2>8, <2>10, <3>1, CarriesSent
    <3> QED BY <2>2, <2>4, <3>2 DEF QueuesOK
  <2> QED BY <2>9, <2>10
<1>9. CASE LockedConnectFails(t) \/ ClientDropped(t) \/ EndOfFile(t)
  BY <1>1, <1>9, PutAt DEF LockedConnectFails, ClientDropped, EndOfFile, QueuesOK
<1>10. CASE Answered(t)
  <2>1. /\ Takes(t) /\ sock' = sock /\ hist' = hist /\ Awaiting(t) /\ Incoming(t) # <<>>
        /\ Head(Incoming(t)).kind = Accepts(t) /\ task[t].on \in Conns
    BY <1>10 DEF Answered, Locked, OnConn
  <2> SUFFICES ASSUME sock \in Conns
               PROVE  Carries(conns'[sock].c2d, conns'[sock].d2c, Phase(task'[Poll]), hist.from)
    BY <1>1, <2>1 DEF QueuesOK
  <2>2. Carries(conns[sock].c2d, conns[sock].d2c, Phase(task[Poll]), hist.from)
    BY <1>2 DEF QueuesOK, None, Conns
  <2>3. conns[sock].c2d \in Seq(Request) /\ conns[sock].d2c \in Seq(Frame)
    BY <1>1, ConnQueues
  <2>4. /\ conns'[sock].c2d = conns[sock].c2d
        /\ conns'[sock].d2c = IF task[t].on = sock THEN Tail(conns[sock].d2c) ELSE conns[sock].d2c
    BY <1>1, <2>1, TakenQueues
  <2>5. CASE t # Poll
    BY <1>1, <1>3, <2>1, <2>2, <2>3, <2>4, <2>5, CarriesTaken DEF Incoming
  <2>6. CASE t = Poll
    <3>1. task[t].on = sock /\ conns[sock].d2c # <<>> /\ Head(conns[sock].d2c).kind = Accepts(t)
      BY <2>1, <2>6 DEF PollOwns, Incoming
    <3>2. CASE task[t].op = "in"
      <4>1. Queues(t, "out") /\ Head(conns[sock].d2c).kind = "in"
        BY <1>10, <3>1, <3>2 DEF Answered, Accepts
      <4>2. Phase(task'[Poll]) = "outputs"
        BY <1>1, <2>6, <4>1, PutAt DEF Phase
      <4> QED BY <1>1, <2>2, <2>3, <2>4, <3>1, <4>1, <4>2, CarriesInputs
    <3>3. CASE task[t].op # "in"
      <4>1. Idle(t)
        BY <1>10, <3>3 DEF Answered, Succeeds
      <4>2. Phase(task'[Poll]) = "rest" /\ Phase(task[Poll]) # "inputs"
        BY <1>1, <2>6, <3>3, <4>1, PutAt DEF Phase
      <4>3. Carries(conns[sock].c2d, Tail(conns[sock].d2c), Phase(task[Poll]), hist.from)
        BY <1>1, <2>2, <2>3, <3>1, CarriesTaken
      <4>4. Tail(conns[sock].d2c) \in Seq(Frame)
        BY <2>3, <3>1, FrameTail
      <4>5. Carries(conns[sock].c2d, Tail(conns[sock].d2c), Phase(task'[Poll]), hist.from)
        BY <2>3, <4>2, <4>3, <4>4, CarriesRests
      <4> QED BY <2>4, <3>1, <4>5
    <3> QED BY <3>2, <3>3
  <2> QED BY <2>5, <2>6
<1>11. CASE OtherFrame(t)
  <2>1. /\ Takes(t) /\ sock' = sock /\ hist' = hist /\ Awaiting(t) /\ Incoming(t) # <<>> /\ task[t].on \in Conns
    BY <1>11 DEF OtherFrame, Locked, OnConn
  <2> SUFFICES ASSUME sock \in Conns
               PROVE  Carries(conns'[sock].c2d, conns'[sock].d2c, Phase(task'[Poll]), hist.from)
    BY <1>1, <2>1 DEF QueuesOK
  <2>2. Carries(conns[sock].c2d, conns[sock].d2c, Phase(task[Poll]), hist.from)
    BY <1>2 DEF QueuesOK, None, Conns
  <2>3. conns[sock].c2d \in Seq(Request) /\ conns[sock].d2c \in Seq(Frame)
    BY <1>1, ConnQueues
  <2>4. /\ conns'[sock].c2d = conns[sock].c2d
        /\ conns'[sock].d2c = IF task[t].on = sock THEN Tail(conns[sock].d2c) ELSE conns[sock].d2c
    BY <1>1, <2>1, TakenQueues
  <2>5. t = Poll => Phase(task'[Poll]) = Phase(task[Poll])
    <3>1. sock # None
      BY DEF None, Conns
    <3>2. ASSUME NEW pc \in {"read", "control", "follow"}, NEW k, AwaitsAgain(t, pc, k),
                 At(t, "read") <=> pc = "read", At(t, "read") \/ At(t, "control") \/ At(t, "follow")
          PROVE  Phase(task'[t]) = Phase(task[t])
      BY <1>1, <3>1, <3>2, PutAt DEF Phase, At
    <3> QED BY <1>11, <3>2 DEF OtherFrame, At
  <2>6. Carries(conns[sock].c2d, Tail(conns[sock].d2c), Phase(task[Poll]), hist.from) \/ task[t].on # sock
    BY <1>1, <2>1, <2>2, <2>3, CarriesTaken DEF Incoming
  <2> QED BY <1>3, <2>2, <2>4, <2>5, <2>6
<1>12. CASE FollowTimesOut(t)
  <2>1. hist' = hist /\ sock' = sock /\ task[t].pc = "follow"
    BY <1>12 DEF FollowTimesOut, At
  <2>2. CASE sock = None
    BY <2>1, <2>2 DEF QueuesOK
  <2>3. CASE sock # None
    <3>1. conns' = Sent(conns, sock, t, "out") /\ sock \in Conns
      BY <1>1, <1>12, <2>3 DEF FollowTimesOut
    <3>2. task'[t].pc = "read" /\ task'[t].op = task[t].op
      BY <1>1, <1>12, <2>3 DEF FollowTimesOut, Task
    <3>3. t = Poll => PhasePasses(Phase(task[Poll]), Phase(task'[Poll]))
      BY <1>1, <2>1, <3>2 DEF Phase, PhasePasses
    <3>4. hist'.from = hist.from
      BY <2>1
    <3> QED BY <1>6, <2>1, <3>1, <3>3, <3>4
  <2> QED BY <2>2, <2>3
<1>13. CASE ClientErrs(t)
  <2>1. CASE sock = None
    BY <1>1, <1>13, <2>1, PutAt DEF ClientErrs, QueuesOK
  <2>2. CASE sock # None
    BY <1>13, <2>2 DEF ClientErrs, QueuesOK
  <2> QED BY <2>1, <2>2
<1>14. CASE CoordinatorDropped(t)
  <2>1. hist' = hist /\ UNCHANGED <<conns, sock>> /\ task[t].pc = "coordinatorDrop" /\ Idle(t)
    BY <1>14 DEF CoordinatorDropped, At, Reported
  <2>2. t = Poll => PhasePasses(Phase(task[Poll]), Phase(task'[Poll]))
    BY <1>1, <2>1, PutAt DEF Phase, PhasePasses
  <2>3. hist'.from = hist.from
    BY <2>1
  <2> QED BY <1>5, <2>1, <2>2, <2>3
<1> QED BY <1>7, <1>8, <1>9, <1>10, <1>11, <1>12, <1>13, <1>14 DEF Steps

LEMMA StepsOps ==
    ASSUME Locked, InputsInv, NEW t \in Tasks, Steps(t)
    PROVE  /\ hist'.from = hist.from /\ ver' = ver
           /\ \A u \in Setters : Wants(u)' => task'[u].op = "ctl"
<1>1. TypeOK /\ task \in [Tasks -> Task] /\ Setters \subseteq Tasks
  BY DEF Locked, TypeOK, Tasks
<1>2. hist'.from = hist.from /\ ver' = ver
  <2>1. Connects => hist'.from = hist.from
    BY <1>1, OpenedQueues
  <2>2. \A S : Dirty(S) => hist'.from = hist.from
    BY <1>1 DEF Dirty, TypeOK
  <2> QED BY <2>1, <2>2 DEF Steps, TransactionStarts, LockedConnects, LockedConnectFails, Answered,
        OtherFrame, FollowTimesOut, ClientErrs, ClientDropped, EndOfFile, CoordinatorDropped
<1>3. \A u \in Tasks \ {t} : task'[u] = task[u]
  BY StepsMove DEF Moves, Others, Locked
<1>4. t \in Setters /\ Wants(t) => task[t].op = "ctl"
  BY DEF InputsInv
<1>5. ASSUME t \in Setters, Wants(t)' PROVE task'[t].op = "ctl"
  <2> USE PutAt, <1>1 DEF Wants, At, InTransaction
  <2>1. CASE TransactionStarts(t)
    <3>1. task'[t].op = task[t].op
      BY <2>1 DEF TransactionStarts
    <3> QED BY <1>4, <1>5, <2>1, <3>1 DEF TransactionStarts
  <2>2. CASE LockedConnects(t)
    <3>1. task'[t].op = task[t].op
      BY <2>2 DEF LockedConnects
    <3> QED BY <1>4, <1>5, <2>2, <3>1 DEF LockedConnects
  <2>3. CASE LockedConnectFails(t)
    BY <1>5, <2>3 DEF LockedConnectFails
  <2>4. CASE Answered(t)
    <3>1. task[t].op = "ctl"
      BY <1>4, <1>5, <2>4 DEF Answered, Awaiting
    <3> QED BY <1>5, <2>4, <3>1 DEF Answered, Succeeds
  <2>5. CASE OtherFrame(t)
    <3>1. task[t].op = "ctl"
      BY <1>4, <1>5, <2>5 DEF OtherFrame, Awaiting
    <3>2. ASSUME NEW pc, NEW k, AwaitsAgain(t, pc, k) PROVE task'[t].op = "ctl"
      <4>1. CASE sock = None
        BY <1>5, <3>2, <4>1 DEF AwaitsAgain, Errors
      <4>2. CASE sock # None
        BY <3>1, <3>2, <4>2
      <4> QED BY <4>1, <4>2
    <3> QED BY <2>5, <3>2 DEF OtherFrame
  <2>6. CASE FollowTimesOut(t)
    <3>1. CASE sock = None
      BY <1>5, <2>6, <3>1 DEF FollowTimesOut, Errors
    <3>2. CASE sock # None
      BY <1>4, <1>5, <2>6, <3>2 DEF FollowTimesOut, Task
    <3> QED BY <3>1, <3>2
  <2>7. CASE ClientErrs(t)
    <3>1. task[t].op = "ctl"
      BY <1>4, <1>5, <2>7 DEF ClientErrs, Awaiting
    <3> QED BY <1>5, <2>7, <3>1 DEF ClientErrs
  <2>8. CASE ClientDropped(t)
    BY <1>5, <2>8 DEF ClientDropped
  <2>9. CASE EndOfFile(t)
    BY <1>5, <2>9 DEF EndOfFile
  <2>10. CASE CoordinatorDropped(t)
    BY <1>5, <2>10 DEF CoordinatorDropped, Reported
  <2> QED BY <2>1, <2>2, <2>3, <2>4, <2>5, <2>6, <2>7, <2>8, <2>9, <2>10 DEF Steps
<1>6. ASSUME NEW u \in Setters, u # t, Wants(u)' PROVE task'[u].op = "ctl"
  BY <1>1, <1>3, <1>6 DEF InputsInv, Wants, At, InTransaction
<1> QED BY <1>2, <1>5, <1>6

\* What the board answers fits its request.
LEMMA ServeQueues ==
    ASSUME Locked, InputsInv, Serve
    PROVE  QueuesOK(conns', sock', task'[Poll], hist'.from)
<1>1. /\ TypeOK /\ conns \in [Conns -> Conn] /\ slot \in Conns /\ hist.from \in Nat /\ ver \in Nat
      /\ hist.from <= ver
  BY DEF Locked, TypeOK, Serve, InputsInv
<1> DEFINE x == Head(conns[slot].c2d)
<1>2. conns[slot].c2d \in Seq(Request) /\ conns[slot].d2c \in Seq(Frame) /\ conns[slot].c2d # <<>>
  BY <1>1, ConnQueues DEF Serve
<1>3. UNCHANGED <<sock, task>> /\ hist'.from = hist.from
  BY <1>1 DEF Serve, TypeOK
<1>4. \E fs \in Seq(Frame) :
          /\ conns' = [conns EXCEPT ![slot].c2d = Tail(conns[slot].c2d), ![slot].d2c = conns[slot].d2c \o fs]
          /\ \A i \in 1..Len(fs) : fs[i].ver >= hist.from
          /\ x.kind = "in" => Len(fs) = 1
          /\ x.kind # "in" => Clean(fs)
  <2>1. x \in Request
    BY <1>2, RequestTail
  <2>2. CASE x.kind # "ctl"
    <3> DEFINE y == [kind |-> x.kind, ver |-> ver]
               fs == <<y>>
    <3>1. y \in Frame
      BY <1>1, <2>1, <2>2 DEF Request, Frame
    <3>2. fs \in Seq(Frame) /\ Len(fs) = 1 /\ fs[1].ver = ver /\ fs[1].kind = x.kind
      BY <3>1
    <3>3. conns' = [conns EXCEPT ![slot].c2d = Tail(conns[slot].c2d), ![slot].d2c = conns[slot].d2c \o fs]
      BY <1>1, <2>2 DEF Serve
    <3> HIDE DEF x, fs
    <3>4. \A i \in 1..Len(fs) : i = 1
      BY <3>2
    <3> QED BY <1>1, <3>2, <3>3, <3>4 DEF Clean
  <2>3. CASE x.kind = "ctl"
    <3>1. PICK r \in Replies :
              conns' = [conns EXCEPT ![slot].c2d = Tail(conns[slot].c2d),
                  ![slot].d2c = conns[slot].d2c \o [i \in 1..Len(r) |-> [kind |-> r[i], ver |-> ver']]]
      BY <1>1, <2>3 DEF Serve
    <3>2. ver' = ver + 1
      BY <2>3 DEF Serve
    <3> DEFINE fs == [i \in 1..Len(r) |-> [kind |-> r[i], ver |-> ver']]
    <3>3. r \in Seq({"ack", "out"})
      <4>1. r \in {<<"ack">>, <<"out">>, <<"ack", "out">>}
        BY HlkAssumption
      <4>2. CASE r = <<"ack">>
        BY <4>2
      <4>3. CASE r = <<"out">>
        BY <4>3
      <4>4. CASE r = <<"ack", "out">>
        BY <4>4
      <4> QED BY <4>1, <4>2, <4>3, <4>4
    <3>4. Len(r) \in Nat /\ \A i \in 1..Len(r) : r[i] \in {"ack", "out"}
      BY <3>3
    <3>5. \A i \in 1..Len(r) : fs[i] \in Frame /\ fs[i].ver = ver' /\ fs[i].kind # "in"
      BY <1>1, <3>2, <3>4 DEF Frame
    <3>6. fs \in Seq(Frame) /\ Len(fs) = Len(r)
      BY <3>4, <3>5
    <3>7. conns' = [conns EXCEPT ![slot].c2d = Tail(conns[slot].c2d), ![slot].d2c = conns[slot].d2c \o fs]
      BY <3>1
    <3>8. ver' >= hist.from
      BY <1>1, <3>2
    <3> HIDE DEF x, fs
    <3> QED BY <2>3, <3>5, <3>6, <3>7, <3>8 DEF Clean
  <2> QED BY <2>2, <2>3
<1>5. PICK fs \in Seq(Frame) :
          /\ conns' = [conns EXCEPT ![slot].c2d = Tail(conns[slot].c2d), ![slot].d2c = conns[slot].d2c \o fs]
          /\ \A i \in 1..Len(fs) : fs[i].ver >= hist.from
          /\ x.kind = "in" => Len(fs) = 1
          /\ x.kind # "in" => Clean(fs)
  BY <1>4
<1> DEFINE r == [conns[slot] EXCEPT !.c2d = Tail(conns[slot].c2d), !.d2c = conns[slot].d2c \o fs]
<1>6. conns' = [conns EXCEPT ![slot] = r]
  BY <1>1, <1>5
<1>7. r.c2d = Tail(conns[slot].c2d) /\ r.d2c = conns[slot].d2c \o fs
  BY <1>1 DEF Conn
<1> HIDE DEF r
<1>8. conns'[slot] = r /\ \A c \in Conns \ {slot} : conns'[c] = conns[c]
  BY <1>1, <1>6
<1>9. sock # None => Carries(conns[sock].c2d, conns[sock].d2c, Phase(task[Poll]), hist.from)
  BY DEF InputsInv, QueuesOK
<1>10. CASE sock = slot
  <2>1. Carries(conns[slot].c2d, conns[slot].d2c, Phase(task[Poll]), hist.from)
    BY <1>1, <1>9, <1>10 DEF None, Conns
  <2>2. Carries(Tail(conns[slot].c2d), conns[slot].d2c \o fs, Phase(task[Poll]), hist.from)
    BY <1>1, <1>2, <1>5, <2>1, CarriesServed
  <2> QED BY <1>3, <1>7, <1>8, <1>10, <2>2 DEF QueuesOK
<1>11. CASE sock # slot
  BY <1>1, <1>3, <1>8, <1>9, <1>11 DEF QueuesOK, TypeOK
<1> QED BY <1>10, <1>11

LEMMA InputsInitial == Init => InputsInv
<1> SUFFICES ASSUME Init PROVE InputsInv
  OBVIOUS
<1>1. 1 \in Conns /\ conns[1].c2d = <<>> /\ conns[1].d2c = <<>> /\ sock = 1
  BY HlkAssumption DEF Init, Conns, Fresh
<1>2. QueuesOK(conns, sock, task[Poll], hist.from)
  BY <1>1, CarriesNothing DEF QueuesOK
<1>3. \A t \in Setters : ~Wants(t)
  BY DEF Init, Tasks, Wants, At, InTransaction
<1> QED BY <1>2, <1>3 DEF Init, InputsInv

LEMMA InputsKept == Locked /\ PollOwns /\ InputsInv /\ [Next]_vars => InputsInv'
<1> SUFFICES ASSUME Locked, PollOwns, InputsInv, [Next]_vars PROVE InputsInv'
  OBVIOUS
<1>1. /\ TypeOK /\ task \in [Tasks -> Task] /\ conns \in [Conns -> Conn] /\ sock \in Conns \cup {None}
      /\ Poll \in Tasks /\ Setters \subseteq Tasks /\ Poll \notin Setters /\ hist.from \in Nat /\ ver \in Nat
  BY HlkAssumption DEF Locked, TypeOK, Tasks
<1>2. ASSUME QueuesOK(conns', sock', task'[Poll], hist'.from), hist'.from <= ver',
             \A u \in Setters : Wants(u)' => task'[u].op = "ctl"
      PROVE  InputsInv'
  BY <1>2 DEF InputsInv, QueuesOK, Phase
<1>3. ASSUME NEW t \in Tasks, \A u \in Tasks \ {t} : task'[u] = task[u],
             t \in Setters => (Wants(t)' => task'[t].op = "ctl")
      PROVE  \A u \in Setters : Wants(u)' => task'[u].op = "ctl"
  BY <1>1, <1>3 DEF InputsInv, Wants, At, InTransaction
<1>4. ASSUME NEW t \in Tasks, Steps(t) PROVE InputsInv'
  <2>1. hist'.from <= ver'
    BY <1>4, StepsOps DEF InputsInv
  <2> QED BY <1>2, <1>4, <2>1, StepsOps, StepsQueues
<1>5. CASE PollStarts
  <2>1. Others(Poll) /\ UNCHANGED <<conns, sock, ver>> /\ hist'.from = ver /\ task[Poll].pc = "idle"
    BY <1>1, <1>5, StartsMove DEF PollStarts, Moves, At, TypeOK
  <2>2. Phase(task[Poll]) = "rest" /\ Phase(task'[Poll]) = "rest"
    BY <1>1, <1>5, <2>1, PutAt DEF PollStarts, Phase, FirstRead
  <2>3. QueuesOK(conns', sock', task'[Poll], hist'.from)
    <3> SUFFICES ASSUME sock \in Conns
                 PROVE  Carries(conns[sock].c2d, conns[sock].d2c, "rest", ver)
      BY <1>1, <2>1, <2>2 DEF QueuesOK
    <3>1. Carries(conns[sock].c2d, conns[sock].d2c, "rest", hist.from)
      BY <2>2 DEF InputsInv, QueuesOK, None, Conns
    <3> QED BY <1>1, <3>1, ConnQueues, CarriesRests
  <2>4. hist'.from <= ver'
    BY <1>1, <2>1
  <2>5. \A u \in Setters : Wants(u)' => task'[u].op = "ctl"
    BY <1>1, <1>3, <2>1 DEF Others
  <2> QED BY <1>2, <2>3, <2>4, <2>5
<1>6. CASE PollConnects
  <2>1. Others(Poll) /\ Connects /\ conns' = Opened /\ ver' = ver
    BY <1>1, <1>6, StartsMove DEF PollConnects, Moves
  <2>2. /\ sock' = NewConn /\ Opened[NewConn].c2d = <<>> /\ Opened[NewConn].d2c = <<>>
        /\ hist'.from = hist.from
    BY <1>1, <2>1, OpenedQueues
  <2>3. QueuesOK(conns', sock', task'[Poll], hist'.from)
    BY <2>1, <2>2, CarriesNothing DEF QueuesOK
  <2>4. hist'.from <= ver'
    BY <2>1, <2>2 DEF InputsInv
  <2>5. \A u \in Setters : Wants(u)' => task'[u].op = "ctl"
    BY <1>1, <1>3, <2>1 DEF Others
  <2> QED BY <1>2, <2>3, <2>4, <2>5
<1>7. CASE PollConnectFails
  <2>1. Others(Poll) /\ hist' = hist /\ ver' = ver /\ sock' = None
    BY <1>1, <1>7, StartsMove, PutAt DEF PollConnectFails, Moves
  <2>2. \A u \in Setters : Wants(u)' => task'[u].op = "ctl"
    BY <1>1, <1>3, <2>1 DEF Others
  <2> QED BY <1>2, <2>1, <2>2 DEF QueuesOK, InputsInv
<1>8. ASSUME NEW t \in Setters, SetStarts(t) PROVE InputsInv'
  <2>1. Others(t) /\ UNCHANGED <<conns, sock, ver>> /\ hist'.from = hist.from /\ Queues(t, "ctl")
    BY <1>1, <1>8, StartsMove DEF SetStarts, Moves, TypeOK
  <2>2. task'[Poll] = task[Poll] /\ task'[t].op = "ctl"
    BY <1>1, <2>1, PutAt DEF Others
  <2>3. \A u \in Setters : Wants(u)' => task'[u].op = "ctl"
    BY <1>1, <1>3, <2>1, <2>2 DEF Others
  <2> QED BY <1>2, <2>1, <2>2, <2>3 DEF InputsInv
<1>9. ASSUME UNCHANGED task PROVE \A u \in Setters : Wants(u)' => task'[u].op = "ctl"
  BY <1>9 DEF InputsInv, Wants, At, InTransaction
<1>10. CASE Serve
  <2>1. task' = task /\ hist'.from = hist.from /\ ver' \in {ver, ver + 1}
    BY <1>1, <1>10 DEF Serve, TypeOK
  <2>2. hist'.from <= ver'
    BY <1>1, <2>1 DEF InputsInv
  <2> QED BY <1>2, <1>9, <1>10, <2>1, <2>2, ServeQueues
<1>11. CASE BoardSeesClose \/ ConnectionLost
  <2>1. UNCHANGED <<sock, task, hist, ver>> /\ slot \in Conns
    BY <1>1, <1>11 DEF BoardSeesClose, ConnectionLost, TypeOK
  <2>2. \E r : conns' = [conns EXCEPT ![slot] = r] /\ r.c2d = <<>> /\ r.d2c = conns[slot].d2c
    <3>1. CASE BoardSeesClose
      <4> DEFINE r == [conns[slot] EXCEPT !.c2d = <<>>]
      <4>1. conns' = [conns EXCEPT ![slot] = r]
        BY <3>1 DEF BoardSeesClose
      <4>2. r.c2d = <<>> /\ r.d2c = conns[slot].d2c
        BY <1>1, <2>1 DEF Conn
      <4> HIDE DEF r
      <4> QED BY <4>1, <4>2
    <3>2. CASE ConnectionLost
      <4>1. PICK e : conns' = [conns EXCEPT ![slot].end = e, ![slot].c2d = <<>>]
        BY <3>2 DEF ConnectionLost
      <4> DEFINE r == [conns[slot] EXCEPT !.end = e, !.c2d = <<>>]
      <4>2. conns' = [conns EXCEPT ![slot] = r]
        BY <1>1, <2>1, <4>1
      <4>3. r.c2d = <<>> /\ r.d2c = conns[slot].d2c
        BY <1>1, <2>1 DEF Conn
      <4> HIDE DEF r
      <4> QED BY <4>2, <4>3
    <3> QED BY <1>11, <3>1, <3>2
  <2>3. sock \in Conns => conns'[sock].d2c = conns[sock].d2c /\ conns'[sock].c2d \in {<<>>, conns[sock].c2d}
    BY <1>1, <2>1, <2>2
  <2>4. QueuesOK(conns', sock', task'[Poll], hist'.from)
    <3> SUFFICES ASSUME sock \in Conns
                 PROVE  Carries(conns'[sock].c2d, conns'[sock].d2c, Phase(task[Poll]), hist.from)
      BY <1>1, <2>1 DEF QueuesOK
    <3>1. Carries(conns[sock].c2d, conns[sock].d2c, Phase(task[Poll]), hist.from)
      BY DEF InputsInv, QueuesOK, None, Conns
    <3>2. Carries(<<>>, conns[sock].d2c, Phase(task[Poll]), hist.from)
      BY <1>1, <3>1, ConnQueues, CarriesCut
    <3> QED BY <2>3, <3>1, <3>2
  <2>5. hist'.from <= ver'
    BY <2>1 DEF InputsInv
  <2> QED BY <1>2, <1>9, <2>1, <2>4, <2>5
<1>12. CASE GraceEnds \/ UNCHANGED vars
  <2>1. UNCHANGED <<conns, sock, task, hist, ver>>
    BY <1>12 DEF GraceEnds, vars, hlkVars
  <2> QED BY <1>2, <1>9, <2>1 DEF InputsInv
<1> QED BY <1>1, <1>4, <1>5, <1>6, <1>7, <1>8, <1>10, <1>11, <1>12 DEF Next, PollSteps

LEMMA AlwaysInputs == Spec => [](Locked /\ PollOwns /\ InputsInv)
BY InputsInitial, InputsKept, AlwaysPollOwns, PTL DEF Spec

\* Input states are read only by the poll that asked for them: no late answer is
\* ever taken for one, whatever service calls, time-outs and connections there are.
THEOREM InputsAreOwn == Spec => []InputsAnswerOwnPoll
<1>1. Locked /\ PollOwns /\ InputsInv => InputsAnswerOwnPoll
  <2> SUFFICES ASSUME Locked, PollOwns, InputsInv, sock # None
               PROVE  LET c == conns[sock] IN
                      /\ \A i, j \in InputsIn(c.c2d) : i = j
                      /\ \A i, j \in InputsIn(c.d2c) : i = j
                      /\ InputsIn(c.c2d) = {} \/ InputsIn(c.d2c) = {}
                      /\ InputsIn(c.c2d) \cup InputsIn(c.d2c) # {} =>
                             At(Poll, "read") /\ task[Poll].op = "in" /\ task[Poll].on = sock
    BY DEF InputsAnswerOwnPoll
  <2>1. Carries(conns[sock].c2d, conns[sock].d2c, Phase(task[Poll]), hist.from)
    BY DEF InputsInv, QueuesOK
  <2>2. \A q : (Single(q) => \A i, j \in InputsIn(q) : i = j) /\ (Clean(q) => InputsIn(q) = {})
    BY DEF Single, Clean, InputsIn
  <2>3. Phase(task[Poll]) = "inputs" => At(Poll, "read") /\ task[Poll].op = "in" /\ task[Poll].on = sock
    BY DEF Phase, At, PollOwns, Awaiting
  <2> QED BY <2>1, <2>2, <2>3 DEF Carries
<1> QED BY <1>1, AlwaysInputs, PTL

\* A poll that succeeds shows every control that was executed before it began.
THEOREM PollIsCurrent == Spec => PollShowsEarlierControls
<1>1. Locked /\ PollOwns /\ InputsInv /\ [Next]_vars =>
          [Answered(Poll) /\ task[Poll].op = "out" => data' >= hist.from]_vars
  <2> SUFFICES ASSUME Locked, PollOwns, InputsInv, Answered(Poll), task[Poll].op = "out"
               PROVE  data' >= hist.from
    OBVIOUS
  <2>1. /\ task[Poll].on = sock /\ sock \in Conns /\ Incoming(Poll) # <<>>
        /\ data' = Head(Incoming(Poll)).ver
    BY DEF Answered, PollOwns, Locked, OnConn, Tasks, Succeeds
  <2>2. Carries(conns[sock].c2d, conns[sock].d2c, Phase(task[Poll]), hist.from)
    BY <2>1 DEF InputsInv, QueuesOK, None, Conns
  <2>3. Phase(task[Poll]) = "outputs"
    BY DEF Phase, Answered, Awaiting
  <2>4. conns[sock].d2c \in Seq(Frame)
    BY <2>1, ConnQueues DEF Locked
  <2>5. 1 \in 1..Len(conns[sock].d2c) /\ Head(conns[sock].d2c) = conns[sock].d2c[1]
    BY <2>1, <2>4, FrameTail DEF Incoming
  <2> QED BY <2>1, <2>2, <2>3, <2>5 DEF Carries, Incoming
<1> QED BY <1>1, AlwaysInputs, PTL DEF Spec, PollShowsEarlierControls
=============================================================================

---------------------------- MODULE TuyaObjectProofs ----------------------------
(***************************************************************************)
(* What a command on a Tuya device may rely on, for any number of          *)
(* datapoints, commands, reports on their way and failures; what the       *)
(* attempts of a call take in, for any list of protocol versions; and that *)
(* what is set is shown, for any device file of plain rules.               *)
(***************************************************************************)
EXTENDS TuyaObject, TLAPS, WellFoundedInduction

Update == [value : Values, sent : BOOLEAN]
Props == [Dps -> Values \cup {None}]
Pcs == {"new", "debounce", "send", "mark", "done", "failed"}

-----------------------------------------------------------------------------
(* Types.                                                                  *)

CommandRec == [pc : Pcs, dp : Dps, value : Values, props : Props, left : Int]
History == [last : [Dps -> Commands \cup {None}], crossed : SUBSET Commands,
            dropped : SUBSET Commands, taken : SUBSET Commands, unheard : SUBSET Commands]

TypeInv ==
    /\ cached \in Props
    /\ pending \in [Dps -> Update \cup {None}]
    /\ cmd \in [Commands -> CommandRec]
    /\ poll \in [pc : {"top", "status", "merge"}, got : Props]
    /\ board \in Props
    /\ reports \in Seq(Props)
    /\ hist \in History

LEMMA NowhereProps == Nowhere \in Props
BY DEF Nowhere, Props

LEMMA MergedProps ==
    ASSUME NEW old \in Props, NEW data \in Props PROVE Merged(old, data) \in Props
BY DEF Merged, Props

\* A command goes on: no other one changes, and what it asks for stays.
Advances(c, pc, props) ==
    /\ cmd' \in [Commands -> CommandRec]
    /\ cmd'[c].pc = pc /\ cmd'[c].props = props
    /\ cmd'[c].dp = cmd[c].dp /\ cmd'[c].value = cmd[c].value
    /\ \A b \in Commands \ {c} : cmd'[b] = cmd[b]

LEMMA Advance ==
    ASSUME TypeInv, NEW c \in Commands, NEW pc \in Pcs,
           cmd' = [cmd EXCEPT ![c].pc = pc]
    PROVE  Advances(c, pc, cmd[c].props)
BY DEF TypeInv, CommandRec, Advances

LEMMA AdvanceSending ==
    ASSUME TypeInv, NEW c \in Commands, NEW props \in Props,
           cmd' = [cmd EXCEPT ![c].pc = "send", ![c].props = props]
    PROVE  Advances(c, "send", props)
BY DEF TypeInv, CommandRec, Advances, Pcs

LEMMA AdvanceAttempted ==
    ASSUME TypeInv, NEW c \in Commands, Attempted(c)
    PROVE  \/ Advances(c, "failed", cmd[c].props) /\ Resets
           \/ Advances(c, "send", cmd[c].props) /\ UNCHANGED <<cached, pending, hist>>
<1>1. PICK k \in Int : k = cmd[c].left - 1
  BY DEF TypeInv, CommandRec
<1>2. ASSUME NEW pc \in {"failed", "send"}, cmd' = [cmd EXCEPT ![c].pc = pc, ![c].left = k]
      PROVE  Advances(c, pc, cmd[c].props)
  BY <1>2 DEF TypeInv, CommandRec, Advances, Pcs
<1>3. CASE cmd[c].left = 1
  BY <1>1, <1>2, <1>3 DEF Attempted
<1>4. CASE cmd[c].left # 1
  BY <1>1, <1>2, <1>4 DEF Attempted
<1> QED BY <1>3, <1>4

\* The state is reset: what was being shown is gone.
LEMMA ResetTypes ==
    ASSUME TypeInv, Resets
    PROVE  /\ cached' = Nowhere /\ pending' = Nowhere
           /\ cached' \in Props /\ pending' \in [Dps -> Update \cup {None}]
           /\ hist' \in History
           /\ hist'.last = hist.last /\ hist'.crossed = hist.crossed /\ hist'.taken = hist.taken
           /\ hist'.unheard = hist.unheard
           /\ hist'.dropped = hist.dropped \cup {c \in Commands : cmd[c].pc = "debounce"}
<1>1. hist' = [hist EXCEPT !.dropped = hist.dropped \cup {c \in Commands : cmd[c].pc = "debounce"}]
  BY DEF Resets
<1> QED BY <1>1 DEF Resets, TypeInv, History, Nowhere, Props

\* Marking keeps what was asked for.
LEMMA MarkedTypes ==
    ASSUME TypeInv, NEW c \in Commands, Marks(c), NEW d \in Dps,
           \A e \in Asked(cmd[c].props) : pending[e] # None
    PROVE  /\ pending'[d] \in Update \cup {None}
           /\ pending[d] = None => pending'[d] = None
           /\ d \notin Asked(cmd[c].props) => pending'[d] = pending[d]
           /\ pending[d] # None => pending'[d].value = pending[d].value
<1>1. pending'[d] = IF d \in Asked(cmd[c].props) THEN [pending[d] EXCEPT !.sent = TRUE]
                                                ELSE pending[d]
  BY DEF Marks
<1>2. CASE d \in Asked(cmd[c].props)
  <2>1. pending[d] \in Update
    BY <1>2 DEF TypeInv, Asked
  <2>2. [pending[d] EXCEPT !.sent = TRUE] \in Update
    BY <2>1 DEF Update
  <2>3. [pending[d] EXCEPT !.sent = TRUE].value = pending[d].value
    BY <2>1 DEF Update
  <2> QED BY <1>1, <1>2, <2>2, <2>3
<1>3. CASE d \notin Asked(cmd[c].props)
  BY <1>1, <1>3 DEF TypeInv
<1> QED BY <1>2, <1>3

\* What a new command leaves.
LEMMA CommandedTypes ==
    ASSUME TypeInv, NEW c \in Commands, Commanded(c)
    PROVE  /\ pending' = [pending EXCEPT ![cmd[c].dp] = [value |-> cmd[c].value, sent |-> FALSE]]
           /\ pending' \in [Dps -> Update \cup {None}]
           /\ hist' \in History
           /\ hist'.last = [hist.last EXCEPT ![cmd[c].dp] = c]
           /\ hist'.crossed = IF Sending(cmd[c].dp) = {} THEN hist.crossed ELSE hist.crossed \cup {c}
           /\ hist'.taken = hist.taken /\ hist'.dropped = hist.dropped
           /\ hist'.unheard = hist.unheard
<1>1. cmd[c].dp \in Dps /\ cmd[c].value \in Values
  BY DEF TypeInv, CommandRec
<1>2. [value |-> cmd[c].value, sent |-> FALSE] \in Update
  BY <1>1 DEF Update
<1>3. pending' = [pending EXCEPT ![cmd[c].dp] = [value |-> cmd[c].value, sent |-> FALSE]]
  BY DEF Commanded
<1>4. pending' \in [Dps -> Update \cup {None}]
  BY <1>1, <1>2, <1>3 DEF TypeInv
<1> DEFINE latest == [hist.last EXCEPT ![cmd[c].dp] = c]
           crossed == IF Sending(cmd[c].dp) = {} THEN hist.crossed ELSE hist.crossed \cup {c}
<1>5. hist' = [hist EXCEPT !.last = latest, !.crossed = crossed]
  BY DEF Commanded, TypeInv, History
<1>6. latest \in [Dps -> Commands \cup {None}] /\ crossed \in SUBSET Commands
  BY <1>1 DEF TypeInv, History
<1> HIDE DEF latest, crossed
<1>7. hist' \in History /\ hist'.last = latest /\ hist'.crossed = crossed
      /\ hist'.taken = hist.taken /\ hist'.dropped = hist.dropped
      /\ hist'.unheard = hist.unheard
  BY <1>5, <1>6 DEF TypeInv, History
<1> QED BY <1>3, <1>4, <1>7 DEF latest, crossed

\* The values of a call that was sent, whether the board took them or not.
Handed == hist.taken \cup hist.unheard

\* What a call that was sent leaves.
LEMMA SendsTypes ==
    ASSUME TypeInv, NEW c \in Commands, Sends(c) \/ SendsUnheard(c)
    PROVE  /\ hist' \in History
           /\ hist'.last = hist.last /\ hist'.crossed = hist.crossed /\ hist'.dropped = hist.dropped
           /\ Handed' = Handed \cup Latest(cmd[c].props)
           /\ board' \in Props /\ reports' \in Seq(Props)
           /\ Advances(c, "mark", cmd[c].props)
<1>1. cmd[c].props \in Props
  BY DEF TypeInv, CommandRec
<1>2. board' \in Props
  BY <1>1, MergedProps DEF Sends, SendsUnheard, TypeInv
<1>3. reports' \in Seq(Props)
  BY <1>1 DEF Sends, SendsUnheard, TypeInv
<1>4. Latest(cmd[c].props) \in SUBSET Commands
  BY DEF Latest
<1> DEFINE taken == hist.taken \cup Latest(cmd[c].props)
           unheard == hist.unheard \cup Latest(cmd[c].props)
<1>5. \/ hist' = [hist EXCEPT !.taken = taken]
      \/ hist' = [hist EXCEPT !.unheard = unheard]
  BY DEF Sends, SendsUnheard
<1>6. taken \in SUBSET Commands /\ unheard \in SUBSET Commands
  BY <1>4 DEF TypeInv, History
<1> HIDE DEF taken, unheard
<1>7. /\ hist' \in History
      /\ hist'.last = hist.last /\ hist'.crossed = hist.crossed /\ hist'.dropped = hist.dropped
      /\ \/ hist'.taken = taken /\ hist'.unheard = hist.unheard
         \/ hist'.taken = hist.taken /\ hist'.unheard = unheard
  BY <1>5, <1>6 DEF TypeInv, History
<1>8. Handed' = Handed \cup Latest(cmd[c].props)
  BY <1>7 DEF Handed, taken, unheard
<1>9. Advances(c, "mark", cmd[c].props)
  BY Advance DEF Sends, SendsUnheard, Pcs
<1> QED BY <1>2, <1>3, <1>7, <1>8, <1>9

LEMMA ReceiptTypes ==
    ASSUME TypeInv, Receipt
    PROVE  cached' \in Props /\ pending' \in [Dps -> Update \cup {None}]
<1>1. poll.got \in Props
  BY DEF TypeInv
<1>2. cached' \in Props
  BY <1>1, MergedProps DEF Receipt, TypeInv
<1> QED BY <1>2 DEF Receipt, TypeInv, Unconfirmed

LEMMA TypeNext == TypeInv /\ [Next]_vars => TypeInv'
<1> SUFFICES ASSUME TypeInv, [Next]_vars PROVE TypeInv'
  OBVIOUS
<1> USE NowhereProps
<1>1. ASSUME NEW c \in Commands, Commanded(c) PROVE TypeInv'
  <2>1. Advances(c, "debounce", cmd[c].props)
    BY <1>1, Advance DEF Commanded, Pcs
  <2> QED BY <1>1, <2>1, CommandedTypes DEF Commanded, TypeInv, Advances
<1>2. ASSUME NEW c \in Commands, StartsSending(c) PROVE TypeInv'
  <2>1. Unsent \in Props
    BY DEF TypeInv, Unsent, Props, Update
  <2>2. Advances(c, "send", Unsent)
    BY <1>2, <2>1, AdvanceSending DEF StartsSending
  <2> QED BY <1>2, <2>2 DEF StartsSending, TypeInv, Advances
<1>3. ASSUME NEW c \in Commands, Sends(c) \/ SendsUnheard(c) PROVE TypeInv'
  BY <1>3, SendsTypes DEF Sends, SendsUnheard, TypeInv, Advances
<1>4. ASSUME NEW c \in Commands, Attempted(c), UNCHANGED <<poll, board, reports>> PROVE TypeInv'
  BY <1>4, AdvanceAttempted, ResetTypes DEF TypeInv, Advances
<1>5. ASSUME NEW c \in Commands, Marks(c) PROVE TypeInv'
  <2>1. CASE \A e \in Asked(cmd[c].props) : pending[e] # None
    <3>1. Advances(c, "done", cmd[c].props)
      BY <1>5, <2>1, Advance DEF Marks, Pcs
    <3>2. pending' \in [Dps -> Update \cup {None}]
      BY <1>5, <2>1, MarkedTypes DEF Marks
    <3> QED BY <1>5, <2>1, <3>1, <3>2 DEF Marks, TypeInv, Advances
  <2>2. CASE ~ \A e \in Asked(cmd[c].props) : pending[e] # None
    BY <1>4, <1>5, <2>2 DEF Marks
  <2> QED BY <2>1, <2>2
<1>6. ASSUME NEW d \in Dps, FakeItTimeout(d) PROVE TypeInv'
  BY <1>6 DEF FakeItTimeout, TypeInv
<1>7. CASE Polls
  BY <1>7 DEF Polls, TypeInv
<1>8. CASE StatusAnswered
  BY <1>8 DEF StatusAnswered, TypeInv
<1>9. CASE Receives
  BY <1>9 DEF Receives, TypeInv
<1>10. CASE Receipt
  BY <1>10, ReceiptTypes DEF Receipt, TypeInv
<1>11. CASE PollFails
  BY <1>11, ResetTypes DEF PollFails, TypeInv
<1>12. ASSUME NEW d \in Dps, BoardChanges(d) PROVE TypeInv'
  <2>1. PICK v \in Values : /\ board' = [board EXCEPT ![d] = v]
                            /\ reports' \in {reports} \cup {Append(reports, [Nowhere EXCEPT ![d] = v])}
    BY <1>12 DEF BoardChanges
  <2>2. board' \in Props /\ [Nowhere EXCEPT ![d] = v] \in Props
    BY <2>1 DEF TypeInv, Props, Nowhere
  <2>3. reports' \in Seq(Props)
    BY <2>1, <2>2 DEF TypeInv
  <2> QED BY <1>12, <2>2, <2>3 DEF BoardChanges, TypeInv
<1>13. CASE UNCHANGED vars
  BY <1>13 DEF vars, TypeInv
<1> QED
  BY <1>1, <1>2, <1>3, <1>4, <1>5, <1>6, <1>7, <1>8, <1>9, <1>10, <1>11, <1>12, <1>13
  DEF Next, Command, SendFails, Loop

-----------------------------------------------------------------------------
(* The last command of a datapoint.                                        *)

\* The command made last for its datapoint.
Lone(c) == cmd[c].pc # "new" /\ hist.last[cmd[c].dp] = c

Excused(c) == c \in Handed \cup hist.crossed \cup hist.dropped

\* An update that is shown is that of a command that was made.
Named == \A d \in Dps : pending[d] # None =>
             hist.last[d] \in Commands /\ cmd[hist.last[d]].pc # "new"

\* What is shown for a datapoint is what its last command asked for.
Overlaid == \A c \in Commands : Lone(c) /\ pending[cmd[c].dp] # None
                => pending[cmd[c].dp].value = cmd[c].value

\* The update of a command that waits is there, and not sent.
Waiting == \A c \in Commands : Lone(c) /\ cmd[c].pc = "debounce" /\ ~Excused(c)
               => pending[cmd[c].dp] # None /\ ~pending[cmd[c].dp].sent

\* What any call carries for the datapoint of a last command that met none on
\* its way is that command's value, and it has been sent when it is marked.
Carried == \A c, b \in Commands :
    Lone(c) /\ c \notin hist.crossed /\ cmd[b].pc \in {"send", "mark"} /\ cmd[b].props[cmd[c].dp] # None
        => /\ cmd[b].props[cmd[c].dp] = cmd[c].value
           /\ cmd[b].pc = "mark" => c \in Handed

\* The call of such a command carries it.
Brought == \A c \in Commands : Lone(c) /\ ~Excused(c)
               => /\ cmd[c].pc \notin {"mark", "done"}
                  /\ cmd[c].pc = "send" => cmd[c].props[cmd[c].dp] = cmd[c].value

IInv == TypeInv /\ Named /\ Overlaid /\ Waiting /\ Carried /\ Brought

LEMMA Initial == Init => IInv
<1> SUFFICES ASSUME Init PROVE IInv
  OBVIOUS
<1>1. Attempts \in Int
  BY DeviceAssumption
<1>2. TypeInv
  BY <1>1, NowhereProps DEF Init, TypeInv, CommandRec, Pcs, History, Props, Nowhere
<1>3. \A c \in Commands : cmd[c].pc = "new"
  BY DEF Init
<1>4. \A d \in Dps : pending[d] = None
  BY DEF Init, Nowhere
<1> QED
  BY <1>2, <1>3, <1>4 DEF IInv, Named, Overlaid, Waiting, Carried, Brought, Lone

\* Nothing of commands and updates changes.
LEMMA Rests == ASSUME IInv, TypeInv', UNCHANGED <<pending, cmd, hist>> PROVE IInv'
BY DEF IInv, Named, Overlaid, Waiting, Carried, Brought, Lone, Excused, Handed

LEMMA CommandedKeeps == ASSUME IInv, TypeInv', NEW a \in Commands, Commanded(a) PROVE IInv'
<1> DEFINE e == cmd[a].dp
           update == [value |-> cmd[a].value, sent |-> FALSE]
<1>1. e \in Dps /\ TypeInv /\ cmd[a].pc = "new"
  BY DEF IInv, TypeInv, CommandRec, Commanded
<1>2. Advances(a, "debounce", cmd[a].props)
  BY <1>1, Advance DEF Commanded, Pcs
<1>3. /\ pending' = [pending EXCEPT ![e] = update]
      /\ hist'.last = [hist.last EXCEPT ![e] = a]
      /\ hist'.crossed = IF Sending(e) = {} THEN hist.crossed ELSE hist.crossed \cup {a}
      /\ hist'.taken = hist.taken /\ hist'.dropped = hist.dropped
      /\ hist'.unheard = hist.unheard
  BY <1>1, CommandedTypes
<1>4. pending'[e] = update /\ \A d \in Dps \ {e} : pending'[d] = pending[d]
  BY <1>1, <1>3 DEF TypeInv
<1>5. update # None /\ update.value = cmd[a].value /\ ~update.sent
  <2>1. update \in [value : Values, sent : BOOLEAN]
    BY <1>1 DEF TypeInv, CommandRec
  <2> QED BY <2>1, DeviceAssumption
<1>6. hist'.last[e] = a /\ \A d \in Dps \ {e} : hist'.last[d] = hist.last[d]
  BY <1>1, <1>3 DEF TypeInv, History
<1> HIDE DEF e, update
\* The other commands of the datapoint are its last no more.
<1>7. ASSUME NEW c \in Commands, Lone(c)', c # a
      PROVE  Lone(c) /\ cmd'[c] = cmd[c] /\ cmd[c].dp \in Dps \ {e}
             /\ pending'[cmd[c].dp] = pending[cmd[c].dp] /\ (Excused(c)' <=> Excused(c))
             /\ (c \in hist'.crossed <=> c \in hist.crossed)
  BY <1>1, <1>2, <1>3, <1>4, <1>6, <1>7 DEF Lone, Advances, TypeInv, CommandRec, Excused, Handed
<1>8. Named'
  BY <1>1, <1>2, <1>4, <1>6 DEF Named, IInv, Advances
<1>9. cmd'[a].dp = e /\ cmd'[a].value = cmd[a].value /\ cmd'[a].pc = "debounce"
  BY <1>2 DEF Advances, e
<1>10. Overlaid'
  BY <1>4, <1>5, <1>7, <1>9 DEF Overlaid, IInv
<1>11. Waiting'
  BY <1>4, <1>5, <1>7, <1>9 DEF Waiting, IInv
<1>12. Brought'
  BY <1>7, <1>9 DEF Brought, IInv
<1>13. Carried'
  <2>1. SUFFICES ASSUME NEW c \in Commands, NEW b \in Commands, Lone(c)', c \notin hist'.crossed,
                        cmd'[b].pc \in {"send", "mark"}, cmd'[b].props[cmd'[c].dp] # None
                 PROVE  /\ cmd'[b].props[cmd'[c].dp] = cmd'[c].value
                        /\ cmd'[b].pc = "mark" => c \in Handed'
    BY DEF Carried
  <2>2. b # a /\ cmd'[b] = cmd[b]
    BY <1>2, <1>9, <2>1 DEF Advances
  <2>3. c # a
    <3>1. SUFFICES ASSUME c = a PROVE FALSE
      OBVIOUS
    <3>2. b \in Sending(e)
      BY <1>9, <2>1, <2>2, <3>1 DEF Sending
    <3> QED BY <1>3, <2>1, <3>1, <3>2
  <2> QED BY <1>3, <1>7, <2>1, <2>2, <2>3 DEF Carried, IInv, Handed
<1> QED BY <1>8, <1>10, <1>11, <1>12, <1>13 DEF IInv

LEMMA StartsKeeps == ASSUME IInv, TypeInv', NEW a \in Commands, StartsSending(a) PROVE IInv'
<1>1. TypeInv /\ cmd[a].pc = "debounce" /\ pending' = pending /\ hist' = hist
  BY DEF IInv, StartsSending
<1>2. Unsent \in Props
  BY <1>1 DEF TypeInv, Unsent, Props, Update
<1>3. Advances(a, "send", Unsent)
  BY <1>1, <1>2, AdvanceSending DEF StartsSending
<1>4. \A c \in Commands : /\ cmd'[c].dp = cmd[c].dp /\ cmd'[c].value = cmd[c].value
                          /\ cmd[c].dp \in Dps /\ cmd[c].value \in Values
                          /\ (Lone(c)' => Lone(c)) /\ (Excused(c)' <=> Excused(c))
  BY <1>1, <1>3 DEF Advances, TypeInv, CommandRec, Lone, Excused, Handed
<1>5. Named'
  BY <1>1, <1>3 DEF Named, IInv, Advances
<1>6. Overlaid'
  BY <1>1, <1>4 DEF Overlaid, IInv
<1>7. Waiting'
  BY <1>1, <1>3, <1>4 DEF Waiting, IInv, Advances
<1>8. ASSUME NEW c \in Commands, Lone(c), Unsent[cmd[c].dp] # None
      PROVE  Unsent[cmd[c].dp] = cmd[c].value
  BY <1>4, <1>8 DEF Unsent, Overlaid, IInv
<1>9. ASSUME NEW c \in Commands, Lone(c), cmd[c].pc = "debounce", ~Excused(c)
      PROVE  Unsent[cmd[c].dp] = cmd[c].value
  BY <1>4, <1>9 DEF Unsent, Overlaid, Waiting, IInv
<1>10. Carried'
  BY <1>1, <1>3, <1>4, <1>8 DEF Carried, IInv, Advances, Handed
<1>11. Brought'
  BY <1>1, <1>3, <1>4, <1>9 DEF Brought, IInv, Advances
<1> QED BY <1>5, <1>6, <1>7, <1>10, <1>11 DEF IInv

LEMMA SendsKeeps ==
    ASSUME IInv, TypeInv', NEW a \in Commands, Sends(a) \/ SendsUnheard(a) PROVE IInv'
<1>1. TypeInv /\ cmd[a].pc = "send" /\ pending' = pending
  BY DEF IInv, Sends, SendsUnheard
<1>2. /\ hist'.last = hist.last /\ hist'.crossed = hist.crossed /\ hist'.dropped = hist.dropped
      /\ Handed' = Handed \cup Latest(cmd[a].props)
      /\ Advances(a, "mark", cmd[a].props)
  BY <1>1, SendsTypes
<1>3. \A c \in Commands : /\ cmd'[c].dp = cmd[c].dp /\ cmd'[c].value = cmd[c].value
                          /\ cmd'[c].props = cmd[c].props
                          /\ (Lone(c)' => Lone(c)) /\ (Excused(c) => Excused(c)')
  BY <1>1, <1>2 DEF Advances, Lone, Excused
<1>4. Named'
  BY <1>1, <1>2 DEF Named, IInv, Advances
<1>5. Overlaid'
  BY <1>1, <1>3 DEF Overlaid, IInv
<1>6. Waiting'
  BY <1>1, <1>2, <1>3 DEF Waiting, IInv, Advances
<1>7. ASSUME NEW c \in Commands, Lone(c), cmd[a].props[cmd[c].dp] = cmd[c].value
      PROVE  c \in Handed'
  BY <1>2, <1>7 DEF Lone, Latest
<1>8. Carried'
  BY <1>1, <1>2, <1>3, <1>7 DEF Carried, IInv, Advances
<1>9. Brought'
  BY <1>1, <1>2, <1>3, <1>7 DEF Brought, IInv, Advances, Excused
<1> QED BY <1>4, <1>5, <1>6, <1>8, <1>9 DEF IInv

\* The state is reset, and a call may fail with it.
LEMMA ResetKeeps ==
    ASSUME IInv, TypeInv', Resets,
           \A c \in Commands : /\ cmd'[c].dp = cmd[c].dp /\ cmd'[c].value = cmd[c].value
                               /\ cmd'[c].props = cmd[c].props
                               /\ cmd'[c].pc = cmd[c].pc \/ (cmd'[c].pc = "failed" /\ cmd[c].pc # "new")
    PROVE  IInv'
<1>1. TypeInv
  BY DEF IInv
<1>2. /\ \A d \in Dps : pending'[d] = None
      /\ hist'.last = hist.last /\ hist'.crossed = hist.crossed /\ Handed' = Handed
      /\ hist'.dropped = hist.dropped \cup {c \in Commands : cmd[c].pc = "debounce"}
  BY <1>1, ResetTypes DEF Nowhere, Handed
<1>3. \A c \in Commands : /\ Lone(c)' => Lone(c)
                          /\ Excused(c) => Excused(c)'
                          /\ cmd[c].dp \in Dps
  BY <1>1, <1>2 DEF Lone, Excused, TypeInv, CommandRec
<1>4. Named'
  BY <1>2 DEF Named
<1>5. Overlaid'
  BY <1>2, <1>3 DEF Overlaid
<1>6. Waiting'
  BY <1>2 DEF Waiting, Excused
<1>7. Carried'
  BY <1>2, <1>3 DEF Carried, IInv
<1>8. Brought'
  BY <1>2, <1>3 DEF Brought, IInv
<1> QED BY <1>4, <1>5, <1>6, <1>7, <1>8 DEF IInv

LEMMA AttemptedKeeps ==
    ASSUME IInv, TypeInv', NEW a \in Commands, Attempted(a), cmd[a].pc \in {"send", "mark"}
    PROVE  IInv'
<1>1. TypeInv
  BY DEF IInv
<1>2. CASE Advances(a, "failed", cmd[a].props) /\ Resets
  <2>1. \A c \in Commands :
            /\ cmd'[c].dp = cmd[c].dp /\ cmd'[c].value = cmd[c].value
            /\ cmd'[c].props = cmd[c].props
            /\ cmd'[c].pc = cmd[c].pc \/ (cmd'[c].pc = "failed" /\ cmd[c].pc # "new")
    BY <1>2 DEF Advances
  <2> QED BY <1>2, <2>1, ResetKeeps
<1>3. CASE Advances(a, "send", cmd[a].props) /\ UNCHANGED <<cached, pending, hist>>
  <2>1. \A c \in Commands : /\ cmd'[c].dp = cmd[c].dp /\ cmd'[c].value = cmd[c].value
                            /\ cmd'[c].props = cmd[c].props
                            /\ (Lone(c)' => Lone(c)) /\ (Excused(c) <=> Excused(c)')
    BY <1>3 DEF Advances, Lone, Excused, Handed
  <2>2. Named'
    BY <1>3 DEF Named, IInv, Advances
  <2>3. Overlaid'
    BY <1>3, <2>1 DEF Overlaid, IInv
  <2>4. Waiting'
    BY <1>3, <2>1 DEF Waiting, IInv, Advances
  <2>5. Carried'
    BY <1>3, <2>1 DEF Carried, IInv, Advances, Handed
  <2>6. Brought'
    BY <1>3, <2>1 DEF Brought, IInv, Advances
  <2> QED BY <2>2, <2>3, <2>4, <2>5, <2>6 DEF IInv
<1> QED BY <1>1, <1>2, <1>3, AdvanceAttempted

\* Updates end, or are marked, only if they were sent.
LEMMA MarksKeeps == ASSUME IInv, TypeInv', NEW a \in Commands, Marks(a) PROVE IInv'
<1>1. TypeInv /\ cmd[a].pc = "mark"
  BY DEF IInv, Marks
<1>2. CASE ~ \A e \in Asked(cmd[a].props) : pending[e] # None
  BY <1>1, <1>2, AttemptedKeeps DEF Marks
<1>3. CASE \A e \in Asked(cmd[a].props) : pending[e] # None
  <2>1. hist' = hist /\ Advances(a, "done", cmd[a].props)
    BY <1>1, <1>3, Advance DEF Marks, Pcs
  <2>2. \A c \in Commands : /\ cmd'[c].dp = cmd[c].dp /\ cmd'[c].value = cmd[c].value
                            /\ cmd'[c].props = cmd[c].props /\ cmd[c].dp \in Dps
                            /\ (Lone(c)' => Lone(c)) /\ (Excused(c) <=> Excused(c)')
    BY <1>1, <2>1 DEF Advances, Lone, Excused, TypeInv, CommandRec, Handed
  <2>3. \A d \in Dps : /\ pending[d] = None => pending'[d] = None
                       /\ d \notin Asked(cmd[a].props) => pending'[d] = pending[d]
                       /\ pending[d] # None => pending'[d].value = pending[d].value
    BY <1>1, <1>3, MarkedTypes
  <2>4. Named'
    BY <2>1, <2>3 DEF Named, IInv, Advances
  <2>5. Overlaid'
    BY <2>2, <2>3 DEF Overlaid, IInv
  <2>6. Waiting'
    <3>1. SUFFICES ASSUME NEW c \in Commands, Lone(c), cmd'[c].pc = "debounce", ~Excused(c)
                   PROVE  pending'[cmd[c].dp] # None /\ ~pending'[cmd[c].dp].sent
      BY <2>2 DEF Waiting
    <3>2. cmd[c].pc = "debounce"
      BY <2>1, <3>1 DEF Advances
    <3>3. cmd[c].dp \notin Asked(cmd[a].props)
      BY <1>1, <3>1 DEF Asked, Carried, IInv, Excused
    <3> QED BY <2>2, <2>3, <3>1, <3>2, <3>3 DEF Waiting, IInv
  <2>7. Carried'
    BY <2>1, <2>2 DEF Carried, IInv, Advances, Handed
  <2>8. Brought'
    BY <1>1, <2>1, <2>2 DEF Brought, IInv, Advances
  <2> QED BY <2>4, <2>5, <2>6, <2>7, <2>8 DEF IInv
<1> QED BY <1>2, <1>3

LEMMA EndsKeeps ==
    ASSUME IInv, TypeInv', UNCHANGED <<cmd, hist>>,
           \A d \in Dps : pending'[d] = pending[d] \/ (pending'[d] = None /\ pending[d].sent)
    PROVE  IInv'
<1>1. \A c \in Commands : cmd[c].dp \in Dps
  BY DEF IInv, TypeInv, CommandRec
<1> QED BY <1>1 DEF IInv, Named, Overlaid, Waiting, Carried, Brought, Lone, Excused, Handed

\* IInv is inductive.
THEOREM Inductive == IInv /\ [Next]_vars => IInv'
<1> SUFFICES ASSUME IInv, [Next]_vars PROVE IInv'
  OBVIOUS
<1>1. TypeInv /\ TypeInv'
  BY TypeNext DEF IInv
<1>2. ASSUME NEW c \in Commands, Commanded(c) \/ Command(c) \/ SendsUnheard(c) \/ SendFails(c)
      PROVE  IInv'
  BY <1>1, <1>2, CommandedKeeps, StartsKeeps, SendsKeeps, MarksKeeps, AttemptedKeeps DEF Command, SendFails
<1>3. ASSUME NEW d \in Dps, FakeItTimeout(d) PROVE IInv'
  <2>1. \A e \in Dps : pending'[e] = pending[e] \/ (pending'[e] = None /\ pending[e].sent)
    BY <1>1, <1>3 DEF FakeItTimeout, TypeInv
  <2> QED BY <1>1, <1>3, <2>1, EndsKeeps DEF FakeItTimeout
<1>4. ASSUME NEW d \in Dps, BoardChanges(d) PROVE IInv'
  BY <1>1, <1>4, Rests DEF BoardChanges
<1>5. CASE Polls \/ StatusAnswered \/ Receives \/ UNCHANGED vars
  BY <1>1, <1>5, Rests DEF Polls, StatusAnswered, Receives, vars
<1>6. CASE Receipt
  <2>1. \A e \in Dps : pending'[e] = pending[e] \/ (pending'[e] = None /\ pending[e].sent)
    BY <1>6 DEF Receipt, Unconfirmed
  <2> QED BY <1>1, <1>6, <2>1, EndsKeeps DEF Receipt
<1>7. CASE PollFails
  <2>1. \A c \in Commands : cmd'[c] = cmd[c]
    BY <1>7 DEF PollFails
  <2> QED BY <1>1, <1>7, <2>1, ResetKeeps DEF PollFails
<1> QED BY <1>2, <1>3, <1>4, <1>5, <1>6, <1>7 DEF Next, Loop

THEOREM Invariance == Spec => []IInv
<1>1. Init => IInv
  BY Initial
<1>2. IInv /\ [Next]_vars => IInv'
  BY Inductive
<1> QED BY <1>1, <1>2, PTL DEF Spec

\* A command that was its datapoint's last has reached the board when it is
\* done, unless another one was on its way as it was made, or the state was
\* reset before it was sent (async_set_properties, _retry_on_failed_connection).
THEOREM LastReaches == Spec => []LoneLastReaches
<1>1. IInv => LoneLastReaches
  BY DEF IInv, Brought, Lone, Excused, LoneLastReaches, Handed
<1> QED BY <1>1, Invariance, PTL

\* What a step may change of what is shown.
OverlayStep ==
    \A d \in Dps :
        pending[d] # None /\ cached' # Nowhere /\ Property(d)' # Property(d)
           => \/ hist'.last[d] # hist.last[d]
              \/ pending[d].sent /\ pending'[d] = None /\ cached' = cached

LEMMA Shown == ASSUME IInv, [Next]_vars PROVE OverlayStep
<1>1. SUFFICES ASSUME NEW d \in Dps, pending[d] # None, cached' # Nowhere, Property(d)' # Property(d)
               PROVE  \/ hist'.last[d] # hist.last[d]
                      \/ pending[d].sent /\ pending'[d] = None /\ cached' = cached
  BY DEF OverlayStep
<1>2. TypeInv /\ pending[d] \in Update
  BY <1>1 DEF IInv, TypeInv
<1>3. CASE UNCHANGED <<cached, pending>>
  BY <1>1, <1>3 DEF Property
<1>4. CASE cached' = cached /\ pending[d] # None /\ pending'[d] # None /\ pending'[d].value = pending[d].value
  BY <1>1, <1>4 DEF Property
<1> DEFINE Goal == \/ hist'.last[d] # hist.last[d]
                   \/ pending[d].sent /\ pending'[d] = None /\ cached' = cached
\* A new command for the datapoint; the one it had was made before.
<1>5. ASSUME NEW c \in Commands, Commanded(c) PROVE Goal
  <2>1. CASE cmd[c].dp = d
    <3>1. hist.last[d] # c
      BY <1>1, <1>5 DEF IInv, Named, Commanded
    <3>2. hist'.last[d] = c
      <4>1. hist.last \in [Dps -> Commands \cup {None}]
        BY <1>2 DEF TypeInv, History
      <4> QED BY <1>2, <1>5, <2>1, <4>1, CommandedTypes
    <3> QED BY <3>1, <3>2
  <2>2. CASE cmd[c].dp # d
    <3>1. pending'[d] = pending[d] /\ cached' = cached
      BY <1>2, <1>5, <2>2 DEF Commanded, TypeInv
    <3> QED BY <1>1, <1>4, <3>1
  <2> QED BY <2>1, <2>2
<1>6. ASSUME NEW c \in Commands, Attempted(c) PROVE Goal
  BY <1>1, <1>2, <1>3, <1>6, AdvanceAttempted DEF Resets
<1>7. ASSUME NEW c \in Commands, Marks(c) PROVE Goal
  <2>1. CASE \A e \in Asked(cmd[c].props) : pending[e] # None
    <3>1. cached' = cached /\ pending'[d].value = pending[d].value
      BY <1>1, <1>2, <1>7, <2>1, MarkedTypes DEF Marks
    <3>2. pending'[d] = [pending[d] EXCEPT !.sent = TRUE] \/ pending'[d] = pending[d]
      BY <1>7, <2>1 DEF Marks
    <3>3. [pending[d] EXCEPT !.sent = TRUE] \in [value : Values, sent : BOOLEAN]
      BY <1>2 DEF Update
    <3>4. pending'[d] # None
      BY <1>1, <3>2, <3>3, DeviceAssumption
    <3> QED BY <1>1, <1>4, <3>1, <3>4
  <2>2. CASE ~ \A e \in Asked(cmd[c].props) : pending[e] # None
    BY <1>6, <1>7, <2>2 DEF Marks
  <2> QED BY <2>1, <2>2
<1>8. ASSUME NEW e \in Dps, FakeItTimeout(e) PROVE Goal
  <2>1. cached' = cached /\ (pending'[d] = pending[d] \/ (pending'[d] = None /\ pending[d].sent))
    BY <1>2, <1>8 DEF FakeItTimeout, TypeInv
  <2> QED BY <1>1, <1>4, <2>1
\* A report ends an update with the value that it had.
<1>9. CASE Receipt
  <2>1. /\ cached'[d] = IF poll.got[d] # None THEN poll.got[d] ELSE cached[d]
        /\ pending'[d] = IF pending[d].sent /\ poll.got[d] = pending[d].value THEN None ELSE pending[d]
    BY <1>1, <1>9 DEF Receipt, Merged, Unconfirmed
  <2>2. pending[d].value # None
    BY <1>2, DeviceAssumption DEF Update
  <2>3. Property(d) = pending[d].value
    BY <1>1 DEF Property
  <2>4. Property(d)' = IF pending'[d] # None THEN pending'[d].value ELSE cached'[d]
    BY DEF Property
  <2> QED BY <1>1, <2>1, <2>2, <2>3, <2>4
<1>10. CASE PollFails
  BY <1>1, <1>10 DEF PollFails, Resets
<1> QED
  BY <1>3, <1>5, <1>6, <1>7, <1>8, <1>9, <1>10
  DEF Next, Command, Loop, StartsSending, Sends, SendsUnheard, SendFails, Polls, StatusAnswered, Receives,
      BoardChanges, vars

\* What a command asked for is shown until another command, its confirmation,
\* its time-out or a failed connection, whatever polls and reports were under
\* way (_pending_updates).
THEOREM OverlayKept == Spec => OverlayHolds
<1>1. IInv /\ [Next]_vars => [OverlayStep]_vars
  BY Shown
<1>2. Spec => [][OverlayStep]_vars
  BY <1>1, Invariance, PTL DEF Spec
<1> QED BY <1>2 DEF OverlayHolds, OverlayStep

\* What is proved of TuyaDevice holds of the object, whose part it is.
LEMMA ObjectIsDevice == ObjectSpec => Spec
<1>1. ObjectInit => Init
  BY DEF ObjectInit
<1>2. [ObjectNext]_<<part, vars, callvars, rulevars>> => [Next]_vars
  BY DEF ObjectNext
<1> QED BY <1>1, <1>2, PTL DEF ObjectSpec, Spec

-----------------------------------------------------------------------------
(* The attempts of a call (TuyaProtocol): the invariant.                   *)

CallType == [pc : {"idle", "first", "try", "set"}, i : Nat, of : Nat, version : 0..N]

AttemptsType ==
    /\ configured \in 0..N
    /\ index \in 0..N
    /\ working \in BOOLEAN
    /\ api \in 1..N
    /\ call \in [Callers -> CallType]
    /\ callhist \in [Callers -> [tried : SUBSET (1..N), alone : BOOLEAN]]

Trying(c) == call[c].pc \in {"try", "set"}

\* The list is entered before the first attempt, and a version that is to be set
\* is one of the list.
Entered ==
    \A c \in Callers :
        /\ call[c].pc # "idle" => index # 0
        /\ call[c].pc \in {"first", "set"} => call[c].version # 0

Sole == \A c \in Callers : callhist[c].alone /\ call[c].pc # "idle" =>
            \A b \in Callers \ {c} : call[b].pc = "idle"

\* How many rotations ago the version was in turn.
Behind(v) == IF v < index THEN index - v ELSE index - v + N

\* A lone call goes through the list from wherever it stands: it has tried what
\* was in turn since its first attempt.
Cycles(c) ==
    /\ call[c].of = 2 * N + 1
    /\ ~working
    /\ call[c].i # 0 => (IF call[c].pc = "set" THEN call[c].version ELSE api) = index
    /\ \A v \in 1..N : Behind(v) < call[c].i => v \in callhist[c].tried

LoneTry(c) == Trying(c) /\ callhist[c].alone /\ configured = 0 /\ call[c].of # Single

AttemptsInv ==
    /\ AttemptsType /\ Entered /\ Sole
    /\ \A c \in Callers : LoneTry(c) => Cycles(c)

LEMMA Numbers ==
    /\ N \in Nat \ {0} /\ Single \in Nat \ {0} /\ Default \in 1..N
    /\ 0 \in 0..N /\ 1..N \subseteq 0..N
BY ObjectAssumption

\* A call that begins.
LEMMA IdleType ==
    /\ Protocol!Idle \in CallType
    /\ Protocol!Idle.pc = "idle" /\ Protocol!Idle.i = 0
BY Numbers DEF Protocol!Idle, CallType, Protocol!Auto

LEMMA BeginsType ==
    ASSUME NEW v \in 0..N, NEW k \in Nat
    PROVE  LET first == [Protocol!Idle EXCEPT !.pc = "first", !.version = v]
               try == [Protocol!Idle EXCEPT !.pc = "try", !.of = k]
           IN  /\ first \in CallType /\ first.pc = "first" /\ first.version = v
               /\ try \in CallType /\ try.pc = "try" /\ try.i = 0 /\ try.of = k
<1> DEFINE o == Protocol!Idle
<1>1. o \in CallType /\ o.i = 0
  BY IdleType
<1> HIDE DEF o
<1>2. /\ [o EXCEPT !.pc = "first", !.version = v] \in CallType
      /\ [o EXCEPT !.pc = "first", !.version = v].pc = "first"
      /\ [o EXCEPT !.pc = "first", !.version = v].version = v
  BY <1>1 DEF CallType
<1>3. /\ [o EXCEPT !.pc = "try", !.of = k] \in CallType
      /\ [o EXCEPT !.pc = "try", !.of = k].pc = "try"
      /\ [o EXCEPT !.pc = "try", !.of = k].i = 0
      /\ [o EXCEPT !.pc = "try", !.of = k].of = k
  BY <1>1 DEF CallType
<1> QED BY <1>2, <1>3 DEF o

LEMMA BehindBound ==
    ASSUME N \in Nat \ {0}, index \in 1..N, NEW v \in 1..N
    PROVE  Behind(v) \in 1..N
BY DEF Behind

LEMMA RotatedIs ==
    ASSUME N \in Nat \ {0}, configured \in 0..N, index \in 0..N
    PROVE  /\ Protocol!Rotated \in 1..N
           /\ configured = 0 /\ index # 0 => Protocol!Rotated = IF index = N THEN 1 ELSE index + 1
<1>1. CASE configured = 0 /\ index # 0
  <2>1. Protocol!Rotated = (index % N) + 1
    BY <1>1 DEF Protocol!Rotated, Protocol!Auto
  <2>2. CASE index = N
    <3>1. index % N = 0
      BY <2>2
    <3> QED BY <2>1, <2>2, <3>1
  <2>3. CASE index # N
    <3>1. index % N = index
      BY <2>3, <1>1
    <3> QED BY <1>1, <2>1, <2>3, <3>1
  <2> QED BY <2>2, <2>3
<1>2. CASE ~(configured = 0 /\ index # 0)
  BY <1>2 DEF Protocol!Rotated, Protocol!Auto
<1> QED BY <1>1, <1>2

LEMMA AttemptsInit == Protocol!Init => AttemptsInv
<1> SUFFICES ASSUME Protocol!Init PROVE AttemptsInv
  OBVIOUS
<1>1. \A c \in Callers : call[c].pc = "idle"
  BY DEF Protocol!Init, Protocol!Idle
<1>2. AttemptsType
  <2>2. Protocol!Unseen \in [tried : SUBSET (1..N), alone : BOOLEAN]
    BY DEF Protocol!Unseen
  <2>3. configured \in 0..N /\ index \in 0..N /\ working \in BOOLEAN /\ api \in 1..N
    BY Numbers DEF Protocol!Init, Protocol!Versions, Protocol!Auto
  <2> QED BY <2>2, <2>3, IdleType DEF Protocol!Init, AttemptsType
<1> QED BY <1>1, <1>2 DEF AttemptsInv, Entered, Sole, LoneTry, Trying

\* A step of one caller that is not alone, or that ends or begins its call with
\* no attempt made.
LEMMA Fresh ==
    ASSUME AttemptsInv, AttemptsType', Entered', Sole', NEW c \in Callers, UNCHANGED configured,
           call[c].pc # "idle" \/ \A b \in Callers \ {c} : ~callhist'[b].alone \/ call[b].pc = "idle",
           \A b \in Callers \ {c} : call'[b] = call[b] /\ (callhist'[b].alone => callhist[b].alone \/ call[b].pc = "idle"),
           LoneTry(c)' => Cycles(c)'
    PROVE  AttemptsInv'
<1> SUFFICES ASSUME NEW b \in Callers \ {c}, LoneTry(b)' PROVE FALSE
  BY DEF AttemptsInv
<1>1. call[b].pc \in {"try", "set"} /\ callhist'[b].alone
  BY DEF LoneTry, Trying
<1>2. callhist[b].alone
  BY <1>1
<1>3. call[c].pc = "idle"
  BY <1>1, <1>2 DEF AttemptsInv, Sole
<1> QED BY <1>1, <1>3

LEMMA CallsInv ==
    ASSUME AttemptsInv, NEW c \in Callers, Protocol!Calls(c)
    PROVE  AttemptsInv'
<1>0. /\ N \in Nat \ {0} /\ Single \in Nat \ {0} /\ configured \in 0..N /\ index \in 0..N
      /\ call \in [Callers -> CallType]
      /\ callhist \in [Callers -> [tried : SUBSET (1..N), alone : BOOLEAN]]
  BY ObjectAssumption DEF AttemptsInv, AttemptsType
<1> DEFINE alone == \A b \in Callers \ {c} : call[b].pc = "idle"
           first == [Protocol!Idle EXCEPT !.pc = "first", !.version = Protocol!Rotated]
           try == [Protocol!Idle EXCEPT !.pc = "try", !.of = Protocol!Connections]
<1>1. /\ call[c].pc = "idle"
      /\ \/ index = 0 /\ index' = Protocol!Rotated /\ call' = [call EXCEPT ![c] = first]
         \/ index # 0 /\ index' = index /\ call' = [call EXCEPT ![c] = try]
      /\ callhist' = [b \in Callers |->
             IF b = c THEN [Protocol!Unseen EXCEPT !.alone = alone]
             ELSE IF call[b].pc = "idle" THEN Protocol!Unseen
             ELSE [Protocol!Unseen EXCEPT !.alone = FALSE]]
      /\ UNCHANGED <<configured, working, api>>
  BY DEF Protocol!Calls, Protocol!Starts
<1>2. Protocol!Rotated \in 1..N
  BY <1>0, RotatedIs
<1>3. Protocol!Connections \in Nat /\ (configured = 0 /\ ~working => Protocol!Connections = 2 * N + 1)
      /\ (Protocol!Connections # Single => configured = 0 /\ ~working)
  BY <1>0 DEF Protocol!Connections, Protocol!Auto
<1>4. /\ first \in CallType /\ first.pc = "first" /\ first.version = Protocol!Rotated
      /\ try \in CallType /\ try.pc = "try" /\ try.i = 0 /\ try.of = Protocol!Connections
  BY <1>2, <1>3, Numbers, BeginsType
<1> HIDE DEF first, try
<1>5. alone \in BOOLEAN
  OBVIOUS
<1>6. callhist'[c].alone = alone
  BY <1>1 DEF Protocol!Unseen
<1>7. \A b \in Callers \ {c} : callhist'[b].alone <=> call[b].pc = "idle"
  BY <1>1 DEF Protocol!Unseen
<1>8. callhist' \in [Callers -> [tried : SUBSET (1..N), alone : BOOLEAN]]
  BY <1>1, <1>5 DEF Protocol!Unseen
<1> HIDE DEF alone
<1>9. /\ call' \in [Callers -> CallType] /\ call'[c].pc \in {"first", "try"}
      /\ \A b \in Callers \ {c} : call'[b] = call[b]
  BY <1>0, <1>1, <1>4
<1>10. AttemptsType'
  <2>1. index' \in 0..N
    BY <1>0, <1>1, <1>2, Numbers
  <2>2. working \in BOOLEAN /\ api \in 1..N
    BY DEF AttemptsInv, AttemptsType
  <2> QED BY <1>0, <1>1, <1>8, <1>9, <2>1, <2>2 DEF AttemptsType
<1>11. Entered'
  BY <1>0, <1>1, <1>2, <1>4, <1>9 DEF AttemptsInv, Entered
<1>12. Sole'
  BY <1>6, <1>7, <1>9 DEF Sole, alone
<1>13. LoneTry(c)' => Cycles(c)'
  <2> SUFFICES ASSUME LoneTry(c)' PROVE Cycles(c)'
    OBVIOUS
  <2>1. index' = index /\ index # 0 /\ call'[c] = try
    BY <1>0, <1>1, <1>4 DEF LoneTry, Trying
  <2>2. call'[c].of # Single /\ call'[c].i = 0
    BY <1>4, <2>1 DEF LoneTry
  <2>3. \A v \in 1..N : Behind(v)' \in 1..N
    BY <1>0, <1>1, <2>1, BehindBound DEF Behind
  <2>4. \A v \in 1..N : ~(Behind(v)' < 0)
    BY <1>0, <2>3
  <2> QED BY <1>1, <1>3, <1>4, <2>1, <2>2, <2>4 DEF Cycles
<1> QED BY <1>1, <1>7, <1>9, <1>10, <1>11, <1>12, <1>13, Fresh

LEMMA SetsInv ==
    ASSUME AttemptsInv, NEW c \in Callers, Protocol!SetsVersion(c)
    PROVE  AttemptsInv'
<1>0. /\ N \in Nat \ {0} /\ Single \in Nat \ {0} /\ configured \in 0..N /\ index \in 0..N
      /\ call \in [Callers -> CallType]
      /\ callhist \in [Callers -> [tried : SUBSET (1..N), alone : BOOLEAN]]
  BY ObjectAssumption DEF AttemptsInv, AttemptsType
<1> DEFINE try == [Protocol!Idle EXCEPT !.pc = "try", !.of = Protocol!Connections]
<1>1. /\ call[c].pc \in {"first", "set"} /\ api' = call[c].version
      /\ call' = IF call[c].pc = "first" THEN [call EXCEPT ![c] = try]
                 ELSE IF call[c].i = call[c].of THEN [call EXCEPT ![c] = Protocol!Idle]
                 ELSE [call EXCEPT ![c].pc = "try"]
      /\ callhist' = IF call'[c] = Protocol!Idle THEN [callhist EXCEPT ![c] = Protocol!Unseen] ELSE callhist
      /\ UNCHANGED <<configured, index, working>>
  BY DEF Protocol!SetsVersion, Protocol!Starts
<1>2. index # 0 /\ call[c].version \in 1..N
  BY <1>0, <1>1 DEF AttemptsInv, Entered, CallType
<1>3. Protocol!Connections \in Nat /\ (Protocol!Connections # Single => Protocol!Connections = 2 * N + 1 /\ ~working)
  BY <1>0 DEF Protocol!Connections, Protocol!Auto
<1>4. /\ Protocol!Idle \in CallType /\ Protocol!Idle.pc = "idle"
      /\ try \in CallType /\ try.pc = "try" /\ try.i = 0 /\ try.of = Protocol!Connections
  BY <1>3, Numbers, IdleType, BeginsType
<1> HIDE DEF try
<1>5. call' \in [Callers -> CallType] /\ \A b \in Callers \ {c} : call'[b] = call[b]
  BY <1>0, <1>1, <1>4 DEF CallType
<1>6. /\ callhist' \in [Callers -> [tried : SUBSET (1..N), alone : BOOLEAN]]
      /\ \A b \in Callers \ {c} : callhist'[b] = callhist[b]
      /\ call'[c] # Protocol!Idle => callhist' = callhist
  BY <1>0, <1>1 DEF Protocol!Unseen
<1>7. call'[c].pc \in {"idle", "try"}
  BY <1>0, <1>1, <1>4 DEF CallType
<1>8. AttemptsType'
  BY <1>0, <1>1, <1>2, <1>5, <1>6 DEF AttemptsInv, AttemptsType
<1>9. Entered'
  BY <1>1, <1>2, <1>5, <1>7 DEF AttemptsInv, Entered
<1>10. Sole'
  <2> SUFFICES ASSUME NEW a \in Callers, callhist'[a].alone, call'[a].pc # "idle", NEW b \in Callers \ {a}
               PROVE  call'[b].pc = "idle"
    BY DEF Sole
  <2>1. call[a].pc # "idle" /\ callhist[a].alone
    BY <1>1, <1>4, <1>5, <1>6
  <2>2. call[b].pc = "idle"
    BY <2>1 DEF AttemptsInv, Sole
  <2> QED BY <1>1, <1>5, <2>2
<1>11. LoneTry(c)' => Cycles(c)'
  <2> SUFFICES ASSUME LoneTry(c)' PROVE Cycles(c)'
    OBVIOUS
  <2>1. call'[c].pc = "try" /\ callhist' = callhist
    BY <1>4, <1>6, <1>7 DEF LoneTry, Trying
  <2>2. \A v \in 1..N : Behind(v)' = Behind(v) /\ Behind(v) \in 1..N
    BY <1>0, <1>1, <1>2, BehindBound DEF Behind
  <2>3. CASE call[c].pc = "first"
    <3>1. call'[c] = try
      BY <1>0, <1>1, <2>3
    <3>2. call'[c].i = 0 /\ call'[c].of = 2 * N + 1 /\ ~working'
      BY <1>1, <1>3, <1>4, <3>1 DEF LoneTry
    <3>3. \A v \in 1..N : ~(Behind(v)' < 0)
      BY <1>0, <2>2
    <3> QED BY <3>2, <3>3 DEF Cycles
  <2>4. CASE call[c].pc = "set"
    <3>1. call'[c] = [call[c] EXCEPT !.pc = "try"]
      BY <1>0, <1>1, <1>4, <2>1, <2>4
    <3>2. call'[c].i = call[c].i /\ call'[c].of = call[c].of
      BY <1>0, <3>1 DEF CallType
    <3>3. Cycles(c)
      BY <1>1, <2>1, <2>4, <3>2 DEF AttemptsInv, LoneTry, Trying
    <3> QED BY <1>1, <2>1, <2>2, <2>4, <3>2, <3>3 DEF Cycles
  <2> QED BY <1>1, <2>3, <2>4
<1> QED BY <1>1, <1>5, <1>6, <1>8, <1>9, <1>10, <1>11, Fresh

LEMMA SucceedsInv ==
    ASSUME AttemptsInv, NEW c \in Callers, Protocol!Succeeds(c)
    PROVE  AttemptsInv'
<1>0. /\ call \in [Callers -> CallType]
      /\ callhist \in [Callers -> [tried : SUBSET (1..N), alone : BOOLEAN]]
  BY DEF AttemptsInv, AttemptsType
<1>1. /\ call[c].pc = "try" /\ working' = TRUE
      /\ call' = [call EXCEPT ![c] = Protocol!Idle]
      /\ callhist' = [callhist EXCEPT ![c] = Protocol!Unseen]
      /\ UNCHANGED <<configured, index, api>>
  BY DEF Protocol!Succeeds
<1>2. Protocol!Unseen \in [tried : SUBSET (1..N), alone : BOOLEAN]
  BY DEF Protocol!Unseen
<1>3. /\ call' \in [Callers -> CallType] /\ call'[c].pc = "idle"
      /\ \A b \in Callers \ {c} : call'[b] = call[b] /\ callhist'[b] = callhist[b]
  BY <1>0, <1>1, IdleType
<1>4. AttemptsType'
  BY <1>0, <1>1, <1>2, <1>3 DEF AttemptsInv, AttemptsType
<1>5. Entered'
  BY <1>1, <1>3 DEF AttemptsInv, Entered
<1>6. Sole'
  BY <1>1, <1>3 DEF AttemptsInv, Sole
<1>7. ~LoneTry(c)'
  BY <1>3 DEF LoneTry, Trying
<1> QED BY <1>1, <1>3, <1>4, <1>5, <1>6, <1>7, Fresh

LEMMA GivesUpInv ==
    ASSUME AttemptsInv, NEW c \in Callers, Protocol!GivesUp(c)
    PROVE  AttemptsInv'
<1>0. /\ N \in Nat \ {0} /\ configured \in 0..N /\ index \in 0..N /\ working \in BOOLEAN /\ api \in 1..N
      /\ call \in [Callers -> CallType]
      /\ callhist \in [Callers -> [tried : SUBSET (1..N), alone : BOOLEAN]]
  BY Numbers DEF AttemptsInv, AttemptsType
<1> DEFINE o == call[c]
           i == o.i + 1
           h == callhist[c]
           stays == [o EXCEPT !.i = i]
           sets == [o EXCEPT !.pc = "set", !.i = i, !.version = Protocol!Rotated]
           tries == h.tried \cup {api}
           noted == IF call'[c] = Protocol!Idle THEN Protocol!Unseen
                   ELSE IF h.alone THEN [h EXCEPT !.tried = tries] ELSE h
<1>1. /\ o.pc = "try"
      /\ working' = (working /\ failures' <= FailureReset)
      /\ IF working'
         THEN /\ call' = [call EXCEPT ![c] = IF i = o.of THEN Protocol!Idle ELSE stays]
              /\ index' = index
         ELSE /\ index' = Protocol!Rotated
              /\ call' = [call EXCEPT ![c] = sets]
      /\ callhist' = [callhist EXCEPT ![c] = noted]
      /\ UNCHANGED <<configured, api>>
  <2>1. /\ call[c].pc = "try"
        /\ working' = (working /\ failures' <= FailureReset)
        /\ UNCHANGED <<configured, api>>
        /\ callhist' = [callhist EXCEPT ![c] = noted]
    BY DEF Protocol!GivesUp, Protocol!Failed
  <2>2. IF working'
        THEN /\ call' = [call EXCEPT ![c] = IF i = o.of THEN Protocol!Idle ELSE stays]
             /\ index' = index
        ELSE /\ index' = Protocol!Rotated
             /\ call' = [call EXCEPT ![c].pc = "set", ![c].i = i, ![c].version = Protocol!Rotated]
    BY DEF Protocol!GivesUp
  <2>3. [call EXCEPT ![c].pc = "set", ![c].i = i, ![c].version = Protocol!Rotated] = [call EXCEPT ![c] = sets]
    BY <1>0
  <2> QED BY <2>1, <2>2, <2>3
<1>2. Protocol!Rotated \in 1..N /\ Protocol!Rotated \in 0..N
  BY <1>0, RotatedIs, Numbers
<1>3. o \in CallType /\ h \in [tried : SUBSET (1..N), alone : BOOLEAN] /\ o.i \in Nat /\ i \in Nat /\ o.of \in Nat
  BY <1>0 DEF CallType
<1>4. index # 0
  BY <1>1 DEF AttemptsInv, Entered
<1>5. o = call[c] /\ h = callhist[c] /\ i = o.i + 1
  OBVIOUS
<1> HIDE DEF o, h, i
<1>6. /\ stays \in CallType /\ stays.pc = o.pc /\ stays.version = o.version
      /\ sets \in CallType /\ sets.pc = "set" /\ sets.i = i /\ sets.of = o.of
      /\ sets.version = Protocol!Rotated
  BY <1>2, <1>3 DEF CallType
<1>7. tries \subseteq 1..N
  BY <1>0, <1>3
<1> HIDE DEF stays, sets, tries
<1>8. /\ noted \in [tried : SUBSET (1..N), alone : BOOLEAN]
      /\ call'[c] # Protocol!Idle => noted.alone = h.alone /\ (h.alone => noted.tried = tries)
  BY <1>3, <1>7 DEF Protocol!Unseen
<1> HIDE DEF noted
<1>9. /\ call' \in [Callers -> CallType] /\ callhist'[c] = noted
      /\ \A b \in Callers \ {c} : call'[b] = call[b] /\ callhist'[b] = callhist[b]
      /\ callhist' \in [Callers -> [tried : SUBSET (1..N), alone : BOOLEAN]]
      /\ \/ working' /\ index' = index /\ call'[c] = Protocol!Idle
         \/ working' /\ index' = index /\ call'[c] = stays
         \/ ~working' /\ index' = Protocol!Rotated /\ call'[c] = sets
  BY <1>0, <1>1, <1>6, <1>8, IdleType
<1>10. AttemptsType'
  <2>1. working' \in BOOLEAN
    BY <1>1
  <2> QED BY <1>0, <1>1, <1>2, <1>9, <2>1 DEF AttemptsType
<1>11. Entered'
  <2>1. index' # 0
    BY <1>0, <1>2, <1>4, <1>9
  <2>2. call'[c].pc \in {"first", "set"} => call'[c].version # 0
    BY <1>1, <1>2, <1>6, <1>9, IdleType
  <2> QED BY <1>9, <2>1, <2>2 DEF AttemptsInv, Entered
<1>12. Sole'
  <2> SUFFICES ASSUME NEW a \in Callers, callhist'[a].alone, call'[a].pc # "idle", NEW b \in Callers \ {a}
               PROVE  call'[b].pc = "idle"
    BY DEF Sole
  <2>1. call[a].pc # "idle" /\ callhist[a].alone
    BY <1>1, <1>5, <1>8, <1>9, IdleType
  <2>2. call[b].pc = "idle"
    BY <2>1 DEF AttemptsInv, Sole
  <2>3. b # c
    BY <1>1, <1>5, <2>2
  <2> QED BY <1>9, <2>2, <2>3
<1>13. LoneTry(c)' => Cycles(c)'
  <2> SUFFICES ASSUME LoneTry(c)' PROVE Cycles(c)'
    OBVIOUS
  <2>1. call'[c] # Protocol!Idle /\ call'[c].of = o.of /\ configured = 0 /\ o.of # Single
    <3>1. stays.of = o.of
      BY <1>3 DEF stays, CallType
    <3> QED BY <1>1, <1>6, <1>9, <3>1, IdleType DEF LoneTry, Trying
  <2>2. h.alone /\ callhist'[c].tried = tries
    BY <1>8, <1>9, <2>1 DEF LoneTry
  <2>3. Cycles(c)
    BY <1>1, <1>5, <2>1, <2>2 DEF AttemptsInv, LoneTry, Trying
  <2>4. ~working
    BY <2>3 DEF Cycles
  <2>5. ~working' /\ index' = Protocol!Rotated /\ call'[c] = sets
    BY <1>1, <1>9, <2>4
  <2>6. Protocol!Rotated = IF index = N THEN 1 ELSE index + 1
    BY <1>0, <1>4, <2>1, RotatedIs
  <2>7. ASSUME NEW v \in 1..N, Behind(v)' < i PROVE v \in tries
    <3>1. CASE v = index
      <4>1. Behind(v)' = 1
        BY <1>0, <1>4, <2>5, <2>6, <3>1 DEF Behind
      <4>2. o.i # 0
        BY <1>3, <1>5, <2>7, <4>1
      <4>3. api = index
        BY <1>1, <1>5, <2>3, <4>2 DEF Cycles
      <4> QED BY <3>1, <4>3 DEF tries
    <3>2. CASE v # index
      <4>1. Behind(v)' = Behind(v) + 1 /\ Behind(v) \in 1..N
        BY <1>0, <1>4, <2>5, <2>6, <3>2 DEF Behind
      <4>2. Behind(v) < o.i
        BY <1>3, <1>5, <2>7, <4>1
      <4> QED BY <1>5, <2>3, <4>2 DEF Cycles, tries
    <3> QED BY <3>1, <3>2
  <2>8. call'[c].of = 2 * N + 1
    BY <1>5, <2>1, <2>3 DEF Cycles
  <2> QED BY <1>6, <2>2, <2>5, <2>7, <2>8 DEF Cycles
<1>14. o.pc # "idle"
  BY <1>1
<1> QED BY <1>1, <1>5, <1>9, <1>10, <1>11, <1>12, <1>13, <1>14, Fresh

LEMMA AttemptsNext == AttemptsInv /\ [Protocol!Next]_callvars => AttemptsInv'
<1> SUFFICES ASSUME AttemptsInv, [Protocol!Next]_callvars PROVE AttemptsInv'
  OBVIOUS
<1>1. CASE UNCHANGED <<configured, index, working, api, call, callhist>>
  BY <1>1 DEF AttemptsInv, AttemptsType, Entered, Sole, LoneTry, Trying, Cycles, Behind
<1>2. CASE Protocol!DeviceChanges
  BY <1>1, <1>2 DEF Protocol!DeviceChanges
<1>3. ASSUME NEW c \in Callers, Protocol!Goes(c) PROVE AttemptsInv'
  BY <1>3, CallsInv, SetsInv, SucceedsInv, GivesUpInv DEF Protocol!Goes
<1> QED BY <1>1, <1>2, <1>3 DEF Protocol!Next, callvars

THEOREM AttemptsInvariant == ObjectSpec => []AttemptsInv
<1>1. ObjectInit => AttemptsInv
  BY AttemptsInit DEF ObjectInit
<1>2. AttemptsInv /\ [ObjectNext]_<<part, vars, callvars, rulevars>> => AttemptsInv'
  BY AttemptsNext DEF ObjectNext
<1> QED BY <1>1, <1>2, PTL DEF ObjectSpec

\* For any number of versions, callers and failures: 2N+1 attempts of a call that
\* nobody disturbs take in every version, whichever the list stands at.
THEOREM AllTried == ObjectSpec => LoneCallTriesAll
<1>1. ASSUME AttemptsInv, NEW c \in Callers, call[c].pc = "set", call[c].i = call[c].of,
             callhist[c].alone, configured = 0, call[c].of # Single
      PROVE  callhist[c].tried = 1..N
  <2>1. Cycles(c)
    BY <1>1 DEF AttemptsInv, LoneTry, Trying
  <2>2. index \in 1..N /\ N \in Nat \ {0}
    BY <1>1, Numbers DEF AttemptsInv, AttemptsType, Entered
  <2>3. ASSUME NEW v \in 1..N PROVE v \in callhist[c].tried
    <3>1. Behind(v) < call[c].i
      BY <1>1, <2>1, <2>2, BehindBound DEF Cycles
    <3> QED BY <2>1, <3>1 DEF Cycles
  <2>4. callhist[c].tried \subseteq 1..N
    BY <1>1 DEF AttemptsInv, AttemptsType
  <2> QED BY <2>3, <2>4
<1>2. AttemptsInv /\ [ObjectNext]_<<part, vars, callvars, rulevars>> =>
          [\A c \in Callers :
              Protocol!LastTried(c) /\ callhist[c].alone /\ configured = Protocol!Auto /\ call[c].of # Single
                 => callhist[c].tried = Protocol!Versions]_(Protocol!vars)
  BY <1>1 DEF Protocol!LastTried, Protocol!Auto, Protocol!Versions
<1> QED BY <1>2, AttemptsInvariant, PTL DEF ObjectSpec, LoneCallTriesAll, Protocol!LoneCallTriesAll

-----------------------------------------------------------------------------
(* Arithmetic of steps and masks.                                          *)

LEMMA Divides ==
    ASSUME NEW a \in Int, NEW b \in Nat \ {0}, NEW k \in Int, NEW r \in Int,
           0 <= r, r < b, a = b * k + r
    PROVE  a \div b = k /\ a % b = r
OBVIOUS

LEMMA Quotient ==
    ASSUME NEW a \in Int, NEW b \in Nat \ {0}
    PROVE  \E k, r \in Int : 0 <= r /\ r < b /\ a = b * k + r
<1>1. a \div b \in Int /\ a % b \in Int /\ 0 <= a % b /\ a % b < b
  OBVIOUS
<1>2. a = b * (a \div b) + (a % b)
  OBVIOUS
<1> QED BY <1>1, <1>2

\* Rounding leaves what is in steps.
LEMMA RoundedExact ==
    ASSUME NEW k \in Int, NEW s \in Nat \ {0}, k % s = 0
    PROVE  Rules!Rounded(k, s) = k
<1>1. PICK j \in Int : k = s * j
  BY Quotient, Divides
<1>2. 2 * k + s = (2 * s) * j + s
  BY <1>1
<1>3. (2 * k + s) \div (2 * s) = j /\ (2 * k + s) % (2 * s) = s
  BY <1>1, <1>2, Divides
<1> QED BY <1>1, <1>3 DEF Rules!Rounded

MaskOK(mask) == mask.low \in Nat \ {0} /\ mask.size \in Nat \ {0}
\* Two masks have no bit in common.
Apart(a, b) ==
    \/ \E t \in Nat \ {0} : b.low = (a.low * a.size) * t
    \/ \E t \in Nat \ {0} : a.low = (b.low * b.size) * t

\* Two values of a datapoint differ in the bits of a mask only, that are k in the second.
Splits(mask, old, new, k) ==
    \E b, c, r \in Int :
       /\ 0 <= c /\ c < mask.size /\ 0 <= r /\ r < mask.low
       /\ old = mask.low * (mask.size * b + c) + r
       /\ new = mask.low * (mask.size * b + k) + r

\* The parts of a datapoint that a mask divides it into.
LEMMA MaskParts ==
    ASSUME NEW old \in Int, NEW mask, MaskOK(mask), NEW k \in Int, 0 <= k, k < mask.size
    PROVE  Splits(mask, old, Rules!Merged(old, mask, k), k)
<1> DEFINE low == mask.low
           size == mask.size
<1>1. low \in Nat \ {0} /\ size \in Nat \ {0}
  BY DEF MaskOK
<1> HIDE DEF low, size
<1>2. PICK a, r \in Int : 0 <= r /\ r < low /\ old = low * a + r
  BY <1>1, Quotient
<1>3. PICK b, c \in Int : 0 <= c /\ c < size /\ a = size * b + c
  BY <1>1, <1>2, Quotient
<1>4. old \div low = a /\ a % size = c
  BY <1>1, <1>2, <1>3, Divides
<1>5. k % size = k
  <2>1. k = size * 0 + k
    BY <1>1
  <2> QED BY <1>1, <2>1, 0 <= k, k < size, Divides DEF size
<1>6. Rules!Merged(old, mask, k) = old - c * low + k * low
  BY <1>4, <1>5 DEF Rules!Merged, low, size
<1>7. old - c * low + k * low = low * (size * b + k) + r
  BY <1>1, <1>2, <1>3
<1> QED BY <1>1, <1>2, <1>3, <1>6, <1>7 DEF low, size, Splits

\* The bits that are replaced are the ones of the mask,
LEMMA MergedOwn ==
    ASSUME NEW old \in Int, NEW mask, MaskOK(mask), NEW k \in Int, 0 <= k, k < mask.size
    PROVE  /\ Rules!Merged(old, mask, k) \in Int
           /\ (Rules!Merged(old, mask, k) \div mask.low) % mask.size = k
<1> DEFINE low == mask.low
           size == mask.size
           new == Rules!Merged(old, mask, k)
<1>1. low \in Nat \ {0} /\ size \in Nat \ {0} /\ k < size
  BY DEF MaskOK
<1>2. PICK b, r \in Int : 0 <= r /\ r < low /\ new = low * (size * b + k) + r
  <2>1. Splits(mask, old, new, k)
    BY MaskParts
  <2> QED BY <2>1 DEF Splits
<1> HIDE DEF low, size, new
<1>3. new \in Int /\ size * b + k \in Int
  BY <1>1, <1>2
<1>4. new \div low = size * b + k
  BY <1>1, <1>2, <1>3, Divides
<1>5. (size * b + k) % size = k
  BY <1>1, <1>3, Divides
<1> QED BY <1>3, <1>4, <1>5 DEF low, size, new

\* and no other ones.
LEMMA MergedOthers ==
    ASSUME NEW old \in Int, NEW mask, MaskOK(mask), NEW k \in Int, 0 <= k, k < mask.size,
           NEW other, MaskOK(other), Apart(mask, other)
    PROVE  (Rules!Merged(old, mask, k) \div other.low) % other.size = (old \div other.low) % other.size
<1> DEFINE low == mask.low
           size == mask.size
           l == other.low
           s == other.size
           new == Rules!Merged(old, mask, k)
<1>1. low \in Nat \ {0} /\ size \in Nat \ {0} /\ l \in Nat \ {0} /\ s \in Nat \ {0} /\ k < size
  BY DEF MaskOK
<1>2. PICK b, c, r \in Int :
         /\ 0 <= c /\ c < size /\ 0 <= r /\ r < low
         /\ old = low * (size * b + c) + r
         /\ new = low * (size * b + k) + r
  <2>1. Splits(mask, old, new, k)
    BY MaskParts
  <2> QED BY <2>1 DEF Splits
<1>3. \/ \E t \in Nat \ {0} : l = (low * size) * t
      \/ \E t \in Nat \ {0} : low = (l * s) * t
  BY DEF Apart
<1> HIDE DEF low, size, l, s, new
<1>4. CASE \E t \in Nat \ {0} : l = (low * size) * t
  <2>1. PICK t \in Nat \ {0} : l = (low * size) * t
    BY <1>4
  <2>2. PICK u, v \in Int : 0 <= v /\ v < t /\ b = t * u + v
    BY Quotient
  <2> DEFINE rest(x) == (low * size) * v + (low * x + r)
  <2>3. ASSUME NEW x \in Int, 0 <= x, x < size
        PROVE  (low * (size * b + x) + r) \div l = u
    <3>1. low * (size * b + x) + r = l * u + rest(x)
      BY <1>1, <1>2, <2>1, <2>2
    <3>2. low * x \in Int /\ 0 <= low * x /\ low * x + low <= low * size
      <4>1. low * (x + 1) <= low * size
        BY <1>1, <2>3
      <4> QED BY <1>1, <2>3, <4>1
    <3>3. (low * size) * (v + 1) <= (low * size) * t
      <4>1. low * size \in Nat
        BY <1>1
      <4> QED BY <4>1, <2>1, <2>2
    <3>4. low * size \in Nat /\ (low * size) * v \in Int /\ 0 <= (low * size) * v
      BY <1>1, <2>2
    <3>5. (low * size) * (v + 1) = (low * size) * v + low * size
      BY <1>1, <2>2
    <3>6. rest(x) \in Int /\ 0 <= rest(x) /\ rest(x) < l
      BY <1>1, <1>2, <2>1, <3>2, <3>3, <3>4, <3>5
    <3>7. low * (size * b + x) + r \in Int
      BY <1>1, <1>2, <2>3
    <3> HIDE DEF rest
    <3> QED BY <1>1, <2>2, <3>1, <3>6, <3>7, Divides
  <2>4. old \div l = u /\ new \div l = u
    BY <1>1, <1>2, <2>3
  <2> QED BY <2>4 DEF l, s, new
<1>5. CASE \E t \in Nat \ {0} : low = (l * s) * t
  <2>1. PICK t \in Nat \ {0} : low = (l * s) * t
    BY <1>5
  <2>2. PICK u, v \in Int : 0 <= v /\ v < l /\ r = l * u + v
    BY <1>1, <1>2, Quotient
  <2>3. PICK w, z \in Int : 0 <= z /\ z < s /\ u = s * w + z
    BY <1>1, <2>2, Quotient
  <2>4. ASSUME NEW x \in Int
        PROVE  ((low * (size * b + x) + r) \div l) % s = z
    <3> DEFINE e == size * b + x
    <3>1. e \in Int
      BY <1>1, <1>2
    <3> HIDE DEF e
    <3>2. low * e + r = l * (s * (t * e + w) + z) + v
      BY <1>1, <1>2, <2>1, <2>2, <2>3, <3>1
    <3>3. t * e + w \in Int /\ s * (t * e + w) + z \in Int /\ low * e + r \in Int
      BY <1>1, <1>2, <2>1, <2>3, <3>1
    <3>4. (low * e + r) \div l = s * (t * e + w) + z
      BY <1>1, <2>2, <3>2, <3>3, Divides
    <3>5. (s * (t * e + w) + z) % s = z
      BY <1>1, <2>3, <3>3, Divides
    <3> QED BY <3>4, <3>5 DEF e
  <2>5. (old \div l) % s = z /\ (new \div l) % s = z
    BY <1>2, <2>4
  <2> QED BY <2>5 DEF l, s, new
<1> QED BY <1>3, <1>4, <1>5

-----------------------------------------------------------------------------
(* Plain device files.                                                     *)

Listed(rules) == \E k \in Nat : DOMAIN rules = 1..k

\* A rule that speaks of its own datapoint, and one that takes numbers as they are.
Local(r) == r # Absent /\ r.redirect = Absent /\ r.mirror = Absent /\ r.target = Absent
Unscaled(r) == r.scale = Absent /\ r.step = Absent /\ r.invert = Absent
HasName(r) == r.value # Absent

Straight(x) == \A i \in DOMAIN x.maps : DOMAIN x.maps[i].conds = {}

\* What a datapoint takes as it is: a whole number if it wants one, and one
\* that its mask has room for.
Fits(x, k) ==
    /\ k \in Rules!Asked
    /\ Rules!IsNumber(k) /\ x.int => k[2] % Unit = 0
    /\ x.mask # Absent => /\ Rules!IsNumber(k) /\ k[2] % Unit = 0
                          /\ 0 <= k[2] \div Unit /\ k[2] \div Unit < x.mask.size

\* A value of a datapoint that has a name of its own, or needs none.
Settles(x, y) ==
    /\ Fits(x, y)
    /\ \/ \E i \in DOMAIN x.maps :
            /\ x.maps[i].dps = y /\ ~x.maps[i].hidden /\ HasName(x.maps[i])
            /\ \A j \in DOMAIN x.maps : ~x.maps[j].hidden /\ x.maps[j].value = x.maps[i].value => j = i
       \/ \A i \in DOMAIN x.maps : x.maps[i].dps = Absent

\* The conditions of a mapping.  One that has a value is about a datapoint that
\* can be set to it, or decides between names of whole numbers.
Conditions(d, n, m) ==
    LET x == d[Rules!Constraint(m, n)]
    IN  /\ Listed(m.conds)
        /\ DOMAIN m.conds # {} => Rules!Constraint(m, n) \in DOMAIN d /\ x.id # d[n].id
        /\ \A i \in DOMAIN m.conds :
              LET c == m.conds[i]
              IN  /\ Local(c) /\ Unscaled(c) /\ ~c.hidden /\ DOMAIN c.maps = {} /\ c.dps # Absent
                  /\ HasName(c) =>
                        /\ ~HasName(m) /\ ~c.invalid /\ c.value \in Rules!Asked /\ c.dps \subseteq Rules!Asked
                        /\ Straight(x) /\ x.mask = Absent /\ \A j \in DOMAIN x.maps : Unscaled(x.maps[j])
                        /\ \A j \in DOMAIN m.conds : c.dps \cap m.conds[j].dps # {} => j = i
                        /\ IF x.readonly THEN d[n].int /\ ~Rules!IsNumber(c.value)
                           ELSE \E y \in c.dps : c.dps = {y} /\ Settles(x, y)

\* A datapoint whose values have names, given by the mapping or its conditions.
ByName(d, n) ==
    LET maps == d[n].maps
    IN  /\ \A i \in DOMAIN maps :
              /\ Local(maps[i]) /\ Unscaled(maps[i]) /\ maps[i].dps # Absent
              /\ HasName(maps[i]) => maps[i].value \in Rules!Asked
              /\ ~maps[i].hidden \/ DOMAIN maps[i].conds # {} => Fits(d[n], maps[i].dps) /\ maps[i].dps # Null
              /\ Conditions(d, n, maps[i])
        /\ \A i, j \in DOMAIN maps : maps[i].dps = maps[j].dps => i = j
        /\ \E i \in DOMAIN maps :
              \/ ~maps[i].hidden /\ HasName(maps[i])
              \/ \E j \in DOMAIN maps[i].conds : HasName(maps[i].conds[j])

\* A datapoint whose values are shown as they are, or as numbers in a scale, in
\* steps, and counted from the other end of the range.
Factor(m) == Rules!Or(m.scale, 1)
Turned(m) == Rules!Or(m.invert, FALSE)
ByNumber(x, asks) ==
    /\ \A i, j \in DOMAIN x.maps : i = j
    /\ DOMAIN x.maps = {} => \A v \in asks : Fits(x, v)
    /\ \A i \in DOMAIN x.maps :
          LET m == x.maps[i]
          IN  /\ Local(m) /\ m.dps = Absent /\ ~HasName(m) /\ ~m.hidden
                  /\ Listed(m.conds) /\ DOMAIN m.conds = {}
              /\ Factor(m) \in Nat \ {0} /\ (m.step = Absent \/ m.step \in Nat \ {0})
              /\ Turned(m) \in BOOLEAN
              /\ x.range = Absent \/ x.range \in Int \X Int
              /\ x.mask # Absent => Unscaled(m)
              /\ \A v \in asks : /\ Rules!IsNumber(v) => v \in {"n"} \X Int
                                 /\ Fits(x, IF Rules!IsNumber(v) THEN <<"n", v[2] * Factor(m)>> ELSE v)
              /\ Turned(m) /\ x.range # Absent =>
                    /\ m.step # Absent => (x.range[1] + x.range[2]) % m.step = 0
                    /\ x.int => (x.range[1] + x.range[2]) % Unit = 0

\* An entity of such datapoints, some of them other bits of one.
Plain(e) ==
    \A n \in DOMAIN e.dps :
        LET x == e.dps[n]
        IN  /\ ByName(e.dps, n) \/ ByNumber(x, e.asks[n])
            /\ Listed(x.maps)
            /\ x.id \in DOMAIN e.raws
            /\ x.mask # Absent =>
                  /\ MaskOK(x.mask) /\ Straight(x)
                  /\ e.raws[x.id] \subseteq {Null} \cup ({"x"} \X Int)
            /\ \A o \in DOMAIN e.dps : o # n /\ e.dps[o].id = x.id =>
                  x.mask # Absent /\ e.dps[o].mask # Absent /\ Apart(x.mask, e.dps[o].mask)

-----------------------------------------------------------------------------
(* Finding the rule.                                                       *)

LEMMA Least ==
    ASSUME NEW T, T \subseteq Nat, T # {}
    PROVE  \E n \in T : \A m \in T : n <= m
<1> DEFINE Below == OpToRel(<, Nat)
<1>1. IsWellFoundedOn(Below, Nat)
  BY NatLessThanWellFounded
<1>2. \A m, n \in Nat : <<m, n>> \in Below <=> m < n
  BY DEF OpToRel
<1> HIDE DEF Below
<1>3. PICK n \in T : \A m \in T : ~(<<m, n>> \in Below)
  BY <1>1, WFMin
<1>4. \A m \in T : ~(m < n)
  BY <1>2, <1>3
<1> QED BY <1>4

LEMMA FirstOne ==
    ASSUME NEW T, T \subseteq Nat, T # {}
    PROVE  Rules!Min(T) \in T
BY Least DEF Rules!Min

LEMMA LastOne ==
    ASSUME NEW T, NEW k \in Nat, T \subseteq 1..k, T # {}
    PROVE  Rules!Max(T) \in T
<1> DEFINE Back == {k - i : i \in T}
<1>1. Back \subseteq Nat /\ Back # {}
  <2>1. \A i \in T : i \in Nat /\ i <= k
    OBVIOUS
  <2>2. \A i \in T : k - i \in Nat
    BY <2>1
  <2> QED BY <2>2
<1>2. PICK b \in Back : \A c \in Back : b <= c
  BY <1>1, Least
<1>3. PICK n \in T : b = k - n
  OBVIOUS
<1>4. \A i \in T : k - n <= k - i
  BY <1>2, <1>3
<1>5. \A i \in T : n >= i
  BY <1>4
<1> QED BY <1>5 DEF Rules!Max

\* The rule that is chosen is one of the first kind there is.
LEMMA ChosenOne ==
    ASSUME NEW rules, Listed(rules), NEW fit \in SUBSET DOMAIN rules,
           NEW near \in SUBSET DOMAIN rules, NEW all \in SUBSET DOMAIN rules
    PROVE  /\ fit # {} => \E i \in fit : Rules!Chosen(rules, fit, near, all) = rules[i]
           /\ fit = {} /\ near # {} => \E i \in near : Rules!Chosen(rules, fit, near, all) = rules[i]
           /\ fit = {} /\ near = {} /\ all # {} => \E i \in all : Rules!Chosen(rules, fit, near, all) = rules[i]
           /\ fit = {} /\ near = {} /\ all = {} => Rules!Chosen(rules, fit, near, all) = Absent
<1>1. PICK k \in Nat : DOMAIN rules = 1..k
  BY DEF Listed
<1>2. fit \subseteq Nat /\ near \subseteq Nat
  BY <1>1
<1>3. fit # {} => Rules!Min(fit) \in fit
  BY <1>2, FirstOne
<1>4. near # {} => Rules!Min(near) \in near
  BY <1>2, FirstOne
<1>5. all # {} => Rules!Max(all) \in all
  BY <1>1, LastOne
<1> QED BY <1>3, <1>4, <1>5 DEF Rules!Chosen

\* The condition in force is one that holds now,
LEMMA ConditionNow ==
    ASSUME NEW d, NEW n, NEW q, NEW m, Listed(m.conds)
    PROVE  /\ Rules!HoldNow(d, n, q, m) # {} =>
                \E i \in Rules!HoldNow(d, n, q, m) : Rules!ActiveCondition(d, n, q, m, Absent) = m.conds[i]
           /\ Rules!HoldNow(d, n, q, m) = {} => Rules!ActiveCondition(d, n, q, m, Absent) = Absent
<1> DEFINE fit == {i \in DOMAIN m.conds : Absent # Absent /\ m.conds[i].value = Absent}
           hold == Rules!HoldNow(d, n, q, m)
<1>1. fit = {} /\ hold \in SUBSET DOMAIN m.conds
  BY DEF Rules!HoldNow
<1>2. Rules!ActiveCondition(d, n, q, m, Absent) = Rules!Chosen(m.conds, fit, {}, hold)
  BY DEF Rules!ActiveCondition
<1> HIDE DEF fit, hold
<1> QED BY <1>1, <1>2, ChosenOne DEF fit, hold

\* and for a value that is set, one of that value if there is one.
LEMMA ConditionFor ==
    ASSUME NEW d, NEW n, NEW q, NEW m, Listed(m.conds), NEW v, v # Absent
    PROVE  /\ (\E j \in DOMAIN m.conds : m.conds[j].value = v) =>
                \E i \in DOMAIN m.conds : m.conds[i].value = v /\ Rules!ActiveCondition(d, n, q, m, v) = m.conds[i]
           /\ ~(\E j \in DOMAIN m.conds : m.conds[j].value = v) =>
                Rules!ActiveCondition(d, n, q, m, v) = Rules!ActiveCondition(d, n, q, m, Absent)
<1> DEFINE fit(w) == {i \in DOMAIN m.conds : w # Absent /\ m.conds[i].value = w}
           hold == Rules!HoldNow(d, n, q, m)
<1>1. hold \in SUBSET DOMAIN m.conds
  BY DEF Rules!HoldNow
<1>2. \A w : Rules!ActiveCondition(d, n, q, m, w) = Rules!Chosen(m.conds, fit(w), {}, hold)
  BY DEF Rules!ActiveCondition
<1>3. fit(Absent) = {} /\ fit(v) = {i \in DOMAIN m.conds : m.conds[i].value = v}
  OBVIOUS
<1> HIDE DEF fit, hold
<1>4. CASE \E j \in DOMAIN m.conds : m.conds[j].value = v
  <2>1. fit(v) # {} /\ fit(v) \in SUBSET DOMAIN m.conds
    BY <1>3, <1>4
  <2>2. \E i \in fit(v) : Rules!Chosen(m.conds, fit(v), {}, hold) = m.conds[i]
    BY <1>1, <2>1, ChosenOne
  <2> QED BY <1>2, <1>3, <1>4, <2>2
<1>5. CASE ~\E j \in DOMAIN m.conds : m.conds[j].value = v
  <2>1. fit(v) = {}
    BY <1>3, <1>5
  <2> QED BY <1>2, <1>3, <1>5, <2>1
<1> QED BY <1>4, <1>5

\* The mapping of what a datapoint is.
LEMMA MapOfName ==
    ASSUME NEW d, NEW n, ByName(d, n), Listed(d[n].maps), NEW k
    PROVE  /\ \A i \in DOMAIN d[n].maps : d[n].maps[i].dps = k => Rules!MapForDps(d, n, k) = d[n].maps[i]
           /\ (\A i \in DOMAIN d[n].maps : d[n].maps[i].dps # k) => Rules!MapForDps(d, n, k) = Absent
<1> DEFINE maps == d[n].maps
           fit == {i \in DOMAIN maps : maps[i].dps = k}
           all == {i \in DOMAIN maps : maps[i].dps = Absent}
<1>1. Rules!MapForDps(d, n, k) = Rules!Chosen(maps, fit, {}, all)
  BY DEF Rules!MapForDps
<1>2. all = {} /\ \A i, j \in DOMAIN maps : maps[i].dps = maps[j].dps => i = j
  BY DEF ByName
<1>3. fit \in SUBSET DOMAIN maps /\ Listed(maps)
  OBVIOUS
<1>4. /\ fit # {} => \E i \in fit : Rules!Chosen(maps, fit, {}, all) = maps[i]
      /\ fit = {} => Rules!Chosen(maps, fit, {}, all) = Absent
  <2> HIDE DEF maps, fit, all
  <2> QED BY <1>2, <1>3, ChosenOne
<1> QED BY <1>1, <1>2, <1>4

LEMMA MapOfNumber ==
    ASSUME NEW d, NEW n, NEW asks, ByNumber(d[n], asks), Listed(d[n].maps), NEW k
    PROVE  /\ \A i \in DOMAIN d[n].maps : Rules!MapForDps(d, n, k) = d[n].maps[i]
           /\ DOMAIN d[n].maps = {} => Rules!MapForDps(d, n, k) = Absent
<1> DEFINE maps == d[n].maps
           fit == {i \in DOMAIN maps : maps[i].dps = k}
           all == {i \in DOMAIN maps : maps[i].dps = Absent}
<1>1. Rules!MapForDps(d, n, k) = Rules!Chosen(maps, fit, {}, all)
  BY DEF Rules!MapForDps
<1>2. all = DOMAIN maps /\ \A i, j \in DOMAIN maps : i = j
  BY DEF ByNumber
<1>3. fit \in SUBSET DOMAIN maps /\ Listed(maps)
  OBVIOUS
<1>4. /\ DOMAIN maps # {} => \E i \in DOMAIN maps : Rules!Chosen(maps, fit, {}, all) = maps[i]
      /\ DOMAIN maps = {} => Rules!Chosen(maps, fit, {}, all) = Absent
  <2> HIDE DEF maps, fit, all
  <2> QED BY <1>2, <1>3, ChosenOne
<1> QED BY <1>1, <1>2, <1>4

-----------------------------------------------------------------------------
(* Reading.                                                                *)

OfKind(d, n) == Listed(d[n].maps) /\ (ByName(d, n) \/ \E asks : ByNumber(d[n], asks))
AllOfKind(d) == \A n \in DOMAIN d : OfKind(d, n)

\* A rule that sends nobody elsewhere, and one that takes numbers as they are.
Here(rule) == (rule.map = Absent \/ Local(rule.map)) /\ (rule.cond = Absent \/ Local(rule.cond))
AsIs(rule) == (rule.map = Absent \/ Unscaled(rule.map)) /\ (rule.cond = Absent \/ Unscaled(rule.cond))

LEMMA NoRedirect ==
    ASSUME NEW rule, Here(rule)
    PROVE  /\ Rules!Setting(rule, "redirect", Absent) = Absent
           /\ Rules!Setting(rule, "mirror", Absent) = Absent
           /\ Rules!Setting(rule, "target", Absent) = Absent
BY DEF Here, Local, Rules!Setting, Rules!Or

LEMMA NoScale ==
    ASSUME NEW rule, AsIs(rule)
    PROVE  /\ Rules!Setting(rule, "scale", 1) = 1
           /\ Rules!Setting(rule, "step", Absent) = Absent
           /\ Rules!Setting(rule, "invert", FALSE) = FALSE
<1>1. Rules!Setting(rule, "scale", 1) = 1
  BY DEF AsIs, Unscaled, Rules!Setting, Rules!Or
<1>2. Rules!Setting(rule, "step", Absent) = Absent
  BY DEF AsIs, Unscaled, Rules!Setting, Rules!Or
<1>3. Rules!Setting(rule, "invert", FALSE) = FALSE
  BY DEF AsIs, Unscaled, Rules!Setting, Rules!Or
<1> QED BY <1>1, <1>2, <1>3

\* The condition in force of a mapping is one of its conditions.
LEMMA ConditionIsOne ==
    ASSUME NEW d, NEW n, NEW q, NEW m, Listed(m.conds), NEW v
    PROVE  Rules!ActiveCondition(d, n, q, m, v) \in {Absent} \cup {m.conds[i] : i \in DOMAIN m.conds}
<1>1. Rules!HoldNow(d, n, q, m) \subseteq DOMAIN m.conds
  BY DEF Rules!HoldNow
<1>2. Rules!ActiveCondition(d, n, q, m, Absent) \in {Absent} \cup {m.conds[i] : i \in DOMAIN m.conds}
  BY <1>1, ConditionNow
<1>3. CASE v = Absent
  BY <1>2, <1>3
<1>4. CASE v # Absent
  BY <1>2, <1>4, ConditionFor
<1> QED BY <1>3, <1>4

LEMMA MapIsOne ==
    ASSUME NEW d, NEW n, OfKind(d, n), NEW k
    PROVE  Rules!MapForDps(d, n, k) \in {Absent} \cup {d[n].maps[i] : i \in DOMAIN d[n].maps}
<1>1. CASE ByName(d, n)
  BY <1>1, MapOfName DEF OfKind
<1>2. CASE \E asks : ByNumber(d[n], asks)
  BY <1>2, MapOfNumber DEF OfKind
<1> QED BY <1>1, <1>2 DEF OfKind

LEMMA MapsListed ==
    ASSUME NEW d, NEW n, OfKind(d, n), NEW i \in DOMAIN d[n].maps
    PROVE  /\ Listed(d[n].maps[i].conds) /\ Local(d[n].maps[i])
           /\ \A j \in DOMAIN d[n].maps[i].conds : Local(d[n].maps[i].conds[j])
<1>1. CASE ByName(d, n)
  BY <1>1 DEF ByName, Conditions
<1>2. CASE \E asks : ByNumber(d[n], asks)
  BY <1>2 DEF ByNumber
<1> QED BY <1>1, <1>2 DEF OfKind

LEMMA RuleHere ==
    ASSUME NEW d, NEW n, OfKind(d, n), NEW q, NEW v, NEW m,
           m \in {Absent} \cup {d[n].maps[i] : i \in DOMAIN d[n].maps}
    PROVE  /\ Here(Rules!InForce(d, n, q, m, v))
           /\ Rules!InForce(d, n, q, m, v).map = m
           /\ m = Absent => Rules!InForce(d, n, q, m, v).cond = Absent
           /\ m # Absent => Rules!InForce(d, n, q, m, v).cond = Rules!ActiveCondition(d, n, q, m, v)
<1> DEFINE rule == Rules!InForce(d, n, q, m, v)
<1>1. /\ rule.map = m
      /\ m = Absent => rule.cond = Absent
      /\ m # Absent => rule.cond = Rules!ActiveCondition(d, n, q, m, v)
  BY DEF Rules!InForce
<1> HIDE DEF rule
<1>2. CASE m = Absent
  BY <1>1, <1>2 DEF Here, rule
<1>3. CASE m # Absent
  <2>1. PICK i \in DOMAIN d[n].maps : m = d[n].maps[i]
    BY <1>3
  <2>2. Listed(m.conds) /\ Local(m) /\ \A j \in DOMAIN m.conds : Local(m.conds[j])
    BY <2>1, MapsListed
  <2>3. rule.cond = Absent \/ Local(rule.cond)
    BY <1>1, <1>3, <2>2, ConditionIsOne
  <2> QED BY <1>1, <1>3, <2>2, <2>3 DEF Here, rule
<1> QED BY <1>2, <1>3

\* What is shown is found without what other datapoints show.
LEMMA FlatRead ==
    ASSUME NEW d, NEW n, OfKind(d, n), NEW q, NEW v, NEW s, NEW t
    PROVE  Rules!MapFromDps(d, n, q, v, s) = Rules!MapFromDps(d, n, q, v, t)
<1> DEFINE rule == Rules!InForce(d, n, q, Rules!MapForDps(d, n, v), Absent)
<1>1. Here(rule)
  BY MapIsOne, RuleHere
<1> HIDE DEF rule
<1>2. Rules!Setting(rule, "redirect", Rules!Setting(rule, "mirror", Absent)) = Absent
  BY <1>1, NoRedirect
<1>3. Rules!Applied(d, n, q, v, rule, s) = Rules!Applied(d, n, q, v, rule, t)
  BY <1>2 DEF Rules!Applied
<1> QED BY <1>3 DEF Rules!MapFromDps, rule

LEMMA ValueIs ==
    ASSUME NEW d, AllOfKind(d), NEW q, NEW n \in DOMAIN d
    PROVE  Rules!Value(d, n, q) = Rules!MapFromDps(d, n, q, Rules!Bits(d, n, Rules!Raw(d, n, q)), <<>>)
<1> DEFINE F(s) == [x \in DOMAIN d |-> Rules!MapFromDps(d, x, q, Rules!Bits(d, x, Rules!Raw(d, x, q)), s)]
           g == F(<<>>)
           shown == CHOOSE s : s = F(s)
<1>1. F(g) = F(<<>>)
  <2>1. \A x \in DOMAIN d : Rules!MapFromDps(d, x, q, Rules!Bits(d, x, Rules!Raw(d, x, q)), g)
                             = Rules!MapFromDps(d, x, q, Rules!Bits(d, x, Rules!Raw(d, x, q)), <<>>)
    <3> HIDE DEF g
    <3> QED BY FlatRead DEF AllOfKind
  <2> HIDE DEF g
  <2> QED BY <2>1
<1>2. \E s : s = F(s)
  <2>1. g = F(g)
    BY <1>1
  <2> HIDE DEF g
  <2> QED BY <2>1
<1>3. shown = F(shown)
  <2> HIDE DEF F
  <2> QED BY <1>2
<1>4. Rules!Value(d, n, q) = shown[n]
  BY DEF Rules!Value, Rules!Shown
<1> HIDE DEF shown
<1>5. shown[n] = Rules!MapFromDps(d, n, q, Rules!Bits(d, n, Rules!Raw(d, n, q)), shown)
  BY <1>3
<1>6. OfKind(d, n)
  BY DEF AllOfKind
<1> QED BY <1>4, <1>5, <1>6, FlatRead

LEMMA NumberIs ==
    ASSUME NEW v \in Rules!Asked, Rules!IsNumber(v)
    PROVE  v[2] \in Int /\ v = <<"n", v[2]>>
<1>1. v # Null /\ v[1] = "n"
  BY DEF Rules!IsNumber
<1>2. \/ v \in {"n", "x"} \X Int
      \/ v \in {"s"} \X STRING
      \/ v \in {"b"} \X BOOLEAN
  BY <1>1 DEF Rules!Asked
<1>3. v \notin {"s"} \X STRING /\ v \notin {"b"} \X BOOLEAN
  BY <1>1
<1>4. v \in {"n", "x"} \X Int
  BY <1>2, <1>3
<1> QED BY <1>1, <1>4

LEMMA Tagged ==
    ASSUME NEW k \in Int
    PROVE  /\ <<"n", k>> \in Rules!Asked /\ Rules!IsNumber(<<"n", k>>)
           /\ <<"n", k>>[2] = k /\ <<"n", k>> # Absent /\ <<"n", k>> # Null
<1>1. <<"n", k>> \in {"n", "x"} \X Int
  OBVIOUS
<1>2. <<"n", k>> # Absent /\ <<"n", k>> # Null
  BY <1>1, ObjectAssumption DEF ObjectAssumption
<1> QED BY <1>1, <1>2 DEF Rules!Asked, Rules!IsNumber

LEMMA AskedPresent == Absent \notin Rules!Asked
BY ObjectAssumption DEF ObjectAssumption, Rules!Asked

LEMMA OneDivides == \A k \in Int : k \div 1 = k
OBVIOUS

LEMMA NamesAsIs ==
    ASSUME NEW d, NEW n, ByName(d, n), Listed(d[n].maps), NEW q, NEW v, NEW m,
           m \in {Absent} \cup {d[n].maps[i] : i \in DOMAIN d[n].maps}
    PROVE  AsIs(Rules!InForce(d, n, q, m, v)) /\ Here(Rules!InForce(d, n, q, m, v))
<1> DEFINE rule == Rules!InForce(d, n, q, m, v)
<1>1. OfKind(d, n)
  BY DEF OfKind
<1>2. /\ Here(rule) /\ rule.map = m
      /\ m = Absent => rule.cond = Absent
      /\ m # Absent => rule.cond = Rules!ActiveCondition(d, n, q, m, v)
  BY <1>1, RuleHere
<1> HIDE DEF rule
<1>3. CASE m = Absent
  BY <1>2, <1>3 DEF AsIs, rule
<1>4. CASE m # Absent
  <2>1. PICK i \in DOMAIN d[n].maps : m = d[n].maps[i]
    BY <1>4
  <2>2. Listed(m.conds) /\ Unscaled(m) /\ \A j \in DOMAIN m.conds : Unscaled(m.conds[j])
    BY <2>1 DEF ByName, Conditions
  <2>3. rule.cond = Absent \/ Unscaled(rule.cond)
    BY <1>2, <1>4, <2>2, ConditionIsOne
  <2> QED BY <1>2, <2>2, <2>3 DEF AsIs, rule
<1> QED BY <1>3, <1>4

LEMMA NamesUnscaled ==
    ASSUME NEW d, NEW n, ByName(d, n), Listed(d[n].maps), NEW q
    PROVE  Rules!Scale(d, n, q) = 1
<1>1. OfKind(d, n)
  BY DEF OfKind
<1>2. Rules!Current(d, n, q) \in {Absent} \cup {d[n].maps[i] : i \in DOMAIN d[n].maps}
  BY <1>1, MapIsOne DEF Rules!Current
<1>3. AsIs(Rules!InForce(d, n, q, Rules!Current(d, n, q), Absent))
  BY <1>2, NamesAsIs
<1> QED BY <1>3, NoScale DEF Rules!Scale, Rules!CurrentSetting

LEMMA PresentedAsIs ==
    ASSUME NEW d, NEW n, NEW q, Rules!Scale(d, n, q) = 1,
           NEW rule, AsIs(rule), Here(rule), NEW v \in Rules!Asked
    PROVE  Rules!Presented(d, n, q, rule, v) = v
<1>1. CASE ~Rules!IsNumber(v)
  BY <1>1 DEF Rules!Presented
<1>2. CASE Rules!IsNumber(v)
  <2>1. v[2] \in Int /\ v = <<"n", v[2]>>
    BY <1>2, NumberIs, Zenon
  <2>2. Rules!Inverted(v[2], rule, d[n].range) = v[2]
    BY NoScale DEF Rules!Inverted
  <2>3. Rules!Rescaled(v[2], d[n].range, Absent) = v[2]
    BY DEF Rules!Rescaled
  <2>4. Rules!Setting(rule, "target", Absent) = Absent
    BY NoRedirect
  <2>5. Rules!Presented(d, n, q, rule, v) = <<"n", v[2] \div 1>>
    BY <1>2, <2>2, <2>3, <2>4 DEF Rules!Presented
  <2> QED BY <2>1, <2>5, OneDivides
<1> QED BY <1>1, <1>2

\* At most one of the conditions with a value holds, and no other with it.
LEMMA HoldAlone ==
    ASSUME NEW d, NEW n, NEW q, NEW m, Conditions(d, n, m),
           NEW i \in Rules!HoldNow(d, n, q, m), HasName(m.conds[i])
    PROVE  Rules!HoldNow(d, n, q, m) = {i}
<1>1. \A j \in Rules!HoldNow(d, n, q, m) :
         j \in DOMAIN m.conds /\ Rules!Raw(d, Rules!Constraint(m, n), q) \in m.conds[j].dps
  BY DEF Rules!HoldNow, Rules!EqualOrIn
<1>2. \A j \in DOMAIN m.conds : m.conds[i].dps \cap m.conds[j].dps # {} => j = i
  BY <1>1 DEF Conditions
<1> QED BY <1>1, <1>2

\* What a datapoint of a mapping shows: the name of the condition that holds,
\* or the mapping's.
NameReads(d, n, q, m) ==
    LET shows == Rules!MapFromDps(d, n, q, m.dps, <<>>)
        c == Rules!ActiveCondition(d, n, q, m, Absent)
    IN  /\ \A j \in Rules!HoldNow(d, n, q, m) : HasName(m.conds[j]) => shows = m.conds[j].value
        /\ HasName(m) /\ ~(c # Absent /\ c.invalid) => shows = m.value

LEMMA NameShows ==
    ASSUME NEW d, NEW n, ByName(d, n), Listed(d[n].maps), NEW q, NEW i \in DOMAIN d[n].maps
    PROVE  NameReads(d, n, q, d[n].maps[i])
<1> DEFINE m == d[n].maps[i]
           c == Rules!ActiveCondition(d, n, q, m, Absent)
           rule == Rules!InForce(d, n, q, m, Absent)
           shows == Rules!MapFromDps(d, n, q, m.dps, <<>>)
           base == Rules!Setting(rule, "value", m.dps)
<1>1. OfKind(d, n) /\ m # Absent
  BY DEF OfKind, ByName, Local
<1>2. AsIs(rule) /\ Here(rule) /\ rule.map = m /\ rule.cond = c
  BY <1>1, NamesAsIs, RuleHere
<1>3. Rules!MapForDps(d, n, m.dps) = m
  BY MapOfName
<1>4. shows = Rules!Applied(d, n, q, m.dps, rule, <<>>)
  BY <1>3 DEF Rules!MapFromDps
<1>5. Rules!Scale(d, n, q) = 1
  BY NamesUnscaled
<1>6. Conditions(d, n, m) /\ Listed(m.conds) /\ (HasName(m) => m.value \in Rules!Asked)
  BY DEF ByName, Conditions
<1>7. /\ Rules!Setting(rule, "redirect", Rules!Setting(rule, "mirror", Absent)) = Absent
  BY <1>2, NoRedirect
<1> HIDE DEF m, c, rule, shows
<1>8. c = Absent \/ \E j \in DOMAIN m.conds : c = m.conds[j]
  BY <1>6, ConditionIsOne DEF c
<1>9. ASSUME base \in Rules!Asked, ~(c # Absent /\ c.invalid)
      PROVE  shows = base
  <2>1. Rules!Nested(rule, "dps", base, "value", base) = base
    <3>1. c # Absent => DOMAIN c.maps = {}
      BY <1>6, <1>8 DEF Conditions
    <3> HIDE DEF base
    <3>2. {x \in DOMAIN (IF rule.cond = Absent THEN <<>> ELSE rule.cond.maps) : TRUE} = {}
      BY <1>2, <3>1
    <3> QED BY <1>2, <3>1, <3>2 DEF Rules!Nested
  <2>2. Rules!Presented(d, n, q, rule, base) = base
    BY <1>2, <1>5, <1>9, PresentedAsIs
  <2> QED BY <1>2, <1>4, <1>7, <1>9, <2>1, <2>2 DEF Rules!Applied
<1>10. ASSUME NEW j \in Rules!HoldNow(d, n, q, m), HasName(m.conds[j])
       PROVE  shows = m.conds[j].value
  <2>1. Rules!HoldNow(d, n, q, m) = {j} /\ j \in DOMAIN m.conds
    BY <1>6, <1>10, HoldAlone DEF Rules!HoldNow
  <2>2. c = m.conds[j]
    BY <1>6, <2>1, ConditionNow DEF c
  <2>3. Local(c) /\ ~c.invalid /\ c.value \in Rules!Asked
    BY <1>6, <1>10, <2>1, <2>2 DEF Conditions
  <2>4. base = c.value
    BY <1>1, <1>2, <1>10, <2>2, <2>3 DEF Rules!Setting, Local, HasName
  <2> QED BY <1>9, <2>2, <2>3, <2>4
<1>11. ASSUME HasName(m), ~(c # Absent /\ c.invalid)
       PROVE  shows = m.value
  <2>1. c # Absent => c.value = Absent
    BY <1>6, <1>8, <1>11 DEF Conditions, HasName
  <2>2. base = m.value
    BY <1>1, <1>2, <1>11, <2>1 DEF Rules!Setting, HasName, Rules!Or
  <2> QED BY <1>6, <1>9, <1>11, <2>2
<1> QED BY <1>10, <1>11 DEF NameReads, m, c, shows

\* What a datapoint shows that has no names.
ShownAs(x, v, shows) ==
    /\ (\A i \in DOMAIN x.maps : Unscaled(x.maps[i])) \/ ~Rules!IsNumber(v) => shows = v
    /\ \A i \in DOMAIN x.maps :
          Rules!IsNumber(v) =>
            shows = <<"n", (IF Turned(x.maps[i]) /\ x.range # Absent
                            THEN x.range[1] + x.range[2] - v[2] ELSE v[2]) \div Factor(x.maps[i])>>

LEMMA NumberShows ==
    ASSUME NEW d, NEW n, NEW asks, ByNumber(d[n], asks), Listed(d[n].maps), NEW q, NEW v \in Rules!Asked
    PROVE  ShownAs(d[n], v, Rules!MapFromDps(d, n, q, v, <<>>))
<1> DEFINE m == Rules!MapForDps(d, n, v)
           rule == Rules!InForce(d, n, q, m, Absent)
           shows == Rules!MapFromDps(d, n, q, v, <<>>)
           now == Rules!InForce(d, n, q, Rules!Current(d, n, q), Absent)
<1>0. \A i \in DOMAIN d[n].maps : m = d[n].maps[i]
  <2>1. /\ \A i \in DOMAIN d[n].maps : Rules!MapForDps(d, n, v) = d[n].maps[i]
        /\ DOMAIN d[n].maps = {} => Rules!MapForDps(d, n, v) = Absent
    BY MapOfNumber, Zenon
  <2> QED BY <2>1
<1>1. OfKind(d, n)
  BY DEF OfKind
<1>2. /\ m \in {Absent} \cup {d[n].maps[i] : i \in DOMAIN d[n].maps}
      /\ Rules!Current(d, n, q) = m
  <2>1. CASE DOMAIN d[n].maps = {}
    BY <2>1, MapOfNumber DEF Rules!Current
  <2>2. CASE DOMAIN d[n].maps # {}
    BY <2>2, MapOfNumber DEF Rules!Current
  <2> QED BY <2>1, <2>2
<1> HIDE DEF m
<1>3. Here(rule) /\ rule.map = m /\ rule.cond = Absent
  <2>1. m # Absent => Listed(m.conds) /\ DOMAIN m.conds = {}
    BY <1>2 DEF ByNumber
  <2>2. m # Absent => Rules!ActiveCondition(d, n, q, m, Absent) = Absent
    BY <2>1, ConditionIsOne
  <2> QED BY <1>1, <1>2, <2>2, RuleHere
<1>4. now = rule
  BY <1>2
<1>5. shows = Rules!Applied(d, n, q, v, rule, <<>>)
  BY DEF Rules!MapFromDps, m
<1>6. Rules!Setting(rule, "redirect", Rules!Setting(rule, "mirror", Absent)) = Absent
  BY <1>3, NoRedirect
<1>7. Rules!Setting(rule, "value", v) = v
  BY <1>2, <1>3 DEF Rules!Setting, Rules!Or, ByNumber, HasName
<1>8. Rules!Nested(rule, "dps", v, "value", v) = v
  BY <1>3 DEF Rules!Nested
<1>9. shows = Rules!Presented(d, n, q, rule, v)
  BY <1>3, <1>5, <1>6, <1>7, <1>8 DEF Rules!Applied
<1>10. ~Rules!IsNumber(v) => shows = v
  BY <1>9 DEF Rules!Presented
<1>11. ASSUME \A i \in DOMAIN d[n].maps : Unscaled(d[n].maps[i])
       PROVE  shows = v
  <2>1. AsIs(rule)
    BY <1>2, <1>3, <1>11 DEF AsIs
  <2>2. Rules!Scale(d, n, q) = 1
    BY <1>4, <2>1, NoScale DEF Rules!Scale, Rules!CurrentSetting
  <2> QED BY <1>3, <1>9, <2>1, <2>2, PresentedAsIs
<1>12. ASSUME NEW i \in DOMAIN d[n].maps, Rules!IsNumber(v)
       PROVE  shows = <<"n", (IF Turned(d[n].maps[i]) /\ d[n].range # Absent
                              THEN d[n].range[1] + d[n].range[2] - v[2] ELSE v[2])
                             \div Factor(d[n].maps[i])>>
  <2>1. m = d[n].maps[i]
    BY <1>0
  <2>a. m # Absent
    BY <2>1 DEF ByNumber, Local
  <2>2. Rules!Scale(d, n, q) = Factor(m)
    BY <1>3, <1>4, <2>a DEF Rules!Scale, Rules!CurrentSetting, Rules!Setting, Factor
  <2>3. Rules!Setting(rule, "invert", FALSE) = Turned(m)
    BY <1>3, <2>a DEF Rules!Setting, Turned
  <2>4. Rules!Setting(rule, "target", Absent) = Absent
    BY <1>3, NoRedirect
  <2>5. shows = <<"n", Rules!Inverted(v[2], rule, d[n].range) \div Factor(m)>>
    BY <1>9, <1>12, <2>2, <2>4 DEF Rules!Presented, Rules!Rescaled
  <2>6. Turned(m) \in BOOLEAN
    BY <2>1 DEF ByNumber
  <2>7. Rules!Inverted(v[2], rule, d[n].range)
        = IF Turned(m) /\ d[n].range # Absent THEN d[n].range[1] + d[n].range[2] - v[2] ELSE v[2]
    BY <2>3, <2>6 DEF Rules!Inverted
  <2> QED BY <2>1, <2>5, <2>7
<1> QED BY <1>10, <1>11, <1>12 DEF ShownAs

LEMMA NoMap ==
    ASSUME NEW d, NEW n, NEW q, Rules!Scale(d, n, q) = 1, NEW v \in Rules!Asked,
           Rules!MapForDps(d, n, v) = Absent
    PROVE  Rules!MapFromDps(d, n, q, v, <<>>) = v
<1> DEFINE rule == Rules!InForce(d, n, q, Absent, Absent)
<1>1. rule.map = Absent /\ rule.cond = Absent
  BY DEF Rules!InForce
<1>2. Rules!MapFromDps(d, n, q, v, <<>>) = Rules!Applied(d, n, q, v, rule, <<>>)
  BY DEF Rules!MapFromDps
<1> HIDE DEF rule
<1>3. Here(rule) /\ AsIs(rule)
  BY <1>1 DEF Here, AsIs
<1>4. Rules!Setting(rule, "value", v) = v
  BY <1>1 DEF Rules!Setting
<1>5. Rules!Setting(rule, "redirect", Rules!Setting(rule, "mirror", Absent)) = Absent
  BY <1>3, NoRedirect
<1>6. Rules!Nested(rule, "dps", v, "value", v) = v
  BY <1>1 DEF Rules!Nested
<1>7. Rules!Presented(d, n, q, rule, v) = v
  BY <1>3, PresentedAsIs
<1> QED BY <1>1, <1>2, <1>4, <1>5, <1>6, <1>7 DEF Rules!Applied

\* A datapoint with no conditions shows a value by its name, or as it is.
LEMMA StraightShows ==
    ASSUME NEW d, NEW n, OfKind(d, n), Straight(d[n]),
           \A i \in DOMAIN d[n].maps : Unscaled(d[n].maps[i]),
           NEW q, NEW v \in Rules!Asked
    PROVE  LET shows == Rules!MapFromDps(d, n, q, v, <<>>)
               maps == d[n].maps
           IN  /\ shows \in Rules!Asked
               /\ \A i \in DOMAIN maps : maps[i].dps = v /\ HasName(maps[i]) => shows = maps[i].value
               /\ (\A i \in DOMAIN maps : maps[i].dps = Absent) => shows = v
<1> DEFINE shows == Rules!MapFromDps(d, n, q, v, <<>>)
           maps == d[n].maps
<1>0. v # Absent /\ Listed(maps)
  BY AskedPresent DEF OfKind
<1>1. CASE \E asks : ByNumber(d[n], asks)
  <2>1. PICK asks : ByNumber(d[n], asks)
    BY <1>1
  <2>2. shows = v
    BY <1>0, <2>1, NumberShows DEF ShownAs
  <2>3. \A i \in DOMAIN maps : maps[i].dps = Absent
    BY <2>1 DEF ByNumber
  <2> QED BY <1>0, <2>2, <2>3
<1>2. CASE ByName(d, n)
  <2>1. \A i \in DOMAIN maps : maps[i].dps # Absent
    BY <1>2 DEF ByName
  <2>2. DOMAIN maps # {}
    BY <1>2 DEF ByName
  <2>3. ASSUME NEW i \in DOMAIN maps, maps[i].dps = v, HasName(maps[i])
        PROVE  shows = maps[i].value /\ shows \in Rules!Asked
    <3>1. DOMAIN maps[i].conds = {} /\ Listed(maps[i].conds)
      BY <1>2 DEF Straight, ByName, Conditions
    <3>2. Rules!HoldNow(d, n, q, maps[i]) = {}
      BY <3>1 DEF Rules!HoldNow
    <3>3. Rules!ActiveCondition(d, n, q, maps[i], Absent) = Absent
      BY <3>1, <3>2, ConditionNow
    <3>4. NameReads(d, n, q, maps[i])
      BY <1>0, <1>2, NameShows
    <3>5. shows = maps[i].value
      BY <2>3, <3>3, <3>4 DEF NameReads
    <3> QED BY <1>2, <2>3, <3>5 DEF ByName
  <2>4. ASSUME NEW i \in DOMAIN maps, maps[i].dps = v, ~HasName(maps[i])
        PROVE  shows = v
    <3> DEFINE m == maps[i]
               rule == Rules!InForce(d, n, q, m, Absent)
    <3>1. m # Absent /\ DOMAIN m.conds = {} /\ Listed(m.conds)
      BY <1>2 DEF Straight, ByName, Conditions, Local
    <3>2. Rules!ActiveCondition(d, n, q, m, Absent) = Absent
      BY <3>1, ConditionIsOne
    <3>3. rule.map = m /\ rule.cond = Absent
      BY <3>1, <3>2 DEF Rules!InForce
    <3>4. AsIs(rule) /\ Here(rule)
      BY <1>0, <1>2, NamesAsIs
    <3>5. shows = Rules!Applied(d, n, q, v, rule, <<>>)
      BY <1>0, <1>2, <2>4, MapOfName DEF Rules!MapFromDps
    <3> HIDE DEF rule
    <3>6. Rules!Setting(rule, "value", v) = v
      BY <2>4, <3>3 DEF Rules!Setting, Rules!Or, HasName
    <3>7. Rules!Setting(rule, "redirect", Rules!Setting(rule, "mirror", Absent)) = Absent
      BY <3>4, NoRedirect
    <3>8. Rules!Nested(rule, "dps", v, "value", v) = v
      BY <3>3 DEF Rules!Nested
    <3>9. Rules!Scale(d, n, q) = 1
      BY <1>0, <1>2, NamesUnscaled
    <3>10. Rules!Presented(d, n, q, rule, v) = v
      BY <3>4, <3>9, PresentedAsIs
    <3> QED BY <3>3, <3>5, <3>6, <3>7, <3>8, <3>10 DEF Rules!Applied
  <2>5. ASSUME \A i \in DOMAIN maps : maps[i].dps # v
        PROVE  shows = v
    <3>1. Rules!MapForDps(d, n, v) = Absent
      BY <1>0, <1>2, <2>5, MapOfName
    <3>2. Rules!Scale(d, n, q) = 1
      BY <1>0, <1>2, NamesUnscaled
    <3> QED BY <3>1, <3>2, NoMap
  <2>6. \A i, j \in DOMAIN maps : maps[i].dps = maps[j].dps => i = j
    BY <1>2 DEF ByName
  <2> QED BY <2>1, <2>2, <2>3, <2>4, <2>5
<1> QED BY <1>1, <1>2 DEF OfKind

-----------------------------------------------------------------------------
(* Sending.                                                                *)

\* What is sent is of its own datapoint, has the value in its bits, and
\* leaves the bits of the other masks.
Takes(d, n, q, s, k) ==
    \E u : /\ s = Rules!One(d[n].id, u)
           /\ Rules!Bits(d, n, u) = k
           /\ d[n].mask = Absent => u = k
           /\ d[n].mask # Absent =>
                 /\ u \in {"x"} \X Int
                 /\ \A o \in DOMAIN d : d[o].mask # Absent /\ MaskOK(d[o].mask) /\ Apart(d[n].mask, d[o].mask) =>
                       Rules!Bits(d, o, u) = Rules!Bits(d, o, Rules!Raw(d, n, q))

MaskRaw(d, n, q) ==
    d[n].mask # Absent => MaskOK(d[n].mask) /\ Rules!Raw(d, n, q) \in {Null} \cup ({"x"} \X Int)

LEMMA Multiple ==
    ASSUME NEW a \in Int, NEW b \in Nat \ {0}, a % b = 0
    PROVE  a \div b \in Int /\ a = (a \div b) * b
OBVIOUS

LEMMA UnitIs == Unit \in Nat \ {0}
BY ObjectAssumption DEF ObjectAssumption

LEMMA Encodes ==
    ASSUME NEW k \in Int
    PROVE  <<"x", k>> # Null /\ <<"x", k>>[2] = k /\ <<"x", k>> \in {"x"} \X Int
<1>1. <<"x", k>> \in {"n", "x"} \X Int
  OBVIOUS
<1> QED BY <1>1, ObjectAssumption DEF ObjectAssumption

LEMMA SentMasked ==
    ASSUME NEW d, NEW n, NEW q, NEW k, Fits(d[n], k), MaskRaw(d, n, q), d[n].mask # Absent
    PROVE  Rules!Sent(d, n, q, k) = Fails \/ Takes(d, n, q, Rules!Sent(d, n, q, k), k)
<1> DEFINE mask == d[n].mask
           j == k[2] \div Unit
           old == Rules!Raw(d, n, q)
           new == Rules!Merged(old[2], mask, j)
           r == Rules!RangeNow(d, n, q)
           barred == Rules!IsNumber(k) /\ r # Absent /\ (k[2] < r[1] \/ k[2] > r[2])
<1>1. Rules!IsNumber(k) /\ k[2] \in Int /\ k = <<"n", k[2]>> /\ k[2] % Unit = 0
  BY NumberIs DEF Fits
<1>2. j \in Int /\ 0 <= j /\ j < mask.size /\ j * Unit = k[2]
  <2>1. 0 <= j /\ j < mask.size
    BY DEF Fits
  <2>2. k[2] \div Unit \in Int /\ k[2] = (k[2] \div Unit) * Unit
    BY <1>1, UnitIs, Multiple
  <2> QED BY <2>1, <2>2
<1>3. Rules!Rounded(k[2], Unit) = k[2]
  BY <1>1, UnitIs, RoundedExact
<1>4. MaskOK(mask) /\ old \in {Null} \cup ({"x"} \X Int)
  BY DEF MaskRaw
<1>5. Rules!Sent(d, n, q, k) =
        IF barred \/ old = Null THEN Fails ELSE Rules!One(d[n].id, <<"x", new>>)
  <2>1. CASE barred
    BY <1>3, <2>1 DEF Rules!Sent
  <2>2. CASE ~barred
    BY <1>1, <1>3, <2>2 DEF Rules!Sent
  <2> QED BY <2>1, <2>2
<1>6. CASE barred \/ old = Null
  BY <1>5, <1>6
<1>7. CASE ~(barred \/ old = Null)
  <2>1. old[2] \in Int /\ old # Null
    BY <1>4, <1>7
  <2>2. Rules!Sent(d, n, q, k) = Rules!One(d[n].id, <<"x", new>>)
    BY <1>5, <1>7
  <2>3. new \in Int /\ (new \div mask.low) % mask.size = j
    BY <1>2, <1>4, <2>1, MergedOwn
  <2>4. /\ <<"x", new>> # Null /\ <<"x", new>>[2] = new /\ <<"x", new>> \in {"x"} \X Int
    BY <2>3, Encodes
  <2>5. Rules!Bits(d, n, <<"x", new>>) = k
    <3>1. Rules!Bits(d, n, <<"x", new>>) = <<"n", ((new \div mask.low) % mask.size) * Unit>>
      BY <2>4 DEF Rules!Bits
    <3> QED BY <1>1, <1>2, <2>3, <3>1
  <2>6. ASSUME NEW o \in DOMAIN d, d[o].mask # Absent, MaskOK(d[o].mask), Apart(d[n].mask, d[o].mask)
        PROVE  Rules!Bits(d, o, <<"x", new>>) = Rules!Bits(d, o, old)
    <3>1. (new \div d[o].mask.low) % d[o].mask.size = (old[2] \div d[o].mask.low) % d[o].mask.size
      BY <1>2, <1>4, <2>1, <2>6, MergedOthers
    <3> HIDE DEF new, old
    <3> QED BY <2>1, <2>4, <2>6, <3>1 DEF Rules!Bits
  <2> HIDE DEF new, j
  <2> QED BY <2>2, <2>4, <2>5, <2>6 DEF Takes
<1> QED BY <1>6, <1>7

LEMMA SentPlain ==
    ASSUME NEW d, NEW n, NEW q, NEW k, Fits(d[n], k), d[n].mask = Absent
    PROVE  Rules!Sent(d, n, q, k) = Fails \/ Takes(d, n, q, Rules!Sent(d, n, q, k), k)
<1>1. Rules!Bits(d, n, k) = k
  BY DEF Rules!Bits
<1>2. CASE Rules!IsNumber(k)
  <2>1. k[2] \in Int /\ k = <<"n", k[2]>> /\ (d[n].int => k[2] % Unit = 0)
    BY <1>2, NumberIs DEF Fits
  <2>2. d[n].int => Rules!Rounded(k[2], Unit) = k[2]
    BY <2>1, UnitIs, RoundedExact
  <2> DEFINE whole == Rules!Rounded(k[2], Unit)
             r == Rules!RangeNow(d, n, q)
             barred == Rules!IsNumber(k) /\ r # Absent /\ (whole < r[1] \/ whole > r[2])
             v == IF d[n].int THEN <<"n", whole>> ELSE k
  <2>3. v = k
    BY <2>1, <2>2
  <2>4. Rules!Sent(d, n, q, k) = IF barred THEN Fails ELSE Rules!One(d[n].id, v)
    <3>1. CASE barred
      BY <3>1 DEF Rules!Sent
    <3>2. CASE ~barred
      BY <1>2, <3>2 DEF Rules!Sent
    <3> QED BY <3>1, <3>2
  <2> HIDE DEF v, barred
  <2> QED BY <1>1, <2>3, <2>4 DEF Takes
<1>3. CASE ~Rules!IsNumber(k)
  <2>1. Rules!Sent(d, n, q, k) = IF d[n].int THEN Fails ELSE Rules!One(d[n].id, k)
    <3>1. CASE d[n].int
      BY <1>3, <3>1 DEF Rules!Sent
    <3>2. CASE ~d[n].int
      BY <1>3, <3>2 DEF Rules!Sent
    <3> QED BY <3>1, <3>2
  <2> QED BY <1>1, <2>1 DEF Takes
<1> QED BY <1>2, <1>3

LEMMA SentTakes ==
    ASSUME NEW d, NEW n, NEW q, NEW k, Fits(d[n], k), MaskRaw(d, n, q)
    PROVE  Rules!Sent(d, n, q, k) = Fails \/ Takes(d, n, q, Rules!Sent(d, n, q, k), k)
BY SentMasked, SentPlain

RuleFor(d, n, q, v) == Rules!InForce(d, n, q, Rules!MapForValue(d, n, q, v), v)

\* A value is one of a mapping if it is its name, or one of its conditions' that
\* can be, or is, reached.
OwnName(m, v) == ~m.hidden /\ m.dps \notin {Absent, Null} /\ m.value = v
ByCondition(d, n, q, m, v) ==
    \E j \in DOMAIN m.conds :
       ~m.conds[j].hidden /\ m.conds[j].value = v /\ Rules!Reachable(d, n, q, m, m.conds[j])
LEMMA HitsIs ==
    ASSUME NEW d, NEW n, NEW q, NEW m, Local(m), \A j \in DOMAIN m.conds : Local(m.conds[j]), NEW v
    PROVE  Rules!Hits(d, n, q, m, v) <=> OwnName(m, v) \/ ByCondition(d, n, q, m, v)
BY DEF Rules!Hits, Rules!Mirrors, Local, OwnName, ByCondition

\* The mapping for a value is one that it hits; of a value that is no number and
\* hits none, the last one for all.
HitsOf(d, n, q, v) == {i \in DOMAIN d[n].maps : Rules!Hits(d, n, q, d[n].maps[i], v)}
ForAll(d, n) == {i \in DOMAIN d[n].maps : d[n].maps[i].dps = Absent /\ ~d[n].maps[i].hidden}
Found(d, n, q, v) ==
    LET m == Rules!MapForValue(d, n, q, v)
    IN  /\ m \in {Absent} \cup {d[n].maps[i] : i \in DOMAIN d[n].maps}
        /\ HitsOf(d, n, q, v) # {} => \E i \in HitsOf(d, n, q, v) : m = d[n].maps[i]
        /\ HitsOf(d, n, q, v) = {} /\ Rules!Nearest(d[n].maps, v) = {} =>
             /\ ForAll(d, n) # {} => \E i \in ForAll(d, n) : m = d[n].maps[i]
             /\ ForAll(d, n) = {} => m = Absent

LEMMA MapIsFound ==
    ASSUME NEW d, NEW n, Listed(d[n].maps), NEW q, NEW v
    PROVE  Found(d, n, q, v)
<1> DEFINE maps == d[n].maps
           near == Rules!Nearest(maps, v)
           hits == HitsOf(d, n, q, v)
           all == ForAll(d, n)
           m == Rules!MapForValue(d, n, q, v)
<1>1. hits \in SUBSET DOMAIN maps /\ near \in SUBSET DOMAIN maps /\ all \in SUBSET DOMAIN maps
  BY DEF HitsOf, ForAll, Rules!Nearest
<1>2. m = Rules!Chosen(maps, hits, near, all)
  BY DEF Rules!MapForValue, HitsOf, ForAll
<1> HIDE DEF maps, near, hits, all, m
<1>3. /\ hits # {} => \E i \in hits : m = maps[i]
      /\ hits = {} /\ near # {} => \E i \in near : m = maps[i]
      /\ hits = {} /\ near = {} /\ all # {} => \E i \in all : m = maps[i]
      /\ hits = {} /\ near = {} /\ all = {} => m = Absent
  BY <1>1, <1>2, ChosenOne DEF maps
<1> QED BY <1>1, <1>3 DEF Found, maps, near, hits, all, m

\* What is sent for a value, by its rule.
ByRule(d, n, q, v, s) ==
    LET rule == RuleFor(d, n, q, v)
    IN  IF d[n].readonly THEN <<>>
        ELSE IF rule.map = Absent THEN Rules!Sent(d, n, q, v)
        ELSE Rules!Both(Rules!Side(d, n, q, v, rule.cond, Rules!Constraint(rule.map, n), s),
                        Rules!Encoded(d, n, q, rule,
                                      Rules!Nested(rule, "value", v, "dps", Rules!Or(rule.map.dps, v))))

LEMMA SendForm ==
    ASSUME NEW d, NEW n, OfKind(d, n), NEW q, NEW v, NEW s
    PROVE  Rules!Sending(d, n, q, v, RuleFor(d, n, q, v), s) = ByRule(d, n, q, v, s)
<1> DEFINE rule == RuleFor(d, n, q, v)
           now == Rules!Current(d, n, q)
<1>1. now \in {Absent} \cup {d[n].maps[i] : i \in DOMAIN d[n].maps}
  BY MapIsOne DEF Rules!Current
<1>2. now # Absent => now.redirect = Absent
  BY <1>1, MapsListed DEF Local
<1>3. Here(rule)
  BY MapIsFound, RuleHere DEF Found, OfKind, RuleFor
<1> HIDE DEF rule, now
<1>4. rule.map # Absent => Rules!Setting(rule, "redirect", Absent) = Absent
  BY <1>3, NoRedirect
<1> DEFINE redirect == IF rule.map # Absent THEN Rules!Setting(rule, "redirect", Absent)
                       ELSE IF now = Absent THEN Absent ELSE now.redirect
<1>5. redirect = Absent
  BY <1>2, <1>4
<1> QED BY <1>5 DEF Rules!Sending, ByRule, rule, now

\* Without conditions, a value is sent without what others send.
LEMMA FlatSend ==
    ASSUME NEW d, NEW n, OfKind(d, n), Straight(d[n]), NEW q, NEW v, NEW s, NEW t
    PROVE  Rules!Sending(d, n, q, v, RuleFor(d, n, q, v), s)
           = Rules!Sending(d, n, q, v, RuleFor(d, n, q, v), t)
<1> DEFINE rule == RuleFor(d, n, q, v)
           m == Rules!MapForValue(d, n, q, v)
<1>1. m \in {Absent} \cup {d[n].maps[i] : i \in DOMAIN d[n].maps}
  BY MapIsFound DEF Found, OfKind
<1>2. m # Absent => Listed(m.conds) /\ DOMAIN m.conds = {}
  BY <1>1, MapsListed DEF Straight
<1>3. m # Absent => Rules!ActiveCondition(d, n, q, m, v) = Absent
  BY <1>2, ConditionIsOne
<1>4. rule.cond = Absent
  BY <1>3 DEF RuleFor, Rules!InForce
<1> HIDE DEF rule
<1>5. \A x, u : Rules!Side(d, n, q, v, rule.cond, x, u) = <<>>
  BY <1>4 DEF Rules!Side
<1> QED BY <1>5, SendForm DEF ByRule, rule

\* The names of a mapping's conditions are of datapoints without conditions.
LEMMA SideIs ==
    ASSUME NEW d, AllOfKind(d), NEW n \in DOMAIN d, NEW q, NEW v \in Rules!Asked,
           RuleFor(d, n, q, v).map # Absent
    PROVE  LET rule == RuleFor(d, n, q, v)
               c == rule.cond
               x == Rules!Constraint(rule.map, n)
               side(s) == Rules!Side(d, n, q, v, c, x, s)
           IN  \/ \A s : side(s) = <<>>
               \/ /\ c # Absent /\ c.value = v /\ x \in DOMAIN d /\ Straight(d[x]) /\ d[x].mask = Absent
                  /\ \A j \in DOMAIN d[x].maps : Unscaled(d[x].maps[j])
                  /\ \E y \in Rules!Asked :
                        /\ c.dps = {y}
                        /\ LET w == Rules!MapFromDps(d, x, q, y, Rules!Shown(d, q))
                           IN  w \in Rules!Asked /\ \A s : side(s) = s[<<x, w>>]
<1> DEFINE rule == RuleFor(d, n, q, v)
           c == rule.cond
           m == rule.map
           x == Rules!Constraint(m, n)
<1>1. OfKind(d, n)
  BY DEF AllOfKind
<1>2. /\ m \in {d[n].maps[i] : i \in DOMAIN d[n].maps}
      /\ c = Rules!ActiveCondition(d, n, q, m, v)
  BY <1>1, MapIsFound, RuleHere DEF Found, OfKind, RuleFor
<1> HIDE DEF rule
<1>3. CASE c = Absent
  <2>1. \A s : Rules!Side(d, n, q, v, c, x, s) = <<>>
    BY <1>3 DEF Rules!Side
  <2> QED BY <2>1 DEF rule
<1>4. CASE c # Absent
  <2>1. PICK i \in DOMAIN d[n].maps : m = d[n].maps[i]
    BY <1>2
  <2>2. Listed(m.conds)
    BY <1>1, <2>1, MapsListed
  <2>3. PICK j \in DOMAIN m.conds : c = m.conds[j]
    BY <1>2, <1>4, <2>2, ConditionIsOne
  <2>4. ByName(d, n)
    BY <1>1, <2>1, <2>3 DEF OfKind, ByNumber
  <2>5. Conditions(d, n, m)
    BY <2>1, <2>4 DEF ByName
  <2>6. c.mirror = Absent
    BY <2>3, <2>5 DEF Conditions, Local
  <2>7. CASE d[x].id = d[n].id \/ (\A y \in c.dps : c.dps # {y}) \/ v # c.value
    <3>1. \A s : Rules!Side(d, n, q, v, c, x, s) = <<>>
      BY <2>6, <2>7 DEF Rules!Side
    <3> QED BY <3>1 DEF rule
  <2>8. CASE ~(d[x].id = d[n].id \/ (\A y \in c.dps : c.dps # {y}) \/ v # c.value)
    <3>1. HasName(c)
      BY <2>8, AskedPresent DEF HasName
    <3>2. /\ x \in DOMAIN d /\ Straight(d[x]) /\ d[x].mask = Absent
          /\ \A k \in DOMAIN d[x].maps : Unscaled(d[x].maps[k])
          /\ c.dps \subseteq Rules!Asked
      BY <2>3, <2>5, <3>1 DEF Conditions
    <3>3. PICK y \in c.dps : c.dps = {y}
      BY <2>8
    <3>4. (CHOOSE z \in c.dps : TRUE) = y /\ y \in Rules!Asked
      BY <3>2, <3>3
    <3> DEFINE w == Rules!MapFromDps(d, x, q, y, Rules!Shown(d, q))
    <3>5. \A s : Rules!Side(d, n, q, v, c, x, s) = s[<<x, w>>]
      BY <1>4, <2>6, <2>8, <3>4 DEF Rules!Side
    <3>6. OfKind(d, x)
      BY <3>2 DEF AllOfKind
    <3>7. w \in Rules!Asked
      <4>1. w = Rules!MapFromDps(d, x, q, y, <<>>)
        BY <3>6, FlatRead
      <4>2. Rules!MapFromDps(d, x, q, y, <<>>) \in Rules!Asked
        BY <3>2, <3>4, <3>6, StraightShows
      <4> QED BY <4>1, <4>2
    <3> QED BY <1>4, <2>8, <3>2, <3>3, <3>4, <3>5, <3>7 DEF rule
  <2> QED BY <2>7, <2>8
<1> QED BY <1>3, <1>4

\* What all datapoints would send, for every value.
AllSends(d, q, s) ==
    [p \in (DOMAIN d) \X Rules!Asked |-> Rules!Sending(d, p[1], q, p[2], RuleFor(d, p[1], q, p[2]), s)]

LEMMA AllSendsAt ==
    ASSUME NEW d, NEW q, NEW s, NEW x \in DOMAIN d, NEW y \in Rules!Asked
    PROVE  AllSends(d, q, s)[<<x, y>>] = Rules!Sending(d, x, q, y, RuleFor(d, x, q, y), s)
BY DEF AllSends

LEMMA AllSendsEqual ==
    ASSUME NEW d, NEW q, NEW s, NEW t,
           \A x \in DOMAIN d, y \in Rules!Asked :
              Rules!Sending(d, x, q, y, RuleFor(d, x, q, y), s)
              = Rules!Sending(d, x, q, y, RuleFor(d, x, q, y), t)
    PROVE  AllSends(d, q, s) = AllSends(d, q, t)
BY DEF AllSends

\* What a datapoint sends does not depend on what others' conditions would send.
LEMMA SendsTwice ==
    ASSUME NEW d, AllOfKind(d), NEW n \in DOMAIN d, NEW q, NEW v \in Rules!Asked
    PROVE  LET flat == AllSends(d, q, <<>>)
               once == AllSends(d, q, flat)
           IN  Rules!Sending(d, n, q, v, RuleFor(d, n, q, v), once)
               = Rules!Sending(d, n, q, v, RuleFor(d, n, q, v), flat)
<1> DEFINE flat == AllSends(d, q, <<>>)
           once == AllSends(d, q, flat)
           rule == RuleFor(d, n, q, v)
           x == Rules!Constraint(rule.map, n)
           side(s) == Rules!Side(d, n, q, v, rule.cond, x, s)
<1>1. OfKind(d, n)
  BY DEF AllOfKind
<1>2. CASE rule.map = Absent
  <2>1. \A s, t : ByRule(d, n, q, v, s) = ByRule(d, n, q, v, t)
    BY <1>2 DEF ByRule
  <2>2. \A s, t : Rules!Sending(d, n, q, v, rule, s) = Rules!Sending(d, n, q, v, rule, t)
    BY <1>1, <2>1, SendForm
  <2> HIDE DEF rule
  <2> QED BY <2>2 DEF rule
<1>3. CASE rule.map # Absent
  <2>1. side(once) = side(flat)
    <3>1. CASE \A s : side(s) = <<>>
      <4> HIDE DEF side, once, flat
      <4> QED BY <3>1
    <3>2. CASE ~\A s : side(s) = <<>>
      <4>1. PICK y \in Rules!Asked :
              LET w == Rules!MapFromDps(d, x, q, y, Rules!Shown(d, q))
              IN  x \in DOMAIN d /\ Straight(d[x]) /\ w \in Rules!Asked /\ \A s : side(s) = s[<<x, w>>]
        BY <1>3, <3>2, SideIs
      <4> DEFINE w == Rules!MapFromDps(d, x, q, y, Rules!Shown(d, q))
      <4>2. x \in DOMAIN d /\ Straight(d[x]) /\ w \in Rules!Asked
        BY <4>1
      <4>3. side(once) = once[<<x, w>>] /\ side(flat) = flat[<<x, w>>]
        <5> HIDE DEF side, once, flat
        <5> QED BY <4>1
      <4> HIDE DEF x, w
      <4>4. /\ once[<<x, w>>] = Rules!Sending(d, x, q, w, RuleFor(d, x, q, w), flat)
            /\ flat[<<x, w>>] = Rules!Sending(d, x, q, w, RuleFor(d, x, q, w), <<>>)
        <5> HIDE DEF flat
        <5>1. once[<<x, w>>] = Rules!Sending(d, x, q, w, RuleFor(d, x, q, w), flat)
          BY <4>2, AllSendsAt
        <5>2. flat[<<x, w>>] = Rules!Sending(d, x, q, w, RuleFor(d, x, q, w), <<>>)
          BY <4>2, AllSendsAt DEF flat
        <5> QED BY <5>1, <5>2
      <4>5. OfKind(d, x)
        BY <4>2 DEF AllOfKind
      <4> HIDE DEF flat, once, side
      <4> QED BY <4>2, <4>3, <4>4, <4>5, FlatSend
    <3> QED BY <3>1, <3>2
  <2>2. ByRule(d, n, q, v, once) = ByRule(d, n, q, v, flat)
    <3> HIDE DEF flat, once
    <3> QED BY <1>3, <2>1 DEF ByRule
  <2>3. \A s : Rules!Sending(d, n, q, v, rule, s) = ByRule(d, n, q, v, s)
    BY <1>1, SendForm
  <2>4. Rules!Sending(d, n, q, v, rule, once) = Rules!Sending(d, n, q, v, rule, flat)
    <3> HIDE DEF flat, once, rule
    <3> QED BY <2>2, <2>3
  <2> HIDE DEF rule
  <2> QED BY <2>4 DEF rule
<1> QED BY <1>2, <1>3

\* What is set for a value is what its rule sends, where datapoints without
\* conditions send what they send alone.
Alones(d, q, s) ==
    \A x \in DOMAIN d, w \in Rules!Asked :
       Straight(d[x]) => s[<<x, w>>] = Rules!Sending(d, x, q, w, RuleFor(d, x, q, w), <<>>)
LEMMA SetIs ==
    ASSUME NEW d, AllOfKind(d), NEW n \in DOMAIN d, NEW q, NEW v \in Rules!Asked
    PROVE  \E s : /\ Rules!ValuesToSet(d, n, q, v) = Rules!Sending(d, n, q, v, RuleFor(d, n, q, v), s)
                  /\ Alones(d, q, s)
<1> DEFINE flat == AllSends(d, q, <<>>)
           once == AllSends(d, q, flat)
           sends == CHOOSE s : s = AllSends(d, q, s)
<1>1. AllSends(d, q, once) = AllSends(d, q, flat)
  <2>1. \A x \in DOMAIN d, y \in Rules!Asked :
           Rules!Sending(d, x, q, y, RuleFor(d, x, q, y), once)
           = Rules!Sending(d, x, q, y, RuleFor(d, x, q, y), flat)
    BY SendsTwice
  <2> HIDE DEF flat, once
  <2> QED BY <2>1, AllSendsEqual
<1>2. sends = AllSends(d, q, sends)
  <2>1. once = AllSends(d, q, once)
    BY <1>1
  <2> HIDE DEF flat, once
  <2> QED BY <2>1
<1>3. Rules!ValuesToSet(d, n, q, v) = sends[<<n, v>>]
  BY DEF Rules!ValuesToSet, AllSends, RuleFor
<1> HIDE DEF sends
<1>4. \A x \in DOMAIN d, w \in Rules!Asked :
         sends[<<x, w>>] = Rules!Sending(d, x, q, w, RuleFor(d, x, q, w), sends)
  <2>1. \A x \in DOMAIN d, w \in Rules!Asked :
           AllSends(d, q, sends)[<<x, w>>] = Rules!Sending(d, x, q, w, RuleFor(d, x, q, w), sends)
    BY AllSendsAt
  <2> HIDE DEF flat, once
  <2> QED BY <1>2, <2>1
<1>5. Alones(d, q, sends)
  <2> SUFFICES ASSUME NEW x \in DOMAIN d, NEW w \in Rules!Asked, Straight(d[x])
               PROVE  sends[<<x, w>>] = Rules!Sending(d, x, q, w, RuleFor(d, x, q, w), <<>>)
    BY DEF Alones
  <2>1. OfKind(d, x)
    BY DEF AllOfKind
  <2> QED BY <1>4, <2>1, FlatSend
<1> QED BY <1>3, <1>4, <1>5

LEMMA EncodedAsIs ==
    ASSUME NEW d, NEW n, NEW q, Rules!Scale(d, n, q) = 1, NEW rule, AsIs(rule), Here(rule), NEW k \in Rules!Asked
    PROVE  Rules!Encoded(d, n, q, rule, k) = Rules!Sent(d, n, q, k)
<1>1. CASE ~Rules!IsNumber(k)
  BY <1>1 DEF Rules!Encoded
<1>2. CASE Rules!IsNumber(k)
  <2>1. k = <<"n", k[2]>>
    BY <1>2, NumberIs
  <2>2. Rules!Scaled(d, n, q, rule.map, k[2], Rules!Scale(d, n, q)) = k[2]
    BY DEF Rules!Scaled
  <2>3. Rules!Rescaled(k[2], Rules!Setting(rule, "target", Absent), d[n].range) = k[2]
    BY NoRedirect DEF Rules!Rescaled
  <2>4. Rules!Inverted(k[2], rule, d[n].range) = k[2]
    BY NoScale DEF Rules!Inverted
  <2>5. Rules!Stepped(d, n, q, rule.map, k[2], Rules!Setting(rule, "step", Absent)) = k[2]
    BY NoScale DEF Rules!Stepped
  <2>6. Rules!Calculated(d, n, q, rule, k[2]) = k[2]
    BY <2>2, <2>3, <2>4, <2>5 DEF Rules!Calculated
  <2> QED BY <1>2, <2>1, <2>6 DEF Rules!Encoded
<1> QED BY <1>1, <1>2

\* What the condition adds to what is sent.
LEMMA SideNone ==
    ASSUME NEW d, NEW n, NEW q, NEW v, NEW c, NEW x, c # Absent => c.mirror = Absent, NEW s,
           c = Absent \/ v # c.value \/ (\A y \in c.dps : c.dps # {y})
    PROVE  Rules!Side(d, n, q, v, c, x, s) = <<>>
BY DEF Rules!Side

IsSide(d, n, v, c, x, y) ==
    c # Absent /\ c.mirror = Absent /\ c.value = v /\ c.dps = {y} /\ d[x].id # d[n].id
LEMMA SideSends ==
    ASSUME NEW d, NEW n, NEW q, NEW v, NEW c, NEW x, NEW s, NEW y, IsSide(d, n, v, c, x, y)
    PROVE  Rules!Side(d, n, q, v, c, x, s) = s[<<x, Rules!MapFromDps(d, x, q, y, Rules!Shown(d, q))>>]
<1>1. c # Absent /\ c.mirror = Absent /\ c.value = v /\ c.dps = {y} /\ d[x].id # d[n].id
  BY DEF IsSide
<1>2. (CHOOSE z \in c.dps : TRUE) = y
  BY <1>1
<1> QED BY <1>1, <1>2 DEF Rules!Side

LEMMA BothOf ==
    ASSUME NEW i, NEW u, NEW t, t = Rules!One(i, u), t # Fails
    PROVE  Rules!Both(<<>>, t) = t \/ Rules!Both(<<>>, t) = Fails
<1>1. Rules!Over(t, <<>>) = t
  BY DEF Rules!Over, Rules!One
<1> QED BY <1>1 DEF Rules!Both

\* A datapoint without conditions or scale is shown in none.
LEMMA StraightScale ==
    ASSUME NEW d, NEW x, OfKind(d, x), Straight(d[x]),
           \A j \in DOMAIN d[x].maps : Unscaled(d[x].maps[j]), NEW q, NEW v, NEW k
    PROVE  LET rule == Rules!InForce(d, x, q, Rules!MapForDps(d, x, k), v)
           IN  /\ Rules!Scale(d, x, q) = 1 /\ Here(rule) /\ AsIs(rule) /\ rule.cond = Absent
               /\ rule.map = Rules!MapForDps(d, x, k)
<1> DEFINE maps == d[x].maps
           m(c) == Rules!MapForDps(d, x, c)
           rule(c, w) == Rules!InForce(d, x, q, m(c), w)
<1>1. ASSUME NEW c, NEW w
      PROVE  Here(rule(c, w)) /\ AsIs(rule(c, w)) /\ rule(c, w).map = m(c) /\ rule(c, w).cond = Absent
  <2>1. m(c) \in {Absent} \cup {maps[i] : i \in DOMAIN maps}
    BY MapIsOne
  <2> HIDE DEF m
  <2>2. m(c) # Absent => Listed(m(c).conds) /\ DOMAIN m(c).conds = {}
    BY <2>1, MapsListed DEF Straight
  <2>3. m(c) # Absent => Rules!ActiveCondition(d, x, q, m(c), w) = Absent
    BY <2>2, ConditionIsOne
  <2>4. Here(rule(c, w)) /\ rule(c, w).map = m(c) /\ rule(c, w).cond = Absent
    BY <2>1, <2>3, RuleHere
  <2>5. m(c) # Absent => Unscaled(m(c))
    BY <2>1
  <2> HIDE DEF rule
  <2> QED BY <2>4, <2>5 DEF AsIs
<1>2. Rules!Scale(d, x, q) = 1
  <2> DEFINE now == rule(Rules!Raw(d, x, q), Absent)
  <2>1. AsIs(now)
    BY <1>1
  <2>2. Rules!Scale(d, x, q) = Rules!Setting(now, "scale", 1)
    BY DEF Rules!Scale, Rules!CurrentSetting, Rules!Current
  <2> HIDE DEF now
  <2> QED BY <2>1, <2>2, NoScale
<1> QED BY <1>1, <1>2

\* A value that settles is sent as it is by what shows it.
LEMMA SettledSent ==
    ASSUME NEW d, NEW x, OfKind(d, x), Straight(d[x]), d[x].mask = Absent, ~d[x].readonly,
           \A j \in DOMAIN d[x].maps : Unscaled(d[x].maps[j]), NEW y, Settles(d[x], y), NEW q,
           NEW w, w = Rules!MapFromDps(d, x, q, y, Rules!Shown(d, q))
    PROVE  /\ w \in Rules!Asked
           /\ LET t == Rules!Sending(d, x, q, w, RuleFor(d, x, q, w), <<>>)
              IN  t = Fails \/ t = Rules!One(d[x].id, y)
<1> DEFINE maps == d[x].maps
           m == Rules!MapForValue(d, x, q, w)
           rule == RuleFor(d, x, q, w)
<1>1. y \in Rules!Asked /\ Fits(d[x], y)
  BY DEF Settles, Fits
<1>2. w = Rules!MapFromDps(d, x, q, y, <<>>)
  BY FlatRead
<1>3. /\ w \in Rules!Asked
      /\ \A i \in DOMAIN maps : maps[i].dps = y /\ HasName(maps[i]) => w = maps[i].value
      /\ (\A i \in DOMAIN maps : maps[i].dps = Absent) => w = y
  BY <1>1, <1>2, StraightShows
<1>4. Rules!Sent(d, x, q, y) = Fails \/ Rules!Sent(d, x, q, y) = Rules!One(d[x].id, y)
  BY <1>1, SentTakes DEF Takes, MaskRaw
<1>5. Found(d, x, q, w)
  BY MapIsFound DEF OfKind
<1>6. m \in {Absent} \cup {maps[i] : i \in DOMAIN maps}
  BY <1>5 DEF Found
<1>7. rule.map = m /\ Here(rule) /\ rule.cond = Absent
  <2>1. m # Absent => Listed(m.conds) /\ DOMAIN m.conds = {}
    BY <1>6, MapsListed DEF Straight
  <2>2. m # Absent => Rules!ActiveCondition(d, x, q, m, w) = Absent
    BY <2>1, ConditionIsOne
  <2> QED BY <1>6, <2>2, RuleHere DEF RuleFor
<1> HIDE DEF m, rule
<1>8. AsIs(rule)
  BY <1>6, <1>7 DEF AsIs
<1>9. Rules!Scale(d, x, q) = 1
  BY StraightScale
\* The mapping is the value's own, or says nothing.
<1>10. IF m = Absent THEN w = y ELSE Rules!Or(m.dps, w) = y
  <2>1. CASE \A i \in DOMAIN maps : maps[i].dps = Absent
    BY <1>3, <1>6, <2>1 DEF Rules!Or
  <2>2. CASE \E i \in DOMAIN maps :
               /\ maps[i].dps = y /\ ~maps[i].hidden /\ HasName(maps[i])
               /\ \A j \in DOMAIN maps : ~maps[j].hidden /\ maps[j].value = maps[i].value => j = i
    <3>1. PICK i \in DOMAIN maps :
               /\ maps[i].dps = y /\ ~maps[i].hidden /\ HasName(maps[i])
               /\ \A j \in DOMAIN maps : ~maps[j].hidden /\ maps[j].value = maps[i].value => j = i
      BY <2>2
    <3>2. w = maps[i].value /\ y # Absent
      BY <1>1, <1>3, <3>1, AskedPresent
    <3>3. ByName(d, x)
      BY <3>1, <3>2 DEF OfKind, ByNumber
    <3>4. y # Null
      BY <3>1, <3>3 DEF ByName
    <3>5. \A j \in DOMAIN maps : Rules!Hits(d, x, q, maps[j], w) <=> OwnName(maps[j], w)
      <4>1. \A j \in DOMAIN maps : Local(maps[j]) /\ DOMAIN maps[j].conds = {}
        BY MapsListed DEF Straight
      <4>2. \A j \in DOMAIN maps : ~ByCondition(d, x, q, maps[j], w)
        BY <4>1 DEF ByCondition
      <4>3. ASSUME NEW j \in DOMAIN maps
            PROVE  Rules!Hits(d, x, q, maps[j], w) <=> OwnName(maps[j], w)
        <5>1. Local(maps[j]) /\ \A k \in DOMAIN maps[j].conds : Local(maps[j].conds[k])
          BY <4>1
        <5>2. Rules!Hits(d, x, q, maps[j], w) <=> OwnName(maps[j], w) \/ ByCondition(d, x, q, maps[j], w)
          BY <5>1, HitsIs, Zenon
        <5> QED BY <4>2, <5>2
      <4> QED BY <4>3
    <3>6. HitsOf(d, x, q, w) = {i}
      BY <3>1, <3>2, <3>4, <3>5 DEF HitsOf, OwnName
    <3>7. m = maps[i]
      BY <1>5, <3>6 DEF Found, m
    <3>8. m # Absent
      BY <3>3, <3>7 DEF ByName, Local
    <3> QED BY <3>1, <3>2, <3>7, <3>8 DEF Rules!Or
  <2> QED BY <2>1, <2>2 DEF Settles
<1>11. \A v : Rules!Nested(rule, "value", w, "dps", v) = v
  BY <1>7 DEF Rules!Nested
<1>12. ByRule(d, x, q, w, <<>>) = Fails \/ ByRule(d, x, q, w, <<>>) = Rules!One(d[x].id, y)
  <2>1. CASE m = Absent
    BY <1>4, <1>7, <1>10, <2>1 DEF ByRule, rule
  <2>2. CASE m # Absent
    <3>1. Rules!Encoded(d, x, q, rule, y) = Rules!Sent(d, x, q, y)
      BY <1>1, <1>7, <1>8, <1>9, EncodedAsIs
    <3>2. \A z, s : Rules!Side(d, x, q, w, rule.cond, z, s) = <<>>
      BY <1>7 DEF Rules!Side
    <3>3. ByRule(d, x, q, w, <<>>) = Rules!Both(<<>>, Rules!Sent(d, x, q, y))
      BY <1>7, <1>10, <1>11, <2>2, <3>1, <3>2 DEF ByRule, rule
    <3>4. CASE Rules!Sent(d, x, q, y) = Fails
      BY <3>3, <3>4 DEF Rules!Both
    <3>5. CASE Rules!Sent(d, x, q, y) # Fails
      BY <1>4, <3>3, <3>5, BothOf
    <3> QED BY <3>4, <3>5
  <2> QED BY <2>1, <2>2
<1> QED BY <1>3, <1>12, SendForm

-----------------------------------------------------------------------------
(* What is set is shown: names.                                            *)

\* A value has been sent for a mapping: its own name, or that of a condition
\* that holds already or is made to hold.
SentFor(d, n, q, v, m, t, s) ==
    \/ /\ s = t
       /\ \/ /\ HasName(m) /\ m.value = v
             /\ LET c == Rules!ActiveCondition(d, n, q, m, Absent) IN ~(c # Absent /\ c.invalid)
          \/ \E j \in Rules!HoldNow(d, n, q, m) : m.conds[j].value = v
    \/ \E j \in DOMAIN m.conds : \E y \in m.conds[j].dps :
          m.conds[j].value = v /\ s = Rules!Over(t, Rules!One(d[Rules!Constraint(m, n)].id, y))

Offered(d, n, v) ==
    \E i \in DOMAIN d[n].maps :
       LET m == d[n].maps[i]
       IN  (~m.hidden /\ m.value = v) \/ \E j \in DOMAIN m.conds : m.conds[j].value = v

LEMMA OfferedHits ==
    ASSUME NEW d, NEW n, ByName(d, n), Listed(d[n].maps), NEW q, NEW v \in Rules!Asked, Offered(d, n, v),
           HitsOf(d, n, q, v) = {}
    PROVE  Rules!Sent(d, n, q, v) = Fails /\ Rules!MapForValue(d, n, q, v) = Absent
<1> DEFINE maps == d[n].maps
<1>1. PICK i \in DOMAIN maps : \/ ~maps[i].hidden /\ maps[i].value = v
                               \/ \E j \in DOMAIN maps[i].conds : maps[i].conds[j].value = v
  BY DEF Offered
<1>2. /\ Local(maps[i]) /\ Conditions(d, n, maps[i])
      /\ maps[i].dps # Absent /\ (~maps[i].hidden => maps[i].dps # Null)
  BY DEF ByName
<1>3. \A k \in DOMAIN maps[i].conds : Local(maps[i].conds[k])
  BY <1>2 DEF Conditions
<1>4. Rules!Hits(d, n, q, maps[i], v) <=> OwnName(maps[i], v) \/ ByCondition(d, n, q, maps[i], v)
  BY <1>2, <1>3, HitsIs, Zenon
<1>5. ~Rules!Hits(d, n, q, maps[i], v)
  BY DEF HitsOf
<1>6. ~OwnName(maps[i], v) /\ ~ByCondition(d, n, q, maps[i], v)
  BY <1>4, <1>5
<1>7. PICK j \in DOMAIN maps[i].conds : maps[i].conds[j].value = v
  BY <1>1, <1>2, <1>6 DEF OwnName
<1>8. ~Rules!Reachable(d, n, q, maps[i], maps[i].conds[j])
  BY <1>2, <1>6, <1>7 DEF ByCondition, Conditions
<1>9. HasName(maps[i].conds[j])
  BY <1>7, AskedPresent DEF HasName
<1>10. d[Rules!Constraint(maps[i], n)].readonly
  BY <1>2, <1>7, <1>8 DEF Rules!Reachable, Conditions
<1>11. d[n].int /\ ~Rules!IsNumber(v)
  BY <1>2, <1>7, <1>9, <1>10 DEF Conditions
<1>12. Rules!Sent(d, n, q, v) = Fails
  BY <1>11 DEF Rules!Sent
<1>13. Rules!Nearest(maps, v) = {}
  BY <1>11 DEF Rules!Nearest
<1>14. ForAll(d, n) = {}
  BY DEF ForAll, ByName
<1> QED BY <1>12, <1>13, <1>14, MapIsFound DEF Found

LEMMA NameSends ==
    ASSUME NEW d, AllOfKind(d), NEW n \in DOMAIN d, ByName(d, n), ~d[n].readonly, NEW q, MaskRaw(d, n, q),
           NEW v \in Rules!Asked, Offered(d, n, v), ~Rules!InvalidFor(d, n, q, v),
           Rules!ValuesToSet(d, n, q, v) # Fails
    PROVE  \E i, t :
              /\ i \in DOMAIN d[n].maps
              /\ Takes(d, n, q, t, d[n].maps[i].dps)
              /\ SentFor(d, n, q, v, d[n].maps[i], t, Rules!ValuesToSet(d, n, q, v))
<1> DEFINE maps == d[n].maps
           rule == RuleFor(d, n, q, v)
           set == Rules!ValuesToSet(d, n, q, v)
<1>1. OfKind(d, n) /\ Listed(maps) /\ v # Absent
  BY AskedPresent DEF AllOfKind, OfKind
<1>2. PICK s : set = ByRule(d, n, q, v, s) /\ Alones(d, q, s)
  <2>1. PICK s : set = Rules!Sending(d, n, q, v, RuleFor(d, n, q, v), s) /\ Alones(d, q, s)
    BY SetIs
  <2> QED BY <1>1, <2>1, SendForm
<1>3. Found(d, n, q, v)
  BY <1>1, MapIsFound
<1>4. HitsOf(d, n, q, v) # {}
  <2> SUFFICES ASSUME HitsOf(d, n, q, v) = {} PROVE FALSE
    OBVIOUS
  <2>1. Rules!Sent(d, n, q, v) = Fails /\ Rules!MapForValue(d, n, q, v) = Absent
    BY <1>1, OfferedHits
  <2>2. rule.map = Absent
    BY <2>1 DEF RuleFor, Rules!InForce
  <2> QED BY <1>2, <2>1, <2>2 DEF ByRule
<1>5. PICK i \in DOMAIN maps : Rules!Hits(d, n, q, maps[i], v) /\ Rules!MapForValue(d, n, q, v) = maps[i]
  BY <1>3, <1>4 DEF Found, HitsOf
<1> DEFINE m == maps[i]
           c == Rules!ActiveCondition(d, n, q, m, v)
           now == Rules!ActiveCondition(d, n, q, m, Absent)
           x == Rules!Constraint(m, n)
<1>6. /\ Local(m) /\ Conditions(d, n, m) /\ m.dps # Absent /\ (~m.hidden => m.dps # Null)
      /\ (~m.hidden \/ DOMAIN m.conds # {} => Fits(d[n], m.dps))
      /\ (HasName(m) => m.value \in Rules!Asked)
  BY DEF ByName
<1>7. Listed(m.conds) /\ (\A k \in DOMAIN m.conds : Local(m.conds[k])) /\ m # Absent
  BY <1>6 DEF Conditions, Local
<1>8. OwnName(m, v) \/ ByCondition(d, n, q, m, v)
  <2>1. Rules!Hits(d, n, q, m, v) <=> OwnName(m, v) \/ ByCondition(d, n, q, m, v)
    BY <1>6, <1>7, HitsIs, Zenon
  <2> QED BY <1>5, <2>1
<1>9. AsIs(rule) /\ Here(rule) /\ rule.map = m /\ rule.cond = c
  <2>1. rule = Rules!InForce(d, n, q, m, v)
    BY <1>5 DEF RuleFor
  <2>2. m \in {Absent} \cup {d[n].maps[k] : k \in DOMAIN d[n].maps}
    OBVIOUS
  <2> HIDE DEF rule, m
  <2> QED BY <1>1, <1>7, <2>1, <2>2, NamesAsIs, RuleHere DEF c
<1>10. Fits(d[n], m.dps)
  BY <1>6, <1>8 DEF OwnName, ByCondition
<1> DEFINE t == Rules!Sent(d, n, q, m.dps)
<1> HIDE DEF rule, set, m, c, now, x, t
<1>11. c = Absent \/ \E j \in DOMAIN m.conds : c = m.conds[j]
  BY <1>7, ConditionIsOne DEF c
<1>12. Rules!Encoded(d, n, q, rule, Rules!Nested(rule, "value", v, "dps", Rules!Or(rule.map.dps, v))) = t
  <2>1. Rules!Or(rule.map.dps, v) = m.dps
    BY <1>6, <1>9 DEF Rules!Or
  <2>2. c # Absent => DOMAIN c.maps = {}
    BY <1>6, <1>11 DEF Conditions
  <2>3. \A u : Rules!Nested(rule, "value", v, "dps", u) = u
    BY <1>9, <2>2 DEF Rules!Nested
  <2>4. Rules!Scale(d, n, q) = 1
    BY <1>1, NamesUnscaled
  <2>5. m.dps \in Rules!Asked
    BY <1>10 DEF Fits
  <2> QED BY <1>9, <2>1, <2>3, <2>4, <2>5, EncodedAsIs DEF t
<1>13. set = Rules!Both(Rules!Side(d, n, q, v, c, x, s), t)
  BY <1>2, <1>7, <1>9, <1>12 DEF ByRule, x, rule
<1>14. t # Fails
  BY <1>13 DEF Rules!Both, set
<1>15. Takes(d, n, q, t, m.dps)
  BY <1>10, <1>14, SentTakes DEF t
<1>16. PICK u : t = Rules!One(d[n].id, u)
  BY <1>15 DEF Takes
<1>17. ASSUME Rules!Side(d, n, q, v, c, x, s) = <<>> PROVE set = t
  BY <1>13, <1>14, <1>16, <1>17, BothOf DEF set
<1>18. c # Absent => c.mirror = Absent
  BY <1>7, <1>11 DEF Local
<1>19. SentFor(d, n, q, v, m, t, set)
  <2>1. CASE OwnName(m, v) /\ ~\E j \in DOMAIN m.conds : m.conds[j].value = v
    <3>1. c = now
      BY <1>1, <1>7, <2>1, ConditionFor DEF c, now
    <3>2. c = Absent \/ v # c.value
      BY <1>11, <2>1
    <3>3. Rules!Side(d, n, q, v, c, x, s) = <<>>
      BY <1>18, <3>2, SideNone
    <3>4. ~(now # Absent /\ now.invalid)
      <4>1. Rules!InForce(d, n, q, Rules!MapForValue(d, n, q, v), Absent).cond = now
        BY <1>5, <1>7 DEF Rules!InForce, now, m
      <4> QED BY <4>1 DEF Rules!InvalidFor
    <3> QED BY <1>1, <1>17, <2>1, <3>3, <3>4 DEF SentFor, OwnName, HasName, now
  <2>2. CASE \E j \in DOMAIN m.conds : m.conds[j].value = v
    <3>1. PICK j \in DOMAIN m.conds : m.conds[j].value = v /\ c = m.conds[j]
      BY <1>1, <1>7, <2>2, ConditionFor DEF c
    <3>2. /\ HasName(c) /\ c # Absent /\ ~HasName(m)
          /\ x \in DOMAIN d /\ d[x].id # d[n].id /\ c.dps \subseteq Rules!Asked
          /\ Straight(d[x]) /\ d[x].mask = Absent /\ \A k \in DOMAIN d[x].maps : Unscaled(d[x].maps[k])
          /\ ~d[x].readonly => \E y \in c.dps : c.dps = {y} /\ Settles(d[x], y)
      <4>1. HasName(c) /\ c # Absent
        BY <1>1, <1>7, <3>1 DEF HasName, Local
      <4> QED BY <1>6, <3>1, <4>1 DEF Conditions, x
    <3>3. OfKind(d, x)
      BY <3>2 DEF AllOfKind
    <3>4. CASE d[x].readonly
      <4>1. Rules!Side(d, n, q, v, c, x, s) = <<>>
        <5>1. CASE \A y \in c.dps : c.dps # {y}
          BY <1>18, <5>1, SideNone
        <5>2. CASE \E y \in c.dps : c.dps = {y}
          <6>1. PICK y \in c.dps : c.dps = {y}
            BY <5>2
          <6> DEFINE w == Rules!MapFromDps(d, x, q, y, Rules!Shown(d, q))
          <6>2. w \in Rules!Asked
            <7>1. w = Rules!MapFromDps(d, x, q, y, <<>>)
              BY <3>3, FlatRead
            <7>2. Rules!MapFromDps(d, x, q, y, <<>>) \in Rules!Asked
              BY <3>2, <3>3, StraightShows
            <7> QED BY <7>1, <7>2
          <6>3. Rules!Side(d, n, q, v, c, x, s) = s[<<x, w>>]
            <7>1. IsSide(d, n, v, c, x, y)
              BY <1>18, <3>1, <3>2, <6>1 DEF IsSide
            <7> QED BY <7>1, SideSends
          <6> HIDE DEF w
          <6>4. s[<<x, w>>] = Rules!Sending(d, x, q, w, RuleFor(d, x, q, w), <<>>)
            BY <1>2, <3>2, <6>2 DEF Alones
          <6>5. Rules!Sending(d, x, q, w, RuleFor(d, x, q, w), <<>>) = <<>>
            BY <3>3, <3>4, SendForm DEF ByRule
          <6> QED BY <6>3, <6>4, <6>5
        <5> QED BY <5>1, <5>2
      <4>2. \E k \in Rules!HoldNow(d, n, q, m) : m.conds[k].value = v
        <5>1. ~OwnName(m, v)
          BY <1>1, <3>2 DEF OwnName, HasName
        <5>2. PICK k \in DOMAIN m.conds : m.conds[k].value = v /\ Rules!Reachable(d, n, q, m, m.conds[k])
          BY <1>8, <5>1 DEF ByCondition
        <5> QED BY <3>4, <5>2 DEF Rules!Reachable, Rules!HoldNow, x
      <4> QED BY <1>17, <4>1, <4>2 DEF SentFor
    <3>5. CASE ~d[x].readonly
      <4>1. PICK y \in c.dps : c.dps = {y} /\ Settles(d[x], y)
        BY <3>2, <3>5
      <4> DEFINE w == Rules!MapFromDps(d, x, q, y, Rules!Shown(d, q))
                 z == Rules!Sending(d, x, q, w, RuleFor(d, x, q, w), <<>>)
      <4>2. Rules!Side(d, n, q, v, c, x, s) = s[<<x, w>>]
        <5>1. IsSide(d, n, v, c, x, y)
          BY <1>18, <3>1, <3>2, <4>1 DEF IsSide
        <5> QED BY <5>1, SideSends
      <4>3. w \in Rules!Asked /\ (z = Fails \/ z = Rules!One(d[x].id, y))
        BY <3>2, <3>3, <3>5, <4>1, SettledSent
      <4> HIDE DEF w
      <4>4. s[<<x, w>>] = z
        BY <1>2, <3>2, <4>3 DEF Alones
      <4> HIDE DEF z
      <4>5. set = Rules!Both(z, t)
        BY <1>13, <4>2, <4>4
      <4>6. set = Rules!Over(t, Rules!One(d[x].id, y))
        BY <1>14, <4>3, <4>5 DEF Rules!Both, set
      <4> QED BY <3>1, <4>1, <4>6 DEF SentFor, x
    <3> QED BY <3>4, <3>5
  <2> QED BY <1>8, <2>1, <2>2 DEF ByCondition
<1> QED BY <1>15, <1>19 DEF set, m

-----------------------------------------------------------------------------
(* What has been set.                                                      *)

\* A datapoint has been given a value, and another one perhaps some other.
Given(d, n, q, s, k) ==
    \E t : /\ Takes(d, n, q, t, k)
           /\ \/ s = t
              \/ \E x, y : /\ x \in DOMAIN d /\ d[x].mask = Absent /\ d[x].id # d[n].id
                           /\ s = Rules!Over(t, Rules!One(d[x].id, y))

\* One datapoint or two are other ones in r than in q.
OneIn(r, q, i, u) ==
    /\ r[i] = u
    /\ \A j \in DOMAIN q : j # i => r[j] = q[j]
    /\ DOMAIN r = DOMAIN q \cup {i}
TwoIn(r, q, i, u, x, y) ==
    /\ r[i] = u /\ r[x] = y
    /\ \A j \in DOMAIN q : j # i /\ j # x => r[j] = q[j]
    /\ DOMAIN r = DOMAIN q \cup {i, x}

LEMMA OverOne ==
    ASSUME NEW i, NEW u, NEW q
    PROVE  OneIn(Rules!Over(Rules!One(i, u), q), q, i, u)
<1> DEFINE one == Rules!One(i, u)
<1>1. DOMAIN one = {i} /\ one[i] = u
  BY DEF Rules!One
<1> HIDE DEF one
<1> QED BY <1>1 DEF Rules!Over, one, OneIn

LEMMA OverTwo ==
    ASSUME NEW i, NEW u, NEW x, NEW y, i # x, NEW q
    PROVE  TwoIn(Rules!Over(Rules!Over(Rules!One(i, u), Rules!One(x, y)), q), q, i, u, x, y)
<1> DEFINE one == Rules!One(i, u)
           other == Rules!One(x, y)
           both == Rules!Over(one, other)
<1>1. DOMAIN one = {i} /\ one[i] = u /\ DOMAIN other = {x} /\ other[x] = y
  BY DEF Rules!One
<1> HIDE DEF one, other
<1>2. DOMAIN both = {i, x} /\ both[i] = u /\ both[x] = y
  BY <1>1 DEF Rules!Over
<1> HIDE DEF both
<1> QED BY <1>2 DEF Rules!Over, both, one, other, TwoIn

\* The datapoints afterwards: the one that is set, and the other masks.
Afterwards(d, n, q, s, k) ==
    LET r == Rules!Over(s, q)
    IN  /\ Rules!Bits(d, n, Rules!Raw(d, n, r)) = k
        /\ DOMAIN r = DOMAIN q
        /\ \A o \in DOMAIN d : d[o].mask # Absent /\ o # n =>
              Rules!Bits(d, o, Rules!Raw(d, o, r)) = Rules!Bits(d, o, Rules!Raw(d, o, q))
        /\ \A o \in DOMAIN d : MaskRaw(d, o, r)

\* The datapoints of an entity are separate, or separate bits of one.
Separate(d, q) ==
    \A n \in DOMAIN d :
       /\ d[n].id \in DOMAIN q
       /\ MaskRaw(d, n, q)
       /\ \A o \in DOMAIN d : o # n /\ d[o].id = d[n].id =>
             d[n].mask # Absent /\ d[o].mask # Absent /\ Apart(d[n].mask, d[o].mask)

LEMMA GivenAfter ==
    ASSUME NEW d, NEW n \in DOMAIN d, NEW q, Separate(d, q), NEW s, NEW k, Given(d, n, q, s, k)
    PROVE  Afterwards(d, n, q, s, k)
<1> DEFINE r == Rules!Over(s, q)
<1>1. PICK t : /\ Takes(d, n, q, t, k)
               /\ \/ s = t
                  \/ \E x, y : /\ x \in DOMAIN d /\ d[x].mask = Absent /\ d[x].id # d[n].id
                               /\ s = Rules!Over(t, Rules!One(d[x].id, y))
  BY DEF Given
<1>2. PICK u : /\ t = Rules!One(d[n].id, u)
               /\ Rules!Bits(d, n, u) = k
               /\ d[n].mask # Absent =>
                    /\ u \in {"x"} \X Int
                    /\ \A o \in DOMAIN d : d[o].mask # Absent /\ MaskOK(d[o].mask) /\ Apart(d[n].mask, d[o].mask) =>
                          Rules!Bits(d, o, u) = Rules!Bits(d, o, Rules!Raw(d, n, q))
  BY <1>1 DEF Takes
<1>3. /\ r[d[n].id] = u
      /\ DOMAIN r = DOMAIN q
      /\ \A o \in DOMAIN d : d[o].mask # Absent /\ d[o].id # d[n].id => r[d[o].id] = q[d[o].id]
  <2>1. \A o \in DOMAIN d : d[o].id \in DOMAIN q
    BY DEF Separate
  <2>0. t = Rules!One(d[n].id, u) /\ DOMAIN q \cup {d[n].id} = DOMAIN q
    BY <1>2, <2>1
  <2>2. CASE s = t
    <3>1. OneIn(r, q, d[n].id, u)
      BY <2>0, <2>2, OverOne
    <3> HIDE DEF r
    <3> QED BY <2>0, <2>1, <3>1 DEF OneIn
  <2>3. CASE \E x, y : /\ x \in DOMAIN d /\ d[x].mask = Absent /\ d[x].id # d[n].id
                       /\ s = Rules!Over(t, Rules!One(d[x].id, y))
    <3>1. PICK x, y : /\ x \in DOMAIN d /\ d[x].mask = Absent /\ d[x].id # d[n].id
                      /\ s = Rules!Over(t, Rules!One(d[x].id, y))
      BY <2>3
    <3>2. TwoIn(r, q, d[n].id, u, d[x].id, y)
      BY <2>0, <3>1, OverTwo
    <3>3. \A o \in DOMAIN d : d[o].mask # Absent => d[o].id # d[x].id
      BY <3>1 DEF Separate
    <3> HIDE DEF r
    <3> QED BY <2>1, <3>1, <3>2, <3>3 DEF TwoIn
  <2> QED BY <1>1, <2>2, <2>3
<1> HIDE DEF r
<1>4. Rules!Bits(d, n, Rules!Raw(d, n, r)) = k
  BY <1>2, <1>3 DEF Rules!Raw
<1>5. ASSUME NEW o \in DOMAIN d, d[o].mask # Absent, o # n
      PROVE  Rules!Bits(d, o, Rules!Raw(d, o, r)) = Rules!Bits(d, o, Rules!Raw(d, o, q))
  <2>1. CASE d[o].id # d[n].id
    BY <1>3, <1>5, <2>1 DEF Rules!Raw
  <2>2. CASE d[o].id = d[n].id
    <3>1. d[n].mask # Absent /\ Apart(d[n].mask, d[o].mask) /\ MaskOK(d[o].mask)
      BY <1>5, <2>2 DEF Separate, MaskRaw
    <3>2. Rules!Bits(d, o, u) = Rules!Bits(d, o, Rules!Raw(d, n, q))
      BY <1>2, <1>5, <3>1
    <3> QED BY <1>3, <2>2, <3>2 DEF Rules!Raw
  <2> QED BY <2>1, <2>2
<1>6. ASSUME NEW o \in DOMAIN d
      PROVE  MaskRaw(d, o, r)
  <2> SUFFICES ASSUME d[o].mask # Absent
               PROVE  MaskOK(d[o].mask) /\ Rules!Raw(d, o, r) \in {Null} \cup ({"x"} \X Int)
    BY DEF MaskRaw
  <2>1. MaskOK(d[o].mask) /\ Rules!Raw(d, o, q) \in {Null} \cup ({"x"} \X Int)
    BY DEF Separate, MaskRaw
  <2>2. CASE d[o].id # d[n].id
    BY <1>3, <2>1, <2>2 DEF Rules!Raw
  <2>3. CASE d[o].id = d[n].id
    <3>1. d[n].mask # Absent
      BY <2>3 DEF Separate
    <3> QED BY <1>2, <1>3, <2>1, <2>3, <3>1 DEF Rules!Raw
  <2> QED BY <2>2, <2>3
<1> QED BY <1>3, <1>4, <1>5, <1>6 DEF Afterwards, r

\* It shows the same for the same bits.
LEMMA StraightStill ==
    ASSUME NEW d, AllOfKind(d), NEW o \in DOMAIN d, Straight(d[o]),
           \A j \in DOMAIN d[o].maps : Unscaled(d[o].maps[j]), NEW q, NEW r,
           Rules!Bits(d, o, Rules!Raw(d, o, r)) = Rules!Bits(d, o, Rules!Raw(d, o, q))
    PROVE  Rules!Value(d, o, r) = Rules!Value(d, o, q)
<1> DEFINE b == Rules!Bits(d, o, Rules!Raw(d, o, q))
           m == Rules!MapForDps(d, o, b)
           rule(p) == Rules!InForce(d, o, p, m, Absent)
<1>1. OfKind(d, o)
  BY DEF AllOfKind
<1>2. Rules!Value(d, o, r) = Rules!MapFromDps(d, o, r, b, <<>>)
      /\ Rules!Value(d, o, q) = Rules!MapFromDps(d, o, q, b, <<>>)
  BY ValueIs
<1> HIDE DEF b
<1>3. \A p : Rules!Scale(d, o, p) = 1 /\ rule(p).cond = Absent
  BY <1>1, StraightScale
<1>4. rule(r) = rule(q)
  <2>1. rule(r).cond = rule(q).cond
    BY <1>3
  <2> QED BY <2>1 DEF Rules!InForce
<1> HIDE DEF m, rule
<1>5. \A v : Rules!Presented(d, o, r, rule(q), v) = Rules!Presented(d, o, q, rule(q), v)
  BY <1>3 DEF Rules!Presented
<1>6. Rules!Applied(d, o, r, b, rule(q), <<>>) = Rules!Applied(d, o, q, b, rule(q), <<>>)
  BY <1>5 DEF Rules!Applied
<1> QED BY <1>2, <1>4, <1>6 DEF Rules!MapFromDps, m, rule

\* What has been set is shown.
Shows(d, n, q, v) ==
    LET s == Rules!ValuesToSet(d, n, q, v)
    IN  /\ \E k : Given(d, n, q, s, k)
        /\ Rules!Value(d, n, Rules!Over(s, q)) = v

\* A name that is set is shown.
LEMMA NameReadsBack ==
    ASSUME NEW d, AllOfKind(d), NEW n \in DOMAIN d, ByName(d, n), ~d[n].readonly, NEW q, Separate(d, q),
           NEW v \in Rules!Asked, Offered(d, n, v), ~Rules!InvalidFor(d, n, q, v),
           Rules!ValuesToSet(d, n, q, v) # Fails
    PROVE  Shows(d, n, q, v)
<1> DEFINE maps == d[n].maps
           s == Rules!ValuesToSet(d, n, q, v)
           r == Rules!Over(s, q)
<1>0. MaskRaw(d, n, q) /\ Listed(maps) /\ v # Absent
  BY AskedPresent DEF Separate, AllOfKind, OfKind
<1>1. PICK i, t :
         i \in DOMAIN maps /\ Takes(d, n, q, t, maps[i].dps) /\ SentFor(d, n, q, v, maps[i], t, s)
  BY <1>0, NameSends
<1> DEFINE m == maps[i]
           x == Rules!Constraint(m, n)
           shows == Rules!MapFromDps(d, n, r, m.dps, <<>>)
<1>2. Conditions(d, n, m) /\ Listed(m.conds)
  BY <1>1 DEF ByName, Conditions
<1> HIDE DEF s, m
<1>3. \A j \in DOMAIN m.conds : m.conds[j].value = v =>
         x \in DOMAIN d /\ d[x].id # d[n].id /\ d[x].mask = Absent /\ HasName(m.conds[j])
  <2> SUFFICES ASSUME NEW j \in DOMAIN m.conds, m.conds[j].value = v
               PROVE  x \in DOMAIN d /\ d[x].id # d[n].id /\ d[x].mask = Absent /\ HasName(m.conds[j])
    OBVIOUS
  <2>1. HasName(m.conds[j])
    BY <1>0 DEF HasName
  <2> QED BY <1>2, <2>1 DEF Conditions
<1>4. Given(d, n, q, s, m.dps)
  <2>1. CASE s = t
    BY <1>1, <2>1 DEF Given, m
  <2>2. CASE s # t
    <3>1. PICK j \in DOMAIN m.conds : \E y \in m.conds[j].dps :
             m.conds[j].value = v /\ s = Rules!Over(t, Rules!One(d[x].id, y))
      BY <1>1, <2>2 DEF SentFor, m
    <3>2. x \in DOMAIN d /\ d[x].id # d[n].id /\ d[x].mask = Absent
      BY <1>3, <3>1
    <3> HIDE DEF x
    <3> QED BY <1>1, <3>1, <3>2 DEF Given, m
  <2> QED BY <2>1, <2>2
<1> SUFFICES Rules!Value(d, n, r) = v
  BY <1>4 DEF s, Shows
<1>5. Afterwards(d, n, q, s, m.dps)
  BY <1>4, GivenAfter
<1>6. Rules!Value(d, n, r) = shows
  <2>1. Rules!Bits(d, n, Rules!Raw(d, n, r)) = m.dps
    BY <1>5 DEF Afterwards
  <2> HIDE DEF r
  <2> QED BY <2>1, ValueIs
<1>7. NameReads(d, n, r, m)
  BY <1>0, <1>1, NameShows DEF m
<1>8. CASE s = t
  <2>1. \A j \in DOMAIN m.conds : Rules!Raw(d, x, r) = Rules!Raw(d, x, q)
    <3> SUFFICES ASSUME NEW j \in DOMAIN m.conds PROVE Rules!Raw(d, x, r) = Rules!Raw(d, x, q)
      OBVIOUS
    <3>1. x \in DOMAIN d /\ d[x].id # d[n].id
      BY <1>2 DEF Conditions
    <3>2. PICK u : t = Rules!One(d[n].id, u)
      BY <1>1 DEF Takes
    <3>3. OneIn(r, q, d[n].id, u)
      BY <1>8, <3>2, OverOne
    <3>4. d[x].id \in DOMAIN q
      BY <3>1 DEF Separate
    <3> HIDE DEF r, x
    <3> QED BY <3>1, <3>3, <3>4 DEF OneIn, Rules!Raw
  <2>2. Rules!HoldNow(d, n, r, m) = Rules!HoldNow(d, n, q, m)
    <3> HIDE DEF r
    <3> QED BY <2>1 DEF Rules!HoldNow
  <2>3. Rules!ActiveCondition(d, n, r, m, Absent) = Rules!ActiveCondition(d, n, q, m, Absent)
    <3> HIDE DEF r
    <3> QED BY <2>2 DEF Rules!ActiveCondition
  <2>4. CASE \E j \in Rules!HoldNow(d, n, q, m) : m.conds[j].value = v
    <3>1. PICK j \in Rules!HoldNow(d, n, q, m) : m.conds[j].value = v
      BY <2>4
    <3>2. j \in DOMAIN m.conds
      BY DEF Rules!HoldNow
    <3> HIDE DEF shows, r
    <3> QED BY <1>3, <1>6, <1>7, <2>2, <3>1, <3>2 DEF NameReads, shows
  <2>5. CASE ~\E j \in Rules!HoldNow(d, n, q, m) : m.conds[j].value = v
    <3>1. CASE /\ HasName(m) /\ m.value = v
               /\ LET c == Rules!ActiveCondition(d, n, q, m, Absent) IN ~(c # Absent /\ c.invalid)
      <4> HIDE DEF shows, r
      <4> QED BY <1>6, <1>7, <2>3, <3>1 DEF NameReads, shows
    <3>2. CASE \E j \in DOMAIN m.conds : \E y \in m.conds[j].dps :
                 m.conds[j].value = v /\ s = Rules!Over(t, Rules!One(d[x].id, y))
      <4>1. PICK j \in DOMAIN m.conds : \E y \in m.conds[j].dps :
                 m.conds[j].value = v /\ s = Rules!Over(t, Rules!One(d[x].id, y))
        BY <3>2
      <4>2. PICK u : t = Rules!One(d[n].id, u)
        BY <1>1 DEF Takes
      <4>3. x \in DOMAIN d /\ d[x].id # d[n].id
        BY <1>3, <4>1
      <4> HIDE DEF x, r
      <4>4. DOMAIN t = {d[n].id} /\ d[x].id \in DOMAIN s
        <5>1. DOMAIN t = {d[n].id}
          BY <4>2 DEF Rules!One
        <5>2. PICK y : s = Rules!Over(t, Rules!One(d[x].id, y))
          BY <4>1
        <5> QED BY <5>1, <5>2 DEF Rules!Over, Rules!One
      <4> QED BY <1>8, <4>3, <4>4
    <3> QED BY <1>1, <2>5, <3>1, <3>2 DEF SentFor, m
  <2> QED BY <2>4, <2>5
<1>9. CASE s # t
  <2>1. PICK j \in DOMAIN m.conds : \E y \in m.conds[j].dps :
           m.conds[j].value = v /\ s = Rules!Over(t, Rules!One(d[x].id, y))
    BY <1>1, <1>9 DEF SentFor, m
  <2>2. PICK y \in m.conds[j].dps : s = Rules!Over(t, Rules!One(d[x].id, y))
    BY <2>1
  <2>3. PICK u : t = Rules!One(d[n].id, u)
    BY <1>1 DEF Takes
  <2>4. d[x].id # d[n].id
    BY <1>3, <2>1
  <2>5. TwoIn(r, q, d[n].id, u, d[x].id, y)
    BY <2>2, <2>3, <2>4, OverTwo
  <2>6. Rules!Raw(d, x, r) = y
    BY <2>5 DEF TwoIn, Rules!Raw
  <2> HIDE DEF r, shows
  <2>7. m.conds[j].dps # Absent
    BY <1>2 DEF Conditions
  <2>8. j \in Rules!HoldNow(d, n, r, m)
    BY <2>6, <2>7 DEF Rules!HoldNow, Rules!EqualOrIn
  <2> QED BY <1>3, <1>6, <1>7, <2>1, <2>8 DEF NameReads, shows
<1> QED BY <1>8, <1>9

\* A datapoint of a single rule for all has that rule, whatever it is and
\* whatever is to be set.
OnlyMap(d, n, asks, m) ==
    /\ ByNumber(d[n], asks) /\ Listed(d[n].maps)
    /\ \E i \in DOMAIN d[n].maps : m = d[n].maps[i]
LEMMA OneForAll ==
    ASSUME NEW d, NEW n, NEW asks, NEW m, OnlyMap(d, n, asks, m), NEW q, NEW v
    PROVE  Rules!MapForValue(d, n, q, v) = m /\ Rules!MapForDps(d, n, v) = m
<1>0. ByNumber(d[n], asks) /\ Listed(d[n].maps)
  BY DEF OnlyMap
<1>a. /\ \A i \in DOMAIN d[n].maps : Rules!MapForDps(d, n, v) = d[n].maps[i]
      /\ DOMAIN d[n].maps = {} => Rules!MapForDps(d, n, v) = Absent
  BY <1>0, MapOfNumber, Zenon
<1>b. PICK i \in DOMAIN d[n].maps : m = d[n].maps[i]
  BY DEF OnlyMap
<1> DEFINE maps == d[n].maps
<1>1. \A j \in DOMAIN maps : /\ maps[j].dps = Absent /\ ~maps[j].hidden /\ Local(maps[j])
                             /\ DOMAIN maps[j].conds = {} /\ j = i
  BY <1>0 DEF ByNumber
<1>2. Found(d, n, q, v)
  BY <1>0, MapIsFound
<1>3. HitsOf(d, n, q, v) = {}
  <2> SUFFICES ASSUME NEW j \in DOMAIN maps, Rules!Hits(d, n, q, maps[j], v) PROVE FALSE
    BY DEF HitsOf
  <2>1. Local(maps[j]) /\ \A k \in DOMAIN maps[j].conds : Local(maps[j].conds[k])
    BY <1>1
  <2>2. Rules!Hits(d, n, q, maps[j], v) <=> OwnName(maps[j], v) \/ ByCondition(d, n, q, maps[j], v)
    BY <2>1, HitsIs, Zenon
  <2> QED BY <1>1, <2>2 DEF OwnName, ByCondition
<1>4. Rules!Nearest(maps, v) = {}
  <2>1. \A j \in DOMAIN maps : ~(maps[j].dps \notin {Absent, Null})
    BY <1>1
  <2> HIDE DEF maps
  <2> QED BY <2>1 DEF Rules!Nearest
<1>5. ForAll(d, n) # {} /\ \A j \in ForAll(d, n) : j = i
  BY <1>1 DEF ForAll
<1> QED BY <1>a, <1>b, <1>2, <1>3, <1>4, <1>5 DEF Found

\* The settings of that rule.
NumberRule(d, n, q, m, rule) ==
    /\ rule.map = m /\ rule.cond = Absent
    /\ Rules!Scale(d, n, q) = Factor(m)
    /\ Rules!CurrentSetting(d, n, q, "step", 1) = Rules!Or(m.step, 1)
    /\ Rules!Setting(rule, "target", Absent) = Absent
    /\ Rules!Setting(rule, "step", Absent) = m.step
    /\ Rules!Setting(rule, "invert", FALSE) = Turned(m)

LEMMA NumberSettings ==
    ASSUME NEW d, NEW n, NEW asks, NEW m, OnlyMap(d, n, asks, m), NEW q, NEW v
    PROVE  NumberRule(d, n, q, m, Rules!InForce(d, n, q, m, v))
<1> DEFINE rule(w) == Rules!InForce(d, n, q, m, w)
<1>1. m # Absent /\ Listed(m.conds) /\ DOMAIN m.conds = {} /\ m.target = Absent
  BY DEF OnlyMap, ByNumber, Local
<1>2. \A w : Rules!ActiveCondition(d, n, q, m, w) = Absent
  BY <1>1, ConditionIsOne
<1>3. Rules!Current(d, n, q) = m
  BY OneForAll DEF Rules!Current
<1>4. \A w : rule(w).map = m /\ rule(w).cond = Absent
  BY <1>2 DEF Rules!InForce
<1>5. Rules!Scale(d, n, q) = Rules!Setting(rule(Absent), "scale", 1)
  BY <1>3 DEF Rules!Scale, Rules!CurrentSetting
<1>6. Rules!CurrentSetting(d, n, q, "step", 1) = Rules!Setting(rule(Absent), "step", 1)
  BY <1>3 DEF Rules!CurrentSetting
<1> HIDE DEF rule
<1>7. Rules!Scale(d, n, q) = Factor(m)
  BY <1>1, <1>4, <1>5 DEF Rules!Setting, Factor
<1>8. Rules!CurrentSetting(d, n, q, "step", 1) = Rules!Or(m.step, 1)
  BY <1>1, <1>4, <1>6 DEF Rules!Setting
<1>9. Rules!Setting(rule(v), "target", Absent) = Absent
  BY <1>1, <1>4 DEF Rules!Setting, Rules!Or
<1>10. Rules!Setting(rule(v), "step", Absent) = m.step
  BY <1>1, <1>4 DEF Rules!Setting, Rules!Or
<1>11. Rules!Setting(rule(v), "invert", FALSE) = Turned(m)
  BY <1>1, <1>4 DEF Rules!Setting, Turned
<1> QED BY <1>4, <1>7, <1>8, <1>9, <1>10, <1>11 DEF NumberRule, rule

LEMMA Stays ==
    ASSUME NEW a \in Int, NEW b \in Int, NEW s \in Nat \ {0}, a % s = 0, b % s = 0
    PROVE  (a - b) % s = 0
<1>1. PICK i \in Int : a = i * s
  BY Multiple
<1>2. PICK j \in Int : b = j * s
  BY Multiple
<1>3. a - b = s * (i - j) + 0
  BY <1>1, <1>2
<1> QED BY <1>3, Divides

\* The number that is sent: in the scale, and from the end of the range it is
\* counted from.
Turning(x, m, k) == IF Turned(m) /\ x.range # Absent THEN x.range[1] + x.range[2] - k ELSE k

LEMMA NumberSent ==
    ASSUME NEW d, NEW n, NEW asks, NEW m, OnlyMap(d, n, asks, m), NEW q, NEW k \in Int,
           (k * Rules!Scale(d, n, q)) % Rules!CurrentSetting(d, n, q, "step", 1) = 0, NEW v
    PROVE  Rules!Calculated(d, n, q, Rules!InForce(d, n, q, m, v), k) = Turning(d[n], m, k * Factor(m))
<1> DEFINE rule == Rules!InForce(d, n, q, m, v)
           scaled == k * Factor(m)
           sent == Turning(d[n], m, scaled)
<1>1. NumberRule(d, n, q, m, rule)
  BY NumberSettings
<1>2. /\ m.dps = Absent /\ Factor(m) \in Nat \ {0} /\ (m.step = Absent \/ m.step \in Nat \ {0})
      /\ Turned(m) \in BOOLEAN /\ (d[n].range = Absent \/ d[n].range \in Int \X Int)
      /\ Turned(m) /\ d[n].range # Absent /\ m.step # Absent =>
            (d[n].range[1] + d[n].range[2]) % m.step = 0
  BY DEF OnlyMap, ByNumber
<1>3. \A w, h : Rules!Remapped(d, n, q, w, h) = h
  <2>1. \A w : Rules!MapForValue(d, n, q, w) = m
    BY OneForAll
  <2> QED BY <1>2, <2>1 DEF Rules!Remapped, Rules!Renamed
<1> HIDE DEF rule
<1>4. scaled \in Int /\ sent \in Int
  BY <1>2 DEF Turning
<1>5. Rules!Scaled(d, n, q, rule.map, k, Rules!Scale(d, n, q)) = scaled
  BY <1>1, <1>2, <1>3 DEF NumberRule, Rules!Scaled
<1>6. Rules!Rescaled(scaled, Rules!Setting(rule, "target", Absent), d[n].range) = scaled
  BY <1>1 DEF NumberRule, Rules!Rescaled
<1>7. Rules!Inverted(scaled, rule, d[n].range) = sent
  BY <1>1, <1>2 DEF NumberRule, Rules!Inverted, Turning
<1>8. m.step # Absent => sent % m.step = 0
  <2> SUFFICES ASSUME m.step # Absent PROVE sent % m.step = 0
    OBVIOUS
  <2>1. m.step \in Nat \ {0} /\ scaled % m.step = 0
    BY <1>1, <1>2 DEF NumberRule, Rules!Or
  <2>2. CASE Turned(m) /\ d[n].range # Absent
    <3>0. Turned(m) /\ d[n].range # Absent
      BY <2>2
    <3>1. (d[n].range[1] + d[n].range[2]) % m.step = 0 /\ d[n].range[1] + d[n].range[2] \in Int
      BY <1>2, <2>2
    <3>2. sent = (d[n].range[1] + d[n].range[2]) - scaled
      <4>1. d[n].range[1] \in Int /\ d[n].range[2] \in Int
        BY <1>2, <3>0
      <4>2. sent = d[n].range[1] + d[n].range[2] - scaled
        BY <3>0 DEF Turning
      <4> HIDE DEF scaled, sent
      <4> QED BY <1>4, <4>1, <4>2
    <3> HIDE DEF sent, scaled
    <3> QED BY <1>4, <2>1, <3>1, <3>2, Stays
  <2>3. CASE ~(Turned(m) /\ d[n].range # Absent)
    BY <2>1, <2>3 DEF Turning
  <2> QED BY <2>2, <2>3
<1> HIDE DEF scaled, sent
<1>9. Rules!Stepped(d, n, q, rule.map, sent, m.step) = sent
  <2>1. CASE m.step = Absent
    BY <2>1 DEF Rules!Stepped
  <2>2. CASE m.step # Absent
    <3>1. Rules!Rounded(sent, m.step) = sent
      BY <1>2, <1>4, <1>8, <2>2, RoundedExact
    <3> QED BY <1>3, <2>2, <3>1 DEF Rules!Stepped
  <2> QED BY <2>1, <2>2
<1>10. Rules!Setting(rule, "step", Absent) = m.step
  BY <1>1 DEF NumberRule
<1>11. Rules!Calculated(d, n, q, rule, k) = sent
  BY <1>5, <1>6, <1>7, <1>9, <1>10 DEF Rules!Calculated
<1> QED BY <1>11 DEF rule, scaled, sent

\* What a number shows.
LEMMA TurnsBack ==
    ASSUME NEW d, NEW n, NEW asks, NEW m, OnlyMap(d, n, asks, m), NEW q, NEW v \in Rules!Asked, Rules!IsNumber(v)
    PROVE  Rules!MapFromDps(d, n, q, v, <<>>) = <<"n", Turning(d[n], m, v[2]) \div Factor(m)>>
<1> DEFINE shows == Rules!MapFromDps(d, n, q, v, <<>>)
<1>0. ByNumber(d[n], asks) /\ Listed(d[n].maps)
  BY DEF OnlyMap
<1>1. ShownAs(d[n], v, shows)
  BY <1>0, NumberShows
<1>2. PICK i \in DOMAIN d[n].maps : m = d[n].maps[i]
  BY DEF OnlyMap
<1> HIDE DEF shows
<1>3. shows = <<"n", (IF Turned(m) /\ d[n].range # Absent
                      THEN d[n].range[1] + d[n].range[2] - v[2] ELSE v[2]) \div Factor(m)>>
  BY <1>1, <1>2 DEF ShownAs
<1> QED BY <1>3 DEF Turning, shows

LEMMA TimesBack == \A k \in Int, f \in Nat \ {0} : (k * f) \div f = k
<1> TAKE k \in Int, f \in Nat \ {0}
<1>1. k * f = f * k + 0 /\ k * f \in Int
  OBVIOUS
<1> QED BY <1>1, Divides

\* A number that is set is shown.
LEMMA NumberReadsBack ==
    ASSUME NEW d, AllOfKind(d), NEW n \in DOMAIN d, NEW asks, ByNumber(d[n], asks), ~d[n].readonly,
           NEW q, Separate(d, q), NEW v \in asks,
           Rules!IsNumber(v) => (v[2] * Rules!Scale(d, n, q)) % Rules!CurrentSetting(d, n, q, "step", 1) = 0,
           Rules!ValuesToSet(d, n, q, v) # Fails
    PROVE  Shows(d, n, q, v)
<1> DEFINE x == d[n]
           set == Rules!ValuesToSet(d, n, q, v)
           r == Rules!Over(set, q)
<1>1. OfKind(d, n) /\ Listed(x.maps) /\ MaskRaw(d, n, q)
  BY DEF AllOfKind, OfKind, Separate
<1>2. ASSUME NEW k, Takes(d, n, q, set, k), Rules!MapFromDps(d, n, r, k, <<>>) = v
      PROVE  Shows(d, n, q, v)
  <2>1. Given(d, n, q, set, k)
    BY <1>2 DEF Given
  <2>2. Afterwards(d, n, q, set, k)
    BY <2>1, GivenAfter
  <2>3. Rules!Value(d, n, r) = Rules!MapFromDps(d, n, r, k, <<>>)
    <3>1. Rules!Bits(d, n, Rules!Raw(d, n, r)) = k
      BY <2>2 DEF Afterwards
    <3> HIDE DEF r
    <3> QED BY <3>1, ValueIs
  <2> QED BY <1>2, <2>1, <2>3 DEF Shows
<1>3. CASE DOMAIN x.maps = {}
  <2>1. Fits(x, v)
    BY <1>3 DEF ByNumber
  <2>2. v \in Rules!Asked
    BY <2>1 DEF Fits
  <2>3. PICK s : set = ByRule(d, n, q, v, s)
    <3>1. PICK s : set = Rules!Sending(d, n, q, v, RuleFor(d, n, q, v), s)
      BY <2>2, SetIs
    <3> QED BY <1>1, <3>1, SendForm
  <2>4. Rules!MapForValue(d, n, q, v) = Absent
    BY <1>1, <1>3, MapIsFound DEF Found
  <2>5. RuleFor(d, n, q, v).map = Absent
    BY <2>4 DEF RuleFor, Rules!InForce
  <2>6. set = Rules!Sent(d, n, q, v)
    BY <2>3, <2>5 DEF ByRule
  <2>7. Takes(d, n, q, set, v)
    BY <1>1, <2>1, <2>6, SentTakes
  <2> HIDE DEF r
  <2>8. Rules!MapFromDps(d, n, r, v, <<>>) = v
    <3>1. \A i \in DOMAIN x.maps : Unscaled(x.maps[i])
      BY <1>3
    <3> QED BY <1>1, <2>2, <3>1, NumberShows DEF ShownAs
  <2> QED BY <1>2, <2>7, <2>8
<1>4. CASE DOMAIN x.maps # {}
  <2>1. PICK i \in DOMAIN x.maps : TRUE
    BY <1>4
  <2> DEFINE m == x.maps[i]
             rule == Rules!InForce(d, n, q, m, v)
             z == Turning(x, m, v[2] * Factor(m))
             k == IF Rules!IsNumber(v) THEN <<"n", z>> ELSE v
  <2>2. OnlyMap(d, n, asks, m)
    BY <1>1 DEF OnlyMap
  <2>3. /\ Local(m) /\ m.dps = Absent /\ Factor(m) \in Nat \ {0} /\ Turned(m) \in BOOLEAN
        /\ x.range = Absent \/ x.range \in Int \X Int
        /\ x.mask # Absent => Unscaled(m)
        /\ Rules!IsNumber(v) => v \in {"n"} \X Int
        /\ Fits(x, IF Rules!IsNumber(v) THEN <<"n", v[2] * Factor(m)>> ELSE v)
        /\ Turned(m) /\ x.range # Absent /\ x.int => (x.range[1] + x.range[2]) % Unit = 0
    BY DEF ByNumber
  <2> HIDE DEF m
  <2>4. v \in Rules!Asked
    BY <2>3 DEF Fits, Rules!Asked
  <2>5. Rules!IsNumber(v) => /\ v[2] \in Int /\ v = <<"n", v[2]>> /\ v[2] * Factor(m) \in Int /\ z \in Int
                             /\ Turning(x, m, z) = v[2] * Factor(m)
    BY <2>3 DEF Turning
  <2>6. Fits(x, k)
    <3>1. CASE ~Rules!IsNumber(v)
      BY <2>3, <3>1
    <3>2. CASE Rules!IsNumber(v)
      <4> DEFINE h == v[2] * Factor(m)
      <4>1. h \in Int /\ z \in Int /\ Fits(x, <<"n", h>>)
        BY <2>3, <2>5, <3>2
      <4> HIDE DEF h
      <4>2. x.int => h % Unit = 0
        BY <4>1, Tagged DEF Fits
      <4>3. CASE Turned(m) /\ x.range # Absent
        <5>1. x.mask = Absent
          BY <2>3, <4>3 DEF Unscaled, Turned, Rules!Or
        <5>2. x.range[1] \in Int /\ x.range[2] \in Int
          BY <2>3, <4>3
        <5>3. z = (x.range[1] + x.range[2]) - h
          BY <4>1, <4>3, <5>2 DEF Turning, h
        <5>4. x.int => z % Unit = 0
          <6> HIDE DEF z
          <6>1. x.range[1] + x.range[2] \in Int
            BY <5>2
          <6> QED BY <2>3, <4>1, <4>2, <4>3, <5>3, <6>1, UnitIs, Stays
        <5> HIDE DEF z
        <5> QED BY <3>2, <4>1, <5>1, <5>4, Tagged DEF Fits
      <4>4. CASE ~(Turned(m) /\ x.range # Absent)
        <5>1. z = h
          BY <2>3, <4>4 DEF Turning, h
        <5> HIDE DEF z
        <5> QED BY <3>2, <4>1, <5>1
      <4> QED BY <4>3, <4>4
    <3> QED BY <3>1, <3>2
  <2>7. NumberRule(d, n, q, m, rule)
    BY <2>2, NumberSettings
  <2>8. Rules!MapForValue(d, n, q, v) = m
    BY <2>2, OneForAll
  <2>9. RuleFor(d, n, q, v) = rule
    BY <2>8 DEF RuleFor
  <2>10. Rules!Encoded(d, n, q, rule, v) = Rules!Sent(d, n, q, k)
    <3>1. CASE ~Rules!IsNumber(v)
      BY <3>1 DEF Rules!Encoded
    <3>2. CASE Rules!IsNumber(v)
      <4>1. Rules!Calculated(d, n, q, rule, v[2]) = z
        BY <2>2, <2>5, <3>2, NumberSent
      <4> QED BY <3>2, <4>1 DEF Rules!Encoded
    <3> QED BY <3>1, <3>2
  <2> HIDE DEF rule, k, z
  <2>11. PICK s : set = ByRule(d, n, q, v, s)
    <3>1. PICK s : set = Rules!Sending(d, n, q, v, RuleFor(d, n, q, v), s)
      BY <2>4, SetIs
    <3> QED BY <1>1, <3>1, SendForm
  <2>12. set = Rules!Both(<<>>, Rules!Sent(d, n, q, k))
    <3>1. rule.map = m /\ rule.cond = Absent /\ m # Absent
      BY <2>3, <2>7 DEF NumberRule, Local
    <3>2. \A y, t : Rules!Side(d, n, q, v, rule.cond, y, t) = <<>>
      BY <3>1 DEF Rules!Side
    <3>3. Rules!Nested(rule, "value", v, "dps", Rules!Or(rule.map.dps, v)) = v
      BY <2>3, <3>1 DEF Rules!Nested, Rules!Or
    <3> QED BY <2>9, <2>10, <2>11, <3>1, <3>2, <3>3 DEF ByRule
  <2>13. Rules!Sent(d, n, q, k) # Fails
    BY <2>12 DEF Rules!Both
  <2>14. Takes(d, n, q, Rules!Sent(d, n, q, k), k)
    BY <1>1, <2>6, <2>13, SentTakes
  <2>15. Takes(d, n, q, set, k)
    <3>1. PICK u : Rules!Sent(d, n, q, k) = Rules!One(x.id, u)
      BY <2>14 DEF Takes
    <3>2. set = Rules!Sent(d, n, q, k)
      BY <2>12, <2>13, <3>1, BothOf
    <3> QED BY <2>14, <3>2
  <2> HIDE DEF r
  <2>16. Rules!MapFromDps(d, n, r, k, <<>>) = v
    <3>1. k \in Rules!Asked
      BY <2>6 DEF Fits
    <3>2. CASE ~Rules!IsNumber(v)
      BY <1>1, <2>4, <3>2, NumberShows DEF ShownAs, k
    <3>3. CASE Rules!IsNumber(v)
      <4>1. k = <<"n", z>> /\ z \in Int
        BY <2>5, <3>3 DEF k, z
      <4>2. Rules!IsNumber(k) /\ k[2] = z
        BY <4>1, Tagged
      <4>3. Rules!MapFromDps(d, n, r, k, <<>>) = <<"n", Turning(x, m, z) \div Factor(m)>>
        BY <2>2, <3>1, <4>2, TurnsBack
      <4>4. Turning(x, m, z) \div Factor(m) = v[2]
        <5>1. Turning(x, m, z) = v[2] * Factor(m)
          BY <2>5, <3>3 DEF z
        <5> QED BY <2>3, <2>5, <3>3, <5>1, TimesBack
      <4> QED BY <2>5, <3>3, <4>3, <4>4
    <3> QED BY <3>2, <3>3
  <2> QED BY <1>2, <2>15, <2>16
<1> QED BY <1>3, <1>4

-----------------------------------------------------------------------------
(* What an entity may be asked to set.                                     *)

LEMMA NamesOffered ==
    ASSUME NEW d, NEW n, ByName(d, n), Listed(d[n].maps), NEW q
    PROVE  /\ Rules!Offers(d, n, q) # {}
           /\ \A v \in Rules!Offers(d, n, q) : v \in Rules!Asked /\ Offered(d, n, v)
<1> DEFINE maps == d[n].maps
           names == Rules!Names(maps) \cup UNION {Rules!Names(maps[i].conds) : i \in DOMAIN maps}
<1>1. ASSUME NEW i \in DOMAIN maps
      PROVE  Rules!NestedNames(Rules!InForce(d, n, q, maps[i], Absent)) = {}
  <2> DEFINE m == maps[i]
             rule == Rules!InForce(d, n, q, m, Absent)
  <2>1. m # Absent /\ Conditions(d, n, m) /\ Listed(m.conds)
    BY DEF ByName, Conditions, Local
  <2>2. rule.cond = Rules!ActiveCondition(d, n, q, m, Absent)
    BY <2>1 DEF Rules!InForce
  <2> HIDE DEF m, rule
  <2>3. rule.cond = Absent \/ \E j \in DOMAIN m.conds : rule.cond = m.conds[j]
    BY <2>1, <2>2, ConditionIsOne
  <2>4. rule.cond # Absent => DOMAIN rule.cond.maps = {}
    BY <2>1, <2>3 DEF Conditions
  <2>5. Rules!NestedNames(rule) = {}
    BY <2>4 DEF Rules!NestedNames, Rules!Names
  <2> QED BY <2>5 DEF rule, m
<1>2. {i \in DOMAIN maps : Rules!NestedNames(Rules!InForce(d, n, q, maps[i], Absent)) # {}} = {}
  BY <1>1
<1>3. Rules!Offers(d, n, q) = names
  BY <1>2 DEF Rules!Offers
<1>4. ASSUME NEW i \in DOMAIN maps
      PROVE  /\ HasName(maps[i]) => maps[i].value \in Rules!Asked
             /\ \A j \in DOMAIN maps[i].conds :
                  /\ ~maps[i].conds[j].hidden
                  /\ HasName(maps[i].conds[j]) => maps[i].conds[j].value \in Rules!Asked
  BY DEF ByName, Conditions
<1>5. names # {}
  <2>1. PICK i \in DOMAIN maps : \/ ~maps[i].hidden /\ HasName(maps[i])
                                 \/ \E j \in DOMAIN maps[i].conds : HasName(maps[i].conds[j])
    BY DEF ByName
  <2>2. CASE ~maps[i].hidden /\ HasName(maps[i])
    BY <2>2 DEF Rules!Names, HasName
  <2>3. CASE \E j \in DOMAIN maps[i].conds : HasName(maps[i].conds[j])
    <3>1. PICK j \in DOMAIN maps[i].conds : HasName(maps[i].conds[j])
      BY <2>3
    <3>2. maps[i].conds[j].value \in Rules!Names(maps[i].conds)
      BY <1>4, <3>1 DEF Rules!Names, HasName
    <3> QED BY <3>2
  <2> QED BY <2>1, <2>2, <2>3
<1>6. ASSUME NEW v \in names
      PROVE  v \in Rules!Asked /\ Offered(d, n, v)
  <2>1. CASE v \in Rules!Names(maps)
    <3>1. PICK i \in DOMAIN maps : v = maps[i].value /\ maps[i].value # Absent /\ ~maps[i].hidden
      BY <2>1 DEF Rules!Names
    <3> QED BY <1>4, <3>1 DEF HasName, Offered
  <2>2. CASE v \in UNION {Rules!Names(maps[i].conds) : i \in DOMAIN maps}
    <3>1. PICK i \in DOMAIN maps : v \in Rules!Names(maps[i].conds)
      BY <2>2
    <3>2. PICK j \in DOMAIN maps[i].conds : v = maps[i].conds[j].value /\ maps[i].conds[j].value # Absent
      BY <3>1 DEF Rules!Names
    <3> QED BY <1>4, <3>2 DEF HasName, Offered
  <2> QED BY <2>1, <2>2
<1> HIDE DEF names
<1> QED BY <1>3, <1>5, <1>6

LEMMA NumbersOffered ==
    ASSUME NEW d, NEW n, NEW asks, ByNumber(d[n], asks), Listed(d[n].maps), NEW q
    PROVE  Rules!Offers(d, n, q) = {}
<1> DEFINE maps == d[n].maps
<1>1. \A i \in DOMAIN maps : /\ maps[i] # Absent /\ ~HasName(maps[i])
                             /\ Listed(maps[i].conds) /\ DOMAIN maps[i].conds = {}
  BY DEF ByNumber, Local
<1>2. ASSUME NEW i \in DOMAIN maps
      PROVE  Rules!NestedNames(Rules!InForce(d, n, q, maps[i], Absent)) = {}
  <2>1. Rules!ActiveCondition(d, n, q, maps[i], Absent) = Absent
    BY <1>1, ConditionIsOne
  <2> QED BY <2>1 DEF Rules!InForce, Rules!NestedNames
<1>3. {i \in DOMAIN maps : Rules!NestedNames(Rules!InForce(d, n, q, maps[i], Absent)) # {}} = {}
  BY <1>2
<1>4. Rules!Names(maps) = {} /\ \A i \in DOMAIN maps : Rules!Names(maps[i].conds) = {}
  BY <1>1 DEF Rules!Names, HasName
<1> QED BY <1>3, <1>4 DEF Rules!Offers

LEMMA PlainKinds ==
    ASSUME NEW e, Plain(e)
    PROVE  /\ AllOfKind(e.dps)
           /\ \A n \in DOMAIN e.dps : Listed(e.dps[n].maps)
           /\ \A n \in DOMAIN e.dps : ByName(e.dps, n) \/ ByNumber(e.dps[n], e.asks[n])
BY DEF Plain, AllOfKind, OfKind

-----------------------------------------------------------------------------
(* Setting and reading.                                                    *)

PlainInv ==
    Plain(entity) =>
        /\ DOMAIN points = DOMAIN entity.raws
        /\ Separate(entity.dps, points)
        /\ ReadsBack

LEMMA SetsShows ==
    ASSUME Plain(entity), Separate(entity.dps, points), NEW n \in DOMAIN entity.dps,
           NEW v \in Rules!Settable(n), Rules!Sets(n, v)
    PROVE  Shows(entity.dps, n, points, v)
<1> DEFINE d == entity.dps
<1>1. ~d[n].readonly /\ ~Rules!InvalidFor(d, n, points, v) /\ Rules!ValuesToSet(d, n, points, v) # Fails
  BY DEF Rules!Sets
<1>2. AllOfKind(d) /\ Listed(d[n].maps) /\ (ByName(d, n) \/ ByNumber(d[n], entity.asks[n]))
  BY PlainKinds
<1>3. CASE ByName(d, n)
  <2>1. Rules!Offers(d, n, points) # {}
        /\ \A w \in Rules!Offers(d, n, points) : w \in Rules!Asked /\ Offered(d, n, w)
    BY <1>2, <1>3, NamesOffered
  <2>2. v \in Rules!Offers(d, n, points)
    BY <2>1 DEF Rules!Settable
  <2> HIDE DEF d
  <2> QED BY <1>1, <1>2, <1>3, <2>1, <2>2, NameReadsBack DEF d
<1>4. CASE ByNumber(d[n], entity.asks[n])
  <2>1. Rules!Offers(d, n, points) = {}
    BY <1>2, <1>4, NumbersOffered
  <2>2. /\ v \in entity.asks[n]
        /\ Rules!IsNumber(v) =>
             (v[2] * Rules!Scale(d, n, points)) % Rules!CurrentSetting(d, n, points, "step", 1) = 0
    BY <2>1 DEF Rules!Settable
  <2> QED BY <1>1, <1>2, <1>4, <2>2, NumberReadsBack
<1> QED BY <1>2, <1>3, <1>4

LEMMA SetsKeeps ==
    ASSUME PlainInv, Plain(entity), NEW n \in DOMAIN entity.dps, NEW v \in Rules!Settable(n), Rules!Sets(n, v)
    PROVE  PlainInv'
<1> DEFINE d == entity.dps
           s == Rules!ValuesToSet(d, n, points, v)
           r == Rules!Over(s, points)
<1>1. /\ points' = r /\ entity' = entity
      /\ last' = [dp |-> n, value |-> v,
                  kept |-> [o \in {x \in Rules!Masked : x # n} |-> Rules!Value(d, o, points)]]
  BY DEF Rules!Sets
<1>2. DOMAIN points = DOMAIN entity.raws /\ Separate(d, points) /\ AllOfKind(d)
  BY PlainKinds DEF PlainInv
<1>3. Shows(d, n, points, v)
  BY <1>2, SetsShows
<1> HIDE DEF d, s, r
<1>4. PICK k : Given(d, n, points, s, k)
  BY <1>3 DEF Shows, s
<1>5. Afterwards(d, n, points, s, k)
  BY <1>2, <1>4, GivenAfter DEF d
<1>6. Separate(d, r) /\ DOMAIN r = DOMAIN points
  BY <1>2, <1>5 DEF Afterwards, Separate, r
<1>7. Rules!Value(d, n, r) = v
  BY <1>3 DEF Shows, r, s
<1>8. ASSUME NEW o \in Rules!Masked, o # n
      PROVE  Rules!Value(d, o, r) = Rules!Value(d, o, points)
  <2>1. o \in DOMAIN d /\ d[o].mask # Absent
    BY DEF Rules!Masked, d
  <2>2. Straight(d[o]) /\ \A j \in DOMAIN d[o].maps : Unscaled(d[o].maps[j])
    BY <2>1 DEF Plain, ByName, ByNumber, d
  <2>3. Rules!Bits(d, o, Rules!Raw(d, o, r)) = Rules!Bits(d, o, Rules!Raw(d, o, points))
    BY <1>5, <1>8, <2>1 DEF Afterwards, r
  <2> QED BY <1>2, <2>1, <2>2, <2>3, StraightStill
<1>9. ReadsBack'
  <2>1. /\ Rules!Value(entity'.dps, last'.dp, points') = last'.value
        /\ \A o \in DOMAIN last'.kept : Rules!Value(entity'.dps, o, points') = last'.kept[o]
    <3>1. entity'.dps = d
      BY <1>1 DEF d
    <3>2. last'.dp = n /\ last'.value = v /\ points' = r
      BY <1>1
    <3>3. last'.kept = [o \in {x \in Rules!Masked : x # n} |-> Rules!Value(d, o, points)]
      BY <1>1
    <3>4. \A o \in DOMAIN last'.kept : Rules!Value(d, o, r) = last'.kept[o]
      BY <1>8, <3>3
    <3> QED BY <1>7, <3>1, <3>2, <3>4
  <2> QED BY <2>1 DEF ReadsBack, Rules!ReadsBack
<1>10. Separate(entity.dps, points)' /\ (DOMAIN points = DOMAIN entity.raws)'
  BY <1>1, <1>2, <1>6 DEF d
<1> QED BY <1>9, <1>10 DEF PlainInv

LEMMA PlainInit == Rules!Init => PlainInv
<1> SUFFICES ASSUME Rules!Init, Plain(entity) PROVE PlainInv
  BY DEF PlainInv
<1>1. /\ DOMAIN points = DOMAIN entity.raws /\ \A i \in DOMAIN points : points[i] \in entity.raws[i]
      /\ last = Rules!Nothing
  BY DEF Rules!Init
<1>2. Separate(entity.dps, points)
  BY <1>1 DEF Plain, Separate, MaskRaw, Rules!Raw
<1> QED BY <1>1, <1>2 DEF PlainInv, ReadsBack, Rules!ReadsBack

LEMMA PlainNext == PlainInv /\ [Rules!Next]_rulevars => PlainInv'
<1> SUFFICES ASSUME PlainInv, [Rules!Next]_rulevars PROVE PlainInv'
  OBVIOUS
<1>1. CASE UNCHANGED rulevars
  BY <1>1 DEF rulevars, PlainInv, ReadsBack, Rules!ReadsBack
<1>2. CASE Rules!Next
  <2>1. entity' = entity
    BY <1>2 DEF Rules!Next, Rules!Sets, Rules!DeviceChanges
  <2>2. CASE ~Plain(entity)
    BY <2>1, <2>2 DEF PlainInv
  <2>3. CASE Plain(entity)
    <3>1. ASSUME NEW n \in DOMAIN entity.dps, NEW v \in Rules!Settable(n), Rules!Sets(n, v)
          PROVE  PlainInv'
      BY <2>3, <3>1, SetsKeeps
    <3>2. ASSUME NEW i \in DOMAIN entity.raws, Rules!DeviceChanges(i)
          PROVE  PlainInv'
      <4>1. PICK v \in entity.raws[i] : points' = [points EXCEPT ![i] = v]
        BY <3>2 DEF Rules!DeviceChanges
      <4>2. DOMAIN points = DOMAIN entity.raws /\ Separate(entity.dps, points)
        BY <2>3 DEF PlainInv
      <4>3. DOMAIN points' = DOMAIN points /\ \A j \in DOMAIN points : points'[j] = IF j = i THEN v ELSE points[j]
        BY <4>1
      <4>4. \A n \in DOMAIN entity.dps : entity.dps[n].mask # Absent /\ entity.dps[n].id = i =>
               v \in {Null} \cup ({"x"} \X Int)
        BY <2>3 DEF Plain
      <4>5. Separate(entity.dps, points')
        BY <4>2, <4>3, <4>4 DEF Separate, MaskRaw, Rules!Raw
      <4>6. last' = Rules!Nothing
        BY <3>2 DEF Rules!DeviceChanges
      <4>7. Separate(entity.dps, points)' /\ (DOMAIN points = DOMAIN entity.raws)'
        BY <2>1, <4>2, <4>3, <4>5
      <4> QED BY <4>6, <4>7 DEF PlainInv, ReadsBack, Rules!ReadsBack
    <3> QED BY <1>2, <3>1, <3>2 DEF Rules!Next
  <2> QED BY <2>2, <2>3
<1> QED BY <1>1, <1>2

\* Of any entity whose datapoints have names, by mappings and by conditions on
\* others, or are numbers in a scale, a step and a direction, alone or as bits
\* of one: what is set is shown, and the other bits stay as they were
\* (device_config.py, get_values_to_set and get_value).
THEOREM PlainReadsBack == ObjectSpec => [](Plain(entity) => ReadsBack)
<1>1. ObjectInit => PlainInv
  BY PlainInit DEF ObjectInit
<1>2. PlainInv /\ [ObjectNext]_<<part, vars, callvars, rulevars>> => PlainInv'
  BY PlainNext DEF ObjectNext
<1>3. PlainInv => (Plain(entity) => ReadsBack)
  BY DEF PlainInv
<1> QED BY <1>1, <1>2, <1>3, PTL DEF ObjectSpec
================================================================================

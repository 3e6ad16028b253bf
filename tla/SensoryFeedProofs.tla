-------------------------- MODULE SensoryFeedProofs --------------------------
(***************************************************************************)
(* Theorems about SensoryFeed, for every house, enrollment, interval and   *)
(* number of faults.                                                       *)
(***************************************************************************)
EXTENDS SensoryFeed, TLAPS

-----------------------------------------------------------------------------
(* Type correctness.                                                       *)

Agent == [pc : Places, tick : 0..(HeartbeatEvery - 1), last : Share,
          share : Share, uid : Boxes \cup {NoBox}, beat : BOOLEAN,
          fail : BOOLEAN, hb : Boxes \cup {NoBox}, todo : SUBSET Device,
          oks : Nat]
Household == [flag : BOOLEAN, devices : SUBSET Device, gate : BOOLEAN,
              located : BOOLEAN]
Budget == [edits : Nat, enrolls : Nat, faults : Nat]
Hist == [to : Boxes \cup {NoBox}, told : BOOLEAN, quiet : BOOLEAN,
         left : SUBSET Boxes]

LEMMA FeedTypeInitial == Init => TypeOK
<1> SUFFICES ASSUME Init PROVE TypeOK
    OBVIOUS
<1>1. share \in Share /\ NoShare \in Share
    BY DEF Init, Share, NoShare
<1>2. agent \in Agent
    BY <1>1, FeedAssumption DEF Init, Agent, Places
<1>3. bms \in [Boxes -> Household]
    BY DEF Init, Household
<1>4. budget \in Budget /\ hist \in Hist
    BY FeedAssumption DEF Init, Budget, Hist
<1>5. age \in 0..(IdleSnapshot + 1)
    BY FeedAssumption DEF Init
<1> QED
    BY <1>1, <1>2, <1>3, <1>4, <1>5 DEF Init, TypeOK, Agent, Household,
       Budget, Hist

LEMMA FaultyType ==
    ASSUME TypeOK, Faulty \/ Answers \/ Unanswered
    PROVE  budget' \in Budget
<1>1. budget \in Budget /\ (budget.faults > 0 => budget.faults - 1 \in Nat)
    BY DEF TypeOK, Budget
<1> QED
    BY <1>1 DEF Faulty, Answers, Unanswered, Budget

LEMMA RaisesType ==
    ASSUME TypeOK, Raises
    PROVE  agent' \in Agent /\ hist' \in Hist
BY DEF TypeOK, Raises, Agent, Hist, Places

LEMMA AcceptsType ==
    ASSUME TypeOK, enroll # NoBox, NEW ds \in SUBSET Device, Accepts(ds)
    PROVE  bms' \in [Boxes -> Household]
<1>1. enroll \in Boxes /\ bms[enroll] \in Household /\ agent.share.on \in BOOLEAN
    BY DEF TypeOK, Household, Share
<1>2. [bms[enroll] EXCEPT !.flag = agent.share.on, !.devices = ds] \in Household
    BY <1>1 DEF Household
<1> QED
    BY <1>1, <1>2 DEF Accepts, TypeOK, Household

LEMMA PostedType ==
    ASSUME TypeOK, Posted
    PROVE  agent' \in Agent /\ age' \in 0..(IdleSnapshot + 1)
<1>1. agent \in Agent /\ IdleSnapshot \in Nat
    BY FeedAssumption DEF TypeOK, Agent
<1>2. agent.share \in Share
    BY <1>1 DEF Agent
<1>3. [agent EXCEPT !.last = agent.share, !.pc = "sleep", !.todo = {},
                    !.oks = 0] \in Agent
    BY <1>1, <1>2 DEF Agent, Places
<1> QED
    BY <1>1, <1>3 DEF Posted

LEMMA PostFailsType ==
    ASSUME TypeOK, PostFails
    PROVE  /\ agent' \in Agent /\ hist' \in Hist
           /\ age' \in 0..(IdleSnapshot + 1)
BY RaisesType DEF TypeOK, PostFails, Agent, Hist, Places

LEMMA FeedTypeKept == TypeOK /\ [Next]_vars => TypeOK'
<1> SUFFICES ASSUME TypeOK, [Next]_vars PROVE TypeOK'
    OBVIOUS
<1> agent \in Agent /\ hist \in Hist /\ bms \in [Boxes -> Household]
    BY DEF TypeOK, Agent, Hist, Household
<1> USE DEF Agent, Hist, Household, Budget
<1>1. CASE Begins
  <2>1. (agent.tick + 1) % HeartbeatEvery \in 0..(HeartbeatEvery - 1)
      BY FeedAssumption DEF TypeOK
  <2> QED
      BY <1>1, <2>1 DEF Begins, TypeOK, Places
<1>2. CASE Waits
    BY <1>2 DEF Waits, TypeOK, Places
<1>3. CASE Sleeps
    BY <1>3, FeedAssumption DEF Sleeps, TypeOK, Places
<1>4. CASE Subscription
  <2>1. budget' \in Budget
      BY <1>4, FaultyType DEF Subscription
  <2>2. failClosed \in BOOLEAN
      BY DEF TypeOK
  <2>3. /\ [agent EXCEPT !.fail = failClosed, !.pc = "heartbeat"] \in Agent
        /\ [hist EXCEPT !.told = failClosed] \in Hist
      BY <2>2 DEF Places
  <2>4. agent' \in Agent /\ hist' \in Hist
      BY <1>4, <2>3, RaisesType DEF Subscription
  <2> QED
      BY <1>4, <2>1, <2>4 DEF Subscription, TypeOK
<1>5. CASE Heartbeat
  <2>1. CASE enroll = NoBox
      BY <1>5, <2>1, FaultyType, RaisesType DEF Heartbeat, TypeOK, Answers
  <2>2. CASE enroll # NoBox
    <3>1. enroll \in Boxes
        BY <2>2 DEF TypeOK
    <3>2. [bms EXCEPT ![enroll].gate = agent.share.on] \in [Boxes -> Household]
        BY <3>1 DEF TypeOK, Share
    <3>3. bms' \in [Boxes -> Household] /\ budget' \in Budget
        BY <1>5, <3>2, FaultyType DEF Heartbeat, TypeOK
    <3>4. agent' \in Agent /\ hist' \in Hist
      <4>1. [agent EXCEPT !.hb = enroll, !.pc = "cache"] \in Agent
          BY <3>1 DEF Places
      <4> QED
          BY <1>5, <4>1, RaisesType DEF Heartbeat
    <3> QED
        BY <1>5, <3>3, <3>4 DEF Heartbeat, TypeOK
  <2> QED BY <2>1, <2>2
<1>6. CASE Caches
    BY <1>6 DEF Caches, TypeOK, Places
<1>7. CASE PushLocation
  <2>1. agent' \in Agent
      BY <1>7 DEF PushLocation, Places
  <2>2. bms' \in [Boxes -> Household]
    <3>1. enroll # NoBox => enroll \in Boxes
        BY DEF TypeOK
    <3>2. enroll \in Boxes =>
              [bms EXCEPT ![enroll].located = TRUE] \in [Boxes -> Household]
        OBVIOUS
    <3> QED
        BY <1>7, <3>1, <3>2 DEF PushLocation, Answers, TypeOK
  <2>3. budget' \in Budget
      BY <1>7, FaultyType DEF PushLocation, TypeOK
  <2> QED
      BY <1>7, <2>1, <2>2, <2>3 DEF PushLocation, TypeOK
<1>8. CASE ReadsStates
  <2>1. Collected \in SUBSET Device
      BY DEF Collected, Device, TypeOK, Share
  <2> QED
      BY <1>8, <2>1 DEF ReadsStates, TypeOK, Places
<1>9. CASE PostBatch
  <2>1. agent.todo \in SUBSET Device
      BY DEF TypeOK
  <2>2. bms' \in [Boxes -> Household]
      BY <1>9, <2>1, AcceptsType DEF PostBatch, Answers
  <2>3. budget' \in Budget
      BY <1>9, FaultyType DEF PostBatch, TypeOK
  <2>4. agent' \in Agent /\ hist' \in Hist /\ age' \in 0..(IdleSnapshot + 1)
      BY <1>9, PostedType, PostFailsType DEF PostBatch, TypeOK
  <2> QED
      BY <1>9, <2>2, <2>3, <2>4 DEF PostBatch, TypeOK
<1>10. CASE PostOne
  <2>1. PICK d \in agent.todo :
          \/ /\ Answers /\ d \notin Rejected
             /\ Accepts({d})
             /\ agent' = [agent EXCEPT !.todo = @ \ {d}, !.oks = @ + 1]
             /\ hist' = [hist EXCEPT !.to = enroll]
          \/ /\ enroll # NoBox /\ d \in Rejected
             /\ agent' = [agent EXCEPT !.todo = @ \ {d}]
             /\ UNCHANGED <<bms, budget, hist>>
          \/ /\ Unanswered
             /\ agent' = [agent EXCEPT !.todo = @ \ {d}]
             /\ UNCHANGED <<bms, hist>>
          \/ /\ enroll # NoBox /\ d \notin Rejected
             /\ Faulty
             /\ Accepts({d})
             /\ agent' = [agent EXCEPT !.todo = @ \ {d}]
             /\ UNCHANGED hist
      BY <1>10 DEF PostOne
  <2>2. {d} \in SUBSET Device
      BY DEF TypeOK
  <2>3. bms' \in [Boxes -> Household]
      BY <2>1, <2>2, AcceptsType DEF Answers
  <2>4. budget' \in Budget
      BY <2>1, FaultyType DEF TypeOK
  <2>5. agent' \in Agent /\ hist' \in Hist
    <3>1. agent.todo \ {d} \in SUBSET Device /\ agent.oks + 1 \in Nat
        BY DEF TypeOK
    <3>2. /\ [agent EXCEPT !.todo = @ \ {d}] \in Agent
          /\ [agent EXCEPT !.todo = @ \ {d}, !.oks = @ + 1] \in Agent
        BY <3>1
    <3>3. CASE enroll \in Boxes
      <4>1. [hist EXCEPT !.to = enroll] \in Hist
          BY <3>3
      <4> QED
          BY <2>1, <3>2, <4>1
    <3>4. CASE enroll = NoBox
        BY <2>1, <3>2, <3>4 DEF Answers
    <3> QED
        BY <3>3, <3>4 DEF TypeOK
  <2> QED
      BY <1>10, <2>3, <2>4, <2>5 DEF PostOne, TypeOK
<1>11. CASE EachDone
    BY <1>11, RaisesType, PostedType DEF EachDone, TypeOK
<1>12. CASE SavesShare
  <2>1. share' \in Share
      BY <1>12 DEF SavesShare, TypeOK, Share
  <2>2. budget' \in Budget
    <3>1. budget.edits - 1 \in Nat
        BY <1>12 DEF SavesShare, TypeOK
    <3> QED
        BY <1>12, <3>1 DEF SavesShare, TypeOK
  <2> QED
      BY <1>12, <2>1, <2>2 DEF SavesShare, TypeOK
<1>13. CASE Enrolls
  <2>1. budget' \in Budget
    <3>1. budget.enrolls - 1 \in Nat
        BY <1>13 DEF Enrolls, TypeOK
    <3> QED
        BY <1>13, <3>1 DEF Enrolls, TypeOK
  <2>2. hist.left \cup ({enroll} \ {NoBox}) \in SUBSET Boxes
      BY DEF TypeOK
  <2>3. hist' \in Hist
      BY <1>13, <2>2 DEF Enrolls
  <2> QED
      BY <1>13, <2>1, <2>3 DEF Enrolls, TypeOK
<1>14. CASE BmsCloses
    BY <1>14 DEF BmsCloses, TypeOK
<1>15. CASE AgentRestarts
  <2>1. budget' \in Budget
      BY <1>15, FaultyType DEF AgentRestarts
  <2>2. NoShare \in Share /\ IdleSnapshot \in Nat /\ 0 \in 0..(HeartbeatEvery - 1)
      BY FeedAssumption DEF NoShare, Share
  <2>3. [agent EXCEPT !.pc = "top", !.tick = 0, !.last = NoShare, !.todo = {},
                      !.oks = 0] \in Agent
      BY <2>2 DEF Places
  <2>4. [hist EXCEPT !.quiet = FALSE] \in Hist
      OBVIOUS
  <2>5. IdleSnapshot \in 0..(IdleSnapshot + 1)
      BY <2>2
  <2> QED
      BY <1>15, <2>1, <2>3, <2>4, <2>5 DEF AgentRestarts, TypeOK
<1>16. CASE UNCHANGED vars
    BY <1>16 DEF vars, TypeOK
<1> QED
    BY <1>1, <1>2, <1>3, <1>4, <1>5, <1>6, <1>7, <1>8, <1>9, <1>10, <1>11,
       <1>12, <1>13, <1>14, <1>15, <1>16 DEF Next, AgentNext

\* Every variable of the agent, the files and the BMS keeps its type.
THEOREM FeedTypeCorrect == Spec => []TypeOK
BY FeedTypeInitial, FeedTypeKept, PTL DEF Spec

-----------------------------------------------------------------------------
(* Delivery.  Delivered alone is not inductive: what is being sent must be  *)
(* the share that is compared, and edits must never bring a share back.     *)

\* The copies of the share that the agent holds are as old as they claim.
Ordered ==
    /\ -1 <= agent.last.at /\ agent.last.at <= agent.share.at
    /\ agent.share.at <= share.at /\ 0 <= share.at
    /\ agent.share.at = share.at => agent.share = share

\* Devices wait to be sent only in the two sending steps, and the share that
\* was read lists them.
Sending ==
    /\ At("post") \/ At("each") \/ agent.todo = {}
    /\ At("each") \/ agent.oks = 0
    /\ agent.todo \subseteq Allowed(agent.share)

\* Household b has taken a delivery of s.
Took(b, s) == /\ b \in Boxes
              /\ bms[b].flag = s.on
              /\ bms[b].devices \subseteq Allowed(s)

Taken ==
    /\ agent.oks > 0 => Took(hist.to, agent.share)
    /\ agent.last = share => Took(hist.to, share)

DeliveryInv == TypeOK /\ Ordered /\ Sending /\ Taken

LEMMA DeliveryInitial == Init => DeliveryInv
<1> SUFFICES ASSUME Init PROVE DeliveryInv
    OBVIOUS
<1>1. Ordered
    BY DEF Init, Ordered, NoShare
<1>2. Sending
    BY DEF Init, Sending, At
<1>3. Taken
    BY DEF Init, Taken, NoShare
<1> QED
    BY <1>1, <1>2, <1>3, FeedTypeInitial DEF DeliveryInv

\* The types that the steps below rest on.
LEMMA ShareTypes ==
    ASSUME TypeOK
    PROVE  /\ share \in Share /\ agent.share \in Share /\ agent.last \in Share
           /\ share.at \in Int /\ agent.share.at \in Int /\ agent.last.at \in Int
           /\ agent.oks \in Nat
<1>1. agent \in Agent
    BY DEF TypeOK, Agent
<1>2. agent.share \in Share /\ agent.last \in Share /\ agent.oks \in Nat
    BY <1>1 DEF Agent
<1> QED
    BY <1>2 DEF TypeOK, Share

\* The share that was delivered is the one last read, unless it is edited.
LEMMA DeliveredIsRead ==
    ASSUME TypeOK, Ordered, agent.last = share
    PROVE  agent.share = share
BY ShareTypes DEF Ordered

LEMMA OrderedKept ==
    ASSUME TypeOK, Ordered, share' = share, agent'.share = agent.share,
           agent'.last \in {agent.last, agent.share, NoShare}
    PROVE  Ordered'
BY ShareTypes DEF Ordered, NoShare

\* A step that posts nothing leaves what was delivered as it is.
LEMMA TakenKept ==
    ASSUME TypeOK, Ordered, Taken, share' = share, agent'.share = agent.share,
           agent'.last \in {agent.last, NoShare}, agent'.oks \in {agent.oks, 0},
           hist'.to = hist.to,
           \A b \in Boxes : Took(b, agent.share) => Took(b, agent.share)'
    PROVE  Taken'
<1>1. agent'.oks > 0 => Took(hist.to, agent.share)'
    BY DEF Taken, Took
<1>2. ASSUME agent'.last = share' PROVE Took(hist.to, share)'
  <2>1. agent.last = share
      BY <1>2, ShareTypes DEF Ordered, NoShare
  <2>2. agent.share = share /\ Took(hist.to, share)
      BY <2>1, DeliveredIsRead DEF Taken
  <2> QED
      BY <2>2 DEF Took
<1> QED
    BY <1>1, <1>2 DEF Taken

\* A household that takes a post knows the share that the agent has read, and
\* the other households keep what they know.
LEMMA AcceptsTook ==
    ASSUME TypeOK, Sending, enroll # NoBox, NEW ds \in SUBSET agent.todo,
           Accepts(ds), agent'.share = agent.share
    PROVE  \A b \in Boxes : b = enroll \/ Took(b, agent.share)
                                => Took(b, agent.share)'
<1>1. enroll \in Boxes /\ bms \in [Boxes -> Household]
    BY DEF TypeOK, Household
<1>2. bms'[enroll].flag = agent.share.on /\ bms'[enroll].devices = ds
    BY <1>1 DEF Accepts, Household
<1>3. \A b \in Boxes : b # enroll => bms'[b] = bms[b]
    BY <1>1 DEF Accepts
<1>4. ds \subseteq Allowed(agent.share)
    BY DEF Sending
<1> QED
    BY <1>2, <1>3, <1>4 DEF Took, Allowed

LEMMA SameTook ==
    ASSUME agent'.share = agent.share,
           \A b \in Boxes : /\ bms'[b].flag = bms[b].flag
                            /\ bms'[b].devices = bms[b].devices
    PROVE  \A b \in Boxes : Took(b, agent.share) => Took(b, agent.share)'
BY DEF Took, Allowed

\* A step that neither reads the share nor completes a delivery: what waits to
\* be sent is kept or dropped.
LEMMA QuietKept ==
    ASSUME DeliveryInv, share' = share, agent'.share = agent.share,
           agent'.last \in {agent.last, NoShare},
           \/ /\ agent'.pc \in {agent.pc, "each"}
              /\ agent'.todo \subseteq agent.todo /\ agent'.oks = agent.oks
           \/ agent'.todo = {} /\ agent'.oks = 0,
           hist'.to = hist.to,
           \A b \in Boxes : Took(b, agent.share) => Took(b, agent.share)'
    PROVE  Ordered' /\ Sending' /\ Taken'
<1>1. Ordered'
    BY OrderedKept DEF DeliveryInv
<1>2. Sending'
    BY DEF DeliveryInv, Sending, At, Allowed
<1>3. Taken'
    BY TakenKept DEF DeliveryInv
<1> QED
    BY <1>1, <1>2, <1>3

LEMMA RaisesQuiet ==
    ASSUME TypeOK, Raises
    PROVE  /\ agent'.share = agent.share /\ agent'.last = agent.last
           /\ agent'.todo = {} /\ agent'.oks = 0 /\ hist'.to = hist.to
BY DEF TypeOK, Raises

LEMMA DeliveryKept == DeliveryInv /\ [Next]_vars => DeliveryInv'
<1> SUFFICES ASSUME DeliveryInv, [Next]_vars PROVE Ordered' /\ Sending' /\ Taken'
    BY FeedTypeKept DEF DeliveryInv
<1>a. TypeOK /\ Ordered /\ Sending /\ Taken
    BY DEF DeliveryInv
<1>b. agent \in Agent /\ hist \in Hist /\ bms \in [Boxes -> Household]
    BY <1>a DEF TypeOK, Agent, Hist, Household
<1>1. CASE Begins
  <2>1. /\ agent'.share = share /\ agent'.last = agent.last
        /\ agent'.todo = {} /\ agent'.oks = 0
      BY <1>1, <1>a, <1>b DEF Begins, Agent, Sending, At
  <2>2. Ordered'
      BY <1>1, <1>a, <2>1, ShareTypes DEF Begins, Ordered
  <2>3. Sending'
      BY <2>1 DEF Sending
  <2>4. Taken'
      BY <1>1, <1>a, <2>1 DEF Begins, Taken, Took, Allowed
  <2> QED
      BY <2>2, <2>3, <2>4
<1>2. CASE Waits \/ Sleeps \/ Caches
  <2>1. /\ agent'.share = agent.share /\ agent'.last = agent.last
        /\ agent'.todo = {} /\ agent'.oks = 0
      BY <1>2, <1>a, <1>b DEF Waits, Sleeps, Caches, Agent, Sending, At
  <2>2. share' = share /\ bms' = bms /\ hist'.to = hist.to
      BY <1>2, <1>b DEF Waits, Sleeps, Caches, Hist
  <2> QED
      BY <2>1, <2>2, QuietKept, SameTook
<1>3. CASE Subscription
  <2>1. /\ agent'.share = agent.share /\ agent'.last = agent.last
        /\ agent'.todo = {} /\ agent'.oks = 0 /\ hist'.to = hist.to
      BY <1>3, <1>a, <1>b, RaisesQuiet DEF Subscription, Agent, Hist, Sending, At
  <2> QED
      BY <1>3, <2>1, QuietKept, SameTook DEF Subscription
<1>4. CASE Heartbeat
  <2>1. /\ agent'.share = agent.share /\ agent'.last = agent.last
        /\ agent'.todo = {} /\ agent'.oks = 0 /\ hist'.to = hist.to
      BY <1>4, <1>a, <1>b, RaisesQuiet DEF Heartbeat, Agent, Sending, At
  <2>2. \A b \in Boxes : /\ bms'[b].flag = bms[b].flag
                         /\ bms'[b].devices = bms[b].devices
      BY <1>4, <1>b DEF Heartbeat, Household
  <2> QED
      BY <1>4, <2>1, <2>2, QuietKept, SameTook DEF Heartbeat
<1>5. CASE PushLocation
  <2>1. /\ agent'.share = agent.share /\ agent'.last = agent.last
        /\ agent'.todo = {} /\ agent'.oks = 0
      BY <1>5, <1>a, <1>b DEF PushLocation, Agent, Sending, At
  <2>2. \A b \in Boxes : /\ bms'[b].flag = bms[b].flag
                         /\ bms'[b].devices = bms[b].devices
      BY <1>5, <1>b DEF PushLocation, Household
  <2> QED
      BY <1>5, <2>1, <2>2, QuietKept, SameTook DEF PushLocation
<1>6. CASE ReadsStates
  <2>1. /\ agent'.share = agent.share /\ agent'.last = agent.last
        /\ agent'.oks = agent.oks /\ agent.oks = 0
        /\ agent'.todo = {} \/ (agent'.pc = "post" /\ agent'.todo = Collected)
      BY <1>6, <1>a, <1>b DEF ReadsStates, Agent, Sending, At
  <2>2. Collected \subseteq Allowed(agent.share)
      BY DEF Collected, Allowed
  <2>3. Ordered'
      BY <1>6, <1>a, <2>1, OrderedKept DEF ReadsStates
  <2>4. Sending'
      BY <2>1, <2>2 DEF Sending, At, Allowed
  <2>5. Taken'
      BY <1>6, <1>a, <2>1, TakenKept, SameTook DEF ReadsStates
  <2> QED
      BY <2>3, <2>4, <2>5
<1>7. CASE PostBatch
  <2>1. agent.oks = 0 /\ share' = share /\ enroll' = enroll
      BY <1>7, <1>a DEF PostBatch, Sending, At
  <2>2. CASE Answers /\ Accepts(agent.todo) /\ Posted
                     /\ hist' = [hist EXCEPT !.to = enroll, !.quiet = TRUE]
    <3>1. /\ agent'.share = agent.share /\ agent'.last = agent.share
          /\ agent'.todo = {} /\ agent'.oks = 0 /\ hist'.to = enroll
        BY <2>2, <1>b DEF Posted, Agent, Hist
    <3>2. enroll \in Boxes
        BY <2>2, <1>a DEF Answers, TypeOK
    <3>3. Took(enroll, agent.share)'
        BY <2>2, <1>a, <3>1, <3>2, AcceptsTook, <2>1 DEF Answers
    <3>4. Ordered'
        BY <1>a, <2>1, <3>1, OrderedKept
    <3>5. Sending'
        BY <3>1 DEF Sending
    <3>6. Taken'
        BY <1>a, <2>1, <3>1, <3>2, <3>3 DEF Taken, Took
    <3> QED
        BY <3>4, <3>5, <3>6
  <2>3. CASE PostFails /\ (bms' = bms \/ (enroll # NoBox /\ Accepts(agent.todo)))
    <3>1. /\ agent'.share = agent.share /\ agent'.last = agent.last
          /\ hist'.to = hist.to
          /\ \/ /\ agent'.pc \in {agent.pc, "each"}
                /\ agent'.todo \subseteq agent.todo /\ agent'.oks = agent.oks
             \/ agent'.todo = {} /\ agent'.oks = 0
        BY <2>3, <1>a, <1>b, RaisesQuiet DEF PostFails, Agent
    <3>2. \A b \in Boxes : Took(b, agent.share) => Took(b, agent.share)'
        BY <2>3, <1>a, <3>1, SameTook, AcceptsTook
    <3> QED
        BY <2>1, <3>1, <3>2, QuietKept
  <2> QED
      BY <1>7, <2>2, <2>3 DEF PostBatch
<1>8. CASE PostOne
  <2>1. At("each") /\ share' = share /\ enroll' = enroll
      BY <1>8 DEF PostOne
  <2>2. PICK d \in agent.todo :
          \/ /\ Answers /\ d \notin Rejected
             /\ Accepts({d})
             /\ agent' = [agent EXCEPT !.todo = @ \ {d}, !.oks = @ + 1]
             /\ hist' = [hist EXCEPT !.to = enroll]
          \/ /\ enroll # NoBox /\ d \in Rejected
             /\ agent' = [agent EXCEPT !.todo = @ \ {d}]
             /\ UNCHANGED <<bms, budget, hist>>
          \/ /\ Unanswered
             /\ agent' = [agent EXCEPT !.todo = @ \ {d}]
             /\ UNCHANGED <<bms, hist>>
          \/ /\ enroll # NoBox /\ d \notin Rejected
             /\ Faulty
             /\ Accepts({d})
             /\ agent' = [agent EXCEPT !.todo = @ \ {d}]
             /\ UNCHANGED hist
      BY <1>8 DEF PostOne
  <2>3. /\ agent'.share = agent.share /\ agent'.last = agent.last
        /\ agent'.pc = agent.pc /\ agent'.todo = agent.todo \ {d}
      BY <2>2, <1>b DEF Agent
  <2>4. {d} \in SUBSET agent.todo
      BY <2>2
  <2>5. CASE /\ Answers /\ Accepts({d}) /\ agent'.oks = agent.oks + 1
             /\ hist'.to = enroll
    <3>1. enroll \in Boxes /\ Took(enroll, agent.share)'
        BY <2>5, <1>a, <2>1, <2>3, <2>4, AcceptsTook DEF Answers, TypeOK
    <3>2. Ordered'
        BY <1>a, <2>1, <2>3, OrderedKept
    <3>3. Sending'
        BY <1>a, <2>1, <2>3 DEF Sending, At, Allowed
    <3>4. agent'.last = share' => agent.share = share
        BY <1>a, <2>1, <2>3, DeliveredIsRead
    <3>5. Taken'
        BY <2>5, <2>1, <2>3, <3>1, <3>4 DEF Taken, Took
    <3> QED
        BY <3>2, <3>3, <3>5
  <2>6. CASE /\ hist' = hist /\ agent'.oks = agent.oks
             /\ bms' = bms \/ (enroll # NoBox /\ Accepts({d}))
    <3>1. \A b \in Boxes : Took(b, agent.share) => Took(b, agent.share)'
        BY <2>6, <1>a, <2>3, <2>4, SameTook, AcceptsTook
    <3> QED
        BY <2>6, <2>1, <2>3, <3>1, QuietKept
  <2>7. /\ agent' = [agent EXCEPT !.todo = @ \ {d}] => agent'.oks = agent.oks
        /\ agent' = [agent EXCEPT !.todo = @ \ {d}, !.oks = @ + 1]
               => agent'.oks = agent.oks + 1
        /\ hist' = [hist EXCEPT !.to = enroll] => hist'.to = enroll
      BY <1>b DEF Agent, Hist
  <2> QED
      BY <2>2, <2>5, <2>6, <2>7
<1>9. CASE EachDone
  <2>1. At("each") /\ share' = share /\ bms' = bms /\ agent.todo = {}
      BY <1>9 DEF EachDone
  <2>2. CASE Raises
      BY <2>1, <2>2, <1>a, RaisesQuiet, QuietKept, SameTook
  <2>3. CASE /\ agent.oks # 0 /\ Posted
             /\ hist' = [hist EXCEPT !.quiet = TRUE]
    <3>1. /\ agent'.share = agent.share /\ agent'.last = agent.share
          /\ agent'.todo = {} /\ agent'.oks = 0 /\ hist'.to = hist.to
        BY <2>3, <1>b DEF Posted, Agent, Hist
    <3>2. agent.oks > 0
        BY <2>3, <1>a, ShareTypes
    <3>3. Took(hist.to, agent.share)
        BY <3>2, <1>a DEF Taken
    <3>4. Ordered'
        BY <1>a, <2>1, <3>1, OrderedKept
    <3>5. Sending'
        BY <3>1 DEF Sending
    <3>6. Taken'
        BY <2>1, <3>1, <3>3 DEF Taken, Took, Allowed
    <3> QED
        BY <3>4, <3>5, <3>6
  <2> QED
      BY <1>9, <2>2, <2>3 DEF EachDone
<1>10. CASE SavesShare
  <2>1. agent' = agent /\ bms' = bms /\ hist' = hist /\ share'.at = share.at + 1
      BY <1>10 DEF SavesShare
  <2>2. Ordered' /\ agent'.last # share'
      BY <1>a, <2>1, ShareTypes DEF Ordered
  <2>3. Sending'
      BY <1>a, <2>1 DEF Sending, At, Allowed
  <2>4. Taken'
      BY <1>a, <2>1, <2>2 DEF Taken, Took, Allowed
  <2> QED
      BY <2>2, <2>3, <2>4
<1>11. CASE Enrolls \/ BmsCloses \/ UNCHANGED vars
  <2>1. share' = share /\ agent' = agent /\ bms' = bms /\ hist'.to = hist.to
      BY <1>11, <1>b DEF Enrolls, BmsCloses, vars, Hist
  <2> QED
      BY <2>1, QuietKept, SameTook
<1>12. CASE AgentRestarts
  <2>1. /\ agent'.share = agent.share /\ agent'.last = NoShare
        /\ agent'.todo = {} /\ agent'.oks = 0 /\ hist'.to = hist.to
        /\ share' = share /\ bms' = bms
      BY <1>12, <1>b DEF AgentRestarts, Agent, Hist
  <2> QED
      BY <2>1, QuietKept, SameTook
<1> QED
    BY <1>1, <1>2, <1>3, <1>4, <1>5, <1>6, <1>7, <1>8, <1>9, <1>10, <1>11,
       <1>12 DEF Next, AgentNext

\* When the agent holds the share for delivered, the household that took the
\* delivery knows whether it is on and has no device that it does not list.
THEOREM FeedDelivered == Spec => []Delivered
<1>1. DeliveryInv => Delivered
    BY DEF DeliveryInv, Taken, Took, Delivered
<1> QED
    BY <1>1, DeliveryInitial, DeliveryKept, PTL DEF Spec

-----------------------------------------------------------------------------
(* The silence between two status posts.                                   *)

\* No step but the ends of an iteration leads to its sleep.
LEMMA StaysAwake ==
    ASSUME agent'.pc # "sleep"
    PROVE  SilenceBounded'
BY DEF SilenceBounded, At

\* A post starts the silence anew; an iteration that raises is not quiet.
LEMMA SilenceEnds ==
    ASSUME TypeOK, Posted \/ Raises
    PROVE  SilenceBounded'
<1>1. hist \in Hist
    BY DEF TypeOK, Hist
<1>2. CASE Raises
  <2>1. hist'.quiet = FALSE
      BY <1>1, <1>2 DEF Raises, Hist
  <2> QED
      BY <2>1 DEF SilenceBounded
<1>3. CASE Posted
  <2>1. age' = 0
      BY <1>3 DEF Posted
  <2> QED
      BY <2>1 DEF SilenceBounded
<1> QED BY <1>2, <1>3

LEMMA SilenceKept == TypeOK /\ SilenceBounded /\ [Next]_vars => SilenceBounded'
<1> SUFFICES ASSUME TypeOK, SilenceBounded, [Next]_vars PROVE SilenceBounded'
    OBVIOUS
<1>a. agent \in Agent /\ hist \in Hist /\ age \in Nat
    BY DEF TypeOK, Agent, Hist
<1>1. CASE Begins \/ Sleeps \/ PushLocation \/ PostOne \/ AgentRestarts
  <2>1. agent'.pc # "sleep"
    <3>1. CASE Begins
        BY <1>a, <3>1 DEF Begins, Agent
    <3>2. CASE Sleeps \/ PushLocation \/ AgentRestarts
        BY <1>a, <3>2 DEF Sleeps, PushLocation, AgentRestarts, Agent
    <3>3. CASE PostOne
        BY <1>a, <3>3 DEF PostOne, At, Agent
    <3> QED BY <1>1, <3>1, <3>2, <3>3
  <2> QED BY <2>1, StaysAwake
<1>2. CASE Waits
  <2>1. hist'.quiet = FALSE
      BY <1>a, <1>2 DEF Waits, Hist
  <2> QED BY <2>1 DEF SilenceBounded
<1>3. CASE Subscription \/ Heartbeat
  <2>1. CASE Raises
      BY <2>1, SilenceEnds
  <2>2. CASE ~Raises
    <3>1. agent'.pc # "sleep"
        BY <1>a, <1>3, <2>2 DEF Subscription, Heartbeat, Agent
    <3> QED BY <3>1, StaysAwake
  <2> QED BY <2>1, <2>2
<1>4. CASE Caches
  <2>1. agent'.pc = "sleep" => agent'.fail
      BY <1>a, <1>4 DEF Caches, Agent
  <2> QED BY <2>1 DEF SilenceBounded, At
<1>5. CASE ReadsStates
  <2>1. /\ agent'.pc = "sleep" => ~Due
        /\ agent'.share = agent.share
    <3>1. PICK active \in SUBSET Collected :
              agent' = [agent EXCEPT
                  !.pc = IF Changed \/ active # {} \/ Due THEN "post" ELSE "sleep",
                  !.todo = IF Changed \/ active # {} \/ Due THEN Collected ELSE {}]
        BY <1>5 DEF ReadsStates
    <3>2. /\ agent'.pc = IF Changed \/ active # {} \/ Due THEN "post" ELSE "sleep"
          /\ agent'.share = agent.share
        BY <1>a, <3>1 DEF Agent
    <3> QED BY <3>2
  <2>2. age' = age
      BY <1>5 DEF ReadsStates
  <2> QED BY <1>a, <2>1, <2>2, FeedAssumption DEF SilenceBounded, At, Due
<1>6. CASE PostBatch
  <2>1. CASE Posted \/ Raises
      BY <2>1, SilenceEnds
  <2>2. CASE ~Posted /\ ~Raises
    <3>1. agent' = [agent EXCEPT !.pc = "each"]
        BY <1>6, <2>2 DEF PostBatch, PostFails
    <3>2. agent'.pc # "sleep"
        BY <1>a, <3>1 DEF Agent
    <3> QED BY <3>2, StaysAwake
  <2> QED BY <2>1, <2>2
<1>7. CASE EachDone
  <2>1. Raises \/ Posted
      BY <1>7 DEF EachDone
  <2> QED BY <2>1, SilenceEnds
<1>8. CASE SavesShare \/ Enrolls \/ BmsCloses \/ UNCHANGED vars
  <2>1. agent' = agent /\ age' = age /\ hist'.quiet = hist.quiet
      BY <1>8, <1>a DEF SavesShare, Enrolls, BmsCloses, vars, Hist
  <2> QED BY <2>1 DEF SilenceBounded, At
<1> QED
    BY <1>1, <1>2, <1>3, <1>4, <1>5, <1>6, <1>7, <1>8 DEF Next, AgentNext

\* While the share is on and no call fails, an iteration that the BMS does not
\* close ends less than the idle interval after the last status post
\* (platform/agent.py should_idle_snapshot), for every interval.
THEOREM FeedSpeaks == Spec => []SilenceBounded
<1>1. Init => SilenceBounded
    BY DEF Init, SilenceBounded, At
<1> QED
    BY <1>1, FeedTypeInitial, FeedTypeKept, SilenceKept, PTL DEF Spec
=============================================================================

----------------------------- MODULE SensoryFeed -----------------------------
(***************************************************************************)
(* platform/agent.py: the loop of the sensory-feed agent, with what it     *)
(* reads (the share file, the enroll file), what it writes (the runtime    *)
(* cache) and the BMS it calls.                                            *)
(*                                                                         *)
(* An action is one BMS call, or the reading of files and Home Assistant   *)
(* states between two calls.  Time is counted in loop intervals            *)
(* (BMS_INTERVAL), and a call takes none.  A share lists only sensors that *)
(* the client has classified: the others are never sent.                   *)
(***************************************************************************)
EXTENDS Integers, FiniteSets

CONSTANTS
    Sensors,            \* binary sensors of the house
    HeatPump,           \* the climate entity
    Boxes,              \* enrollments, each for a household of the BMS
    NoBox,              \* no enroll file; no runtime cache
    Rejected,           \* devices the BMS answers with a validation error
    HeartbeatEvery,     \* BMS_HEARTBEAT_EVERY
    IdleSnapshot,       \* BMS_IDLE_SNAPSHOT_SECONDS in intervals, 0 = never
    MaxEdits,           \* bound: edits of the share
    MaxEnrolls,         \* bound: changes of the enrollment
    MaxFaults           \* bound: calls that fail or whose answer is lost,
                        \* and restarts of the agent

ASSUME FeedAssumption ==
    /\ HeatPump \notin Sensors
    /\ NoBox \notin Boxes
    /\ Rejected \subseteq Sensors \cup {HeatPump}
    /\ HeartbeatEvery \in Nat \ {0}
    /\ {IdleSnapshot, MaxEdits, MaxEnrolls, MaxFaults} \subseteq Nat

NoShare == [on |-> FALSE, sensors |-> {}, at |-> -1]    \* last_share_sig = ""

VARIABLES
    share,      \* bms_share.json, what share_signature covers
    enroll,     \* bms_enroll.json
    runtime,    \* bms_runtime.json: whose flags it caches
    agent,      \* locals of loop()
    age,        \* intervals since last_status_post
    bms,        \* per household: the last status post it accepted, the last
                \* heartbeat's limited_share_enabled, whether it has a location
    failClosed, \* what the BMS answers to GET subscription
    budget,     \* what is left of the bounds
    hist        \* history, read by properties only

vars == <<share, enroll, runtime, agent, age, bms, failClosed, budget, hist>>

Device == Sensors \cup {HeatPump}
Share == [on : BOOLEAN, sensors : SUBSET Sensors, at : Int]
Places == {"top", "subscription", "heartbeat", "cache", "location", "states",
           "post", "each", "sleep"}

Init ==
    /\ share \in [on : BOOLEAN, sensors : SUBSET Sensors, at : {0}]
    /\ enroll \in Boxes \cup {NoBox}
    /\ runtime = NoBox
    /\ agent = [pc |-> "top", tick |-> 0, last |-> NoShare, share |-> NoShare,
                uid |-> NoBox, beat |-> FALSE, fail |-> FALSE, hb |-> NoBox,
                todo |-> {}, oks |-> 0]
    /\ age = IdleSnapshot
    /\ bms = [b \in Boxes |-> [flag |-> FALSE, devices |-> {},
                               gate |-> FALSE, located |-> FALSE]]
    /\ failClosed \in BOOLEAN
    /\ budget = [edits |-> MaxEdits, enrolls |-> MaxEnrolls,
                 faults |-> MaxFaults]
    /\ hist = [to |-> NoBox, told |-> FALSE, quiet |-> FALSE, left |-> {}]

-----------------------------------------------------------------------------
(* The loop.                                                               *)

At(pc) == agent.pc = pc
Changed == agent.share # agent.last         \* share_changed

\* A call is answered, fails, or takes effect and its answer is lost.
\* bms_request reads the credentials again for every call.
Answers == enroll # NoBox /\ UNCHANGED budget
Faulty == budget.faults > 0 /\ budget' = [budget EXCEPT !.faults = @ - 1]
Unanswered == IF enroll = NoBox THEN UNCHANGED budget ELSE Faulty

Begins ==
    /\ At("top")
    /\ enroll # NoBox
    /\ agent' = [agent EXCEPT
           !.share = share, !.uid = enroll, !.fail = FALSE,
           !.beat = agent.tick = 0,
           !.tick = (@ + 1) % HeartbeatEvery,
           !.pc = IF agent.tick = 0 THEN "subscription" ELSE "location"]
    /\ UNCHANGED <<share, enroll, runtime, age, bms, failClosed, budget, hist>>

\* No token: wait for the enroll UI.
Waits ==
    /\ At("top")
    /\ enroll = NoBox
    /\ agent' = [agent EXCEPT !.pc = "sleep"]
    /\ hist' = [hist EXCEPT !.quiet = FALSE]
    /\ UNCHANGED <<share, enroll, runtime, age, bms, failClosed, budget>>

Sleeps ==
    /\ At("sleep")
    /\ agent' = [agent EXCEPT !.pc = "top"]
    /\ age' = IF age > IdleSnapshot THEN age ELSE age + 1
    /\ UNCHANGED <<share, enroll, runtime, bms, failClosed, budget, hist>>

\* Any exception ends the iteration.
Raises ==
    /\ agent' = [agent EXCEPT !.pc = "sleep", !.todo = {}, !.oks = 0]
    /\ hist' = [hist EXCEPT !.quiet = FALSE]

\* GET subscription
Subscription ==
    /\ At("subscription")
    /\ \/ /\ Answers
          /\ agent' = [agent EXCEPT !.fail = failClosed, !.pc = "heartbeat"]
          /\ hist' = [hist EXCEPT !.told = failClosed]
       \/ Unanswered /\ Raises
    /\ UNCHANGED <<share, enroll, runtime, age, bms, failClosed>>

\* POST heartbeat.  Its body has the uid read at the start of the iteration.
Heartbeat ==
    /\ At("heartbeat")
    /\ \/ /\ Answers
          /\ bms' = [bms EXCEPT ![enroll].gate = agent.share.on]
          /\ agent' = [agent EXCEPT !.hb = enroll, !.pc = "cache"]
          /\ UNCHANGED hist
       \/ agent.uid # enroll /\ UNCHANGED <<bms, budget>> /\ Raises
       \/ Unanswered /\ UNCHANGED bms /\ Raises
       \/ /\ enroll # NoBox /\ Faulty
          /\ bms' = [bms EXCEPT ![enroll].gate = agent.share.on]
          /\ Raises
    /\ UNCHANGED <<share, enroll, runtime, age, failClosed>>

\* save_runtime_from_snapshot; a closed box shares nothing in this iteration.
Caches ==
    /\ At("cache")
    /\ runtime' = agent.hb
    /\ agent' = [agent EXCEPT !.pc = IF agent.fail THEN "sleep" ELSE "location"]
    /\ UNCHANGED <<share, enroll, age, bms, failClosed, budget, hist>>

\* push_home_location: an error is only printed.
PushLocation ==
    /\ At("location")
    /\ agent' = [agent EXCEPT !.pc = "states"]
    /\ IF agent.share.on /\ (Changed \/ agent.beat)
       THEN \/ Answers /\ bms' = [bms EXCEPT ![enroll].located = TRUE]
            \/ Unanswered /\ UNCHANGED bms
       ELSE UNCHANGED <<bms, budget>>
    /\ UNCHANGED <<share, enroll, runtime, age, failClosed, hist>>

\* collect_devices: the share's sensors, and the heat pump unless the share
\* has changed.
Collected == IF ~agent.share.on THEN {}
             ELSE agent.share.sensors \cup (IF Changed THEN {} ELSE {HeatPump})

\* Mutant: the comparison of should_idle_snapshot is strict.
DueLater == agent.share.on /\ IdleSnapshot > 0 /\ age > IdleSnapshot

\* should_idle_snapshot
Due == agent.share.on /\ IdleSnapshot > 0 /\ age >= IdleSnapshot

\* Mutant: an inactive share is never posted, changed or not.
ReadsActiveStates ==
    /\ At("states")
    /\ \E active \in SUBSET Collected :
           agent' = [agent EXCEPT
               !.pc = IF agent.share.on /\ (Changed \/ active # {} \/ Due)
                      THEN "post" ELSE "sleep",
               !.todo = Collected]
    /\ UNCHANGED <<share, enroll, runtime, age, bms, failClosed, budget, hist>>

\* should_post_feed: active is what feed_is_positive sees of the devices.
ReadsStates ==
    /\ At("states")
    /\ \E active \in SUBSET Collected :
           agent' = [agent EXCEPT
               !.pc = IF Changed \/ active # {} \/ Due THEN "post" ELSE "sleep",
               !.todo = IF Changed \/ active # {} \/ Due THEN Collected ELSE {}]
    /\ UNCHANGED <<share, enroll, runtime, age, bms, failClosed, budget, hist>>

Accepts(devices) == bms' = [bms EXCEPT ![enroll].flag = agent.share.on,
                                       ![enroll].devices = devices]

\* Mutant: the signature is taken after the post.
PostedLate ==
    /\ agent' = [agent EXCEPT !.last = share, !.pc = "sleep",
                               !.todo = {}, !.oks = 0]
    /\ age' = 0

\* last_share_sig = sig; last_status_post = now
Posted ==
    /\ agent' = [agent EXCEPT !.last = agent.share, !.pc = "sleep",
                               !.todo = {}, !.oks = 0]
    /\ age' = 0

\* POST status with all devices.  When it fails and there are several, each
\* is sent again by itself.
PostFails ==
    /\ IF Cardinality(agent.todo) <= 1
       THEN Raises
       ELSE agent' = [agent EXCEPT !.pc = "each"] /\ UNCHANGED hist
    /\ UNCHANGED age

PostBatch ==
    /\ At("post")
    /\ \/ /\ Answers
          /\ agent.todo \cap Rejected = {}
          /\ Accepts(agent.todo)
          /\ Posted
          /\ hist' = [hist EXCEPT !.to = enroll, !.quiet = TRUE]
       \/ /\ enroll # NoBox /\ agent.todo \cap Rejected # {}
          /\ PostFails
          /\ UNCHANGED <<bms, budget>>
       \/ Unanswered /\ PostFails /\ UNCHANGED bms
       \/ /\ enroll # NoBox /\ agent.todo \cap Rejected = {}
          /\ Faulty
          /\ PostFails
          /\ Accepts(agent.todo)
    /\ UNCHANGED <<share, enroll, runtime, failClosed>>

PostOne ==
    /\ At("each")
    /\ \E d \in agent.todo :
          \/ /\ Answers /\ d \notin Rejected
             /\ Accepts({d})
             /\ agent' = [agent EXCEPT !.todo = @ \ {d}, !.oks = @ + 1]
             /\ hist' = [hist EXCEPT !.to = enroll]
          \/ /\ enroll # NoBox /\ d \in Rejected
             /\ agent' = [agent EXCEPT !.todo = @ \ {d}]
             /\ UNCHANGED <<bms, budget, hist>>
          \/ /\ Unanswered
             /\ agent' = [agent EXCEPT !.todo = @ \ {d}]
             /\ UNCHANGED <<bms, hist>>
          \/ /\ enroll # NoBox /\ d \notin Rejected
             /\ Faulty
             /\ Accepts({d})
             /\ agent' = [agent EXCEPT !.todo = @ \ {d}]
             /\ UNCHANGED hist
    /\ UNCHANGED <<share, enroll, runtime, age, failClosed>>

\* A partial success counts as posted.
EachDone ==
    /\ At("each")
    /\ agent.todo = {}
    /\ IF agent.oks = 0 THEN Raises /\ UNCHANGED age
                        ELSE Posted /\ hist' = [hist EXCEPT !.quiet = TRUE]
    /\ UNCHANGED <<share, enroll, runtime, bms, failClosed, budget>>

-----------------------------------------------------------------------------
(* The owner, the enroll UI, the BMS and the container runtime.            *)

\* set_limited_share: the file is replaced, with a new updated_at.
SavesShare ==
    /\ budget.edits > 0
    /\ budget' = [budget EXCEPT !.edits = @ - 1]
    /\ \E on \in BOOLEAN, s \in SUBSET Sensors :
           share' = [on |-> on, sensors |-> s, at |-> share.at + 1]
    /\ UNCHANGED <<enroll, runtime, agent, age, bms, failClosed, hist>>

\* save_enroll and clear_enroll drop the runtime cache.
Enrolls ==
    /\ budget.enrolls > 0
    /\ budget' = [budget EXCEPT !.enrolls = @ - 1]
    /\ enroll' \in (Boxes \cup {NoBox}) \ {enroll}
    /\ runtime' = NoBox
    /\ hist' = [hist EXCEPT !.left = @ \cup ({enroll} \ {NoBox})]
    /\ UNCHANGED <<share, agent, age, bms, failClosed>>

BmsCloses ==
    /\ failClosed' = ~failClosed
    /\ UNCHANGED <<share, enroll, runtime, agent, age, bms, budget, hist>>

AgentRestarts ==
    /\ Faulty
    /\ agent' = [agent EXCEPT !.pc = "top", !.tick = 0, !.last = NoShare,
                               !.todo = {}, !.oks = 0]
    /\ age' = IdleSnapshot
    /\ hist' = [hist EXCEPT !.quiet = FALSE]
    /\ UNCHANGED <<share, enroll, runtime, bms, failClosed>>

AgentNext ==
    \/ Begins \/ Waits \/ Sleeps
    \/ Subscription \/ Heartbeat \/ Caches \/ PushLocation \/ ReadsStates
    \/ PostBatch \/ PostOne \/ EachDone

Next ==
    \/ AgentNext
    \/ SavesShare
    \/ Enrolls
    \/ BmsCloses
    \/ AgentRestarts

Spec == Init /\ [][Next]_vars

\* The loop goes on; nothing makes a person, the BMS or a fault act.
FairSpec == Spec /\ WF_vars(AgentNext)

-----------------------------------------------------------------------------
(* Properties.                                                             *)

TypeOK ==
    /\ share \in Share
    /\ enroll \in Boxes \cup {NoBox}
    /\ runtime \in Boxes \cup {NoBox}
    /\ agent \in [pc : Places, tick : 0..(HeartbeatEvery - 1), last : Share,
                  share : Share, uid : Boxes \cup {NoBox}, beat : BOOLEAN,
                  fail : BOOLEAN, hb : Boxes \cup {NoBox},
                  todo : SUBSET Device, oks : Nat]
    /\ age \in 0..(IdleSnapshot + 1)
    /\ bms \in [Boxes -> [flag : BOOLEAN, devices : SUBSET Device,
                          gate : BOOLEAN, located : BOOLEAN]]
    /\ failClosed \in BOOLEAN
    /\ budget \in [edits : Nat, enrolls : Nat, faults : Nat]
    /\ hist \in [to : Boxes \cup {NoBox}, told : BOOLEAN, quiet : BOOLEAN,
                left : SUBSET Boxes]

\* When the agent holds the share for delivered, the household that took the
\* delivery knows that it is on or off and has no device the share does not
\* list: edits between two calls, lost answers, partial retries and restarts
\* leave no stale consent behind (agent.py last_share_sig).
Allowed(s) == IF s.on THEN s.sensors \cup {HeatPump} ELSE {}
Delivered ==
    agent.last = share =>
        /\ bms[hist.to].flag = share.on
        /\ bms[hist.to].devices \subseteq Allowed(share)

\* While the share is on and no call fails, an iteration that the BMS does not
\* close ends less than the idle interval after the last status post: "idle
\* snapshot every 60s while share stays ON" (docs/BMS_LIMITED_SHARE.md:41).
SilenceBounded ==
    /\ IdleSnapshot > 0
    /\ At("sleep") /\ agent.share.on /\ ~agent.fail /\ hist.quiet
    => age < IdleSnapshot

\* Once the owner stops editing and the BMS has opened the box for good, the last
\* edit is held for delivered, and the household that the box is enrolled with
\* knows it, whatever failed before - unless the BMS refuses every sensor of it.
\* A new enrollment does not make the agent post again (last_share_sig stays): of
\* a share that is on the idle snapshot tells the new household.  A share that
\* is off is told to nobody, so that a household which the box had left, and comes
\* back to, may still have the older one.
AllRejected == share.on /\ share.sensors # {} /\ share.sensors \subseteq Rejected
Knows(b) == bms[b].flag = share.on /\ bms[b].devices \subseteq Allowed(share)
EditsReach ==
    /\ IdleSnapshot > 0
    /\ <>[]~failClosed
    => <>[](enroll # NoBox /\ ~AllRejected
               => /\ agent.last = share
                  /\ share.on \/ enroll \notin hist.left => Knows(enroll))

\* The household's consent gate follows the box through the heartbeat, also of
\* a closed box and after a new enrollment (docs/INTEGRATION.md:58).
GateFollows == <>[](enroll # NoBox => bms[enroll].gate = share.on)

\* The cache that a heartbeat of the old enrollment has left behind is replaced.
RuntimeCatchesUp == <>[](enroll # NoBox => runtime = enroll)

\* A failed location push, which is only printed, is made up for.
LocationReaches ==
    <>[]~failClosed => <>[](enroll # NoBox /\ share.on => bms[enroll].located)

\* What the household and Home Assistant know follows the box, all of it: the
\* last edit, the gate, the cache and the location.
Converges == EditsReach /\ GateFollows /\ RuntimeCatchesUp /\ LocationReaches

-----------------------------------------------------------------------------
(* What the documentation says and TLC refutes: see the README.            *)

\* A box whose subscription is fail-closed posts no status
\* (docs/INTEGRATION.md:58).
FailClosedHonoured ==
    [][bms' # bms /\ (At("post") \/ At("each")) => ~hist.told]_vars
=============================================================================

---------------------------- MODULE BoxPagesProofs ----------------------------
(***************************************************************************)
(* The token that an answered save of the company access page leaves, for  *)
(* any pages, sensors, edits and stops; and the countdown of the enroll    *)
(* page, for any tasks, changes and lost requests.                         *)
(***************************************************************************)
EXTENDS BoxPages, Sequences, TLAPS

-----------------------------------------------------------------------------
(* The company access page.                                                *)

Record(r) == DOMAIN r = {"pc", "body", "valid"}
Shape == post = [p \in Pages |-> post[p]] /\ \A p \in Pages : Record(post[p])

\* A token that was found good, or made, is good until Home Assistant stops,
\* which ends every post too.
Grounded(p) ==
    /\ At(p, "ok") /\ post[p].body.on => token = "good"
    /\ At(p, "create") /\ post[p].valid => token = "good"

IInv == Shape /\ \A p \in Pages : Grounded(p)

LEMMA Initial == Init => IInv
BY DEF Init, IInv, Shape, Record, Grounded, At, NoPost

LEMMA Rests == ASSUME IInv, UNCHANGED <<post, token>> PROVE IInv'
BY DEF IInv, Shape, Grounded, At

\* One post goes on.
LEMMA PostMoves ==
    ASSUME IInv, NEW p \in Pages, NEW r, Record(r), post' = [post EXCEPT ![p] = r],
           token' \in {token, "good"},
           r.pc = "ok" /\ r.body.on => token' = "good",
           r.pc = "create" /\ r.valid => token' = "good"
    PROVE  IInv'
<1>1. post'[p] = r /\ \A q \in Pages \ {p} : post'[q] = post[q]
  BY DEF IInv, Shape
<1>2. Shape'
  BY DEF IInv, Shape
<1>3. ASSUME NEW q \in Pages PROVE Grounded(q)'
  BY <1>1, <1>3 DEF IInv, Grounded, At
<1> QED BY <1>2, <1>3 DEF IInv

LEMMA SavesKeep == ASSUME IInv, NEW p \in Pages, Saves(p) PROVE IInv'
<1> DEFINE r == [NoPost EXCEPT !.pc = "store", !.body = Snapshot(page[p].draft)]
<1>1. Record(r) /\ r.pc = "store"
  BY DEF NoPost, Record
<1>2. post' = [post EXCEPT ![p] = r] /\ token' = token
  BY DEF Saves
<1> HIDE DEF r
<1> QED BY <1>1, <1>2, PostMoves

LEMMA GoesKeep ==
    ASSUME IInv, NEW p \in Pages, NEW pc, Goes(p, pc), token' \in {token, "good"},
           pc # "create", pc = "ok" /\ post[p].body.on => token' = "good"
    PROVE  IInv'
<1> DEFINE r == [post[p] EXCEPT !.pc = pc]
<1>1. Record(r) /\ r.pc = pc /\ r.body = post[p].body
  BY DEF IInv, Shape, Record
<1>2. post' = [post EXCEPT ![p] = r]
  BY DEF Goes
<1> HIDE DEF r
<1> QED BY <1>1, <1>2, PostMoves

LEMMA ReadsSecretsKeeps == ASSUME IInv, NEW p \in Pages, ReadsSecrets(p) PROVE IInv'
<1>1. PICK good \in BOOLEAN : good = (token = "good")
  OBVIOUS
<1> DEFINE r == [post[p] EXCEPT !.pc = "create", !.valid = good]
<1>2. Record(r) /\ r.pc = "create" /\ r.valid = good
  BY DEF IInv, Shape, Record
<1>3. post' = [post EXCEPT ![p] = r] /\ token' = token
  BY <1>1 DEF ReadsSecrets, IInv, Shape
<1> HIDE DEF r
<1>4. r.valid => token = "good"
  BY <1>1, <1>2
<1> QED BY <1>2, <1>3, <1>4, PostMoves

LEMMA ViewKeeps == ASSUME IInv, NEW p \in Pages, View(p) PROVE IInv'
<1>1. CASE StoresShare(p)
  BY <1>1, GoesKeep DEF StoresShare
<1>2. CASE Creates(p)
  <2>1. Grounded(p)
    BY DEF IInv
  <2> QED BY <1>2, <2>1, GoesKeep DEF Creates, Grounded
<1>3. CASE Upserts(p)
  BY <1>3, GoesKeep DEF Upserts
<1> QED BY <1>1, <1>2, <1>3, ReadsSecretsKeeps DEF View

LEMMA EndsKeep == ASSUME IInv, NEW p \in Pages, SaveAnswered(p) \/ SaveRefused(p) PROVE IInv'
<1>1. Record(NoPost) /\ NoPost.pc = "idle"
  BY DEF NoPost, Record
<1>2. post' = [post EXCEPT ![p] = NoPost] /\ token' = token
  BY DEF SaveAnswered, SaveRefused
<1> QED BY <1>1, <1>2, PostMoves

LEMMA HaStopsKeeps == ASSUME IInv, HaStops PROVE IInv'
<1>1. Record([NoPost EXCEPT !.pc = "error"]) /\ [NoPost EXCEPT !.pc = "error"].pc = "error"
  BY DEF NoPost, Record
<1>2. \A p \in Pages : Record(post'[p]) /\ post'[p].pc \in {"idle", "error"}
  BY <1>1 DEF HaStops, IInv, Shape
<1>3. Shape'
  BY <1>2 DEF HaStops, Shape
<1> QED BY <1>2, <1>3 DEF IInv, Grounded, At

LEMMA Inductive == IInv /\ [Next]_vars => IInv'
<1> SUFFICES ASSUME IInv, [Next]_vars PROVE IInv'
  OBVIOUS
<1>1. CASE UNCHANGED vars
  BY <1>1, Rests DEF vars
<1>2. ASSUME NEW p \in Pages, User(p) PROVE IInv'
  <2>1. CASE Saves(p)
    BY <2>1, SavesKeep
  <2>2. CASE UNCHANGED <<post, token>>
    BY <2>2, Rests
  <2> QED BY <1>2, <2>1, <2>2
        DEF User, Toggles, Checks, Classifies, AddsCategory, RemovesCategory, Edits, Discards
<1>3. ASSUME NEW p \in Pages, View(p) \/ SaveAnswered(p) \/ SaveRefused(p) PROVE IInv'
  BY <1>3, ViewKeeps, EndsKeep
<1>4. CASE \E p \in Pages : Refreshes(p, "save") \/ Loading(p) \/ HassChanges(p)
  BY <1>4, Rests DEF Refreshes, Loading, HassChanges
<1>5. CASE (\E p \in Pages, k \in Kinds : LoadFails(p, k)) \/ StoresAuth
  BY <1>5, Rests DEF LoadFails, StoresAuth
<1>6. CASE HaStops
  BY <1>6, HaStopsKeeps
<1> QED BY <1>1, <1>2, <1>3, <1>4, <1>5, <1>6 DEF Next, Saving

\* A save that is answered ok with the share on leaves a token that Home
\* Assistant takes (_ensure_sensory_ha_token), whatever other pages, edits and
\* stops came between.
THEOREM TokenIsGood == Spec => []OkMeansToken
<1>1. Init => IInv
  BY Initial
<1>2. IInv /\ [Next]_vars => IInv'
  BY Inductive
<1>3. IInv => OkMeansToken
  BY DEF IInv, Grounded, OkMeansToken
<1> QED BY <1>1, <1>2, <1>3, PTL DEF Spec

-----------------------------------------------------------------------------
(* The enroll page.                                                        *)

Sections == {"enroll", "wait", "owner", "reset", "done"}
Screen == [shown : SUBSET Sections, retry : BOOLEAN, abort : BOOLEAN, gone : BOOLEAN]
Running(r) == DOMAIN r = {"pc", "got", "then", "leaving"}

PageTypeInv ==
    /\ screen \in Screen
    /\ stuck \in BOOLEAN
    /\ task = [t \in Enroll!Tasks |-> task[t]]
    /\ \A t \in Enroll!Tasks : Running(task[t])

\* A task goes on with the countdown, or is createOwner's last request.
Carries(r) ==
    \/ r.pc \in {"hello", "sleep", "apply"}
    \/ r.pc = "status" /\ r.then = <<"leave">>

Excused == stuck \/ screen.gone \/ screen.retry

\* A countdown that is shown has not been aborted: the flag of all waits is only
\* set where the countdown is hidden, and is cleared where it is shown.
CountdownInv ==
    "wait" \in screen.shown =>
        /\ ~screen.abort
        /\ Excused \/ \E t \in Enroll!Tasks : Carries(task[t])

PageInv == PageTypeInv /\ CountdownInv

LEMMA LoadedPage ==
    ASSUME screen = Enroll!Loaded, task = [t \in Enroll!Tasks |-> Enroll!Idle], stuck = FALSE
    PROVE  PageInv
<1>1. screen \in Screen /\ "wait" \notin screen.shown
  BY DEF Enroll!Loaded, Screen, Sections
<1>2. \A t \in Enroll!Tasks : Running(task[t])
  BY DEF Enroll!Idle, Running
<1> QED BY <1>1, <1>2 DEF PageInv, PageTypeInv, CountdownInv

\* What the pieces of the script make of the page.
LEMMA ShowsPage ==
    ASSUME NEW p \in Screen, NEW on \in SUBSET Sections, NEW off
    PROVE  /\ Enroll!Shows(p, on, off) \in Screen
           /\ Enroll!Shows(p, on, off).shown = (p.shown \ off) \cup on
           /\ Enroll!Shows(p, on, off).retry = p.retry
           /\ Enroll!Shows(p, on, off).abort = p.abort
           /\ Enroll!Shows(p, on, off).gone = p.gone
BY DEF Enroll!Shows, Screen

LEMMA WaitPage ==
    ASSUME NEW p \in Screen
    PROVE  /\ Enroll!WaitMode(p) \in Screen
           /\ ~Enroll!WaitMode(p).abort
BY DEF Enroll!WaitMode, Screen, Sections

LEMMA GonePage ==
    ASSUME NEW p \in Screen
    PROVE  /\ [p EXCEPT !.gone = TRUE] \in Screen
           /\ [p EXCEPT !.gone = TRUE].gone
           /\ [p EXCEPT !.gone = TRUE].abort = p.abort
BY DEF Screen

\* One task goes on as r: it carries the countdown, or that is over, excused,
\* or as it was and the task did not carry it.
Moves(t, r) ==
    /\ Running(r)
    /\ task' = [task EXCEPT ![t] = r]
    /\ screen' \in Screen
    /\ stuck' \in BOOLEAN
    /\ "wait" \in screen'.shown =>
           /\ ~screen'.abort
           /\ \/ Carries(r) \/ Excused'
              \/ "wait" \in screen.shown /\ ~Carries(task[t]) /\ ~Excused

LEMMA MovesKeep ==
    ASSUME PageInv, NEW t \in Enroll!Tasks, NEW r, Moves(t, r)
    PROVE  PageInv'
<1>1. /\ task'[t] = r
      /\ \A u \in Enroll!Tasks : u # t => task'[u] = task[u]
      /\ PageTypeInv'
  BY DEF PageInv, PageTypeInv, Moves
<1>2. CountdownInv'
  <2> SUFFICES ASSUME "wait" \in screen'.shown
               PROVE  ~screen'.abort /\ (Excused' \/ \E u \in Enroll!Tasks : Carries(task'[u]))
    BY DEF CountdownInv, Carries
  <2>1. CASE Carries(r)
    BY <1>1, <2>1 DEF Moves
  <2>2. CASE "wait" \in screen.shown /\ ~Carries(task[t]) /\ ~Excused
    <3>1. PICK u \in Enroll!Tasks : Carries(task[u])
      BY <2>2 DEF PageInv, CountdownInv
    <3>2. task'[u] = task[u]
      BY <1>1, <2>2, <3>1
    <3> QED BY <3>1, <3>2 DEF Moves
  <2> QED BY <2>1, <2>2 DEF Moves
<1> QED BY <1>1, <1>2 DEF PageInv

\* A record of a task that fetches, or waits.
Fetching(pc, then) == [pc |-> pc, got |-> NoAnswer, then |-> then, leaving |-> FALSE]
Waiting(then, leaving) == [pc |-> "hello", got |-> NoAnswer, then |-> then, leaving |-> leaving]

LEMMA TaskRecords ==
    /\ \A pc, then : /\ Running(Fetching(pc, then))
                     /\ Fetching(pc, then).pc = pc /\ Fetching(pc, then).then = then
    /\ \A then, leaving : Running(Waiting(then, leaving)) /\ Carries(Waiting(then, leaving))
    /\ Running(Enroll!Idle) /\ ~Carries(Enroll!Idle)
BY DEF Running, Fetching, Waiting, Carries, Enroll!Idle

\* A refresh returns, and what awaits it goes on, from the page p.
LEMMA ReturnsMove ==
    ASSUME PageInv, NEW t \in Enroll!Tasks, NEW then, NEW p \in Screen, NEW st,
           stuck' = stuck,
           Enroll!Returns(t, then, p, st),
           "wait" \in p.shown =>
               /\ ~p.abort
               /\ \/ p.retry \/ then = <<"leave">>
                  \/ "wait" \in screen.shown /\ ~Carries(task[t])
                     /\ (screen.retry => p.retry) /\ ~screen.gone
    PROVE  PageInv'
<1> DEFINE nested == then # <<>> /\ Head(then) = "owner"
           k == IF nested THEN Tail(then) ELSE then
           now == IF nested THEN Enroll!Shows(p, {"owner"}, {}) ELSE p
<1>1. then = <<"leave">> => k = <<"leave">>
  OBVIOUS
<1>2. /\ now \in Screen
      /\ "wait" \in now.shown => "wait" \in p.shown
      /\ now.retry = p.retry /\ now.abort = p.abort
  BY ShowsPage DEF Sections
<1>3. stuck \in BOOLEAN
  BY DEF PageInv, PageTypeInv
<1>4. CASE k = <<>> /\ screen' = now /\ Enroll!Ends(t)
  <2>1. task' = [task EXCEPT ![t] = Enroll!Idle] /\ screen' = now /\ then # <<"leave">>
    BY <1>1, <1>4 DEF Enroll!Ends
  <2> HIDE DEF now, k, nested
  <2>2. Moves(t, Enroll!Idle)
    BY <1>2, <1>3, <2>1, TaskRecords DEF Moves, Excused
  <2> QED BY <2>2, MovesKeep
<1>5. CASE screen' = [now EXCEPT !.gone = TRUE] /\ Enroll!Ends(t)
  <2> HIDE DEF now
  <2>1. task' = [task EXCEPT ![t] = Enroll!Idle]
    BY <1>5 DEF Enroll!Ends
  <2>2. screen' \in Screen /\ screen'.gone /\ screen'.abort = p.abort
        /\ screen'.shown = now.shown
    BY <1>2, <1>5, GonePage DEF Screen
  <2>3. Moves(t, Enroll!Idle)
    BY <1>2, <1>3, <2>1, <2>2, TaskRecords DEF Moves, Excused
  <2> QED BY <2>3, MovesKeep
<1>6. CASE k = <<"skip">> /\ screen' = Enroll!Shows(now, {"enroll"}, {}) /\ Enroll!Ends(t)
  <2>1. task' = [task EXCEPT ![t] = Enroll!Idle] /\ then # <<"leave">>
    BY <1>1, <1>6 DEF Enroll!Ends
  <2>2. /\ screen' \in Screen
        /\ "wait" \in screen'.shown => "wait" \in now.shown
        /\ screen'.retry = now.retry /\ screen'.abort = now.abort
    <3>1. {"enroll"} \in SUBSET Sections /\ "wait" \notin {"enroll"}
      BY DEF Sections
    <3> HIDE DEF now
    <3> DEFINE on == {"enroll"}
    <3>2. screen' = Enroll!Shows(now, on, {}) /\ on \in SUBSET Sections /\ "wait" \notin on
      BY <1>6, <3>1
    <3> HIDE DEF on
    <3> QED BY <1>2, <3>2, ShowsPage
  <2> HIDE DEF now, k, nested
  <2>3. Moves(t, Enroll!Idle)
    BY <1>2, <1>3, <2>1, <2>2, TaskRecords DEF Moves, Excused
  <2> QED BY <2>3, MovesKeep
<1>7. CASE Enroll!AfterBmsOk(t, <<>>, now)
  <2>1. task' = [task EXCEPT ![t] = Fetching("boot", <<"owner">> \o <<>>)]
    BY <1>7 DEF Enroll!AfterBmsOk, Enroll!Fetches, Fetching
  <2>2. screen' \in Screen /\ "wait" \notin screen'.shown
    <3> HIDE DEF now
    <3> QED BY <1>2, <1>7, ShowsPage DEF Enroll!AfterBmsOk
  <2>3. Moves(t, Fetching("boot", <<"owner">> \o <<>>))
    BY <1>3, <2>1, <2>2, TaskRecords DEF Moves
  <2> QED BY <2>3, MovesKeep
<1>8. CASE screen' = Enroll!WaitMode(now) /\ Enroll!Waits(t, <<>>, FALSE)
  <2>1. task' = [task EXCEPT ![t] = Waiting(<<>>, FALSE)]
    BY <1>8 DEF Enroll!Waits, Waiting
  <2>2. screen' \in Screen /\ ~screen'.abort
    <3> HIDE DEF now
    <3> QED BY <1>2, <1>8, WaitPage
  <2>3. Moves(t, Waiting(<<>>, FALSE))
    BY <1>3, <2>1, <2>2, TaskRecords DEF Moves
  <2> QED BY <2>3, MovesKeep
<1> QED BY <1>4, <1>5, <1>6, <1>7, <1>8 DEF Enroll!Returns

\* A task hears the status while no countdown need be carried by it, or ends.
LEMMA HearsStatusKeeps ==
    ASSUME PageInv, NEW t \in Enroll!Tasks, Enroll!HearsStatus(t)
    PROVE  PageInv'
<1> DEFINE st == task[t].got
           then == task[t].then
           now == IF st.enrolled THEN Enroll!Shows(screen, {}, {"enroll"}) ELSE screen
<1>1. /\ screen \in Screen /\ stuck' = stuck /\ stuck \in BOOLEAN
      /\ task[t].pc = "status" /\ ~screen.gone
  BY DEF Enroll!HearsStatus, Enroll!Hears, PageInv, PageTypeInv
<1>2. /\ now \in Screen
      /\ "wait" \in now.shown <=> "wait" \in screen.shown
      /\ now.retry = screen.retry /\ now.abort = screen.abort
  BY <1>1, ShowsPage DEF Sections
<1>3. Carries(task[t]) => then = <<"leave">>
  BY <1>1 DEF Carries
<1>4. "wait" \in screen.shown => ~screen.abort
  BY DEF PageInv, CountdownInv
<1>5. CASE "wait" \in screen.shown /\ Enroll!Returns(t, then, now, st)
  <2> HIDE DEF st, then, now
  <2> QED BY <1>1, <1>2, <1>3, <1>4, <1>5, ReturnsMove
<1>6. CASE /\ "wait" \notin screen.shown
           /\ Enroll!Returns(t, then, Enroll!Shows(now, {"enroll"}, {"owner", "reset", "done"}), st)
  <2> DEFINE p == Enroll!Shows(now, {"enroll"}, {"owner", "reset", "done"})
  <2>1. p \in Screen /\ "wait" \notin p.shown
    <3>1. {"enroll"} \in SUBSET Sections /\ "wait" \notin {"enroll"}
      BY DEF Sections
    <3> HIDE DEF now
    <3> QED BY <1>2, <1>6, <3>1, ShowsPage
  <2> HIDE DEF st, then, now, p
  <2> QED BY <1>1, <1>6, <2>1, ReturnsMove DEF p
<1>7. CASE /\ screen' = Enroll!WaitMode(now)
           /\ Enroll!Waits(t, IF then = <<"skip">> THEN <<"skipwait">> ELSE then, FALSE)
  <2> DEFINE k == IF then = <<"skip">> THEN <<"skipwait">> ELSE then
  <2> HIDE DEF st, then, now
  <2>1. task' = [task EXCEPT ![t] = Waiting(k, FALSE)]
    BY <1>7 DEF Enroll!Waits, Waiting
  <2>2. screen' \in Screen /\ ~screen'.abort
    BY <1>2, <1>7, WaitPage
  <2> HIDE DEF k
  <2>3. Moves(t, Waiting(k, FALSE))
    BY <1>1, <2>1, <2>2, TaskRecords DEF Moves
  <2> QED BY <2>3, MovesKeep
<1>8. CASE /\ "wait" \notin screen.shown
           /\ screen' = now
           /\ Enroll!Fetches(t, IF st.secret THEN "pending" ELSE "owners", then)
  <2> DEFINE pc == IF st.secret THEN "pending" ELSE "owners"
  <2> HIDE DEF st, then, now
  <2>1. task' = [task EXCEPT ![t] = Fetching(pc, then)]
    BY <1>8 DEF Enroll!Fetches, Fetching
  <2> HIDE DEF pc
  <2>2. Moves(t, Fetching(pc, then))
    BY <1>1, <1>2, <1>8, <2>1, TaskRecords DEF Moves
  <2> QED BY <2>2, MovesKeep
<1> HIDE DEF now
<1> QED BY <1>5, <1>6, <1>7, <1>8 DEF Enroll!HearsStatus, now

\* A task goes on, from a place where it carries no countdown, or to one where
\* it does, and the page stays.
LEMMA Onward ==
    ASSUME PageInv, NEW t \in Enroll!Tasks, NEW r, Running(r), ~screen.gone,
           task' = [task EXCEPT ![t] = r], screen' = screen, stuck' = stuck,
           ~Carries(task[t]) \/ Carries(r)
    PROVE  PageInv'
<1>1. Moves(t, r)
  BY DEF Moves, Excused, PageInv, PageTypeInv, CountdownInv
<1> QED BY <1>1, MovesKeep

\* It goes on where the countdown is not shown.
LEMMA Uncovered ==
    ASSUME PageInv, NEW t \in Enroll!Tasks, NEW r, Running(r),
           task' = [task EXCEPT ![t] = r], screen' \in Screen, stuck' = stuck,
           "wait" \notin screen'.shown
    PROVE  PageInv'
<1>1. Moves(t, r)
  BY DEF Moves, PageInv, PageTypeInv
<1> QED BY <1>1, MovesKeep

\* It starts, or goes on with, a countdown that is not aborted.
LEMMA Started ==
    ASSUME PageInv, NEW t \in Enroll!Tasks, NEW r, Running(r), Carries(r),
           task' = [task EXCEPT ![t] = r], screen' \in Screen, stuck' = stuck,
           "wait" \in screen'.shown => ~screen'.abort
    PROVE  PageInv'
<1>1. Moves(t, r)
  BY DEF Moves, PageInv, PageTypeInv
<1> QED BY <1>1, MovesKeep

\* window.location.replace
LEMMA LeavesKeep ==
    ASSUME PageInv, NEW t \in Enroll!Tasks, Enroll!Leaves(t), stuck' = stuck
    PROVE  PageInv'
<1>1. task' = [task EXCEPT ![t] = Enroll!Idle] /\ screen' = [screen EXCEPT !.gone = TRUE]
  BY DEF Enroll!Leaves, Enroll!Ends
<1>2. /\ screen' \in Screen /\ screen'.gone /\ screen'.abort = screen.abort
      /\ screen'.shown = screen.shown
  BY <1>1, GonePage DEF PageInv, PageTypeInv, Screen
<1>3. Moves(t, Enroll!Idle)
  BY <1>1, <1>2, TaskRecords DEF Moves, Excused, PageInv, PageTypeInv, CountdownInv
<1> QED BY <1>3, MovesKeep

\* A request is answered, or lost.
LEMMA HeardKeeps ==
    ASSUME PageInv, NEW t \in Enroll!Tasks, NEW got,
           task' = [task EXCEPT ![t].got = got], UNCHANGED <<screen, stuck>>
    PROVE  PageInv'
<1> DEFINE r == [task[t] EXCEPT !.got = got]
<1>1. Running(r) /\ r.pc = task[t].pc /\ r.then = task[t].then
  BY DEF PageInv, PageTypeInv, Running
<1>2. task' = [task EXCEPT ![t] = r]
  OBVIOUS
<1> HIDE DEF r
<1>3. /\ \A u \in Enroll!Tasks : Carries(task'[u]) = Carries(task[u])
      /\ PageTypeInv'
  BY <1>1, <1>2 DEF PageInv, PageTypeInv, Carries
<1> QED BY <1>3 DEF PageInv, CountdownInv, Excused, Carries

LEMMA MissesStatusKeeps ==
    ASSUME PageInv, NEW t \in Enroll!Tasks, Enroll!MissesStatus(t)
    PROVE  PageInv'
<1>1. /\ task' = [task EXCEPT ![t] = Enroll!Idle] /\ screen' = screen
      /\ stuck' = (stuck \/ task[t].then = <<"leave">>)
      /\ task[t].pc = "status"
  BY DEF Enroll!MissesStatus, Enroll!Hears, Enroll!Ends
<1>2. stuck' \in BOOLEAN /\ (stuck => stuck')
  BY <1>1 DEF PageInv, PageTypeInv
<1>3. Carries(task[t]) => stuck'
  BY <1>1 DEF Carries
<1>4. Moves(t, Enroll!Idle)
  BY <1>1, <1>2, <1>3, TaskRecords
  DEF Moves, Excused, PageInv, PageTypeInv, CountdownInv
<1> QED BY <1>4, MovesKeep

LEMMA HearsOwnersKeeps ==
    ASSUME PageInv, NEW t \in Enroll!Tasks, Enroll!HearsOwners(t)
    PROVE  PageInv'
<1>1. stuck' = stuck
  BY DEF Enroll!HearsOwners
<1>2. CASE Enroll!Leaves(t)
  BY <1>1, <1>2, LeavesKeep
<1>3. CASE ~Enroll!Leaves(t)
  <2> DEFINE st == [Enroll!NotReady EXCEPT !.hello = "ok"]
  <2>1. PICK panel \in {"reset", "owner"} :
            Enroll!Returns(t, task[t].then, [screen EXCEPT !.shown = {panel}], st)
    BY <1>3 DEF Enroll!HearsOwners
  <2> HIDE DEF st
  <2> DEFINE p == [screen EXCEPT !.shown = {panel}]
  <2>2. p \in Screen /\ "wait" \notin p.shown
    BY DEF PageInv, PageTypeInv, Screen, Sections
  <2> HIDE DEF p
  <2> DEFINE then == task[t].then
  <2>3. Enroll!Returns(t, then, p, st)
    BY <2>1 DEF p
  <2> HIDE DEF then
  <2> QED BY <1>1, <2>2, <2>3, ReturnsMove
<1> QED BY <1>2, <1>3

\* A wait that is over hides the countdown and goes on; one that has not been
\* answered goes on with it.
LEMMA HearsHelloKeeps ==
    ASSUME PageInv, NEW t \in Enroll!Tasks, Enroll!HearsHello(t)
    PROVE  PageInv'
<1>1. /\ task[t].pc = "hello" /\ stuck' = stuck /\ ~screen.gone
      /\ screen \in Screen /\ Running(task[t])
  BY DEF Enroll!HearsHello, Enroll!Hears, PageInv, PageTypeInv
<1>2. CASE /\ task' = [task EXCEPT ![t].pc = "sleep", ![t].got = NoAnswer]
           /\ screen' = screen
  <2> DEFINE r == [[task[t] EXCEPT !.pc = "sleep"] EXCEPT !.got = NoAnswer]
  <2>1. task' = [task EXCEPT ![t] = r]
    <3>1. task' = [[task EXCEPT ![t].pc = "sleep"] EXCEPT ![t].got = NoAnswer]
      BY <1>2
    <3>2. task = [u \in Enroll!Tasks |-> task[u]]
      BY DEF PageInv, PageTypeInv
    <3> QED BY <3>1, <3>2
  <2>2. Running(r) /\ r.pc = "sleep"
    BY <1>1 DEF Running
  <2> HIDE DEF r
  <2>3. Carries(r)
    BY <2>2 DEF Carries
  <2> QED BY <1>1, <1>2, <2>1, <2>2, <2>3, Onward
<1>3. CASE Enroll!Fetches(t, "status", <<"leave">>) /\ screen' = screen
  <2> DEFINE r == Fetching("status", <<"leave">>)
  <2>1. task' = [task EXCEPT ![t] = r]
    BY <1>3 DEF Enroll!Fetches, Fetching
  <2>2. Running(r) /\ Carries(r)
    BY TaskRecords DEF Carries
  <2> HIDE DEF r
  <2> QED BY <1>1, <1>3, <2>1, <2>2, Onward
<1>4. CASE Enroll!AfterBmsOk(t, task[t].then, screen)
  <2>1. /\ screen' = Enroll!Shows(screen, {}, {"wait", "enroll"})
        /\ \E then : Enroll!Fetches(t, "boot", then)
    BY <1>4 DEF Enroll!AfterBmsOk
  <2>2. PICK then : task' = [task EXCEPT ![t] = Fetching("boot", then)]
    BY <2>1 DEF Enroll!Fetches, Fetching
  <2>3. screen' \in Screen /\ "wait" \notin screen'.shown
    BY <1>1, <2>1, ShowsPage
  <2>4. Running(Fetching("boot", then))
    BY TaskRecords
  <2> QED BY <1>1, <2>2, <2>3, <2>4, Uncovered
<1> QED BY <1>2, <1>3, <1>4 DEF Enroll!HearsHello

\* waitForBms gives up; its countdown was aborted, or offers its buttons.
LEMMA WaitFailsKeeps ==
    ASSUME PageInv, NEW t \in Enroll!Tasks, NEW p \in Screen, Enroll!WaitFails(t, p),
           stuck' = stuck,
           "wait" \in p.shown => ~p.abort /\ p.retry
    PROVE  PageInv'
<1>1. CASE screen' = p /\ Enroll!Ends(t)
  <2>1. task' = [task EXCEPT ![t] = Enroll!Idle]
    BY <1>1 DEF Enroll!Ends
  <2>2. Moves(t, Enroll!Idle)
    BY <1>1, <2>1, TaskRecords DEF Moves, Excused, PageInv, PageTypeInv
  <2> QED BY <2>2, MovesKeep
<1>2. CASE Enroll!Returns(t, task[t].then, p, Enroll!NotReady)
  <2> DEFINE then == task[t].then
             st == Enroll!NotReady
  <2>1. Enroll!Returns(t, then, p, st)
    BY <1>2
  <2> HIDE DEF then, st
  <2> QED BY <2>1, ReturnsMove
<1> QED BY <1>1, <1>2 DEF Enroll!WaitFails

LEMMA WakesKeeps ==
    ASSUME PageInv, NEW t \in Enroll!Tasks, Enroll!Wakes(t) \/ Enroll!TimesOut(t)
    PROVE  PageInv'
<1>1. /\ task[t].pc = "sleep" /\ stuck' = stuck /\ ~screen.gone
      /\ screen \in Screen /\ Running(task[t])
  BY DEF Enroll!Wakes, Enroll!TimesOut, Enroll!Sleeps, PageInv, PageTypeInv
<1>2. CASE Enroll!Wakes(t) /\ screen.abort
  <2>1. Enroll!WaitFails(t, screen) /\ "wait" \notin screen.shown
    BY <1>2 DEF Enroll!Wakes, PageInv, CountdownInv
  <2> QED BY <1>1, <2>1, WaitFailsKeeps
<1>3. CASE Enroll!Wakes(t) /\ ~screen.abort
  <2> DEFINE r == [task[t] EXCEPT !.pc = "hello"]
  <2>1. task' = [task EXCEPT ![t] = r] /\ screen' = screen
    BY <1>3 DEF Enroll!Wakes
  <2>2. Running(r) /\ r.pc = "hello"
    BY <1>1 DEF Running
  <2> HIDE DEF r
  <2>3. Carries(r)
    BY <2>2 DEF Carries
  <2> QED BY <1>1, <2>1, <2>2, <2>3, Onward
<1>4. CASE Enroll!TimesOut(t)
  <2> DEFINE p == [screen EXCEPT !.retry = TRUE]
  <2>1. p \in Screen /\ p.retry /\ p.abort = screen.abort
    BY <1>1 DEF Screen
  <2>2. Enroll!WaitFails(t, p) /\ ~screen.abort
    BY <1>4 DEF Enroll!TimesOut, Enroll!TimedOut
  <2> HIDE DEF p
  <2> QED BY <1>1, <2>1, <2>2, WaitFailsKeeps
<1> QED BY <1>2, <1>3, <1>4

LEMMA HearsBootKeeps ==
    ASSUME PageInv, NEW t \in Enroll!Tasks, Enroll!HearsBoot(t) \/ Enroll!HearsPending(t)
    PROVE  PageInv'
<1>1. /\ task[t].pc \in {"boot", "pending"} /\ stuck' = stuck /\ ~screen.gone
  BY DEF Enroll!HearsBoot, Enroll!HearsPending, Enroll!Hears
<1>2. ~Carries(task[t])
  BY <1>1 DEF Carries
<1>3. CASE Enroll!Leaves(t)
  BY <1>1, <1>3, LeavesKeep
<1>4. CASE ~Enroll!Leaves(t)
  <2>1. PICK pc \in {"status", "owners"} :
            Enroll!Fetches(t, pc, task[t].then) /\ screen' = screen
    BY <1>4 DEF Enroll!HearsBoot, Enroll!HearsPending
  <2> DEFINE r == Fetching(pc, task[t].then)
  <2>2. task' = [task EXCEPT ![t] = r] /\ screen' = screen
    BY <2>1 DEF Enroll!Fetches, Fetching
  <2>3. Running(r)
    BY TaskRecords
  <2> HIDE DEF r
  <2> QED BY <1>1, <1>2, <2>2, <2>3, Onward
<1> QED BY <1>3, <1>4

\* The buttons, and what they started.
LEMMA HandsKeep ==
    ASSUME PageInv, NEW h \in Enroll!Tasks,
           \/ Enroll!HearsSave(h) \/ Enroll!HearsApply(h) \/ Enroll!HearsCreate(h)
           \/ Enroll!Refreshes(h) \/ Enroll!Presses(h)
    PROVE  PageInv'
<1> USE DEF Enroll!Presses
<1>1. stuck' = stuck /\ ~screen.gone /\ screen \in Screen
  BY DEF Enroll!HearsSave, Enroll!HearsApply, Enroll!HearsCreate, Enroll!Hears,
         Enroll!Refreshes, Enroll!Saves, Enroll!Creates, Enroll!Retries, Enroll!Skips,
         Enroll!Idles, PageInv, PageTypeInv
<1>2. Enroll!WaitMode(screen) \in Screen /\ ~Enroll!WaitMode(screen).abort
  BY <1>1, WaitPage
<1>3. ASSUME screen' \in Screen, "wait" \in screen'.shown => ~screen'.abort,
             \/ Enroll!Fetches(h, "apply", <<>>)
             \/ \E leaving : Enroll!Waits(h, <<>>, leaving)
      PROVE  PageInv'
  <2>1. CASE Enroll!Fetches(h, "apply", <<>>)
    <3> DEFINE r == Fetching("apply", <<>>)
    <3>1. task' = [task EXCEPT ![h] = r]
      BY <2>1 DEF Enroll!Fetches, Fetching
    <3>2. Running(r) /\ Carries(r)
      BY TaskRecords DEF Carries
    <3> HIDE DEF r
    <3> QED BY <1>1, <1>3, <3>1, <3>2, Started
  <2>2. ASSUME NEW leaving, Enroll!Waits(h, <<>>, leaving) PROVE PageInv'
    <3> DEFINE r == Waiting(<<>>, leaving)
    <3>1. task' = [task EXCEPT ![h] = r]
      BY <2>2 DEF Enroll!Waits, Waiting
    <3>2. Running(r) /\ Carries(r)
      BY TaskRecords
    <3> HIDE DEF r
    <3> QED BY <1>1, <1>3, <3>1, <3>2, Started
  <2> QED BY <1>3, <2>1, <2>2
<1>4. ASSUME Enroll!Ends(h), screen' = screen, ~Carries(task[h]) PROVE PageInv'
  <2>1. task' = [task EXCEPT ![h] = Enroll!Idle]
    BY <1>4 DEF Enroll!Ends
  <2> QED BY <1>1, <1>4, <2>1, TaskRecords, Onward
<1>5. ASSUME NEW pc, NEW then, Enroll!Fetches(h, pc, then), screen' = screen, ~Carries(task[h])
      PROVE  PageInv'
  <2>1. task' = [task EXCEPT ![h] = Fetching(pc, then)] /\ Running(Fetching(pc, then))
    BY <1>5, TaskRecords DEF Enroll!Fetches, Fetching
  <2> QED BY <1>1, <1>5, <2>1, Onward
<1>6. CASE Enroll!HearsSave(h) \/ Enroll!HearsCreate(h)
  <2>1. ~Carries(task[h])
    BY <1>6 DEF Enroll!HearsSave, Enroll!HearsCreate, Enroll!Hears, Carries
  <2>2. CASE Enroll!Ends(h) /\ screen' = screen
    BY <2>1, <2>2, <1>4
  <2>3. CASE ~(Enroll!Ends(h) /\ screen' = screen)
    <3>1. /\ screen' = Enroll!WaitMode(screen)
          /\ \/ Enroll!Fetches(h, "apply", <<>>)
             \/ \E leaving : Enroll!Waits(h, <<>>, leaving)
      BY <1>6, <2>3 DEF Enroll!HearsSave, Enroll!HearsCreate
    <3> QED BY <1>2, <1>3, <3>1
  <2> QED BY <2>2, <2>3
<1>7. CASE Enroll!HearsApply(h)
  <2>1. /\ screen' \in Screen /\ screen'.abort = screen.abort /\ screen'.shown = screen.shown
    BY <1>1, <1>7 DEF Enroll!HearsApply, Screen
  <2>2. "wait" \in screen.shown => ~screen.abort
    BY DEF PageInv, CountdownInv
  <2>3. CASE screen.abort
    <3>1. task' = [task EXCEPT ![h] = Enroll!Idle]
      BY <1>7, <2>3 DEF Enroll!HearsApply, Enroll!Ends
    <3> QED BY <1>1, <2>1, <2>2, <2>3, <3>1, TaskRecords, Uncovered
  <2>4. CASE ~screen.abort
    <3>1. Enroll!Waits(h, <<>>, FALSE)
      BY <1>7, <2>4 DEF Enroll!HearsApply
    <3> QED BY <1>3, <2>1, <2>4, <3>1
  <2> QED BY <2>3, <2>4
<1>8. CASE Enroll!Retries(h)
  BY <1>2, <1>3, <1>8 DEF Enroll!Retries
<1>9. CASE Enroll!Skips(h)
  <2>1. screen' = Enroll!LeftWaitMode(screen) /\ Enroll!Fetches(h, "status", <<"skip">>)
    BY <1>9 DEF Enroll!Skips
  <2>2. screen' \in Screen /\ "wait" \notin screen'.shown
    <3> DEFINE p == Enroll!Shows(screen, {}, {"wait"})
    <3>1. p \in Screen /\ "wait" \notin p.shown
      <4>1. /\ Enroll!Shows(screen, {}, {"wait"}) \in Screen
            /\ Enroll!Shows(screen, {}, {"wait"}).shown = screen.shown \ {"wait"}
        BY <1>1 DEF Enroll!Shows, Screen
      <4> QED BY <4>1
    <3>2. screen' = [p EXCEPT !.abort = TRUE]
      BY <2>1 DEF Enroll!LeftWaitMode
    <3> HIDE DEF p
    <3> QED BY <3>1, <3>2 DEF Screen
  <2> DEFINE r == Fetching("status", <<"skip">>)
  <2>3. task' = [task EXCEPT ![h] = r] /\ Running(r)
    BY <2>1, TaskRecords DEF Enroll!Fetches, Fetching
  <2> HIDE DEF r
  <2> QED BY <1>1, <2>2, <2>3, Uncovered
<1>10. CASE Enroll!Refreshes(h) \/ Enroll!Saves(h) \/ Enroll!Creates(h)
  <2>1. task[h].pc = "idle" /\ screen' = screen
    BY <1>10 DEF Enroll!Refreshes, Enroll!Saves, Enroll!Creates, Enroll!Idles
  <2>2. ~Carries(task[h])
    BY <2>1 DEF Carries
  <2> QED BY <1>5, <1>10, <2>1, <2>2 DEF Enroll!Refreshes, Enroll!Saves, Enroll!Creates
<1> QED BY <1>6, <1>7, <1>8, <1>9, <1>10

LEMMA ServesKeep ==
    ASSUME PageInv, NEW t \in Enroll!Tasks, Enroll!Serves(t) \/ Enroll!Loses(t)
    PROVE  PageInv'
<1>1. PICK got : task' = [task EXCEPT ![t].got = got] /\ UNCHANGED <<screen, stuck>>
  BY DEF Enroll!Serves, Enroll!TellsStatus, Enroll!Applies, Enroll!TellsOwner,
         Enroll!SavesEnroll, Enroll!CreatesOwner, Enroll!Bootstraps, Enroll!Answers,
         Enroll!Loses
<1> QED BY <1>1, HeardKeeps

LEMMA PageInductive == PageInv /\ [Enroll!Next]_enrollvars => PageInv'
<1> SUFFICES ASSUME PageInv, [Enroll!Next]_enrollvars PROVE PageInv'
  OBVIOUS
<1>1. CASE UNCHANGED enrollvars \/ Enroll!BmsChanges
  <2>1. UNCHANGED <<screen, stuck, task>>
    BY <1>1 DEF enrollvars, Enroll!BmsChanges
  <2> QED BY <2>1 DEF PageInv, PageTypeInv, CountdownInv, Excused, Carries
<1>2. ASSUME NEW t \in Enroll!Tasks,
             Enroll!Serves(t) \/ Enroll!Loses(t) \/ Enroll!Runs(t) \/ Enroll!TimesOut(t)
      PROVE  PageInv'
  BY <1>2, ServesKeep, WakesKeeps, MissesStatusKeeps, HearsStatusKeeps, HearsBootKeeps,
     HearsOwnersKeeps, HearsHelloKeeps, HandsKeep DEF Enroll!Runs
<1>3. ASSUME NEW t \in Timers, Enroll!Refreshes(t) PROVE PageInv'
  BY <1>3, HandsKeep DEF Enroll!Tasks
<1>4. ASSUME NEW h \in Hands, Enroll!Presses(h) PROVE PageInv'
  BY <1>4, HandsKeep DEF Enroll!Tasks
<1>5. CASE Enroll!Reloads
  <2>1. /\ screen' = Enroll!Loaded /\ stuck' = FALSE
        /\ task' = [t \in Enroll!Tasks |-> Enroll!Idle]
    BY <1>5 DEF Enroll!Reloads
  <2>2. screen' \in Screen /\ "wait" \notin screen'.shown
    BY <2>1 DEF Enroll!Loaded, Screen, Sections
  <2>3. \A t \in Enroll!Tasks : Running(task'[t])
    BY <2>1 DEF Enroll!Idle, Running
  <2> QED BY <2>1, <2>2, <2>3 DEF PageInv, PageTypeInv, CountdownInv
<1> QED BY <1>1, <1>2, <1>3, <1>4, <1>5 DEF Enroll!Next

\* The enroll page has no dead countdown: one that is shown is carried on by a
\* task, or offers its buttons, whatever other tasks do to the page and its one
\* waitAbort flag between two awaits (platform/enroll_ui.py refresh, waitForBms,
\* createOwner), for any number of them.
THEOREM NoDeadCountdown == PagesSpec => []CountdownLives
<1>1. PagesInit => PageInv
  BY LoadedPage DEF PagesInit, Enroll!Init
<1>2. PageInv /\ [PagesNext]_<<part, vars, enrollvars>> => PageInv'
  <2>1. [PagesNext]_<<part, vars, enrollvars>> => [Enroll!Next]_enrollvars
    BY DEF PagesNext
  <2> QED BY <2>1, PageInductive
<1>3. PageInv => CountdownLives
  BY DEF PageInv, CountdownInv, Excused, Carries, CountdownLives, Enroll!CountdownLives
<1> QED BY <1>1, <1>2, <1>3, PTL DEF PagesSpec
=============================================================================

------------------------------ MODULE EnrollPage ------------------------------
(***************************************************************************)
(* platform/enroll_ui.py: the script of the enroll page, with what the box *)
(* answers to it.                                                          *)
(*                                                                         *)
(* A task is one run of refresh (every 15 seconds) or of a button's        *)
(* handler.  A step is what the script does between two awaits: tasks      *)
(* share the sections shown and the one waitAbort flag.  A request is      *)
(* served in one step and heard in a later one; the box's own              *)
(* interleavings are in Enrollment.  The technician's ENROLL_ALLOW_RESET,  *)
(* the camera and the post of the password reset form are left out.        *)
(***************************************************************************)
EXTENDS Integers, Sequences, FiniteSets

CONSTANTS
    Timers,         \* tasks that setInterval(refresh, 15000) starts
    Hands,          \* tasks that buttons start
    NoAnswer,       \* yet
    Lost,           \* fetch throws
    MaxChanges,     \* bound: changes of what BMS answers to hello
    MaxFaults       \* bound: requests not answered, and reloads of the page

VARIABLES
    box,        \* enrolled, with a QR admin's secret, with an owner
    hello,      \* what BMS answers to hello
    resetOn,    \* BMS allows a password reset
    page,       \* the sections shown, waitActions, waitAbort, and whether
                \* window.location.replace has been called
    task,       \* what each task is doing
    changes, faults,
    stuck       \* history, read by properties only: the last status of a
                \* createOwner was lost

vars == <<box, hello, resetOn, page, task, changes, faults, stuck>>

Tasks == Timers \cup Hands
\* A standby is worded otherwise than a failure, and acted on as one.
Hellos == {"failed", "ok"}
Fetching == {"save", "apply", "create", "status", "hello", "boot", "pending", "owners"}

\* What goes on after the refresh that a task awaits: the owner form is shown
\* (the end of afterBmsOk), the page is left (createOwner), or "Continue setup"
\* goes on; in "skipwait" it has to wait for BMS.
Callers == {"owner", "leave", "skip", "skipwait"}

Loaded == [shown |-> {"enroll"}, retry |-> FALSE, abort |-> FALSE, gone |-> FALSE]
Idle == [pc |-> "idle", got |-> NoAnswer, then |-> <<>>, leaving |-> FALSE]

Init ==
    /\ box \in [enrolled : BOOLEAN, secret : BOOLEAN, owner : BOOLEAN]
    /\ box.secret \/ box.owner => box.enrolled
    /\ hello \in Hellos
    /\ resetOn \in BOOLEAN
    /\ page = Loaded
    /\ task = [t \in Tasks |-> Idle]
    /\ changes = MaxChanges
    /\ faults = MaxFaults
    /\ stuck = FALSE

-----------------------------------------------------------------------------
(* Pieces of the script, and their effect on the page.                     *)

Shows(p, on, off) == [p EXCEPT !.shown = (@ \ off) \cup on]

\* enterWaitMode, with the one flag of every wait of the page.
WaitMode(p) == [p EXCEPT !.shown = {"wait"}, !.retry = FALSE, !.abort = FALSE]

\* Mutant: the countdown stays.
LeftWaitModeShowing(p) == [p EXCEPT !.abort = TRUE, !.retry = FALSE]

\* leaveWaitMode
LeftWaitMode(p) == [Shows(p, {}, {"wait"}) EXCEPT !.abort = TRUE]

Fetches(t, pc, then) ==
    task' = [task EXCEPT ![t] = [pc |-> pc, got |-> NoAnswer, then |-> then, leaving |-> FALSE]]

\* waitForBms, entered with the flag not set.
Waits(t, then, leaving) ==
    task' = [task EXCEPT ![t] = [pc |-> "hello", got |-> NoAnswer, then |-> then,
                                 leaving |-> leaving]]

Ends(t) == task' = [task EXCEPT ![t] = Idle]

\* window.location.replace
Leaves(t) == Ends(t) /\ page' = [page EXCEPT !.gone = TRUE]

\* afterBmsOk until it awaits owner-bootstrap.  In an afterBmsOk that awaits a
\* refresh that waits, the end of the inner one is followed by that of the
\* outer one.
AfterBmsOk(t, then, p) ==
    /\ page' = Shows(p, {}, {"wait", "enroll"})
    /\ Fetches(t, "boot", IF then # <<>> /\ Head(then) = "owner" THEN then
                          ELSE <<"owner">> \o then)

\* A refresh returns the status st: what awaits it goes on.
Returns(t, then, p, st) ==
    LET nested == then # <<>> /\ Head(then) = "owner"
        k == IF nested THEN Tail(then) ELSE then
        now == IF nested THEN Shows(p, {"owner"}, {}) ELSE p
    IN  \/ /\ k = <<>>
           /\ page' = now
           /\ Ends(t)
        \/ /\ k = <<"leave">>
           /\ page' = [now EXCEPT !.gone = TRUE]
           /\ Ends(t)
        \/ /\ k = <<"skip">> /\ ~st.enrolled
           /\ page' = Shows(now, {"enroll"}, {})
           /\ Ends(t)
        \/ /\ k = <<"skip">> /\ st.enrolled /\ st.hello = "ok"
           /\ AfterBmsOk(t, <<>>, now)
        \/ /\ k = <<"skipwait">> \/ (k = <<"skip">> /\ st.enrolled /\ st.hello # "ok")
           /\ page' = WaitMode(now)
           /\ Waits(t, <<>>, FALSE)

NotReady == [enrolled |-> TRUE, secret |-> FALSE, hello |-> "failed"]

\* waitForBms returns false: createOwner and savePayload end, a refresh that
\* waited returns the status that it had.
WaitFails(t, p) ==
    IF task[t].leaving THEN page' = p /\ Ends(t)
    ELSE Returns(t, task[t].then, p, NotReady)

-----------------------------------------------------------------------------
(* The box.                                                                *)

\* enriched_status and hello both ask BMS.
Status == [enrolled |-> box.enrolled, secret |-> box.secret,
           hello |-> IF box.enrolled THEN hello ELSE "failed"]

Refused == [ok |-> FALSE, skipped |-> FALSE]
Done == [ok |-> TRUE, skipped |-> FALSE]
Skipped == [ok |-> TRUE, skipped |-> TRUE]

Unserved(t, pc) == ~page.gone /\ task[t].pc = pc /\ task[t].got = NoAnswer
Answers(t, got) ==
    /\ task' = [task EXCEPT ![t].got = got]
    /\ UNCHANGED <<hello, resetOn, page, changes, faults, stuck>>

TellsStatus(t) ==
    /\ Unserved(t, "status") \/ Unserved(t, "hello")
    /\ Answers(t, Status)
    /\ UNCHANGED box

Applies(t) == Unserved(t, "apply") /\ Answers(t, Done) /\ UNCHANGED box

TellsOwner(t) ==
    /\ Unserved(t, "owners")
    /\ Answers(t, IF box.owner THEN Done ELSE Refused)
    /\ UNCHANGED box

SavesEnroll(t) ==
    /\ Unserved(t, "save")
    /\ IF box.enrolled THEN Answers(t, Refused) /\ UNCHANGED box
       ELSE /\ Answers(t, Done)
            /\ \E secret \in BOOLEAN :
                  box' = [box EXCEPT !.enrolled = TRUE, !.secret = secret]

CreatesOwner(t) ==
    /\ Unserved(t, "create")
    /\ IF box.owner \/ ~box.enrolled THEN Answers(t, Refused) /\ UNCHANGED box
       ELSE Answers(t, Done) /\ box' = [box EXCEPT !.owner = TRUE]

Bootstraps(t) ==
    /\ Unserved(t, "boot") \/ Unserved(t, "pending")
    /\ IF box.secret
       THEN Answers(t, Done) /\ box' = [box EXCEPT !.secret = FALSE, !.owner = TRUE]
       ELSE Answers(t, Skipped) /\ UNCHANGED box

\* The answer, or the request, does not arrive.
Loses(t) ==
    /\ faults > 0
    /\ ~page.gone
    /\ task[t].pc \in Fetching
    /\ task[t].got # Lost
    /\ faults' = faults - 1
    /\ task' = [task EXCEPT ![t].got = Lost]
    /\ UNCHANGED <<box, hello, resetOn, page, changes, stuck>>

BmsChanges ==
    /\ changes > 0
    /\ changes' = changes - 1
    /\ hello' \in Hellos \ {hello}
    /\ UNCHANGED <<box, resetOn, page, task, faults, stuck>>

-----------------------------------------------------------------------------
(* refresh and refreshOwnerPanels.                                         *)

Idles(t) == ~page.gone /\ task[t].pc = "idle"
Hears(t, pc) == ~page.gone /\ task[t].pc = pc /\ task[t].got # NoAnswer
Box == <<box, hello, resetOn, changes, faults>>

Refreshes(t) ==
    /\ Idles(t)
    /\ Fetches(t, "status", <<>>)
    /\ UNCHANGED <<box, hello, resetOn, page, changes, faults, stuck>>

\* fetch throws in refresh and in what awaits it.
MissesStatus(t) ==
    /\ Hears(t, "status")
    /\ task[t].got = Lost
    /\ Ends(t)
    /\ stuck' = (stuck \/ task[t].then = <<"leave">>)
    /\ UNCHANGED <<Box, page>>

\* While the countdown is shown a refresh leaves everything else to it.
HearsStatus(t) ==
    LET st == task[t].got
        then == task[t].then
        now == IF st.enrolled THEN Shows(page, {}, {"enroll"}) ELSE page
        waiting == "wait" \in page.shown
    IN  /\ Hears(t, "status")
        /\ st # Lost
        /\ \/ /\ waiting
              /\ Returns(t, then, now, st)
           \/ /\ ~waiting /\ ~st.enrolled
              /\ Returns(t, then, Shows(now, {"enroll"}, {"owner", "reset", "done"}), st)
           \/ /\ ~waiting /\ st.enrolled /\ st.hello # "ok"
              /\ page' = WaitMode(now)
              /\ Waits(t, IF then = <<"skip">> THEN <<"skipwait">> ELSE then, FALSE)
           \/ /\ ~waiting /\ st.enrolled /\ st.hello = "ok"
              /\ page' = now
              /\ Fetches(t, IF st.secret THEN "pending" ELSE "owners", then)
        /\ UNCHANGED <<Box, stuck>>

\* tryQrAdminBootstrap: the owner is the QR code's admin.
Booted(got) == got # Lost /\ got.ok /\ ~got.skipped

HearsPending(t) ==
    /\ Hears(t, "pending")
    /\ IF Booted(task[t].got) THEN Leaves(t)
       ELSE Fetches(t, "owners", task[t].then) /\ UNCHANGED page
    /\ UNCHANGED <<Box, stuck>>

\* Without an answer there is no owner.  What is shown now may be the countdown
\* of another task: it is hidden, and goes on.
HearsOwners(t) ==
    LET hasOwner == task[t].got # Lost /\ task[t].got.ok
        panel == IF hasOwner THEN "reset" ELSE "owner"
    IN  /\ Hears(t, "owners")
        /\ IF hasOwner /\ ~resetOn THEN Leaves(t)
           ELSE Returns(t, task[t].then, [page EXCEPT !.shown = {panel}],
                        [NotReady EXCEPT !.hello = "ok"])
        /\ UNCHANGED <<Box, stuck>>

-----------------------------------------------------------------------------
(* waitForBms and afterBmsOk.                                              *)

\* pollHelloOnce
Ready(st) == st # Lost /\ st.enrolled /\ st.hello = "ok"

HearsHello(t) ==
    LET st == task[t].got
    IN  /\ Hears(t, "hello")
        /\ IF ~Ready(st)
           THEN task' = [task EXCEPT ![t].pc = "sleep", ![t].got = NoAnswer] /\ UNCHANGED page
           ELSE IF task[t].leaving THEN Fetches(t, "status", <<"leave">>) /\ UNCHANGED page
           ELSE AfterBmsOk(t, task[t].then, page)
        /\ UNCHANGED <<Box, stuck>>

Sleeps(t) == ~page.gone /\ task[t].pc = "sleep"

\* The loop looks at the flag when it wakes: it may have been cleared again by
\* a later wait.
Wakes(t) ==
    /\ Sleeps(t)
    /\ IF page.abort THEN WaitFails(t, page)
       ELSE task' = [task EXCEPT ![t].pc = "hello"] /\ UNCHANGED page
    /\ UNCHANGED <<Box, stuck>>

\* Mutant: nothing is offered.
TimedOutSilently(p) == p

TimedOut(p) == [p EXCEPT !.retry = TRUE]

\* The deadline, which it looks at then too.
TimesOut(t) ==
    /\ Sleeps(t)
    /\ ~page.abort
    /\ WaitFails(t, TimedOut(page))
    /\ UNCHANGED <<Box, stuck>>

HearsBoot(t) ==
    /\ Hears(t, "boot")
    /\ IF Booted(task[t].got) THEN Leaves(t)
       ELSE Fetches(t, "status", task[t].then) /\ UNCHANGED page
    /\ UNCHANGED <<Box, stuck>>

-----------------------------------------------------------------------------
(* Buttons.                                                                *)

Saves(h) ==
    /\ Idles(h)
    /\ "enroll" \in page.shown
    /\ Fetches(h, "save", <<>>)
    /\ UNCHANGED <<Box, page, stuck>>

\* savePayload; with WireGuard keys it has them applied first.
HearsSave(h) ==
    /\ Hears(h, "save")
    /\ IF task[h].got = Done
       THEN /\ page' = WaitMode(page)
            /\ Fetches(h, "apply", <<>>) \/ Waits(h, <<>>, FALSE)
       ELSE Ends(h) /\ UNCHANGED page
    /\ UNCHANGED <<Box, stuck>>

\* The wait that follows hides waitActions, and is over at once when aborted.
HearsApply(h) ==
    /\ Hears(h, "apply")
    /\ page' = [page EXCEPT !.retry = FALSE]
    /\ IF page.abort THEN Ends(h) ELSE Waits(h, <<>>, FALSE)
    /\ UNCHANGED <<Box, stuck>>

Creates(h) ==
    /\ Idles(h)
    /\ "owner" \in page.shown
    /\ Fetches(h, "create", <<>>)
    /\ UNCHANGED <<Box, page, stuck>>

HearsCreate(h) ==
    /\ Hears(h, "create")
    /\ IF task[h].got = Done
       THEN page' = WaitMode(page) /\ Waits(h, <<>>, TRUE)
       ELSE Ends(h) /\ UNCHANGED page
    /\ UNCHANGED <<Box, stuck>>

Offered == "wait" \in page.shown /\ page.retry

\* "Retry wait"
Retries(h) ==
    /\ Idles(h)
    /\ Offered
    /\ page' = WaitMode(page)
    /\ Fetches(h, "apply", <<>>)
    /\ UNCHANGED <<Box, stuck>>

\* "Continue setup"
Skips(h) ==
    /\ Idles(h)
    /\ Offered
    /\ page' = LeftWaitMode(page)
    /\ Fetches(h, "status", <<"skip">>)
    /\ UNCHANGED <<Box, stuck>>

\* The page is loaded again: its tasks are gone.
Reloads ==
    /\ faults > 0
    /\ faults' = faults - 1
    /\ page' = Loaded
    /\ task' = [t \in Tasks |-> Idle]
    /\ stuck' = FALSE
    /\ UNCHANGED <<box, hello, resetOn, changes>>

-----------------------------------------------------------------------------
Serves(t) ==
    \/ TellsStatus(t) \/ Applies(t) \/ TellsOwner(t)
    \/ SavesEnroll(t) \/ CreatesOwner(t) \/ Bootstraps(t)

Runs(t) ==
    \/ MissesStatus(t) \/ HearsStatus(t) \/ HearsPending(t) \/ HearsOwners(t)
    \/ HearsHello(t) \/ Wakes(t) \/ HearsBoot(t)
    \/ HearsSave(t) \/ HearsApply(t) \/ HearsCreate(t)

Presses(h) == Saves(h) \/ Creates(h) \/ Retries(h) \/ Skips(h)

Next ==
    \/ \E t \in Tasks : Serves(t) \/ Loses(t) \/ Runs(t) \/ TimesOut(t)
    \/ \E t \in Timers : Refreshes(t)
    \/ \E h \in Hands : Presses(h)
    \/ BmsChanges \/ Reloads

Spec == Init /\ [][Next]_vars

-----------------------------------------------------------------------------
(* Properties.                                                             *)

\* No dead countdown: one that is shown has a task that goes on with it, or
\* offers its buttons, although any of several tasks may end, hide or abort it.
\* (But for createOwner when the status it asks for at its end is lost: its
\* countdown stays, and every refresh leaves it alone.)
CountdownLives ==
    "wait" \in page.shown
        => \/ stuck
           \/ page.gone
           \/ page.retry
           \/ \E t \in Tasks : task[t].pc \in {"hello", "sleep", "apply"} /\ ~page.abort
           \/ \E t \in Tasks : task[t].pc = "status" /\ task[t].then = <<"leave">>

\* Once BMS says ok for good, an enrolled box's page comes to the owner form, the
\* password form or Home Assistant, and comes to one again after whatever hides
\* it, however waits were started, aborted and timed out before and after.
\* (But for the countdown that createOwner leaves behind, see CountdownLives.)
DeadWait == stuck /\ page.shown = {"wait"} /\ ~page.retry
Arrives ==
    <>[](box.enrolled /\ hello = "ok")
        => []<>(page.gone \/ page.shown \cap {"owner", "reset"} # {} \/ DeadWait)
=============================================================================

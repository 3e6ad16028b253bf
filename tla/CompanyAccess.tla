---------------------------- MODULE CompanyAccess ----------------------------
(***************************************************************************)
(* The page home-box-company-access.js, on which the client edits what     *)
(* sensors the box may share, and LimitedShareView of home_box_admin,      *)
(* which saves it and sees to the token the sensory feed reads states      *)
(* with.                                                                   *)
(*                                                                         *)
(* A step is what the page does between two awaits, or what the view does  *)
(* between two awaits or system calls that others can see.  The share is   *)
(* read when it is asked for: what is late is the answer.  The admin is    *)
(* the same on every page.  A save changes the file in one action (a       *)
(* rename); two that write its one temporary file at once do what          *)
(* Enrollment shows of bms_enroll.tmp.                                     *)
(***************************************************************************)
EXTENDS Integers, FiniteSets, Functions

CONSTANTS
    Pages,          \* pages open in some browser
    Sensors,        \* binary sensors
    Cats,           \* category slugs
    Out, Unset,     \* a sensor not shared; a sensor without category
    NoFile,
    NotAsked,       \* no load under way
    Before,         \* bound: shares saved earlier
    MaxEdits,       \* bound: edits on each page
    MaxFaults       \* bound: loads that fail, and stops of Home Assistant

Share == [on : BOOLEAN, rows : [Sensors -> Cats \cup {Out, Unset}], cats : SUBSET Cats]

\* What a save leaves: the categories of shared sensors are in the list.
WellFormed(share) ==
    share \in Share /\ \A s \in Sensors : share.rows[s] \in {Out} \cup share.cats

VARIABLES
    file,       \* bms_share.json
    page,       \* fields of each page's element
    loads,      \* its GETs: the one a save waits for, and any other
    post,       \* its POST
    token,      \* bms_ha_token in secrets.yaml: none, good, or dead
    created,    \* the long-lived refresh token: none, in memory, stored
    edits, faults

vars == <<file, page, loads, post, token, created, edits, faults>>

Kinds == {"load", "save"}

Nothing == [on |-> FALSE, rows |-> [s \in Sensors |-> Out], cats |-> {}]
NoPost == [pc |-> "idle", body |-> Nothing, valid |-> FALSE]

-----------------------------------------------------------------------------
(* What is saved and what is shown.                                        *)

Used(rows) == Range(rows) \cap Cats

\* _share_sync_load: without a file nothing is shared.
Saved == IF file = NoFile THEN Nothing
         ELSE [file EXCEPT !.cats = @ \cup Used(file.rows)]

\* snapshot, and with draftSensors the body of a POST.
Snapshot(d) == [on |-> d.on, cats |-> d.cats,
                rows |-> [s \in Sensors |-> IF s \in d.sel THEN d.class[s] ELSE Out]]

\* What refresh makes of an answer.
Shown(share) ==
    [on |-> share.on,
     sel |-> {s \in Sensors : share.rows[s] # Out},
     class |-> [s \in Sensors |-> IF share.rows[s] = Out THEN Unset ELSE share.rows[s]],
     cats |-> share.cats \cup Used(share.rows)]

\* Pages that have loaded the share of a box with or without one.
Init ==
    /\ file \in {NoFile} \cup Before
    /\ page = [p \in Pages |-> [draft |-> Shown(Saved), base |-> Saved,
                                dirty |-> FALSE, busy |-> FALSE]]
    /\ loads = [p \in Pages |-> [k \in Kinds |-> NotAsked]]
    /\ post = [p \in Pages |-> NoPost]
    /\ token = IF Saved.on THEN "good" ELSE "none"
    /\ created = IF Saved.on THEN "stored" ELSE "none"
    /\ edits = [p \in Pages |-> MaxEdits]
    /\ faults = MaxFaults

-----------------------------------------------------------------------------
(* Edits: each one ends with markDirty.                                    *)

Edits(p, d) ==
    /\ edits[p] > 0
    /\ edits' = [edits EXCEPT ![p] = @ - 1]
    /\ page' = [page EXCEPT ![p].draft = d, ![p].dirty = Snapshot(d) # page[p].base]
    /\ UNCHANGED <<file, loads, post, token, created, faults>>

Toggles(p) == Edits(p, [page[p].draft EXCEPT !.on = ~@])

\* Unchecking a sensor keeps its category on the page.
Checks(p, s) ==
    Edits(p, [page[p].draft EXCEPT !.sel = IF s \in @ THEN @ \ {s} ELSE @ \cup {s}])

\* The select of a sensor that is not checked is disabled.
Classifies(p, s, c) ==
    /\ s \in page[p].draft.sel
    /\ c \in page[p].draft.cats \cup {Unset}
    /\ Edits(p, [page[p].draft EXCEPT !.class[s] = c])

AddsCategory(p, c) ==
    /\ c \notin page[p].draft.cats
    /\ Edits(p, [page[p].draft EXCEPT !.cats = @ \cup {c}])

\* The sensors of a category that is removed lose it.
RemovesCategory(p, c) ==
    LET d == page[p].draft
    IN  /\ c \in d.cats
        /\ Edits(p, [d EXCEPT !.cats = @ \ {c},
                              !.class = [s \in Sensors |-> IF @[s] = c THEN Unset ELSE @[s]]])

-----------------------------------------------------------------------------
(* Loads.                                                                  *)

\* Bound: one load is under way at a time beside those that saves wait for.
Quiet == \A p \in Pages : loads[p]["load"] = NotAsked

\* set hass, which Home Assistant calls on every change of a state; and
\* connectedCallback.
HassChanges(p) ==
    /\ Quiet
    /\ loads' = [loads EXCEPT ![p]["load"] = Saved]
    /\ UNCHANGED <<file, page, post, token, created, edits, faults>>

Discards(p) ==
    /\ ~page[p].busy
    /\ page[p].dirty
    /\ Quiet
    /\ loads' = [loads EXCEPT ![p]["load"] = Saved]
    /\ UNCHANGED <<file, page, post, token, created, edits, faults>>

\* Mutant: the load that a save waits for does not end it.
RefreshesOnly(p, k) ==
    /\ loads[p][k] # NotAsked
    /\ LET d == Shown(loads[p][k])
       IN  page' = [page EXCEPT ![p].draft = d, ![p].base = Snapshot(d), ![p].dirty = FALSE]
    /\ loads' = [loads EXCEPT ![p][k] = NotAsked]
    /\ UNCHANGED <<file, post, token, created, edits, faults>>

\* refresh: the answer takes the place of the draft.  It is the last thing
\* a save waits for.
Refreshes(p, k) ==
    /\ loads[p][k] # NotAsked
    /\ LET d == Shown(loads[p][k])
       IN  page' = [page EXCEPT ![p] = [draft |-> d, base |-> Snapshot(d), dirty |-> FALSE,
                                        busy |-> @.busy /\ k # "save"]]
    /\ loads' = [loads EXCEPT ![p][k] = NotAsked]
    /\ UNCHANGED <<file, post, token, created, edits, faults>>

\* A load that fails changes nothing but the status text.
LoadFails(p, k) ==
    /\ faults > 0
    /\ loads[p][k] # NotAsked
    /\ faults' = faults - 1
    /\ loads' = [loads EXCEPT ![p][k] = NotAsked]
    /\ page' = [page EXCEPT ![p].busy = @ /\ k # "save"]
    /\ UNCHANGED <<file, post, token, created, edits>>

-----------------------------------------------------------------------------
(* Saving.                                                                 *)

\* onSave refuses a selected sensor without category.
Classified(d) == \A s \in d.sel : d.class[s] # Unset

Saves(p) ==
    LET q == page[p]
    IN  /\ ~q.busy /\ q.dirty
        /\ Classified(q.draft)
        /\ post[p].pc = "idle"
        /\ page' = [page EXCEPT ![p].busy = TRUE]
        /\ post' = [post EXCEPT ![p] = [NoPost EXCEPT !.pc = "store",
                                                      !.body = Snapshot(q.draft)]]
        /\ UNCHANGED <<file, loads, token, created, edits, faults>>

At(p, pc) == post[p].pc = pc
Goes(p, pc) == post' = [post EXCEPT ![p].pc = pc]

\* _share_sync_save
StoresShare(p) ==
    LET body == post[p].body
    IN  /\ At(p, "store")
        /\ file' = [body EXCEPT !.cats = @ \cup Used(body.rows)]
        /\ Goes(p, IF body.on THEN "secrets" ELSE "ok")
        /\ UNCHANGED <<page, loads, token, created, edits, faults>>

-----------------------------------------------------------------------------
(* _ensure_sensory_ha_token.                                               *)

\* Mutant: a token that is there is not validated.
ReadsSecretsOnly(p) ==
    /\ At(p, "secrets")
    /\ post' = [post EXCEPT ![p].pc = "create", ![p].valid = token # "none"]
    /\ UNCHANGED <<file, page, loads, token, created, edits, faults>>

\* _read_bms_ha_token_from_secrets, in the executor; what it has read is
\* validated afterwards.
ReadsSecrets(p) ==
    /\ At(p, "secrets")
    /\ post' = [post EXCEPT ![p].pc = "create", ![p].valid = token = "good"]
    /\ UNCHANGED <<file, page, loads, token, created, edits, faults>>

\* async_create_refresh_token refuses a client name it has already.
Creates(p) ==
    /\ At(p, "create")
    /\ IF post[p].valid
       THEN Goes(p, "ok") /\ UNCHANGED created
       ELSE IF created # "none"
       THEN Goes(p, "error") /\ UNCHANGED created
       ELSE Goes(p, "upsert") /\ created' = "memory"
    /\ UNCHANGED <<file, page, loads, token, edits, faults>>

\* _upsert_bms_ha_token
Upserts(p) ==
    /\ At(p, "upsert")
    /\ token' = "good"
    /\ Goes(p, "ok")
    /\ UNCHANGED <<file, page, loads, created, edits, faults>>

\* The auth store of Home Assistant is written a second after a change.
StoresAuth ==
    /\ created = "memory"
    /\ created' = "stored"
    /\ UNCHANGED <<file, page, loads, post, token, edits, faults>>

\* The answer reaches onSave: what is then on the page counts as saved, and
\* the share is loaded again.
SaveAnswered(p) ==
    /\ At(p, "ok")
    /\ page' = [page EXCEPT ![p].base = Snapshot(page[p].draft), ![p].dirty = FALSE]
    /\ loads' = [loads EXCEPT ![p]["save"] = Saved]
    /\ post' = [post EXCEPT ![p] = NoPost]
    /\ UNCHANGED <<file, token, created, edits, faults>>

SaveRefused(p) ==
    /\ At(p, "error")
    /\ page' = [page EXCEPT ![p].busy = FALSE]
    /\ post' = [post EXCEPT ![p] = NoPost]
    /\ UNCHANGED <<file, loads, token, created, edits, faults>>

\* Home Assistant stops: posts and loads fail, and what the auth store has
\* not written is gone.
HaStops ==
    /\ faults > 0
    /\ faults' = faults - 1
    /\ post' = [p \in Pages |-> IF post[p].pc = "idle" THEN post[p]
                                ELSE [NoPost EXCEPT !.pc = "error"]]
    /\ page' = [p \in Pages |->
                   [page[p] EXCEPT !.busy = @ /\ loads[p]["save"] = NotAsked]]
    /\ loads' = [p \in Pages |-> [k \in Kinds |-> NotAsked]]
    /\ created' = IF created = "stored" THEN "stored" ELSE "none"
    /\ token' = IF created = "memory" /\ token = "good" THEN "dead" ELSE token
    /\ UNCHANGED <<file, edits>>

-----------------------------------------------------------------------------
User(p) ==
    \/ Toggles(p)
    \/ \E s \in Sensors : Checks(p, s)
    \/ \E s \in Sensors, c \in Cats \cup {Unset} : Classifies(p, s, c)
    \/ \E c \in Cats : AddsCategory(p, c)
    \/ \E c \in Cats : RemovesCategory(p, c)
    \/ Saves(p)
    \/ Discards(p)

View(p) == StoresShare(p) \/ ReadsSecrets(p) \/ Creates(p) \/ Upserts(p)

\* A save until its last load.
Saving(p) == View(p) \/ SaveAnswered(p) \/ SaveRefused(p) \/ Refreshes(p, "save")

Loading(p) == Refreshes(p, "load")

Next ==
    \/ \E p \in Pages : User(p) \/ Saving(p) \/ Loading(p) \/ HassChanges(p)
    \/ \E p \in Pages, k \in Kinds : LoadFails(p, k)
    \/ StoresAuth
    \/ HaStops

Spec == Init /\ [][Next]_vars

-----------------------------------------------------------------------------
(* Properties.                                                             *)

\* A save of an open share that is answered ok leaves the feed a token that
\* Home Assistant takes: also after stops that lost one.
OkMeansToken == \A p \in Pages : At(p, "ok") /\ post[p].body.on => token = "good"

\* Once edits are over, no page is left saving, and every page comes to show
\* what is saved and keeps showing it: a load that a save has overtaken, or a
\* save during a stop, is not the last word.
PagesSettle ==
    <>[](\A p \in Pages : ~page[p].busy /\ Snapshot(page[p].draft) = Saved)
=============================================================================

------------------------------ MODULE Enrollment ------------------------------
(***************************************************************************)
(* platform/enroll_ui.py and enroll_store.py: the requests that enroll the *)
(* box, clear it and create its owner, served by threads that share the    *)
(* files of /config; with the owner views of home_box_admin that they      *)
(* call.                                                                   *)
(*                                                                         *)
(* An action is one system call on a file that another thread can see, or  *)
(* what a view of Home Assistant does between two awaits.  Files that are  *)
(* replaced by a rename alone (WireGuard keys, bootstrap secret) change in *)
(* one action; bms_enroll.json is also rewritten in place and has its      *)
(* opening, writing and renaming apart.  The runtime cache, which          *)
(* save_enroll and clear_enroll drop, is in SensoryFeed.                   *)
(***************************************************************************)
EXTENDS Integers, FiniteSets

CONSTANTS
    Boxes,          \* unique_ids, one in each QR code
    Codes,          \* the QR codes that may be scanned
    Names,          \* usernames
    QrName,         \* the username of an admin{} in a QR code
    NoBox, NoFile, Torn,
    Enrollers,      \* request threads that save or clear the enrollment,
    Bootstrappers,  \*   that create the owner from the QR code's admin{},
    Forms,          \*   that create the owner from the page's form
    AllowReset,     \* ENROLL_ALLOW_RESET
    MaxFaults       \* bound: restarts, and answers of Home Assistant that
                    \* the enroll UI does not get

ASSUME EnrollAssumption ==
    /\ Codes \subseteq [box : Boxes, wg : BOOLEAN, admin : BOOLEAN]
    /\ QrName \in Names
    /\ NoBox \notin Boxes
    /\ Torn # NoFile
    /\ {Torn, NoFile} \cap [box : Boxes, admin : BOOLEAN] = {}
    /\ Enrollers \cap Bootstrappers = {}
    /\ Forms \cap (Enrollers \cup Bootstrappers) = {}
    /\ AllowReset \in BOOLEAN
    /\ MaxFaults \in Nat

VARIABLES
    enroll,     \* bms_enroll.json
    tmp,        \* bms_enroll.tmp
    wg,         \* wireguard/wg0.conf: whose keys
    boot,       \* bms_admin_bootstrap.json: whose admin{}
    auth,       \* password of each username, by who has chosen it
    owners,     \* usernames of the owner of Home Assistant
    others,     \* usernames of other admins
    req,        \* the requests being served
    faults,     \* what is left of MaxFaults
    hist        \* history, read by properties only

vars == <<enroll, tmp, wg, boot, auth, owners, others, req, faults, hist>>

Doc == [box : Boxes, admin : BOOLEAN]
Own == "own"            \* a password that a person has chosen
NoPassword == "none"
Requests == Enrollers \cup Bootstrappers \cup Forms
Saving == {"keys", "open", "write", "replace", "secret"}
Clearing == {"unlink", "unsecret", "unkey"}
InHa == {"check", "add", "adopt"}
Flagging == {"clear", "load", "rewrite", "refill"}

\* A request that is not being served.  fd is where the file it has opened
\* is now; deaf: the enroll UI has stopped waiting for Home Assistant.
Idle == [pc |-> "idle", qr |-> [box |-> NoBox, wg |-> FALSE, admin |-> FALSE],
         box |-> NoBox, token |-> NoBox, name |-> QrName,
         exists |-> FALSE, deaf |-> FALSE, fd |-> "none"]

Init ==
    /\ enroll = NoFile
    /\ tmp = NoFile
    /\ wg = NoBox
    /\ boot = NoBox
    /\ auth = [n \in Names |-> NoPassword]
    /\ owners = {}
    /\ others = {}
    /\ req = [r \in Requests |-> Idle]
    /\ faults = MaxFaults
    /\ hist = [enrolled |-> FALSE, applied |-> {}, mixed |-> FALSE, cut |-> FALSE,
               shared |-> FALSE, torn |-> FALSE]

-----------------------------------------------------------------------------
(* Files.                                                                  *)

\* load_enroll gives None for a file it cannot parse.
Enrolled == enroll \in Doc

At(r, pc) == req[r].pc = pc
Goes(r, pc) == req' = [req EXCEPT ![r].pc = pc]
Ends(r) == req' = [req EXCEPT ![r] = Idle]

Quiet(R) == \A r \in R : At(r, "idle")

\* A bootstrap that may yet clear the secret, or write back the enroll file
\* that it has read.
Pending(r) ==
    \/ req[r].pc \in InHa /\ ~req[r].deaf
    \/ req[r].pc \in {"clear", "load", "rewrite"}

\* What the history remembers.  Mixes: a request that enrolls or clears the box
\* is served at the same time as another one, or as such a bootstrap.  Shares: a
\* file is opened for writing that another request has open.
Mixes(also) == hist' = [hist EXCEPT !.mixed = @ \/ also]
Shares(fd) == hist' = [hist EXCEPT !.shared = @ \/ \E q \in Requests : req[q].fd = fd]

\* What a file that had contents old since it was opened for writing may hold
\* after doc is written: of a longer text written meanwhile the end remains.
Written(old, doc) == {doc} \cup (IF old \in Doc \ {doc} THEN {Torn} ELSE {})

\* write_text closes the file: its text arrives wherever the open file now is.
Fills(r, doc) ==
    /\ tmp' \in IF req[r].fd = "tmp" THEN Written(tmp, doc) ELSE {tmp}
    /\ enroll' \in IF req[r].fd = "file" THEN Written(enroll, doc) ELSE {enroll}

\* Where an open file is after bms_enroll.json has been unlinked, and after
\* bms_enroll.tmp has been renamed to it.
Unlinked(fd) == IF fd = "file" THEN "gone" ELSE fd
Renamed(fd) == IF fd = "tmp" THEN "file" ELSE Unlinked(fd)

-----------------------------------------------------------------------------
(* POST and DELETE /api/enroll.                                            *)

\* Mutant: the lock is not looked at.
LockedNever == FALSE

\* _enroll_locked
Locked == Enrolled /\ ~AllowReset

\* The lock is looked at when the request arrives.
Posts(r) ==
    /\ At(r, "idle")
    /\ ~Locked
    /\ \E qr \in Codes : req' = [req EXCEPT ![r].pc = "keys", ![r].qr = qr]
    /\ Mixes(~Quiet(Enrollers) \/ \E p \in Bootstrappers : Pending(p))
    /\ UNCHANGED <<enroll, tmp, wg, boot, auth, owners, others, faults>>

\* save_wg_from_payload
SavesKeys(r) ==
    /\ At(r, "keys")
    /\ wg' = IF req[r].qr.wg THEN req[r].qr.box ELSE wg
    /\ Goes(r, "open")
    /\ UNCHANGED <<enroll, tmp, boot, auth, owners, others, faults, hist>>

\* Mutant: the file is renamed before its text is written.
OpensUnflushed(r) ==
    /\ At(r, "open")
    /\ tmp' = Torn
    /\ req' = [req EXCEPT ![r].pc = "replace", ![r].fd = "tmp"]
    /\ UNCHANGED <<enroll, wg, boot, auth, owners, others, faults, hist>>

Opens(r) ==
    /\ At(r, "open")
    /\ tmp' = Torn
    /\ req' = [req EXCEPT ![r].pc = "write", ![r].fd = "tmp"]
    /\ Shares("tmp")
    /\ UNCHANGED <<enroll, wg, boot, auth, owners, others, faults>>

Writes(r) ==
    /\ At(r, "write")
    /\ Fills(r, [box |-> req[r].qr.box, admin |-> req[r].qr.admin])
    /\ req' = [req EXCEPT ![r].pc = "replace", ![r].fd = "none"]
    /\ UNCHANGED <<wg, boot, auth, owners, others, faults, hist>>

\* tmp.replace(path); without a tmp file the request fails.
Replaces(r) ==
    /\ At(r, "replace")
    /\ IF tmp = NoFile
       THEN Ends(r) /\ UNCHANGED <<enroll, tmp, hist>>
       ELSE /\ enroll' = tmp
            /\ tmp' = NoFile
            /\ hist' = [hist EXCEPT !.enrolled = @ \/ tmp \in Doc]
            /\ req' = [q \in Requests |->
                          [req[q] EXCEPT !.fd = Renamed(@),
                                         !.pc = IF q = r THEN "secret" ELSE @]]
    /\ UNCHANGED <<wg, boot, auth, owners, others, faults>>

\* save_admin_bootstrap or clear_admin_bootstrap
SavesSecret(r) ==
    /\ At(r, "secret")
    /\ boot' = IF req[r].qr.admin THEN req[r].qr.box ELSE NoBox
    /\ Ends(r)
    /\ UNCHANGED <<enroll, tmp, wg, auth, owners, others, faults, hist>>

\* The page has a Clear button for ENROLL_ALLOW_RESET only; what the request is
\* refused for is the lock.
Deletes(r) ==
    /\ At(r, "idle")
    /\ ~Locked
    /\ Goes(r, "unlink")
    /\ Mixes(~Quiet(Enrollers) \/ \E p \in Bootstrappers : Pending(p))
    /\ UNCHANGED <<enroll, tmp, wg, boot, auth, owners, others, faults>>

\* clear_enroll
Unlinks(r) ==
    /\ At(r, "unlink")
    /\ enroll' = NoFile
    /\ hist' = [hist EXCEPT !.enrolled = FALSE]
    /\ req' = [q \in Requests |-> [req[q] EXCEPT
                   !.fd = Unlinked(@), !.pc = IF q = r THEN "unsecret" ELSE @]]
    /\ UNCHANGED <<tmp, wg, boot, auth, owners, others, faults>>

ClearsSecret(r) ==
    /\ At(r, "unsecret")
    /\ boot' = NoBox
    /\ Goes(r, "unkey")
    /\ UNCHANGED <<enroll, tmp, wg, auth, owners, others, faults, hist>>

ClearsKeys(r) ==
    /\ At(r, "unkey")
    /\ wg' = NoBox
    /\ Ends(r)
    /\ UNCHANGED <<enroll, tmp, boot, auth, owners, others, faults, hist>>

-----------------------------------------------------------------------------
(* POST /api/owner-bootstrap and /api/owner, and OwnerCreateView.           *)

\* Without a secret or an enrollment nothing is sent.
Boots(r) ==
    /\ At(r, "idle")
    /\ boot # NoBox /\ Enrolled
    /\ req' = [req EXCEPT ![r] = [Idle EXCEPT !.pc = "check", !.box = boot,
                                              !.token = enroll.box]]
    /\ Mixes(~Quiet(Enrollers))
    /\ UNCHANGED <<enroll, tmp, wg, boot, auth, owners, others, faults>>

\* Mutant: the form waits for the bootstrap.
SubmitsAfterSecret(r, name) ==
    /\ At(r, "idle")
    /\ Enrolled
    /\ boot = NoBox
    /\ req' = [req EXCEPT ![r] = [Idle EXCEPT !.pc = "check", !.name = name,
                                              !.token = enroll.box]]
    /\ UNCHANGED <<enroll, tmp, wg, boot, auth, owners, others, faults, hist>>

Submits(r, name) ==
    /\ At(r, "idle")
    /\ Enrolled
    /\ req' = [req EXCEPT ![r] = [Idle EXCEPT !.pc = "check", !.name = name,
                                              !.token = enroll.box]]
    /\ UNCHANGED <<enroll, tmp, wg, boot, auth, owners, others, faults, hist>>

Bootstrap(r) == r \in Bootstrappers

\* Mutant: an owner stops the bootstrap too.
ChecksOwner(r) ==
    /\ At(r, "check")
    /\ IF Enrolled /\ enroll.box = req[r].token /\ owners = {}
       THEN req' = [req EXCEPT ![r].pc = "add", ![r].exists = owners # {}]
       ELSE Ends(r)
    /\ UNCHANGED <<enroll, tmp, wg, boot, auth, owners, others, faults, hist>>

\* The view's token and owner checks.
Checks(r) ==
    /\ At(r, "check")
    /\ IF /\ Enrolled /\ enroll.box = req[r].token
          /\ owners = {} \/ Bootstrap(r)
       THEN req' = [req EXCEPT ![r].pc = "add", ![r].exists = owners # {}]
       ELSE Ends(r)
    /\ UNCHANGED <<enroll, tmp, wg, boot, auth, owners, others, faults, hist>>

Password(r) == IF Bootstrap(r) THEN req[r].box ELSE Own

\* The view answers ok.  Only the bootstrap has something left to do, when its
\* thread still waits.
Answered(r) ==
    IF Bootstrap(r) /\ ~req[r].deaf THEN Goes(r, "clear") ELSE Ends(r)

\* Mutant: a refusal of Home Assistant is taken for success.
AddsAnyway(r) ==
    /\ At(r, "add")
    /\ LET n == req[r].name
           taken == auth[n] # NoPassword
       IN  IF taken /\ ~req[r].exists
           THEN Answered(r) /\ UNCHANGED <<auth, hist>>
           ELSE /\ auth' = [auth EXCEPT ![n] = Password(r)]
                /\ IF taken THEN Answered(r) ELSE Goes(r, "adopt")
                /\ hist' = [hist EXCEPT !.applied =
                               IF Bootstrap(r) /\ taken THEN @ \cup {req[r].box}
                                                        ELSE @]
    /\ UNCHANGED <<enroll, tmp, wg, boot, owners, others, faults>>

\* async_add_auth, and async_change_password when there is an owner.
Adds(r) ==
    /\ At(r, "add")
    /\ LET n == req[r].name
           taken == auth[n] # NoPassword
       IN  IF taken /\ ~req[r].exists
           THEN Ends(r) /\ UNCHANGED <<auth, hist>>
           ELSE /\ auth' = [auth EXCEPT ![n] = Password(r)]
                /\ IF taken THEN Answered(r) ELSE Goes(r, "adopt")
                /\ hist' = [hist EXCEPT !.applied =
                               IF Bootstrap(r) /\ taken THEN @ \cup {req[r].box}
                                                        ELSE @]
    /\ UNCHANGED <<enroll, tmp, wg, boot, owners, others, faults>>

\* The new login is linked to the owner that was seen, or to a new user; Home
\* Assistant makes the first user its owner.
Adopts(r) ==
    /\ At(r, "adopt")
    /\ LET mine == {req[r].name}
       IN  IF req[r].exists \/ owners = {}
           THEN owners' = owners \cup mine /\ UNCHANGED others
           ELSE others' = others \cup mine /\ UNCHANGED owners
    /\ Answered(r)
    /\ hist' = [hist EXCEPT !.applied =
                    IF Bootstrap(r) THEN @ \cup {req[r].box} ELSE @]
    /\ UNCHANGED <<enroll, tmp, wg, boot, auth, faults>>

\* clear_admin_bootstrap
Clears(r) ==
    /\ At(r, "clear")
    /\ boot' = NoBox
    /\ Goes(r, "load")
    /\ UNCHANGED <<enroll, tmp, wg, auth, owners, others, faults, hist>>

\* The enroll file is read, and written in place without its flag.
Loads(r) ==
    /\ At(r, "load")
    /\ IF Enrolled /\ enroll.admin
       THEN req' = [req EXCEPT ![r].pc = "rewrite", ![r].box = enroll.box]
       ELSE Ends(r)
    /\ UNCHANGED <<enroll, tmp, wg, boot, auth, owners, others, faults, hist>>

Rewrites(r) ==
    /\ At(r, "rewrite")
    /\ enroll' = Torn
    /\ req' = [req EXCEPT ![r].pc = "refill", ![r].fd = "file"]
    /\ Shares("file")
    /\ UNCHANGED <<tmp, wg, boot, auth, owners, others, faults>>

Refills(r) ==
    /\ At(r, "refill")
    /\ Fills(r, [box |-> req[r].box, admin |-> FALSE])
    /\ Ends(r)
    /\ UNCHANGED <<wg, boot, auth, owners, others, faults, hist>>

-----------------------------------------------------------------------------
(* Faults, and the owner.                                                  *)

Faulty == faults > 0 /\ faults' = faults - 1

\* The proxy's time-out: Home Assistant goes on.
GivesUp(r) ==
    /\ req[r].pc \in InHa /\ ~req[r].deaf
    /\ Faulty
    /\ req' = [req EXCEPT ![r].deaf = TRUE]
    /\ UNCHANGED <<enroll, tmp, wg, boot, auth, owners, others, hist>>

UiRestarts ==
    /\ Faulty
    /\ req' = [r \in Requests |-> IF req[r].pc \in InHa
                                  THEN [req[r] EXCEPT !.deaf = TRUE] ELSE Idle]
    /\ hist' = [hist EXCEPT !.cut = @ \/ (AllowReset /\ ~Quiet(Enrollers)),
                            !.torn = @ \/ \E r \in Requests : req[r].fd = "file"]
    /\ UNCHANGED <<enroll, tmp, wg, boot, auth, owners, others>>

HaRestarts ==
    /\ Faulty
    /\ req' = [r \in Requests |-> IF req[r].pc \in InHa THEN Idle ELSE req[r]]
    /\ UNCHANGED <<enroll, tmp, wg, boot, auth, owners, others, hist>>

\* In Home Assistant's profile page, or through PasswordResetView.
ChoosesPassword(n) ==
    /\ auth[n] # NoPassword
    /\ n \in owners \cup others
    /\ auth' = [auth EXCEPT ![n] = Own]
    /\ UNCHANGED <<enroll, tmp, wg, boot, owners, others, req, faults, hist>>

-----------------------------------------------------------------------------

\* A request being served goes on.
Serves(r) ==
    \/ SavesKeys(r) \/ Opens(r) \/ Writes(r) \/ Replaces(r) \/ SavesSecret(r)
    \/ Unlinks(r) \/ ClearsSecret(r) \/ ClearsKeys(r)
    \/ Checks(r) \/ Adds(r) \/ Adopts(r)
    \/ Clears(r) \/ Loads(r) \/ Rewrites(r) \/ Refills(r)

Next ==
    \/ \E r \in Requests : Serves(r) \/ GivesUp(r)
    \/ \E r \in Enrollers : Posts(r) \/ Deletes(r)
    \/ \E r \in Bootstrappers : Boots(r)
    \/ \E r \in Forms, n \in Names : Submits(r, n)
    \/ UiRestarts \/ HaRestarts
    \/ \E n \in Names : ChoosesPassword(n)

Spec == Init /\ [][Next]_vars

\* Requests are served.  A person scans a QR code again and again while the page
\* asks for one, and tries one free username after the other; the page sends the bootstrap
\* on every refresh for which the secret is there.
FairSpec ==
    /\ Spec
    /\ \A r \in Requests : WF_vars(Serves(r))
    /\ \A r \in Enrollers : SF_vars(Posts(r))
    /\ \A r \in Bootstrappers : WF_vars(Boots(r))
    /\ \A r \in Forms, n \in Names :
           SF_vars(auth[n] = NoPassword /\ Submits(r, n))

-----------------------------------------------------------------------------
(* Properties.                                                             *)

RequestType ==
    [pc : {"idle"} \cup Saving \cup Clearing \cup InHa \cup Flagging,
     qr : [box : Boxes \cup {NoBox}, wg : BOOLEAN, admin : BOOLEAN],
     box : Boxes \cup {NoBox}, token : Boxes \cup {NoBox}, name : Names,
     exists : BOOLEAN, deaf : BOOLEAN, fd : {"none", "tmp", "file", "gone"}]

TypeOK ==
    /\ enroll \in Doc \cup {NoFile, Torn}
    /\ tmp \in Doc \cup {NoFile, Torn}
    /\ wg \in Boxes \cup {NoBox}
    /\ boot \in Boxes \cup {NoBox}
    /\ auth \in [Names -> Boxes \cup {Own, NoPassword}]
    /\ owners \subseteq Names
    /\ others \subseteq Names
    /\ req \in [Requests -> RequestType]
    /\ faults \in Nat
    /\ hist \in [enrolled : BOOLEAN, applied : SUBSET Boxes, mixed : BOOLEAN,
                cut : BOOLEAN, shared : BOOLEAN, torn : BOOLEAN]

\* The one-time secret on disk is that of the enrolled household: any number of
\* pages that enroll, bootstrap, fail or restart leave no admin of another QR
\* code behind (enroll_store.py:203) - as long as no two requests that enroll or
\* clear the box, and no such request and a bootstrap, are served at once, and
\* none of a technician's is stopped half-way.
SecretIsOwn ==
    Enrolled /\ boot # NoBox /\ Quiet(Enrollers) /\ ~hist.mixed /\ ~hist.cut
        => boot = enroll.box

\* A secret is deleted when Home Assistant has accepted it, not before
\* (enroll_ui.py:979); saving another QR code, or clearing the box, takes it.
SecretIsUsed ==
    [][boot # NoBox /\ boot' = NoBox /\ Quiet(Enrollers) /\ ~hist.mixed
          => boot \in hist.applied]_vars

\* A truncated bms_enroll.json is one that is being written
\* (enroll_store.py:190-193, enroll_ui.py:987), whatever requests enroll, clear
\* and bootstrap the box at once - unless two of them have had the same file open,
\* or the enroll UI has been stopped while one had it open.
FileWhole ==
    enroll = Torn /\ ~hist.shared /\ ~hist.torn
        => \E r \in Requests : req[r].fd = "file"

\* The box gets an owner, whatever restarts.
OwnerReached == <>(owners # {})

\* When nobody scans QR codes any more: "Home Box creates the local admin after
\* BMS hello, then deletes the bootstrap secret" (docs/WIREGUARD_QR.md:41).
SecretGone == <>[]Quiet(Enrollers) => <>[](boot = NoBox)

-----------------------------------------------------------------------------
(* What the documentation and comments say and TLC refutes: see the README. *)

\* "True after first successful QR save - QR enroll UI must not reopen"
\* (enroll_ui.py:770): the identity does not change.
FirstEnrollKeeps ==
    [][Enrolled /\ Enrolled' => enroll'.box = enroll.box]_vars

\* "Never reopen QR enroll after identity is saved" (enroll_ui.py:221).
NeverReopens == hist.enrolled => Enrolled \/ \E r \in Requests : ~At(r, "idle")

\* "Home Box consumes it once" (docs/BMS_OWNER_AND_PASSWORD_HOOK.md:14): a
\* password of a QR code that Home Assistant has accepted does not come back.
ConsumedOnce ==
    [][\A n \in Names : auth'[n] # auth[n] => auth'[n] \notin hist.applied]_vars

\* "owner setup after first successful QR hello still allowed when no owner"
\* (docs/BMS_OWNER_AND_PASSWORD_HOOK.md:144): it makes no second admin.
OwnerSetupOnce == others = {}
=============================================================================

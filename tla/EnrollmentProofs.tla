--------------------------- MODULE EnrollmentProofs ---------------------------
(***************************************************************************)
(* Theorems about Enrollment, for every set of QR codes, usernames,        *)
(* requests and faults.                                                    *)
(***************************************************************************)
EXTENDS Enrollment, TLAPS

-----------------------------------------------------------------------------
(* Type correctness.                                                       *)

\* A request that has got so far carries the identity of a box.
Carries(r) ==
    /\ req[r].pc \in Saving => req[r].qr.box \in Boxes
    /\ req[r].pc \in InHa \cup {"clear"} /\ Bootstrap(r) => req[r].box \in Boxes
    /\ req[r].pc \in {"rewrite", "refill"} => req[r].box \in Boxes

TypeInv == TypeOK /\ \A r \in Requests : Carries(r)

\* The other variables than req.
FilesOK ==
    /\ enroll \in Doc \cup {NoFile, Torn}
    /\ tmp \in Doc \cup {NoFile, Torn}
    /\ wg \in Boxes \cup {NoBox}
    /\ boot \in Boxes \cup {NoBox}

Hist == [enrolled : BOOLEAN, applied : SUBSET Boxes, mixed : BOOLEAN,
         cut : BOOLEAN, shared : BOOLEAN, torn : BOOLEAN]

PeopleOK ==
    /\ auth \in [Names -> Boxes \cup {Own, NoPassword}]
    /\ owners \subseteq Names
    /\ others \subseteq Names
    /\ faults \in Nat
    /\ hist \in Hist

RequestsOK ==
    /\ req \in [Requests -> RequestType]
    /\ \A r \in Requests : Carries(r)

LEMMA TypeParts == TypeInv <=> FilesOK /\ PeopleOK /\ RequestsOK
BY DEF TypeInv, TypeOK, FilesOK, PeopleOK, RequestsOK, Hist

LEMMA IdleType == Idle \in RequestType /\ Idle.pc = "idle" /\ Idle.fd = "none"
BY EnrollAssumption DEF Idle, RequestType

LEMMA EnrollTypeInitial == Init => TypeInv
<1> SUFFICES ASSUME Init PROVE TypeInv
    OBVIOUS
<1>1. RequestsOK
    BY IdleType DEF Init, RequestsOK, Carries, Saving, InHa
<1>2. FilesOK /\ PeopleOK
    BY EnrollAssumption DEF Init, FilesOK, PeopleOK, NoPassword, Own, Hist
<1> QED
    BY <1>1, <1>2, TypeParts

\* A step of one request, which leaves a record of the type there.
LEMMA OneMoves ==
    ASSUME RequestsOK, NEW r \in Requests, NEW q \in RequestType,
           q.pc \in Saving => q.qr.box \in Boxes,
           q.pc \in InHa \cup {"clear"} /\ Bootstrap(r) => q.box \in Boxes,
           q.pc \in {"rewrite", "refill"} => q.box \in Boxes,
           req' = [req EXCEPT ![r] = q]
    PROVE  RequestsOK'
<1>1. req' \in [Requests -> RequestType]
    BY DEF RequestsOK
<1>2. ASSUME NEW s \in Requests PROVE Carries(s)'
  <2>1. CASE s = r
      BY <2>1 DEF RequestsOK, Carries, Bootstrap
  <2>2. CASE s # r
    <3>1. req'[s] = req[s] /\ Carries(s)
        BY <2>2 DEF RequestsOK
    <3> QED
        BY <3>1 DEF Carries, Bootstrap
  <2> QED
      BY <2>1, <2>2
<1> QED
    BY <1>1, <1>2 DEF RequestsOK

LEMMA EndsType ==
    ASSUME RequestsOK, NEW r \in Requests, Ends(r)
    PROVE  RequestsOK'
<1>1. Idle.pc \notin Saving \cup InHa \cup {"clear", "rewrite", "refill"}
    BY IdleType DEF Saving, InHa
<1> QED
    BY <1>1, IdleType, OneMoves DEF Ends

\* The places that need an identity; a request that goes on with the one it
\* carries may go anywhere else.
Anywhere == {"idle"} \cup Saving \cup Clearing \cup InHa \cup Flagging

LEMMA GoesType ==
    ASSUME RequestsOK, NEW r \in Requests, NEW pc \in Anywhere, Goes(r, pc),
           pc \in Saving => req[r].pc \in Saving,
           pc \in InHa \cup {"clear"} => req[r].pc \in InHa,
           pc \notin {"rewrite", "refill"}
    PROVE  RequestsOK'
<1> DEFINE q == [req[r] EXCEPT !.pc = pc]
<1>1. req[r] \in RequestType /\ Carries(r)
    BY DEF RequestsOK
<1>2. q \in RequestType /\ q.pc = pc /\ q.qr = req[r].qr /\ q.box = req[r].box
    BY <1>1 DEF RequestType, Anywhere
<1>3. req' = [req EXCEPT ![r] = q]
    BY DEF Goes
<1> HIDE DEF q
<1> QED
    BY <1>1, <1>2, <1>3, OneMoves DEF Carries

LEMMA FillsType ==
    ASSUME FilesOK, NEW r \in Requests, NEW doc \in Doc, Fills(r, doc)
    PROVE  tmp' \in Doc \cup {NoFile, Torn} /\ enroll' \in Doc \cup {NoFile, Torn}
BY DEF FilesOK, Fills, Written

\* What the history remembers of requests at once.
LEMMA HistoryType ==
    ASSUME hist \in Hist
    PROVE  /\ \A b : Mixes(b) => hist' \in Hist
           /\ \A fd : Shares(fd) => hist' \in Hist
           /\ \A b \in BOOLEAN : [hist EXCEPT !.enrolled = b] \in Hist
           /\ \A A \in SUBSET Boxes : [hist EXCEPT !.applied = A] \in Hist
BY DEF Mixes, Shares, Hist

\* What a request that saves or clears the enrollment does to the types.
LEMMA SavingType ==
    ASSUME FilesOK, RequestsOK, NEW r \in Requests,
           \/ SavesKeys(r) \/ Opens(r) \/ Writes(r) \/ SavesSecret(r)
           \/ ClearsSecret(r) \/ ClearsKeys(r)
    PROVE  FilesOK' /\ RequestsOK'
<1>1. req[r] \in RequestType /\ Carries(r)
    BY DEF RequestsOK
<1>2. req[r].pc \in Saving => req[r].qr.box \in Boxes
    BY <1>1 DEF Carries
<1>3. CASE SavesKeys(r)
  <2>1. RequestsOK'
      BY <1>3, GoesType DEF SavesKeys, At, Saving, InHa, Anywhere
  <2> QED
      BY <1>2, <1>3, <2>1 DEF SavesKeys, FilesOK, At, Saving
<1>4. CASE Opens(r)
  <2> DEFINE q == [req[r] EXCEPT !.pc = "write", !.fd = "tmp"]
  <2>1. q \in RequestType /\ q.pc = "write" /\ q.qr = req[r].qr
      BY <1>1 DEF RequestType, Saving
  <2>2. req' = [req EXCEPT ![r] = q]
      BY <1>4 DEF Opens
  <2>3. req[r].pc \in Saving
      BY <1>4 DEF Opens, At, Saving
  <2> HIDE DEF q
  <2>4. RequestsOK'
      BY <1>2, <2>1, <2>2, <2>3, OneMoves DEF InHa, Saving
  <2> QED
      BY <1>4, <2>4 DEF Opens, FilesOK
<1>5. CASE Writes(r)
  <2> DEFINE q == [req[r] EXCEPT !.pc = "replace", !.fd = "none"]
  <2>1. q \in RequestType /\ q.pc = "replace" /\ q.qr = req[r].qr
      BY <1>1 DEF RequestType, Saving
  <2>2. req' = [req EXCEPT ![r] = q]
      BY <1>5 DEF Writes
  <2>3. req[r].pc \in Saving
      BY <1>5 DEF Writes, At, Saving
  <2> HIDE DEF q
  <2>4. RequestsOK'
      BY <1>2, <2>1, <2>2, <2>3, OneMoves DEF InHa, Saving
  <2>5. [box |-> req[r].qr.box, admin |-> req[r].qr.admin] \in Doc
      BY <1>1, <1>2, <2>3 DEF RequestType, Doc
  <2>6. tmp' \in Doc \cup {NoFile, Torn} /\ enroll' \in Doc \cup {NoFile, Torn}
      BY <1>5, <2>5, FillsType DEF Writes
  <2> QED
      BY <1>5, <2>4, <2>6 DEF Writes, FilesOK
<1>6. CASE SavesSecret(r)
  <2>1. RequestsOK'
      BY <1>6, EndsType DEF SavesSecret
  <2> QED
      BY <1>2, <1>6, <2>1 DEF SavesSecret, FilesOK, At, Saving
<1>7. CASE ClearsSecret(r)
  <2>1. RequestsOK'
      BY <1>7, GoesType DEF ClearsSecret, Saving, InHa, Anywhere, Clearing
  <2> QED
      BY <1>7, <2>1 DEF ClearsSecret, FilesOK
<1>8. CASE ClearsKeys(r)
  <2>1. RequestsOK'
      BY <1>8, EndsType DEF ClearsKeys
  <2> QED
      BY <1>8, <2>1 DEF ClearsKeys, FilesOK
<1> QED
    BY <1>3, <1>4, <1>5, <1>6, <1>7, <1>8

\* Unlinking and renaming move the open files of other requests too.
Fds == {"none", "tmp", "file", "gone"}

LEMMA MovedFiles ==
    ASSUME RequestsOK, NEW r \in Requests, NEW pc \in Anywhere,
           NEW where \in [Requests -> Fds],
           req' = [q \in Requests |-> [req[q] EXCEPT
                      !.fd = where[q], !.pc = IF q = r THEN pc ELSE @]],
           pc \in Saving => req[r].pc \in Saving,
           pc \notin InHa \cup {"clear", "rewrite", "refill"}
    PROVE  RequestsOK'
<1>1. ASSUME NEW q \in Requests
      PROVE  /\ req'[q] \in RequestType
             /\ req'[q].pc = IF q = r THEN pc ELSE req[q].pc
             /\ req'[q].qr = req[q].qr
             /\ req'[q].box = req[q].box
  <2>1. req[q] \in RequestType /\ where[q] \in Fds
      BY DEF RequestsOK
  <2>2. (IF q = r THEN pc ELSE req[q].pc) \in Anywhere
      BY <2>1 DEF RequestType, Anywhere
  <2>3. req'[q] = [req[q] EXCEPT !.fd = where[q],
                                 !.pc = IF q = r THEN pc ELSE req[q].pc]
      OBVIOUS
  <2> QED
      BY <2>1, <2>2, <2>3 DEF RequestType, Anywhere, Fds
<1>2. ASSUME NEW q \in Requests PROVE Carries(q)'
  <2>1. /\ req'[q].pc = IF q = r THEN pc ELSE req[q].pc
        /\ req'[q].qr = req[q].qr /\ req'[q].box = req[q].box
        /\ Carries(q)
      BY <1>1 DEF RequestsOK
  <2>2. CASE q = r
      BY <2>1, <2>2 DEF Carries, Bootstrap
  <2>3. CASE q # r
      BY <2>1, <2>3 DEF Carries, Bootstrap
  <2> QED
      BY <2>2, <2>3
<1>3. req' \in [Requests -> RequestType]
    BY <1>1
<1> QED
    BY <1>2, <1>3 DEF RequestsOK

LEMMA ReplacesType ==
    ASSUME FilesOK, PeopleOK, RequestsOK, NEW r \in Requests,
           Replaces(r) \/ Unlinks(r)
    PROVE  FilesOK' /\ PeopleOK' /\ RequestsOK'
<1>1. \A q \in Requests : req[q].fd \in Fds
    BY DEF RequestsOK, RequestType, Fds
<1>2. CASE Unlinks(r)
  <2> DEFINE where == [q \in Requests |-> Unlinked(req[q].fd)]
  <2>1. where \in [Requests -> Fds]
      BY <1>1 DEF Unlinked, Fds
  <2>2. req' = [q \in Requests |-> [req[q] EXCEPT
                   !.fd = where[q], !.pc = IF q = r THEN "unsecret" ELSE @]]
      BY <1>2 DEF Unlinks
  <2> HIDE DEF where
  <2>3. "unsecret" \in Anywhere /\ "unsecret" \notin
            Saving \cup InHa \cup {"clear", "rewrite", "refill"}
      BY DEF Anywhere, Clearing, Saving, InHa
  <2>4. RequestsOK'
      BY <2>1, <2>2, <2>3, MovedFiles
  <2>5. hist' \in Hist
      BY <1>2, HistoryType DEF Unlinks, PeopleOK
  <2> QED
      BY <1>2, <2>4, <2>5 DEF Unlinks, FilesOK, PeopleOK
<1>3. CASE Replaces(r) /\ tmp = NoFile
  <2>1. RequestsOK'
      BY <1>3, EndsType DEF Replaces
  <2> QED
      BY <1>3, <2>1 DEF Replaces, FilesOK, PeopleOK
<1>4. CASE Replaces(r) /\ tmp # NoFile
  <2> DEFINE where == [q \in Requests |-> Renamed(req[q].fd)]
  <2>1. where \in [Requests -> Fds]
      BY <1>1 DEF Renamed, Unlinked, Fds
  <2>2. req' = [q \in Requests |-> [req[q] EXCEPT
                   !.fd = where[q], !.pc = IF q = r THEN "secret" ELSE @]]
      BY <1>4 DEF Replaces
  <2>3. req[r].pc \in Saving
      BY <1>4 DEF Replaces, At, Saving
  <2> HIDE DEF where
  <2>4. "secret" \in Anywhere /\ "secret" \notin
            InHa \cup {"clear", "rewrite", "refill"}
      BY DEF Anywhere, Saving, InHa
  <2>5. RequestsOK'
      BY <2>1, <2>2, <2>3, <2>4, MovedFiles
  <2>6. hist' \in Hist
    <3>1. (hist.enrolled \/ tmp \in Doc) \in BOOLEAN
        BY DEF PeopleOK, Hist
    <3> QED
        BY <1>4, <3>1, HistoryType DEF Replaces, PeopleOK
  <2> QED
      BY <1>4, <2>5, <2>6 DEF Replaces, FilesOK, PeopleOK
<1> QED
    BY <1>2, <1>3, <1>4

\* A request that starts.
LEMMA StartsType ==
    ASSUME FilesOK, RequestsOK, NEW r \in Requests,
           \/ Posts(r) \/ Deletes(r) \/ Boots(r)
           \/ r \in Forms /\ \E n \in Names : Submits(r, n)
    PROVE  FilesOK' /\ RequestsOK'
<1>1. req[r] \in RequestType
    BY DEF RequestsOK
<1>2. CASE Posts(r)
  <2>1. PICK qr \in Codes : req' = [req EXCEPT ![r].pc = "keys", ![r].qr = qr]
      BY <1>2 DEF Posts
  <2> DEFINE q == [req[r] EXCEPT !.pc = "keys", !.qr = qr]
  <2>2. q \in RequestType /\ q.pc = "keys" /\ q.qr = qr /\ qr.box \in Boxes
      BY <1>1, <2>1, EnrollAssumption DEF RequestType, Saving
  <2>3. req' = [req EXCEPT ![r] = q]
      BY <2>1
  <2> HIDE DEF q
  <2>4. RequestsOK'
      BY <2>2, <2>3, OneMoves DEF InHa
  <2> QED
      BY <1>2, <2>4 DEF Posts, FilesOK
<1>3. CASE Deletes(r)
  <2>1. RequestsOK'
      BY <1>3, GoesType DEF Deletes, Saving, InHa, Anywhere, Clearing
  <2> QED
      BY <1>3, <2>1 DEF Deletes, FilesOK
<1>4. CASE Boots(r)
  <2> DEFINE q == [Idle EXCEPT !.pc = "check", !.box = boot,
                               !.token = enroll.box]
  <2>1. boot \in Boxes /\ enroll.box \in Boxes
      BY <1>4 DEF Boots, FilesOK, Enrolled, Doc
  <2>2. q \in RequestType /\ q.pc = "check" /\ q.box \in Boxes
      BY <2>1, IdleType DEF RequestType, InHa, Idle
  <2>3. req' = [req EXCEPT ![r] = q]
      BY <1>4 DEF Boots
  <2> HIDE DEF q
  <2>4. RequestsOK'
      BY <2>2, <2>3, OneMoves DEF Saving
  <2> QED
      BY <1>4, <2>4 DEF Boots, FilesOK
<1>5. CASE r \in Forms /\ \E n \in Names : Submits(r, n)
  <2>1. PICK n \in Names : Submits(r, n)
      BY <1>5
  <2> DEFINE q == [Idle EXCEPT !.pc = "check", !.name = n, !.token = enroll.box]
  <2>2. enroll.box \in Boxes
      BY <2>1 DEF Submits, Enrolled, Doc
  <2>3. q \in RequestType /\ q.pc = "check"
      BY <2>2, IdleType DEF RequestType, InHa, Idle
  <2>4. req' = [req EXCEPT ![r] = q]
      BY <2>1 DEF Submits
  <2> HIDE DEF q
  <2>5. ~Bootstrap(r)
      BY <1>5, EnrollAssumption DEF Bootstrap
  <2>6. RequestsOK'
      BY <2>3, <2>4, <2>5, OneMoves DEF Saving
  <2> QED
      BY <2>1, <2>6 DEF Submits, FilesOK
<1> QED
    BY <1>2, <1>3, <1>4, <1>5

\* The views of Home Assistant.
LEMMA AnsweredType ==
    ASSUME RequestsOK, NEW r \in Requests, req[r].pc \in InHa, Answered(r)
    PROVE  RequestsOK'
BY GoesType, EndsType DEF Answered, InHa, Saving, Anywhere, Flagging

LEMMA ViewType ==
    ASSUME PeopleOK, RequestsOK, NEW r \in Requests,
           Checks(r) \/ Adds(r) \/ Adopts(r)
    PROVE  PeopleOK' /\ RequestsOK'
<1>1. /\ req[r] \in RequestType /\ Carries(r)
      /\ req[r].pc = "idle" => req[r].pc \notin InHa
    BY DEF RequestsOK, InHa
<1>2. req[r].name \in Names
    BY <1>1 DEF RequestType
<1>3. req[r].pc \in InHa => Password(r) \in Boxes \cup {Own, NoPassword}
    BY <1>1 DEF Password, Carries
<1>4. req[r].pc \in InHa /\ Bootstrap(r) => req[r].box \in Boxes
    BY <1>1 DEF Carries
<1>5. CASE Checks(r)
  <2> DEFINE q == [req[r] EXCEPT !.pc = "add", !.exists = owners # {}]
  <2>1. q \in RequestType /\ q.pc = "add" /\ q.box = req[r].box
      BY <1>1 DEF RequestType, InHa
  <2>2. req' = [req EXCEPT ![r] = q] \/ Ends(r)
      BY <1>5 DEF Checks
  <2>3. req[r].pc \in InHa
      BY <1>5 DEF Checks, At, InHa
  <2> HIDE DEF q
  <2>4. RequestsOK'
      BY <1>4, <2>1, <2>2, <2>3, OneMoves, EndsType DEF Saving
  <2> QED
      BY <1>5, <2>4 DEF Checks, PeopleOK
<1>6. CASE Adds(r)
  <2>1. req[r].pc \in InHa
      BY <1>6 DEF Adds, At, InHa
  <2>2. RequestsOK'
    <3>1. Goes(r, "adopt") \/ Answered(r) \/ Ends(r)
        BY <1>6 DEF Adds
    <3>2. Goes(r, "adopt") => RequestsOK'
        BY <2>1, GoesType DEF Anywhere, InHa, Saving
    <3> QED
        BY <2>1, <3>1, <3>2, AnsweredType, EndsType
  <2>3. auth' \in [Names -> Boxes \cup {Own, NoPassword}]
      BY <1>2, <1>3, <1>6, <2>1 DEF Adds, PeopleOK
  <2>4. hist' \in Hist
    <3> DEFINE A == IF Bootstrap(r) /\ auth[req[r].name] # NoPassword
                    THEN hist.applied \cup {req[r].box} ELSE hist.applied
    <3>1. A \in SUBSET Boxes
        BY <1>4, <2>1 DEF PeopleOK, Hist
    <3>2. hist' \in {hist, [hist EXCEPT !.applied = A]}
        BY <1>6 DEF Adds
    <3> HIDE DEF A
    <3> QED
        BY <3>1, <3>2, HistoryType DEF PeopleOK
  <2> QED
      BY <1>6, <2>2, <2>3, <2>4 DEF Adds, PeopleOK
<1>7. CASE Adopts(r)
  <2>1. req[r].pc \in InHa
      BY <1>7 DEF Adopts, At, InHa
  <2>2. RequestsOK'
      BY <1>7, <2>1, AnsweredType DEF Adopts
  <2>3. hist' \in Hist
    <3> DEFINE A == IF Bootstrap(r) THEN hist.applied \cup {req[r].box}
                                    ELSE hist.applied
    <3>1. A \in SUBSET Boxes
        BY <1>4, <2>1 DEF PeopleOK, Hist
    <3>2. hist' = [hist EXCEPT !.applied = A]
        BY <1>7 DEF Adopts
    <3> HIDE DEF A
    <3> QED
        BY <3>1, <3>2, HistoryType DEF PeopleOK
  <2> QED
      BY <1>2, <1>7, <2>2, <2>3 DEF Adopts, PeopleOK
<1> QED
    BY <1>5, <1>6, <1>7

\* The bootstrap's work on the files, once its secret is used.
LEMMA FlagType ==
    ASSUME FilesOK, RequestsOK, NEW r \in Requests,
           Clears(r) \/ Loads(r) \/ Rewrites(r) \/ Refills(r)
    PROVE  FilesOK' /\ RequestsOK'
<1>1. req[r] \in RequestType /\ Carries(r)
    BY DEF RequestsOK
<1>2. CASE Clears(r)
  <2>1. RequestsOK'
      BY <1>2, GoesType DEF Clears, Saving, InHa, Anywhere, Flagging
  <2> QED
      BY <1>2, <2>1 DEF Clears, FilesOK
<1>3. CASE Loads(r)
  <2> DEFINE q == [req[r] EXCEPT !.pc = "rewrite", !.box = enroll.box]
  <2>1. Enrolled =>
            q \in RequestType /\ q.pc = "rewrite" /\ q.box \in Boxes
      BY <1>1 DEF RequestType, Flagging, Enrolled, Doc
  <2>2. (Enrolled /\ req' = [req EXCEPT ![r] = q]) \/ Ends(r)
      BY <1>3 DEF Loads
  <2> HIDE DEF q
  <2>3. RequestsOK'
      BY <2>1, <2>2, OneMoves, EndsType DEF Saving, InHa
  <2> QED
      BY <1>3, <2>3 DEF Loads, FilesOK
<1>4. CASE Rewrites(r)
  <2> DEFINE q == [req[r] EXCEPT !.pc = "refill", !.fd = "file"]
  <2>1. q \in RequestType /\ q.pc = "refill" /\ q.box = req[r].box
      BY <1>1 DEF RequestType, Flagging
  <2>2. req' = [req EXCEPT ![r] = q] /\ req[r].pc = "rewrite"
      BY <1>4 DEF Rewrites, At
  <2> HIDE DEF q
  <2>3. RequestsOK'
      BY <1>1, <2>1, <2>2, OneMoves DEF Saving, InHa, Carries
  <2> QED
      BY <1>4, <2>3 DEF Rewrites, FilesOK
<1>5. CASE Refills(r)
  <2>1. RequestsOK'
      BY <1>5, EndsType DEF Refills
  <2>2. [box |-> req[r].box, admin |-> FALSE] \in Doc
      BY <1>1, <1>5 DEF Refills, At, Carries, Doc
  <2>3. tmp' \in Doc \cup {NoFile, Torn} /\ enroll' \in Doc \cup {NoFile, Torn}
      BY <1>5, <2>2, FillsType DEF Refills
  <2> QED
      BY <1>5, <2>1, <2>3 DEF Refills, FilesOK
<1> QED
    BY <1>2, <1>3, <1>4, <1>5

\* Faults: each request stays, ends, or is not listened to any more.
LEMMA FaultType ==
    ASSUME PeopleOK, RequestsOK,
           UiRestarts \/ HaRestarts \/ \E r \in Requests : GivesUp(r)
    PROVE  PeopleOK' /\ RequestsOK'
<1>1. faults' \in Nat
    BY DEF PeopleOK, UiRestarts, HaRestarts, GivesUp, Faulty
<1>2. ASSUME NEW q \in Requests
      PROVE  req'[q] \in {req[q], Idle, [req[q] EXCEPT !.deaf = TRUE]}
    BY DEF UiRestarts, HaRestarts, GivesUp, RequestsOK
<1>3. ASSUME NEW q \in Requests PROVE req'[q] \in RequestType /\ Carries(q)'
  <2>1. req[q] \in RequestType /\ Carries(q)
      BY DEF RequestsOK
  <2>2. CASE req'[q] = req[q]
      BY <2>1, <2>2 DEF Carries, Bootstrap
  <2>3. CASE req'[q] = Idle
      BY <2>3, IdleType DEF Carries, Bootstrap, Saving, InHa
  <2>4. CASE req'[q] = [req[q] EXCEPT !.deaf = TRUE]
    <3>1. /\ req'[q] \in RequestType /\ req'[q].pc = req[q].pc
          /\ req'[q].qr = req[q].qr /\ req'[q].box = req[q].box
        BY <2>1, <2>4 DEF RequestType
    <3> QED
        BY <2>1, <3>1 DEF Carries, Bootstrap
  <2> QED
      BY <1>2, <2>2, <2>3, <2>4
<1>4. \E f : req' = [q \in Requests |-> f[q]]
  <2>1. req = [q \in Requests |-> req[q]]
      BY DEF RequestsOK
  <2> QED
      BY <2>1 DEF UiRestarts, HaRestarts, GivesUp
<1>5. req' \in [Requests -> RequestType]
    BY <1>3, <1>4
<1>6. RequestsOK'
    BY <1>3, <1>5 DEF RequestsOK
<1>7. hist' \in Hist
    BY DEF PeopleOK, UiRestarts, HaRestarts, GivesUp, Hist
<1> QED
    BY <1>1, <1>6, <1>7 DEF PeopleOK, UiRestarts, HaRestarts, GivesUp

LEMMA RequestsSplit ==
    Enrollers \subseteq Requests /\ Bootstrappers \subseteq Requests
        /\ Forms \subseteq Requests
BY DEF Requests

LEMMA EnrollTypeKept == TypeInv /\ [Next]_vars => TypeInv'
<1> TypeInv' <=> FilesOK' /\ PeopleOK' /\ RequestsOK'
    BY DEF TypeInv, TypeOK, FilesOK, PeopleOK, RequestsOK, Hist
<1> SUFFICES ASSUME FilesOK, PeopleOK, RequestsOK, [Next]_vars
             PROVE  FilesOK' /\ PeopleOK' /\ RequestsOK'
    BY TypeParts
<1>1. ASSUME NEW r \in Requests, Serves(r)
      PROVE  FilesOK' /\ PeopleOK' /\ RequestsOK'
  <2>1. CASE \/ SavesKeys(r) \/ Opens(r) \/ Writes(r) \/ SavesSecret(r)
             \/ ClearsSecret(r) \/ ClearsKeys(r)
    <3>1. PeopleOK'
        BY <2>1, HistoryType DEF PeopleOK, SavesKeys, Opens, Writes,
                                 SavesSecret, ClearsSecret, ClearsKeys
    <3> QED
        BY <2>1, <3>1, SavingType
  <2>2. CASE Replaces(r) \/ Unlinks(r)
      BY <2>2, ReplacesType
  <2>3. CASE Checks(r) \/ Adds(r) \/ Adopts(r)
    <3>1. FilesOK'
        BY <2>3 DEF FilesOK, Checks, Adds, Adopts
    <3> QED
        BY <2>3, <3>1, ViewType
  <2>4. CASE Clears(r) \/ Loads(r) \/ Rewrites(r) \/ Refills(r)
    <3>1. PeopleOK'
        BY <2>4, HistoryType DEF PeopleOK, Clears, Loads, Rewrites, Refills
    <3> QED
        BY <2>4, <3>1, FlagType
  <2> QED
      BY <1>1, <2>1, <2>2, <2>3, <2>4 DEF Serves
<1>2. ASSUME NEW r \in Requests,
             \/ Posts(r) \/ Deletes(r) \/ Boots(r)
             \/ r \in Forms /\ \E n \in Names : Submits(r, n)
      PROVE  FilesOK' /\ PeopleOK' /\ RequestsOK'
  <2>1. PeopleOK'
      BY <1>2, HistoryType DEF PeopleOK, Posts, Deletes, Boots, Submits
  <2> QED
      BY <1>2, <2>1, StartsType
<1>3. CASE UiRestarts \/ HaRestarts \/ \E r \in Requests : GivesUp(r)
  <2>1. FilesOK'
      BY <1>3 DEF FilesOK, UiRestarts, HaRestarts, GivesUp
  <2> QED
      BY <1>3, <2>1, FaultType
<1>4. CASE \E n \in Names : ChoosesPassword(n)
    BY <1>4 DEF ChoosesPassword, FilesOK, PeopleOK, RequestsOK, Carries, Bootstrap
<1>5. CASE UNCHANGED vars
    BY <1>5 DEF vars, FilesOK, PeopleOK, RequestsOK, Carries, Bootstrap
<1> QED
    BY <1>1, <1>2, <1>3, <1>4, <1>5, RequestsSplit DEF Next

\* Every variable keeps to its type: an identity that is saved, sent or
\* written back is one of a QR code (enroll_store.py:138-193).
THEOREM EnrollTypeCorrect == Spec => []TypeOK
<1>1. TypeInv => TypeOK
    BY DEF TypeInv
<1> QED
    BY <1>1, EnrollTypeInitial, EnrollTypeKept, PTL DEF Spec

-----------------------------------------------------------------------------
(* The steps of one request.                                               *)

LEMMA Disjoint ==
    /\ \A e \in Enrollers : e \in Requests /\ e \notin Bootstrappers \cup Forms
    /\ \A p \in Bootstrappers : p \in Requests /\ p \notin Enrollers \cup Forms
    /\ \A f \in Forms : f \in Requests /\ f \notin Enrollers \cup Bootstrappers
BY EnrollAssumption DEF Requests

\* The others stay.
Alone(r) == \A s \in Requests : s # r => req'[s] = req[s]

\* It ends, or goes on at pc with the file it has open.
Continues(r, pc) == Alone(r) /\ req'[r].pc = pc /\ req'[r].fd = req[r].fd
Stops(r) == Alone(r) /\ req'[r].pc = "idle" /\ req'[r].fd = "none"

LEMMA EndsStops ==
    ASSUME TypeOK, NEW r \in Requests
    PROVE  Ends(r) => Stops(r)
BY IdleType DEF Ends, Stops, Alone, TypeOK

LEMMA GoesContinues ==
    ASSUME TypeOK, NEW r \in Requests, NEW pc
    PROVE  Goes(r, pc) =>
               /\ Continues(r, pc)
               /\ req'[r].deaf = req[r].deaf /\ req'[r].box = req[r].box
BY DEF Goes, Continues, Alone, TypeOK, RequestType

\* Those of a request that enrolls or clears the box.
LEMMA EnrollerSteps ==
    ASSUME TypeOK, NEW r \in Requests
    PROVE  /\ Posts(r) => Continues(r, "keys")
           /\ SavesKeys(r) => Continues(r, "open")
           /\ Opens(r) => Alone(r) /\ req'[r].pc = "write" /\ req'[r].fd = "tmp"
           /\ Writes(r) => /\ Alone(r) /\ req'[r].pc = "replace"
                           /\ req'[r].fd = "none" /\ req'[r].qr = req[r].qr
           /\ SavesSecret(r) => Stops(r)
           /\ Deletes(r) => Continues(r, "unlink")
           /\ ClearsSecret(r) => Continues(r, "unkey")
           /\ ClearsKeys(r) => Stops(r)
<1>1. Posts(r) => Continues(r, "keys")
    BY DEF Posts, Continues, Alone, TypeOK, RequestType
<1>2. Opens(r) => Alone(r) /\ req'[r].pc = "write" /\ req'[r].fd = "tmp"
    BY DEF Opens, Alone, TypeOK, RequestType
<1>3. Writes(r) => /\ Alone(r) /\ req'[r].pc = "replace"
                   /\ req'[r].fd = "none" /\ req'[r].qr = req[r].qr
    BY DEF Writes, Alone, TypeOK, RequestType
<1>4. SavesKeys(r) => Continues(r, "open")
    BY GoesContinues DEF SavesKeys
<1>5. Deletes(r) => Continues(r, "unlink")
    BY GoesContinues DEF Deletes
<1>6. ClearsSecret(r) => Continues(r, "unkey")
    BY GoesContinues DEF ClearsSecret
<1> QED
    BY <1>1, <1>2, <1>3, <1>4, <1>5, <1>6, EndsStops DEF SavesSecret, ClearsKeys

\* A rename and an unlinking move the open files of all.
LEMMA RenameSteps ==
    ASSUME TypeOK, NEW r \in Requests
    PROVE  /\ Replaces(r) /\ tmp = NoFile => Stops(r)
           /\ Replaces(r) /\ tmp # NoFile =>
                  \A q \in Requests :
                      /\ req'[q].pc = IF q = r THEN "secret" ELSE req[q].pc
                      /\ req'[q].fd = Renamed(req[q].fd)
                      /\ req'[q].qr = req[q].qr /\ req'[q].box = req[q].box
                      /\ req'[q].deaf = req[q].deaf
           /\ Unlinks(r) =>
                  \A q \in Requests :
                      /\ req'[q].pc = IF q = r THEN "unsecret" ELSE req[q].pc
                      /\ req'[q].fd = Unlinked(req[q].fd)
                      /\ req'[q].box = req[q].box /\ req'[q].deaf = req[q].deaf
<1>1. Replaces(r) /\ tmp = NoFile => Stops(r)
    BY EndsStops DEF Replaces
<1>2. ASSUME Replaces(r), tmp # NoFile, NEW q \in Requests
      PROVE  /\ req'[q].pc = IF q = r THEN "secret" ELSE req[q].pc
             /\ req'[q].fd = Renamed(req[q].fd)
             /\ req'[q].qr = req[q].qr /\ req'[q].box = req[q].box
             /\ req'[q].deaf = req[q].deaf
  <2>1. req'[q] = [req[q] EXCEPT !.fd = Renamed(@),
                                 !.pc = IF q = r THEN "secret" ELSE @]
      BY <1>2 DEF Replaces
  <2>2. req[q] \in RequestType
      BY DEF TypeOK
  <2> QED
      BY <2>1, <2>2 DEF RequestType
<1>3. ASSUME Unlinks(r), NEW q \in Requests
      PROVE  /\ req'[q].pc = IF q = r THEN "unsecret" ELSE req[q].pc
             /\ req'[q].fd = Unlinked(req[q].fd)
             /\ req'[q].box = req[q].box /\ req'[q].deaf = req[q].deaf
  <2>1. req'[q] = [req[q] EXCEPT !.fd = Unlinked(@),
                                 !.pc = IF q = r THEN "unsecret" ELSE @]
      BY <1>3 DEF Unlinks
  <2>2. req[q] \in RequestType
      BY DEF TypeOK
  <2> QED
      BY <2>1, <2>2 DEF RequestType
<1> QED
    BY <1>1, <1>2, <1>3

\* Those of a request that creates the owner, in Home Assistant.
LEMMA ViewSteps ==
    ASSUME TypeOK, NEW r \in Requests
    PROVE  /\ Boots(r) => /\ Alone(r) /\ req'[r].pc = "check"
                          /\ req'[r].fd = "none" /\ req'[r].box = boot
           /\ \A n \in Names : Submits(r, n) =>
                  Alone(r) /\ req'[r].pc = "check" /\ req'[r].fd = "none"
           /\ Checks(r) => \/ Stops(r)
                           \/ /\ Continues(r, "add")
                              /\ req'[r].deaf = req[r].deaf
                              /\ req'[r].box = req[r].box
           /\ Adds(r) \/ Adopts(r) =>
                  \/ Stops(r)
                  \/ /\ Continues(r, "adopt")
                     /\ req'[r].deaf = req[r].deaf
                     /\ req'[r].box = req[r].box
                  \/ /\ Continues(r, "clear") /\ Bootstrap(r)
                     /\ ~req[r].deaf /\ req'[r].box = req[r].box
                     /\ req[r].box \in hist'.applied
<1>1. Boots(r) => /\ Alone(r) /\ req'[r].pc = "check"
                  /\ req'[r].fd = "none" /\ req'[r].box = boot
    BY DEF Boots, Alone, TypeOK, Idle
<1>2. ASSUME NEW n \in Names, Submits(r, n)
      PROVE  Alone(r) /\ req'[r].pc = "check" /\ req'[r].fd = "none"
    BY <1>2 DEF Submits, Alone, TypeOK, Idle
<1>3. Checks(r) => \/ Stops(r)
                   \/ /\ Continues(r, "add")
                      /\ req'[r].deaf = req[r].deaf
                      /\ req'[r].box = req[r].box
    BY EndsStops DEF Checks, Continues, Alone, TypeOK, RequestType
<1>4. ASSUME Answered(r), Bootstrap(r) => req[r].box \in hist'.applied
      PROVE  \/ Stops(r)
             \/ /\ Continues(r, "clear") /\ Bootstrap(r)
                /\ ~req[r].deaf /\ req'[r].box = req[r].box
                /\ req[r].box \in hist'.applied
    BY <1>4, EndsStops, GoesContinues DEF Answered
<1> DEFINE Went == \/ Stops(r)
                   \/ /\ Continues(r, "adopt")
                      /\ req'[r].deaf = req[r].deaf
                      /\ req'[r].box = req[r].box
                   \/ /\ Continues(r, "clear") /\ Bootstrap(r)
                      /\ ~req[r].deaf /\ req'[r].box = req[r].box
                      /\ req[r].box \in hist'.applied
<1>5. ASSUME Adds(r) PROVE Went
  <2>1. CASE Ends(r)
      BY <2>1, EndsStops
  <2>2. CASE Goes(r, "adopt")
      BY <2>2, GoesContinues
  <2>3. CASE ~Ends(r) /\ ~Goes(r, "adopt")
    <3>1. Answered(r) /\ auth[req[r].name] # NoPassword
        BY <1>5, <2>3 DEF Adds
    <3>2. Bootstrap(r) => req[r].box \in hist'.applied
        BY <1>5, <2>3, <3>1 DEF Adds, TypeOK
    <3> QED
        BY <1>4, <3>1, <3>2
  <2> QED
      BY <2>1, <2>2, <2>3
<1>6. ASSUME Adopts(r) PROVE Went
  <2>1. Answered(r) /\ (Bootstrap(r) => req[r].box \in hist'.applied)
      BY <1>6 DEF Adopts, TypeOK
  <2> QED
      BY <1>4, <2>1
<1> QED
    BY <1>1, <1>2, <1>3, <1>5, <1>6

\* Those of a bootstrap on the files.
LEMMA FlagSteps ==
    ASSUME TypeOK, NEW r \in Requests
    PROVE  /\ Clears(r) => Continues(r, "load")
           /\ Loads(r) => Stops(r) \/ Continues(r, "rewrite")
           /\ Rewrites(r) => Alone(r) /\ req'[r].pc = "refill" /\ req'[r].fd = "file"
           /\ Refills(r) => Stops(r)
<1>1. Clears(r) => Continues(r, "load")
    BY GoesContinues DEF Clears
<1>2. Loads(r) => Stops(r) \/ Continues(r, "rewrite")
    BY EndsStops DEF Loads, Continues, Alone, TypeOK, RequestType
<1>3. Rewrites(r) => Alone(r) /\ req'[r].pc = "refill" /\ req'[r].fd = "file"
    BY DEF Rewrites, Alone, TypeOK, RequestType
<1> QED
    BY <1>1, <1>2, <1>3, EndsStops DEF Refills

\* A fault ends a request, or leaves it where it is, deaf or not.
LEMMA FaultSteps ==
    ASSUME TypeOK, NEW s \in Requests,
           UiRestarts \/ HaRestarts \/ \E r \in Requests : GivesUp(r)
    PROVE  \/ req'[s].pc = "idle" /\ req'[s].fd = "none"
           \/ /\ req'[s].pc = req[s].pc /\ req'[s].fd = req[s].fd
              /\ req'[s].qr = req[s].qr /\ req'[s].box = req[s].box
              /\ req[s].deaf => req'[s].deaf
<1>1. req'[s] \in {Idle, req[s], [req[s] EXCEPT !.deaf = TRUE]}
    BY DEF UiRestarts, HaRestarts, GivesUp, TypeOK
<1> QED
    BY <1>1, IdleType DEF TypeOK, RequestType

-----------------------------------------------------------------------------
(* Who takes which steps, and which file it has open meanwhile.            *)

Fits(r, pc, fd) ==
    /\ r \in Enrollers => pc \in {"idle"} \cup Saving \cup Clearing
    /\ r \in Bootstrappers => pc \in {"idle"} \cup InHa \cup Flagging
    /\ r \in Forms => pc \in {"idle"} \cup InHa
    /\ fd # "none" => pc \in {"write", "refill"}
    /\ fd = "tmp" => pc = "write"

Roles == \A r \in Requests : Fits(r, req[r].pc, req[r].fd)

RolesInv == TypeInv /\ Roles

LEMMA RolesInitial == Init => RolesInv
BY EnrollTypeInitial, IdleType
   DEF Init, RolesInv, Roles, Fits

\* The request r moves, alone.
LEMMA RoleMoves ==
    ASSUME RolesInv, NEW r \in Requests, Alone(r),
           Fits(r, req'[r].pc, req'[r].fd)
    PROVE  Roles'
BY DEF RolesInv, Roles, Alone, Fits

LEMMA EnrollerRoles ==
    ASSUME RolesInv, NEW r \in Requests,
           \/ r \in Enrollers /\ (Posts(r) \/ Deletes(r))
           \/ SavesKeys(r) \/ Opens(r) \/ Writes(r) \/ SavesSecret(r)
           \/ ClearsSecret(r) \/ ClearsKeys(r)
    PROVE  Roles' /\ r \in Enrollers
<1>1. Fits(r, req[r].pc, req[r].fd) /\ TypeOK
    BY DEF RolesInv, Roles, TypeInv
<1>2. r \in Enrollers /\ r \notin Bootstrappers \cup Forms
    BY <1>1, Disjoint
       DEF Fits, Requests, At, Saving, Clearing, InHa, Flagging, SavesKeys, Opens,
           Writes, SavesSecret, ClearsSecret, ClearsKeys
<1>3. /\ req[r].pc # "write" => req[r].fd = "none" \/ req[r].pc = "refill"
      /\ req[r].pc # "refill"
    BY <1>1, <1>2 DEF Fits, Saving, Clearing
<1>4. /\ Posts(r) \/ Deletes(r) \/ SavesKeys(r) \/ ClearsSecret(r) => req[r].fd = "none"
    BY <1>3 DEF Posts, Deletes, SavesKeys, ClearsSecret, At
<1>5. Alone(r) /\ Fits(r, req'[r].pc, req'[r].fd)
    BY <1>1, <1>2, <1>4, EnrollerSteps DEF Stops, Continues, Fits, Saving, Clearing
<1> QED
    BY <1>2, <1>5, RoleMoves

LEMMA RenameRoles ==
    ASSUME RolesInv, NEW r \in Requests, Replaces(r) \/ Unlinks(r)
    PROVE  Roles' /\ r \in Enrollers
<1>1. TypeOK /\ \A q \in Requests : Fits(q, req[q].pc, req[q].fd)
    BY DEF RolesInv, Roles, TypeInv
<1>2. r \in Enrollers /\ r \notin Bootstrappers \cup Forms
    BY <1>1, Disjoint
       DEF Fits, Requests, At, Saving, Clearing, InHa, Flagging, Replaces, Unlinks
<1>3. CASE Replaces(r) /\ tmp = NoFile
  <2>1. Stops(r)
      BY <1>1, <1>3, RenameSteps
  <2> QED
      BY <1>2, <2>1, RoleMoves DEF Stops, Fits
<1>4. CASE Unlinks(r) \/ tmp # NoFile
  <2>1. ASSUME NEW q \in Requests PROVE Fits(q, req'[q].pc, req'[q].fd)
    <3>1. /\ req'[q].fd \in {Renamed(req[q].fd), Unlinked(req[q].fd)}
          /\ req'[q].pc = IF q = r THEN IF Unlinks(r) THEN "unsecret" ELSE "secret"
                                   ELSE req[q].pc
        BY <1>1, <1>4, RenameSteps
    <3>2. req'[q].fd = "none" <=> req[q].fd = "none"
        BY <3>1 DEF Renamed, Unlinked
    <3>3. req[r].fd = "none"
        BY <1>1 DEF Fits, Replaces, Unlinks, At
    <3>4. req'[q].fd = "tmp" => req[q].fd = "tmp" /\ q # r
        BY <3>1, <3>3 DEF Renamed, Unlinked
    <3> QED
        BY <1>1, <1>2, <3>1, <3>2, <3>3, <3>4 DEF Fits, Saving, Clearing
  <2> QED
      BY <1>2, <2>1 DEF Roles, Fits
<1> QED
    BY <1>3, <1>4

LEMMA OwnerRoles ==
    ASSUME RolesInv, NEW r \in Requests,
           \/ r \in Bootstrappers /\ Boots(r)
           \/ r \in Forms /\ \E n \in Names : Submits(r, n)
           \/ Checks(r) \/ Adds(r) \/ Adopts(r)
           \/ Clears(r) \/ Loads(r) \/ Rewrites(r) \/ Refills(r)
    PROVE  Roles' /\ r \notin Enrollers
<1>1. Fits(r, req[r].pc, req[r].fd) /\ TypeOK
    BY DEF RolesInv, Roles, TypeInv
<1>2. /\ r \notin Enrollers /\ r \in Bootstrappers \cup Forms
      /\ r \in Forms <=> r \notin Bootstrappers
      /\ Clears(r) \/ Loads(r) \/ Rewrites(r) \/ Refills(r) => r \in Bootstrappers
    BY <1>1, Disjoint
       DEF Fits, Requests, At, Saving, Clearing, InHa, Flagging, Checks, Adds,
           Adopts, Clears, Loads, Rewrites, Refills
<1>3. req[r].pc \notin {"write", "refill"} => req[r].fd = "none"
    BY <1>1 DEF Fits
<1>4. CASE Boots(r) \/ \E n \in Names : Submits(r, n)
  <2>1. Alone(r) /\ req'[r].pc = "check" /\ req'[r].fd = "none"
      BY <1>1, <1>4, ViewSteps
  <2> QED
      BY <1>2, <2>1, RoleMoves DEF Fits, InHa
<1>5. CASE Checks(r) \/ Adds(r) \/ Adopts(r)
  <2>1. req[r].fd = "none"
      BY <1>3, <1>5 DEF Checks, Adds, Adopts, At
  <2>2. \/ Stops(r) \/ Continues(r, "add") \/ Continues(r, "adopt")
        \/ Continues(r, "clear") /\ r \in Bootstrappers
      BY <1>1, <1>5, ViewSteps, Zenon DEF Bootstrap
  <2> QED
      BY <1>2, <2>1, <2>2, RoleMoves DEF Stops, Continues, Fits, InHa, Flagging
<1>6. CASE Clears(r) \/ Loads(r) \/ Rewrites(r) \/ Refills(r)
  <2>1. /\ Alone(r) /\ req'[r].fd # "tmp"
        /\ req'[r].pc \in {"idle", "load", "rewrite", "refill"}
        /\ req'[r].fd # "none" => req'[r].pc = "refill"
      BY <1>1, <1>3, <1>6, FlagSteps
         DEF Clears, Loads, Rewrites, Refills, At, Stops, Continues
  <2> QED
      BY <1>2, <1>6, <2>1, RoleMoves DEF Fits, Flagging
<1> QED
    BY <1>2, <1>4, <1>5, <1>6

\* The kinds of steps, and who takes them.
EnrollerStep(r) ==
    \/ Posts(r) \/ Deletes(r)
    \/ SavesKeys(r) \/ Opens(r) \/ Writes(r) \/ Replaces(r) \/ SavesSecret(r)
    \/ Unlinks(r) \/ ClearsSecret(r) \/ ClearsKeys(r)
OwnerStep(r) ==
    \/ r \in Bootstrappers /\ Boots(r)
    \/ r \in Forms /\ \E n \in Names : Submits(r, n)
    \/ Checks(r) \/ Adds(r) \/ Adopts(r)
    \/ Clears(r) \/ Loads(r) \/ Rewrites(r) \/ Refills(r)
Fault == UiRestarts \/ HaRestarts \/ \E r \in Requests : GivesUp(r)

LEMMA Kinds ==
    ASSUME RolesInv, [Next]_vars
    PROVE  \/ \E r \in Enrollers : EnrollerStep(r)
           \/ \E r \in Requests \ Enrollers : OwnerStep(r)
           \/ Fault
           \/ UNCHANGED <<enroll, tmp, boot, req, hist>>
<1>1. ASSUME NEW r \in Requests, Serves(r)
      PROVE  \/ r \in Enrollers /\ EnrollerStep(r)
             \/ r \notin Enrollers /\ OwnerStep(r)
    BY <1>1, EnrollerRoles, RenameRoles, OwnerRoles DEF Serves, EnrollerStep, OwnerStep
<1>2. ASSUME NEW r \in Enrollers, Posts(r) \/ Deletes(r) PROVE EnrollerStep(r)
    BY <1>2 DEF EnrollerStep
<1>3. ASSUME NEW r \in Bootstrappers, Boots(r)
      PROVE  r \in Requests \ Enrollers /\ OwnerStep(r)
    BY <1>3, Disjoint DEF OwnerStep
<1>4. ASSUME NEW r \in Forms, NEW n \in Names, Submits(r, n)
      PROVE  r \in Requests \ Enrollers /\ OwnerStep(r)
    BY <1>4, Disjoint DEF OwnerStep
<1>5. CASE UNCHANGED vars \/ \E n \in Names : ChoosesPassword(n)
    BY <1>5 DEF vars, ChoosesPassword
<1> QED
    BY <1>1, <1>2, <1>3, <1>4, <1>5 DEF Next, Fault

LEMMA RolesKept == RolesInv /\ [Next]_vars => RolesInv'
<1>1. TypeInv /\ [Next]_vars => TypeInv'
    BY EnrollTypeKept
<1> SUFFICES ASSUME RolesInv, [Next]_vars PROVE Roles'
    BY <1>1 DEF RolesInv
<1>2. ASSUME NEW r \in Enrollers, EnrollerStep(r) PROVE Roles'
    BY <1>2, Disjoint, EnrollerRoles, RenameRoles DEF EnrollerStep
<1>3. ASSUME NEW r \in Requests, OwnerStep(r) PROVE Roles'
    BY <1>3, OwnerRoles DEF OwnerStep
<1>4. CASE Fault
  <2>1. ASSUME NEW s \in Requests PROVE Fits(s, req'[s].pc, req'[s].fd)
    <3>1. Fits(s, req[s].pc, req[s].fd)
        BY DEF RolesInv, Roles
    <3>2. \/ req'[s].pc = "idle" /\ req'[s].fd = "none"
          \/ req'[s].pc = req[s].pc /\ req'[s].fd = req[s].fd
        BY <1>4, FaultSteps DEF Fault, RolesInv, TypeInv
    <3> QED
        BY <3>1, <3>2 DEF Fits
  <2> QED
      BY <2>1 DEF Roles, Fits
<1>5. CASE UNCHANGED <<enroll, tmp, boot, req, hist>>
    BY <1>5 DEF RolesInv, Roles, Fits
<1> QED
    BY <1>2, <1>3, <1>4, <1>5, Kinds

-----------------------------------------------------------------------------
(* The secret on disk, whatever number of requests there is.               *)

\* What the history remembers stays.
LEMMA Remembers ==
    ASSUME RolesInv, [Next]_vars
    PROVE  /\ hist.mixed => hist'.mixed
           /\ hist.cut => hist'.cut
           /\ hist.shared => hist'.shared
           /\ hist.torn => hist'.torn
<1> DEFINE Kept == /\ hist.mixed => hist'.mixed
                   /\ hist.cut => hist'.cut
                   /\ hist.shared => hist'.shared
                   /\ hist.torn => hist'.torn
<1>1. hist \in Hist
    BY DEF RolesInv, TypeInv, TypeOK, Hist
<1>2. ASSUME NEW b, Mixes(b) \/ Shares(b) PROVE Kept
    BY <1>1, <1>2 DEF Mixes, Shares, Hist
<1>3. ASSUME NEW r \in Requests, EnrollerStep(r) PROVE Kept
    BY <1>1, <1>2, <1>3
       DEF EnrollerStep, Posts, Deletes, SavesKeys, Opens, Writes, Replaces,
           SavesSecret, Unlinks, ClearsSecret, ClearsKeys, Hist
<1>4. ASSUME NEW r \in Requests, OwnerStep(r) PROVE Kept
    BY <1>1, <1>2, <1>4
       DEF OwnerStep, Boots, Submits, Checks, Adds, Adopts, Clears, Loads,
           Rewrites, Refills, Hist
<1>5. CASE Fault
    BY <1>1, <1>5 DEF Fault, UiRestarts, HaRestarts, GivesUp, Hist
<1> QED
    BY <1>3, <1>4, <1>5, Kinds, Disjoint

\* A request that enrolls or clears the box is served without another one, and
\* without a bootstrap that may clear the secret.
Apart ==
    \A e \in Enrollers : req[e].pc # "idle" =>
        /\ \A d \in Enrollers \ {e} : req[d].pc = "idle"
        /\ \A p \in Bootstrappers : ~Pending(p)

LEMMA PendingMoves ==
    ASSUME NEW p, req'[p].pc = req[p].pc, req[p].deaf => req'[p].deaf
    PROVE  Pending(p)' => Pending(p)
BY DEF Pending

\* The others meanwhile.
LEMMA EnrollerAlone ==
    ASSUME RolesInv, Apart, ~hist'.mixed, NEW r \in Enrollers, EnrollerStep(r)
    PROVE  /\ \A d \in Enrollers \ {r} : req[d].pc = "idle" /\ req'[d].pc = "idle"
           /\ \A p \in Bootstrappers : ~Pending(p) /\ ~Pending(p)'
           /\ \A s \in Requests \ {r} :
                  /\ req'[s].pc = req[s].pc
                  /\ req'[s].fd \in {req[s].fd, Renamed(req[s].fd), Unlinked(req[s].fd)}
<1>1. TypeOK /\ r \in Requests /\ hist \in Hist
    BY Disjoint DEF RolesInv, TypeInv, TypeOK, Hist
<1>2. /\ \A d \in Enrollers \ {r} : req[d].pc = "idle"
      /\ \A p \in Bootstrappers : ~Pending(p)
  <2>1. CASE Posts(r) \/ Deletes(r)
      BY <1>1, <2>1 DEF Posts, Deletes, Mixes, Hist, Quiet, At
  <2>2. CASE ~Posts(r) /\ ~Deletes(r)
    <3>1. req[r].pc # "idle"
        BY <2>2 DEF EnrollerStep, At, SavesKeys, Opens, Writes, Replaces,
                    SavesSecret, Unlinks, ClearsSecret, ClearsKeys
    <3> QED
        BY <3>1 DEF Apart
  <2> QED
      BY <2>1, <2>2
<1>3. ASSUME NEW s \in Requests \ {r}
      PROVE  /\ req'[s].pc = req[s].pc /\ req'[s].deaf = req[s].deaf
             /\ req'[s].fd \in {req[s].fd, Renamed(req[s].fd), Unlinked(req[s].fd)}
  <2>1. CASE Replaces(r) \/ Unlinks(r)
      BY <1>1, <2>1, RenameSteps DEF Stops, Alone
  <2>2. CASE ~Replaces(r) /\ ~Unlinks(r)
      BY <1>1, <2>2, EnrollerSteps DEF EnrollerStep, Continues, Stops, Alone
  <2> QED
      BY <2>1, <2>2
<1>4. \A d \in Enrollers \ {r} : req'[d].pc = "idle"
    BY <1>2, <1>3, Disjoint
<1>5. \A p \in Bootstrappers : ~Pending(p)'
    BY <1>2, <1>3, Disjoint, PendingMoves
<1> QED
    BY <1>2, <1>3, <1>4, <1>5

\* A bootstrap that goes on was pending before, or has begun beside no request
\* that enrolls.
LEMMA OwnerPends ==
    ASSUME RolesInv, ~hist'.mixed, NEW r \in Requests \ Enrollers, OwnerStep(r)
    PROVE  /\ Alone(r)
           /\ r \in Bootstrappers /\ Pending(r)' => Pending(r) \/ Quiet(Enrollers)
<1>1. TypeOK /\ hist \in Hist
    BY DEF RolesInv, TypeInv, TypeOK, Hist
<1>2. CASE r \in Bootstrappers /\ Boots(r)
  <2>1. Quiet(Enrollers)
      BY <1>1, <1>2 DEF Boots, Mixes, Hist
  <2> QED
      BY <1>1, <1>2, <2>1, ViewSteps
<1>3. CASE r \in Forms /\ \E n \in Names : Submits(r, n)
  <2>1. Alone(r)
      BY <1>1, <1>3, ViewSteps
  <2> QED
      BY <1>3, <2>1, Disjoint
<1>4. CASE Checks(r) \/ Adds(r) \/ Adopts(r)
  <2>1. req[r].pc \in InHa
      BY <1>4 DEF Checks, Adds, Adopts, At, InHa
  <2> QED
      BY <1>1, <1>4, <2>1, ViewSteps
         DEF Stops, Continues, Pending, InHa
<1>5. CASE Clears(r) \/ Loads(r) \/ Rewrites(r) \/ Refills(r)
  <2>1. req[r].pc \in {"clear", "load", "rewrite", "refill"}
      BY <1>5 DEF Clears, Loads, Rewrites, Refills, At
  <2>2. Alone(r) /\ (req[r].pc = "refill" => req'[r].pc = "idle")
      BY <1>1, <1>5, FlagSteps DEF Stops, Continues, Clears, Loads, Rewrites, At
  <2> QED
      BY <2>1, <2>2 DEF Pending, InHa
<1> QED
    BY <1>2, <1>3, <1>4, <1>5 DEF OwnerStep

LEMMA FaultPends ==
    ASSUME RolesInv, Fault, NEW s \in Requests
    PROVE  /\ req'[s].pc \in {"idle", req[s].pc}
           /\ req'[s].fd \in {"none", req[s].fd}
           /\ Pending(s)' => Pending(s)
<1>1. \/ req'[s].pc = "idle" /\ req'[s].fd = "none"
      \/ /\ req'[s].pc = req[s].pc /\ req'[s].fd = req[s].fd
         /\ req[s].deaf => req'[s].deaf
    BY FaultSteps DEF Fault, RolesInv, TypeInv
<1>2. req'[s].pc = "idle" => ~Pending(s)'
    BY DEF Pending, InHa
<1> QED
    BY <1>1, <1>2, PendingMoves

LEMMA ApartKept ==
    ASSUME RolesInv, Apart, ~hist'.mixed, [Next]_vars
    PROVE  Apart'
<1>1. ASSUME NEW r \in Enrollers, EnrollerStep(r) PROVE Apart'
    BY <1>1, EnrollerAlone DEF Apart
<1>2. ASSUME NEW r \in Requests \ Enrollers, OwnerStep(r) PROVE Apart'
  <2>1. \A e \in Enrollers : req'[e] = req[e]
      BY <1>2, OwnerPends, Disjoint DEF Alone
  <2>2. ASSUME NEW e \in Enrollers, req'[e].pc # "idle", NEW p \in Bootstrappers
        PROVE  ~Pending(p)'
    <3>1. ~Pending(p) /\ ~Quiet(Enrollers)
        BY <2>1, <2>2 DEF Apart, Quiet, At
    <3>2. CASE p = r
        BY <1>2, <2>2, <3>1, <3>2, OwnerPends
    <3>3. CASE p # r
      <4>1. req'[p] = req[p]
          BY <1>2, <2>2, <3>3, OwnerPends, Disjoint DEF Alone
      <4> QED
          BY <3>1, <4>1 DEF Pending
    <3> QED
        BY <3>2, <3>3
  <2> QED
      BY <2>1, <2>2 DEF Apart
<1>3. CASE Fault
    BY <1>3, FaultPends, Disjoint DEF Apart
<1>4. CASE UNCHANGED <<enroll, tmp, boot, req, hist>>
    BY <1>4 DEF Apart, Pending
<1> QED
    BY <1>1, <1>2, <1>3, <1>4, Kinds

QrDoc(e) == [box |-> req[e].qr.box, admin |-> req[e].qr.admin]

\* A QR code is saved under the temporary name first, and its secret last.
Scanned ==
    \A e \in Enrollers :
        /\ req[e].pc = "write" => req[e].fd = "tmp" /\ tmp = Torn
        /\ req[e].pc = "replace" => tmp = QrDoc(e)
        /\ req[e].pc = "secret" =>
               /\ enroll = QrDoc(e)
               /\ \A p \in Bootstrappers : req[p].fd # "file"
        /\ req[e].pc = "unkey" => boot = NoBox

\* The secret that a pending bootstrap has sent stays until it is cleared, and
\* none comes while its flag is taken out of the enroll file.
Sent ==
    \A p \in Bootstrappers :
        /\ Pending(p) /\ req[p].pc \in InHa \cup {"clear"} =>
               boot \in {NoBox, req[p].box}
        /\ req[p].pc = "clear" => req[p].box \in hist.applied
        /\ req[p].pc \in {"load", "rewrite"} \/ req[p].fd = "file" => boot = NoBox

\* Between the requests the secret is the household's; without ENROLL_ALLOW_RESET
\* there is none while a box is enrolled.
Settled ==
    IF Quiet(Enrollers) THEN boot # NoBox => Enrolled /\ boot = enroll.box
                        ELSE AllowReset \/ boot = NoBox

OneSecret == Apart /\ Scanned /\ Sent /\ (~hist.cut => Settled)

SecretInv == RolesInv /\ (~hist.mixed => OneSecret)

LEMMA TornIsNone ==
    /\ Torn \notin Doc /\ NoFile \notin Doc /\ Torn # NoFile
    /\ NoBox \notin Boxes
    /\ \A d \in Doc : d.box \in Boxes
BY EnrollAssumption DEF Doc

LEMMA QrDocs ==
    ASSUME RolesInv, NEW r \in Requests, req[r].pc \in Saving
    PROVE  QrDoc(r) \in Doc /\ QrDoc(r).box = req[r].qr.box
BY DEF RolesInv, TypeInv, TypeOK, Carries, RequestType, QrDoc, Doc

\* A bootstrap never has the temporary file open.
LEMMA BootFd ==
    ASSUME RolesInv, NEW p \in Requests \ Enrollers
    PROVE  req[p].fd # "tmp" /\ Renamed(req[p].fd) # "file"
<1>1. Fits(p, req[p].pc, req[p].fd)
    BY DEF RolesInv, Roles
<1>2. req[p].pc # "write"
    BY <1>1, Disjoint DEF Fits, Requests, InHa, Flagging
<1> QED
    BY <1>1, <1>2 DEF Fits, Renamed, Unlinked

LEMMA SecretInitial == Init => SecretInv
<1> SUFFICES ASSUME Init PROVE OneSecret
    BY RolesInitial DEF SecretInv
<1>1. \A r \in Requests : req[r].pc = "idle" /\ req[r].fd = "none"
    BY IdleType DEF Init
<1>2. boot = NoBox
    BY DEF Init
<1>3. Apart /\ Scanned
    BY <1>1, Disjoint DEF Apart, Scanned
<1>4. Sent
    BY <1>1, <1>2, Disjoint DEF Sent, InHa
<1> QED
    BY <1>2, <1>3, <1>4 DEF OneSecret, Settled

\* What a request that enrolls or clears the box makes of the files.
LEMMA EnrollerFiles ==
    ASSUME RolesInv, OneSecret, NEW r \in Enrollers, EnrollerStep(r)
    PROVE  /\ boot' \in {boot, NoBox} \/ SavesSecret(r)
           /\ SavesSecret(r) \/ ClearsKeys(r) <=> req'[r].pc = "idle"
           /\ hist'.cut = hist.cut
           /\ req'[r].pc = "write" => req'[r].fd = "tmp" /\ tmp' = Torn
           /\ req'[r].pc = "replace" => tmp' = QrDoc(r)'
           /\ req'[r].pc = "secret" => enroll' = QrDoc(r)' /\ Replaces(r)
           /\ req'[r].pc = "unkey" => boot' = NoBox
<1>1. TypeOK /\ r \in Requests /\ hist \in Hist
    BY Disjoint DEF RolesInv, TypeInv, TypeOK, Hist
<1>2. CASE Posts(r) \/ Deletes(r) \/ SavesKeys(r) \/ Opens(r)
  <2>1. /\ req'[r].pc \in {"keys", "unlink", "open", "write"}
        /\ req'[r].pc = "write" => req'[r].fd = "tmp" /\ Opens(r)
      BY <1>1, <1>2, EnrollerSteps DEF Continues
  <2>2. boot' = boot /\ hist'.cut = hist.cut /\ (Opens(r) => tmp' = Torn)
      BY <1>1, <1>2
         DEF Posts, Deletes, SavesKeys, Opens, Mixes, Shares, Hist
  <2>3. ~SavesSecret(r) /\ ~ClearsKeys(r)
      BY <1>2 DEF Posts, Deletes, SavesKeys, Opens, SavesSecret, ClearsKeys, At
  <2> QED
      BY <2>1, <2>2, <2>3
<1>3. CASE Writes(r)
  <2>1. req[r].pc = "write" /\ boot' = boot /\ hist' = hist
      BY <1>3 DEF Writes, At
  <2>2. req'[r].pc = "replace" /\ QrDoc(r)' = QrDoc(r)
      BY <1>1, <1>3, EnrollerSteps DEF QrDoc
  <2>3. tmp = Torn /\ req[r].fd = "tmp"
      BY <2>1 DEF OneSecret, Scanned
  <2>4. tmp' = QrDoc(r)
      BY <1>3, <2>3, TornIsNone DEF Writes, Fills, Written, QrDoc
  <2> QED
      BY <2>1, <2>2, <2>4 DEF SavesSecret, ClearsKeys, At
<1>4. CASE Replaces(r)
  <2>1. req[r].pc = "replace" /\ boot' = boot
      BY <1>4 DEF Replaces, At
  <2>2. tmp = QrDoc(r) /\ tmp # NoFile
      BY <1>1, <2>1, QrDocs, TornIsNone DEF OneSecret, Scanned, Saving
  <2>3. req'[r].pc = "secret" /\ QrDoc(r)' = QrDoc(r)
      BY <1>1, <1>4, <2>2, RenameSteps DEF QrDoc
  <2>4. enroll' = QrDoc(r) /\ hist'.cut = hist.cut
      BY <1>1, <1>4, <2>2 DEF Replaces, Hist
  <2> QED
      BY <1>4, <2>1, <2>3, <2>4 DEF SavesSecret, ClearsKeys, At
<1>5. CASE SavesSecret(r)
  <2>1. req'[r].pc = "idle" /\ hist' = hist
      BY <1>1, <1>5, EnrollerSteps DEF Stops, SavesSecret
  <2> QED
      BY <1>5, <2>1
<1>6. CASE Unlinks(r)
  <2>1. req'[r].pc = "unsecret"
      BY <1>1, <1>6, RenameSteps
  <2>2. boot' = boot /\ hist'.cut = hist.cut
      BY <1>1, <1>6 DEF Unlinks, Hist
  <2> QED
      BY <1>6, <2>1, <2>2 DEF SavesSecret, ClearsKeys, Unlinks, At
<1>7. CASE ClearsSecret(r)
  <2>1. req'[r].pc = "unkey" /\ boot' = NoBox /\ hist' = hist
      BY <1>1, <1>7, EnrollerSteps DEF Continues, ClearsSecret
  <2> QED
      BY <1>7, <2>1 DEF SavesSecret, ClearsKeys, ClearsSecret, At
<1>8. CASE ClearsKeys(r)
  <2>1. req'[r].pc = "idle" /\ boot' = boot /\ hist' = hist
      BY <1>1, <1>8, EnrollerSteps DEF Stops, ClearsKeys
  <2> QED
      BY <1>8, <2>1
<1> QED
    BY <1>2, <1>3, <1>4, <1>5, <1>6, <1>7, <1>8 DEF EnrollerStep

LEMMA EnrollerSecret ==
    ASSUME RolesInv, OneSecret, ~hist'.mixed, NEW r \in Enrollers, EnrollerStep(r)
    PROVE  Scanned' /\ Sent' /\ (~hist'.cut => Settled')
<1>1. TypeOK /\ r \in Requests /\ Apart
    BY Disjoint DEF RolesInv, TypeInv, OneSecret
<1>2. /\ \A d \in Enrollers \ {r} : req[d].pc = "idle" /\ req'[d].pc = "idle"
      /\ \A p \in Bootstrappers : ~Pending(p) /\ ~Pending(p)'
      /\ \A s \in Requests \ {r} :
             /\ req'[s].pc = req[s].pc
             /\ req'[s].fd \in {req[s].fd, Renamed(req[s].fd), Unlinked(req[s].fd)}
    BY <1>1, EnrollerAlone
<1>3. /\ boot' \in {boot, NoBox} \/ SavesSecret(r)
      /\ SavesSecret(r) \/ ClearsKeys(r) <=> req'[r].pc = "idle"
      /\ hist'.cut = hist.cut
      /\ req'[r].pc = "write" => req'[r].fd = "tmp" /\ tmp' = Torn
      /\ req'[r].pc = "replace" => tmp' = QrDoc(r)'
      /\ req'[r].pc = "secret" => enroll' = QrDoc(r)' /\ Replaces(r)
      /\ req'[r].pc = "unkey" => boot' = NoBox
    BY EnrollerFiles
<1>4. \A p \in Bootstrappers :
          /\ req'[p].fd = "file" => req[p].fd = "file"
          /\ Replaces(r) /\ tmp # NoFile => req'[p].fd # "file"
  <2> SUFFICES ASSUME NEW p \in Bootstrappers
               PROVE  /\ req'[p].fd = "file" => req[p].fd = "file"
                      /\ Replaces(r) /\ tmp # NoFile => req'[p].fd # "file"
      OBVIOUS
  <2>1. p \in Requests \ Enrollers /\ p # r
      BY Disjoint
  <2>2. Renamed(req[p].fd) # "file" /\ req'[p].fd # Renamed(req[p].fd)
            => req'[p].fd \in {req[p].fd, Unlinked(req[p].fd)}
      BY <1>2, <2>1
  <2>3. Replaces(r) /\ tmp # NoFile => req'[p].fd = Renamed(req[p].fd)
      BY <1>1, <2>1, RenameSteps
  <2> QED
      BY <1>2, <2>1, <2>2, <2>3, BootFd DEF Unlinked
<1>5. Scanned'
  <2>1. req'[r].pc = "secret" => \A p \in Bootstrappers : req'[p].fd # "file"
    <3> SUFFICES ASSUME req'[r].pc = "secret"
                 PROVE  \A p \in Bootstrappers : req'[p].fd # "file"
        OBVIOUS
    <3>1. Replaces(r) /\ tmp # NoFile
      <4>1. Replaces(r)
          BY <1>3
      <4>2. tmp = NoFile => req'[r].pc = "idle"
          BY <1>1, <4>1, RenameSteps DEF Stops
      <4> QED
          BY <4>1, <4>2
    <3> QED
        BY <1>4, <3>1
  <2> QED
      BY <1>2, <1>3, <2>1 DEF Scanned
<1>6. Sent'
  <2> SUFFICES ASSUME NEW p \in Bootstrappers
               PROVE  /\ req'[p].pc \notin {"clear", "load", "rewrite"}
                      /\ req'[p].fd = "file" => boot' = NoBox
      BY <1>2 DEF Sent
  <2>1. req'[p].pc \notin {"clear", "load", "rewrite"}
      BY <1>2 DEF Pending
  <2>2. req'[p].fd = "file" => boot = NoBox /\ ~SavesSecret(r)
      BY <1>4 DEF OneSecret, Sent, Scanned, SavesSecret, At
  <2> QED
      BY <1>3, <2>1, <2>2
<1>7. ASSUME ~hist'.cut PROVE Settled'
  <2>1. Settled
      BY <1>3, <1>7 DEF OneSecret
  <2>2. CASE SavesSecret(r)
    <3>1. /\ req[r].pc = "secret" /\ enroll' = enroll
          /\ boot' \in {req[r].qr.box, NoBox}
        BY <2>2 DEF SavesSecret, At
    <3>2. enroll = QrDoc(r)
        BY <3>1 DEF OneSecret, Scanned
    <3>3. Enrolled' /\ enroll'.box = req[r].qr.box
        BY <1>1, <3>1, <3>2, QrDocs DEF Enrolled, Saving
    <3>4. Quiet(Enrollers)'
        BY <1>2, <1>3, <2>2 DEF Quiet, At
    <3> QED
        BY <3>1, <3>3, <3>4 DEF Settled
  <2>3. CASE ClearsKeys(r)
    <3>1. req[r].pc = "unkey" /\ boot' = boot
        BY <2>3 DEF ClearsKeys, At
    <3>2. boot' = NoBox
        BY <3>1 DEF OneSecret, Scanned
    <3> QED
        BY <3>2 DEF Settled
  <2>4. CASE ~SavesSecret(r) /\ ~ClearsKeys(r)
    <3>1. ~Quiet(Enrollers)'
        BY <1>3, <2>4 DEF Quiet, At
    <3>2. AllowReset \/ boot = NoBox
      <4>1. CASE Posts(r) \/ Deletes(r)
        <5>1. Quiet(Enrollers) /\ ~Locked
            BY <1>2, <4>1 DEF Posts, Deletes, Quiet, At
        <5> QED
            BY <2>1, <5>1 DEF Settled, Locked
      <4>2. CASE ~Posts(r) /\ ~Deletes(r)
        <5>1. req[r].pc # "idle"
            BY <4>2 DEF EnrollerStep, At, SavesKeys, Opens, Writes, Replaces,
                        SavesSecret, Unlinks, ClearsSecret, ClearsKeys
        <5> QED
            BY <2>1, <5>1 DEF Settled, Quiet, At
      <4> QED
          BY <4>1, <4>2
    <3> QED
        BY <1>3, <2>4, <3>1, <3>2 DEF Settled
  <2> QED
      BY <2>2, <2>3, <2>4
<1> QED
    BY <1>5, <1>6, <1>7

\* What a request that creates the owner makes of the files.
LEMMA OwnerFiles ==
    ASSUME RolesInv, OneSecret, NEW r \in Requests \ Enrollers, OwnerStep(r)
    PROVE  /\ tmp' = tmp /\ boot' \in {boot, NoBox}
           /\ enroll' # enroll => boot = NoBox /\ (req[r].fd = "file" \/ Pending(r))
           /\ hist'.cut = hist.cut /\ hist.applied \subseteq hist'.applied
<1>1. hist \in Hist /\ req[r].fd # "tmp"
    BY BootFd DEF RolesInv, TypeInv, TypeOK, Hist
<1>2. CASE Boots(r) \/ (\E n \in Names : Submits(r, n)) \/ Checks(r)
           \/ Adds(r) \/ Adopts(r)
    BY <1>1, <1>2 DEF Boots, Submits, Checks, Adds, Adopts, Mixes, Hist
<1>3. CASE Clears(r) \/ Loads(r)
    BY <1>3 DEF Clears, Loads
<1>4. CASE Rewrites(r) \/ Refills(r)
  <2>1. r \in Bootstrappers
    <3>1. Fits(r, req[r].pc, req[r].fd)
        BY DEF RolesInv, Roles
    <3> QED
        BY <1>4, <3>1, Disjoint
           DEF Fits, Requests, InHa, Rewrites, Refills, At
  <2>2. CASE Rewrites(r)
    <3>1. req[r].pc = "rewrite" /\ boot = NoBox /\ Pending(r)
        BY <2>1, <2>2 DEF Rewrites, At, Pending, OneSecret, Sent
    <3> QED
        BY <1>1, <2>2, <3>1 DEF Rewrites, Shares, Hist
  <2>3. CASE Refills(r)
    <3>1. req[r].fd = "file" => boot = NoBox
        BY <2>1 DEF OneSecret, Sent
    <3> QED
        BY <1>1, <2>3, <3>1 DEF Refills, Fills
  <2> QED
      BY <1>4, <2>2, <2>3
<1> QED
    BY <1>2, <1>3, <1>4 DEF OwnerStep

\* Where a bootstrap gets to.
LEMMA BootSent ==
    ASSUME RolesInv, OneSecret, NEW r \in Bootstrappers, OwnerStep(r)
    PROVE  /\ Pending(r)' /\ req'[r].pc \in InHa \cup {"clear"} =>
                  boot' \in {NoBox, req'[r].box}
           /\ req'[r].pc = "clear" => req'[r].box \in hist'.applied
           /\ req'[r].pc \in {"load", "rewrite"} \/ req'[r].fd = "file" =>
                  boot' = NoBox
<1>1. /\ TypeOK /\ r \in Requests /\ r \notin Forms
      /\ req[r].fd # "none" => req[r].pc = "refill"
    BY Disjoint DEF RolesInv, TypeInv, Roles, Fits, InHa, Flagging
<1>2. /\ Pending(r) /\ req[r].pc \in InHa \cup {"clear"} =>
             boot \in {NoBox, req[r].box}
      /\ req[r].pc = "clear" => req[r].box \in hist.applied
      /\ req[r].pc \in {"load", "rewrite"} \/ req[r].fd = "file" => boot = NoBox
    BY DEF OneSecret, Sent
<1>3. ASSUME Stops(r)
      PROVE  req'[r].pc \notin InHa \cup Flagging /\ req'[r].fd # "file"
    BY <1>3 DEF Stops, InHa, Flagging
<1>4. CASE Boots(r)
  <2>1. req'[r].pc = "check" /\ req'[r].fd = "none" /\ req'[r].box = boot
      BY <1>1, <1>4, ViewSteps
  <2> QED
      BY <1>4, <2>1 DEF Boots
<1>5. CASE Checks(r) \/ Adds(r) \/ Adopts(r)
  <2>1. req[r].pc \in InHa /\ boot' = boot /\ req[r].fd = "none"
      BY <1>1, <1>5 DEF Checks, Adds, Adopts, At, InHa
  <2>2. \/ Stops(r)
        \/ /\ Continues(r, "add") \/ Continues(r, "adopt")
           /\ req'[r].deaf = req[r].deaf /\ req'[r].box = req[r].box
        \/ /\ Continues(r, "clear") /\ ~req[r].deaf
           /\ req'[r].box = req[r].box /\ req[r].box \in hist'.applied
      BY <1>1, <1>5, ViewSteps, Zenon
  <2>3. CASE Stops(r)
      BY <1>3, <2>3 DEF Flagging
  <2>4. CASE /\ Continues(r, "add") \/ Continues(r, "adopt")
             /\ req'[r].deaf = req[r].deaf /\ req'[r].box = req[r].box
      BY <1>2, <2>1, <2>4 DEF Continues, Pending, InHa
  <2>5. CASE /\ Continues(r, "clear") /\ ~req[r].deaf
             /\ req'[r].box = req[r].box /\ req[r].box \in hist'.applied
      BY <1>2, <2>1, <2>5 DEF Continues, Pending
  <2> QED
      BY <2>2, <2>3, <2>4, <2>5
<1>6. CASE Clears(r)
  <2>1. req'[r].pc = "load" /\ boot' = NoBox
      BY <1>1, <1>6, FlagSteps DEF Continues, Clears
  <2> QED
      BY <2>1 DEF InHa
<1>7. CASE Loads(r)
  <2>1. boot' = NoBox
      BY <1>2, <1>7 DEF Loads, At
  <2>2. Stops(r) \/ req'[r].pc = "rewrite"
      BY <1>1, <1>7, FlagSteps DEF Continues
  <2> QED
      BY <1>3, <2>1, <2>2 DEF InHa, Flagging
<1>8. CASE Rewrites(r)
  <2>1. boot' = NoBox /\ req'[r].pc = "refill"
      BY <1>1, <1>2, <1>8, FlagSteps DEF Rewrites, At
  <2> QED
      BY <2>1 DEF InHa
<1>9. CASE Refills(r)
    BY <1>1, <1>3, <1>9, FlagSteps DEF Flagging
<1> QED
    BY <1>1, <1>4, <1>5, <1>6, <1>7, <1>8, <1>9 DEF OwnerStep

\* It has opened the enroll file, by a rewrite, or had it open.
LEMMA OpensFile ==
    ASSUME RolesInv, NEW r \in Bootstrappers, OwnerStep(r), ~Rewrites(r),
           req[r].fd # "file"
    PROVE  req'[r].fd # "file"
<1>1. TypeOK /\ r \in Requests /\ r \notin Forms
    BY Disjoint DEF RolesInv, TypeInv
<1>2. CASE Boots(r) \/ Checks(r) \/ Adds(r) \/ Adopts(r)
    BY <1>1, <1>2, ViewSteps DEF Stops, Continues
<1>3. CASE Clears(r) \/ Loads(r) \/ Refills(r)
    BY <1>1, <1>3, FlagSteps DEF Stops, Continues
<1> QED
    BY <1>1, <1>2, <1>3 DEF OwnerStep

\* A request of the form leaves the files alone.
LEMMA FormsKeep ==
    ASSUME RolesInv, NEW r \in Requests \ Enrollers, r \notin Bootstrappers,
           OwnerStep(r)
    PROVE  enroll' = enroll
<1>1. Fits(r, req[r].pc, req[r].fd) /\ r \in Forms
    BY DEF RolesInv, Roles, Requests
<1>2. ~Rewrites(r) /\ ~Refills(r)
    BY <1>1 DEF Fits, InHa, Rewrites, Refills, At
<1> QED
    BY <1>2 DEF OwnerStep, Boots, Submits, Checks, Adds, Adopts, Clears, Loads

LEMMA OwnerSecret ==
    ASSUME RolesInv, OneSecret, ~hist'.mixed,
           NEW r \in Requests \ Enrollers, OwnerStep(r)
    PROVE  Scanned' /\ Sent' /\ (~hist'.cut => Settled')
<1>1. /\ tmp' = tmp /\ boot' \in {boot, NoBox}
      /\ enroll' # enroll => boot = NoBox /\ (req[r].fd = "file" \/ Pending(r))
      /\ hist'.cut = hist.cut /\ hist.applied \subseteq hist'.applied
    BY OwnerFiles
<1>2. \A s \in Requests \ {r} : req'[s] = req[s]
    BY OwnerPends DEF Alone
<1>3. \A e \in Enrollers : req'[e] = req[e]
    BY <1>2, Disjoint
<1>4. Scanned'
  <2> SUFFICES ASSUME NEW e \in Enrollers
               PROVE  /\ req[e].pc = "write" => req[e].fd = "tmp" /\ tmp' = Torn
                      /\ req[e].pc = "replace" => tmp' = QrDoc(e)
                      /\ req[e].pc = "secret" =>
                             /\ enroll' = QrDoc(e)
                             /\ \A p \in Bootstrappers : req'[p].fd # "file"
                      /\ req[e].pc = "unkey" => boot' = NoBox
      BY <1>3 DEF Scanned, QrDoc
  <2>1. ASSUME req[e].pc = "secret"
        PROVE  /\ enroll' = QrDoc(e)
               /\ \A p \in Bootstrappers : req'[p].fd # "file"
    <3>1. /\ enroll = QrDoc(e)
          /\ \A p \in Bootstrappers : req[p].fd # "file" /\ ~Pending(p)
        BY <2>1 DEF OneSecret, Scanned, Apart
    <3>2. CASE r \in Bootstrappers
      <4>1. ~Rewrites(r)
          BY <3>1, <3>2 DEF Rewrites, At, Pending
      <4>2. req'[r].fd # "file"
          BY <3>1, <3>2, <4>1, OpensFile
      <4> QED
          BY <1>1, <1>2, <3>1, <3>2, <4>2, Disjoint
    <3>3. CASE r \notin Bootstrappers
      <4>1. \A p \in Bootstrappers : req'[p] = req[p]
          BY <1>2, <3>3, Disjoint
      <4>2. enroll' = enroll
          BY <3>3, FormsKeep
      <4> QED
          BY <3>1, <4>1, <4>2
    <3> QED
        BY <3>2, <3>3
  <2> QED
      BY <1>1, <2>1 DEF OneSecret, Scanned
<1>5. Sent'
  <2>1. ASSUME NEW p \in Bootstrappers, p # r
        PROVE  req'[p] = req[p] /\ (Pending(p)' <=> Pending(p))
      BY <1>2, <2>1, Disjoint DEF Pending
  <2> QED
      BY <1>1, <2>1, BootSent DEF OneSecret, Sent
<1>6. ASSUME ~hist'.cut PROVE Settled'
  <2>1. Settled /\ (Quiet(Enrollers)' <=> Quiet(Enrollers))
      BY <1>1, <1>3, <1>6 DEF OneSecret, Quiet, At
  <2>2. CASE enroll' = enroll
      BY <1>1, <2>1, <2>2 DEF Settled, Enrolled
  <2>3. CASE enroll' # enroll
      BY <1>1, <2>3 DEF Settled
  <2> QED
      BY <2>2, <2>3
<1> QED
    BY <1>4, <1>5, <1>6

LEMMA FaultSecret ==
    ASSUME RolesInv, OneSecret, Fault
    PROVE  Scanned' /\ Sent' /\ (~hist'.cut => Settled')
<1>1. UNCHANGED <<enroll, tmp, boot>> /\ hist'.applied = hist.applied
    BY DEF Fault, UiRestarts, HaRestarts, GivesUp, RolesInv, TypeInv, TypeOK, Hist
<1>2. ASSUME NEW s \in Requests
      PROVE  /\ \/ req'[s].pc = "idle" /\ req'[s].fd = "none"
                \/ /\ req'[s].pc = req[s].pc /\ req'[s].fd = req[s].fd
                   /\ req'[s].qr = req[s].qr /\ req'[s].box = req[s].box
             /\ Pending(s)' => Pending(s)
    BY FaultSteps, FaultPends DEF Fault, RolesInv, TypeInv
<1>3. Scanned'
  <2>1. \A p \in Bootstrappers : req'[p].fd = "file" => req[p].fd = "file"
      BY <1>2, Disjoint
  <2>2. ASSUME NEW e \in Enrollers, req'[e].pc # "idle"
        PROVE  /\ req'[e].pc = req[e].pc /\ req'[e].fd = req[e].fd
               /\ QrDoc(e)' = QrDoc(e)
      BY <1>2, <2>2, Disjoint DEF QrDoc
  <2> QED
      BY <1>1, <2>1, <2>2 DEF OneSecret, Scanned
<1>4. Sent'
    BY <1>1, <1>2, Disjoint DEF OneSecret, Sent, InHa
<1>5. ASSUME ~hist'.cut PROVE Settled'
  <2>1. ~hist.cut /\ (UiRestarts => ~AllowReset \/ Quiet(Enrollers))
      BY <1>5 DEF Fault, UiRestarts, HaRestarts, GivesUp, RolesInv, TypeInv,
                  TypeOK, Hist
  <2>2. Settled
      BY <2>1 DEF OneSecret
  <2>3. CASE UiRestarts
    <3>1. Quiet(Enrollers) => Quiet(Enrollers)'
        BY <1>2, Disjoint DEF Quiet, At
    <3> QED
        BY <1>1, <2>1, <2>2, <2>3, <3>1 DEF Settled, Enrolled
  <2>4. CASE ~UiRestarts
    <3>1. ASSUME NEW e \in Enrollers PROVE req'[e].pc = req[e].pc
      <4>1. e \in Requests /\ req[e].pc \notin InHa
          BY Disjoint DEF RolesInv, Roles, Fits, Saving, Clearing, InHa
      <4> QED
          BY <2>4, <4>1 DEF Fault, HaRestarts, GivesUp, RolesInv, TypeInv, TypeOK
    <3> QED
        BY <1>1, <2>2, <3>1 DEF Settled, Quiet, At, Enrolled
  <2> QED
      BY <2>3, <2>4
<1> QED
    BY <1>3, <1>4, <1>5

LEMMA SecretKept == SecretInv /\ [Next]_vars => SecretInv'
<1> SUFFICES ASSUME SecretInv, [Next]_vars, ~hist'.mixed PROVE OneSecret'
    BY RolesKept DEF SecretInv
<1>1. RolesInv /\ OneSecret /\ Apart'
    BY Remembers, ApartKept DEF SecretInv, OneSecret
<1>2. CASE UNCHANGED <<enroll, tmp, boot, req, hist>>
    BY <1>1, <1>2 DEF OneSecret, Scanned, Sent, Settled, QrDoc, Pending, Quiet, At,
                      Enrolled
<1> QED
    BY <1>1, <1>2, Kinds, EnrollerSecret, OwnerSecret, FaultSecret DEF OneSecret

\* The one-time secret on disk is that of the enrolled household, with any number
\* of requests that enroll, clear and bootstrap the box (save_enroll,
\* _handle_owner_bootstrap) - until two are mixed, or a technician's is cut short.
THEOREM SecretOwn == Spec => []SecretIsOwn
<1>1. SecretInv => SecretIsOwn
    BY DEF SecretInv, OneSecret, Settled, SecretIsOwn
<1> QED
    BY <1>1, SecretInitial, SecretKept, PTL DEF Spec

\* A secret that no request enrolling or clearing the box takes is deleted only
\* after Home Assistant has accepted it (enroll_ui.py:979), with any number of
\* bootstraps at once.
THEOREM SecretUsed == Spec => SecretIsUsed
<1>1. ASSUME SecretInv, [Next]_vars, boot # NoBox, boot' = NoBox, Quiet(Enrollers),
             ~hist.mixed
      PROVE  boot \in hist.applied
  <2>1. RolesInv /\ OneSecret
      BY <1>1 DEF SecretInv
  <2>2. ASSUME NEW r \in Enrollers, EnrollerStep(r) PROVE FALSE
    <3>1. At(r, "idle")
        BY <1>1 DEF Quiet
    <3>2. Posts(r) \/ Deletes(r)
        BY <2>2, <3>1 DEF EnrollerStep, At, SavesKeys, Opens, Writes, Replaces,
                          SavesSecret, Unlinks, ClearsSecret, ClearsKeys
    <3> QED
        BY <1>1, <3>2 DEF Posts, Deletes
  <2>3. ASSUME NEW r \in Requests \ Enrollers, OwnerStep(r)
        PROVE  boot \in hist.applied
    <3>1. Clears(r)
        BY <1>1, <2>3 DEF OwnerStep, Boots, Submits, Checks, Adds, Adopts, Loads,
                          Rewrites, Refills
    <3>2. req[r].pc = "clear" /\ Pending(r)
        BY <3>1 DEF Clears, At, Pending
    <3>3. r \in Bootstrappers
        BY <2>1, <3>2, Disjoint DEF RolesInv, Roles, Fits, InHa, Requests
    <3> QED
        BY <1>1, <2>1, <3>2, <3>3 DEF OneSecret, Sent
  <2>4. CASE Fault \/ UNCHANGED <<enroll, tmp, boot, req, hist>>
      BY <1>1, <2>4 DEF Fault, UiRestarts, HaRestarts, GivesUp
  <2> QED
      BY <1>1, <2>1, <2>2, <2>3, <2>4, Kinds
<1>2. SecretInv /\ [Next]_vars =>
          [boot # NoBox /\ boot' = NoBox /\ Quiet(Enrollers) /\ ~hist.mixed
               => boot \in hist.applied]_vars
    BY <1>1
<1> QED
    BY <1>2, SecretInitial, SecretKept, PTL DEF Spec, SecretIsUsed

-----------------------------------------------------------------------------
(* The enroll file, whatever number of requests there is.                  *)

Renaming(r) == req[r].pc \in {"write", "replace"}

\* One request at most has a file open, which is truncated as long; a truncated
\* temporary file that a request is about to rename is open.
Whole ==
    /\ \A q, r \in Requests : req[q].fd = req[r].fd /\ req[r].fd \in {"tmp", "file"}
                                  => q = r
    /\ \A r \in Requests : /\ req[r].fd = "tmp" => tmp = Torn
                           /\ req[r].fd = "file" => enroll = Torn
    /\ enroll = Torn => \E r \in Requests : req[r].fd = "file"
    /\ tmp = Torn /\ (\E r \in Requests : Renaming(r)) =>
           \E r \in Requests : req[r].fd = "tmp"

FileInv == RolesInv /\ (~hist.shared /\ ~hist.torn => Whole)

LEMMA FileInitial == Init => FileInv
<1> SUFFICES ASSUME Init PROVE Whole
    BY RolesInitial DEF FileInv
<1>1. \A r \in Requests : req[r].pc = "idle" /\ req[r].fd = "none"
    BY IdleType DEF Init
<1>2. enroll # Torn
    BY TornIsNone DEF Init
<1> QED
    BY <1>1, <1>2 DEF Whole, Renaming

\* A step that leaves the files and those that have them open alone.
LEMMA FilesStay ==
    ASSUME Whole, UNCHANGED <<enroll, tmp>>,
           \A s \in Requests : req'[s].fd = req[s].fd /\ (Renaming(s)' => Renaming(s))
    PROVE  Whole'
BY DEF Whole

\* A step of r alone that does not open or write either file.
LEMMA MovesOn ==
    ASSUME Whole, NEW r \in Requests, UNCHANGED <<enroll, tmp>>, req[r].fd = "none",
           \/ Stops(r)
           \/ \E pc \in {"keys", "open", "unlink", "unkey", "check", "add", "adopt",
                         "clear", "load", "rewrite"} : Continues(r, pc)
    PROVE  Whole'
<1>1. /\ \A s \in Requests \ {r} : req'[s] = req[s]
      /\ req'[r].fd = "none"
      /\ req'[r].pc \notin {"write", "replace"}
    BY DEF Stops, Continues, Alone
<1>2. \A s \in Requests : req'[s].fd = req[s].fd /\ (Renaming(s)' => Renaming(s))
    BY <1>1 DEF Renaming
<1> QED
    BY <1>2, FilesStay

LEMMA Unopened ==
    ASSUME RolesInv, NEW r \in Requests, req[r].pc \notin {"write", "refill"}
    PROVE  req[r].fd = "none"
BY DEF RolesInv, Roles, Fits

LEMMA OpensWhole ==
    ASSUME RolesInv, Whole, ~hist'.shared, NEW r \in Requests,
           Opens(r) \/ Rewrites(r)
    PROVE  Whole'
<1>1. TypeOK /\ hist \in Hist
    BY DEF RolesInv, TypeInv, TypeOK, Hist
<1>2. CASE Opens(r)
  <2>1. /\ \A s \in Requests \ {r} : req'[s] = req[s]
        /\ req'[r].pc = "write" /\ req'[r].fd = "tmp"
      BY <1>1, <1>2, EnrollerSteps DEF Alone
  <2>2. tmp' = Torn /\ enroll' = enroll /\ \A q \in Requests : req[q].fd # "tmp"
      BY <1>1, <1>2 DEF Opens, Shares, Hist
  <2>3. req[r].fd = "none"
      BY <1>2, Unopened DEF Opens, At
  <2> QED
      BY <2>1, <2>2, <2>3 DEF Whole
<1>3. CASE Rewrites(r)
  <2>1. /\ \A s \in Requests \ {r} : req'[s] = req[s]
        /\ req'[r].pc = "refill" /\ req'[r].fd = "file"
      BY <1>1, <1>3, FlagSteps DEF Alone
  <2>2. enroll' = Torn /\ tmp' = tmp /\ \A q \in Requests : req[q].fd # "file"
      BY <1>1, <1>3 DEF Rewrites, Shares, Hist
  <2>3. req[r].fd = "none"
      BY <1>3, Unopened DEF Rewrites, At
  <2> QED
      BY <2>1, <2>2, <2>3 DEF Whole, Renaming
<1> QED
    BY <1>2, <1>3

\* The text that is written arrives where the open file now is.
LEMMA WritesWhole ==
    ASSUME RolesInv, Whole, NEW r \in Requests, Writes(r) \/ Refills(r)
    PROVE  Whole'
<1> DEFINE Filled(doc) ==
        /\ tmp' = IF req[r].fd = "tmp" THEN doc ELSE tmp
        /\ enroll' = IF req[r].fd = "file" THEN doc ELSE enroll
<1>1. TypeOK
    BY DEF RolesInv, TypeInv
<1>2. /\ req[r].fd = "tmp" => tmp = Torn
      /\ req[r].fd = "file" => enroll = Torn
    BY DEF Whole
<1>3. ASSUME NEW doc, Fills(r, doc) PROVE Filled(doc)
    BY <1>2, <1>3, TornIsNone DEF Fills, Written
<1>4. PICK doc \in Doc : Filled(doc)
  <2>1. CASE Writes(r)
    <3>1. QrDoc(r) \in Doc /\ Fills(r, QrDoc(r))
        BY <2>1, QrDocs DEF Writes, At, Saving, QrDoc
    <3> QED
        BY <3>1, <1>3
  <2>2. CASE Refills(r)
    <3> DEFINE doc == [box |-> req[r].box, admin |-> FALSE]
    <3>1. doc \in Doc /\ Fills(r, doc)
        BY <2>2 DEF Refills, At, RolesInv, TypeInv, Carries, Doc
    <3> QED
        BY <3>1, <1>3
  <2> QED
      BY <2>1, <2>2
<1>5. /\ \A s \in Requests \ {r} : req'[s] = req[s]
      /\ req'[r].fd = "none"
      /\ Renaming(r)' => Renaming(r)
  <2>1. CASE Writes(r)
      BY <1>1, <2>1, EnrollerSteps DEF Alone, Renaming, Writes, At
  <2>2. CASE Refills(r)
      BY <1>1, <2>2, FlagSteps DEF Stops, Alone, Renaming
  <2> QED
      BY <2>1, <2>2
<1>6. doc # Torn
    BY <1>4, TornIsNone
<1>7. \A s \in Requests : Renaming(s)' => Renaming(s)
    BY <1>5 DEF Renaming
<1>8. CASE req[r].fd = "tmp"
    BY <1>4, <1>5, <1>6, <1>8 DEF Whole
<1>9. CASE req[r].fd = "file"
    BY <1>4, <1>5, <1>6, <1>7, <1>9 DEF Whole
<1>10. CASE req[r].fd \notin {"tmp", "file"}
    BY <1>4, <1>5, <1>7, <1>10 DEF Whole
<1> QED
    BY <1>8, <1>9, <1>10

LEMMA RenamesWhole ==
    ASSUME RolesInv, Whole, NEW r \in Requests, Replaces(r) \/ Unlinks(r)
    PROVE  Whole'
<1>1. TypeOK /\ req[r].fd = "none"
    BY Unopened DEF RolesInv, TypeInv, Replaces, Unlinks, At
<1>2. CASE Replaces(r) /\ tmp = NoFile
  <2>1. Stops(r) /\ UNCHANGED <<enroll, tmp>>
      BY <1>1, <1>2, RenameSteps DEF Replaces
  <2> QED
      BY <1>1, <2>1, MovesOn
<1>3. CASE Replaces(r) /\ tmp # NoFile
  <2>1. \A q \in Requests : req'[q].fd = Renamed(req[q].fd)
      BY <1>1, <1>3, RenameSteps
  <2>2. enroll' = tmp /\ tmp' = NoFile
      BY <1>3 DEF Replaces
  <2>3. \A q \in Requests : /\ req'[q].fd # "tmp"
                            /\ req'[q].fd = "file" <=> req[q].fd = "tmp"
      BY <2>1 DEF Renamed, Unlinked
  <2>4. Renaming(r)
      BY <1>3 DEF Replaces, At, Renaming
  <2> QED
      BY <2>2, <2>3, <2>4, TornIsNone DEF Whole
<1>4. CASE Unlinks(r)
  <2>1. \A q \in Requests : /\ req'[q].pc = IF q = r THEN "unsecret" ELSE req[q].pc
                            /\ req'[q].fd = Unlinked(req[q].fd)
      BY <1>1, <1>4, RenameSteps
  <2>2. enroll' = NoFile /\ tmp' = tmp
      BY <1>4 DEF Unlinks
  <2>3. \A q \in Requests : /\ req'[q].fd # "file"
                            /\ req'[q].fd = "tmp" <=> req[q].fd = "tmp"
                            /\ Renaming(q)' => Renaming(q)
      BY <2>1 DEF Unlinked, Renaming
  <2> QED
      BY <2>2, <2>3, TornIsNone DEF Whole
<1> QED
    BY <1>2, <1>3, <1>4

LEMMA FaultWhole ==
    ASSUME RolesInv, Whole, ~hist'.torn, Fault
    PROVE  Whole'
<1>1. TypeOK /\ UNCHANGED <<enroll, tmp>>
    BY DEF Fault, UiRestarts, HaRestarts, GivesUp, RolesInv, TypeInv
<1>2. CASE UiRestarts
  <2>1. \A s \in Requests : req[s].fd # "file"
      BY <1>2 DEF UiRestarts, RolesInv, TypeInv, TypeOK, Hist
  <2>2. ASSUME NEW s \in Requests
        PROVE  req'[s].fd = "none" /\ ~Renaming(s)'
    <3>1. CASE req[s].pc \in InHa
      <4>1. req[s].fd = "none"
          BY <3>1, Unopened DEF InHa
      <4> QED
          BY <1>1, <1>2, <3>1, <4>1
             DEF UiRestarts, Renaming, InHa, TypeOK, RequestType
    <3>2. CASE req[s].pc \notin InHa
        BY <1>2, <3>2, IdleType DEF UiRestarts, Renaming
    <3> QED
        BY <3>1, <3>2
  <2> QED
      BY <1>1, <2>1, <2>2 DEF Whole
<1>3. CASE ~UiRestarts
  <2>1. ASSUME NEW s \in Requests
        PROVE  req'[s].fd = req[s].fd /\ (Renaming(s)' => Renaming(s))
    <3>1. \/ req[s].pc \in InHa /\ req'[s] = Idle
          \/ req'[s].pc = req[s].pc /\ req'[s].fd = req[s].fd
        BY <1>1, <1>3 DEF Fault, HaRestarts, GivesUp, TypeOK, RequestType
    <3>2. req[s].pc \in InHa => req[s].fd = "none"
        BY Unopened DEF InHa
    <3> QED
        BY <3>1, <3>2, IdleType DEF Renaming
  <2> QED
      BY <1>1, <2>1, FilesStay
<1> QED
    BY <1>2, <1>3

\* The steps of a request that do not touch the two files.
LEMMA OthersWhole ==
    ASSUME RolesInv, Whole, NEW r \in Requests,
           \/ Posts(r) \/ Deletes(r) \/ SavesKeys(r) \/ SavesSecret(r)
           \/ ClearsSecret(r) \/ ClearsKeys(r) \/ Boots(r)
           \/ (\E n \in Names : Submits(r, n))
           \/ Checks(r) \/ Adds(r) \/ Adopts(r) \/ Clears(r) \/ Loads(r)
    PROVE  Whole'
<1>1. TypeOK /\ UNCHANGED <<enroll, tmp>>
    BY DEF RolesInv, TypeInv, Posts, Deletes, SavesKeys, SavesSecret, ClearsSecret,
           ClearsKeys, Boots, Submits, Checks, Adds, Adopts, Clears, Loads
<1>2. req[r].fd = "none"
  <2>1. req[r].pc \notin {"write", "refill"}
      BY DEF At, Posts, Deletes, SavesKeys, SavesSecret, ClearsSecret, ClearsKeys,
             Boots, Submits, Checks, Adds, Adopts, Clears, Loads
  <2> QED
      BY <2>1, Unopened
<1> DEFINE Went == \E pc \in {"keys", "open", "unlink", "unkey", "check", "add",
                              "adopt", "clear", "load", "rewrite"} : Continues(r, pc)
<1>3. CASE Posts(r) \/ Deletes(r) \/ SavesKeys(r) \/ SavesSecret(r)
           \/ ClearsSecret(r) \/ ClearsKeys(r)
  <2>1. \/ Stops(r) \/ Continues(r, "keys") \/ Continues(r, "open")
        \/ Continues(r, "unlink") \/ Continues(r, "unkey")
      BY <1>1, <1>3, EnrollerSteps
  <2>2. Stops(r) \/ Went
      BY <2>1
  <2> QED
      BY <1>1, <1>2, <2>2, MovesOn
<1>4. CASE Boots(r) \/ (\E n \in Names : Submits(r, n))
  <2>1. Continues(r, "check")
      BY <1>1, <1>2, <1>4, ViewSteps DEF Continues
  <2>2. Went
      BY <2>1
  <2> QED
      BY <1>1, <1>2, <2>2, MovesOn
<1>5. CASE Checks(r) \/ Adds(r) \/ Adopts(r)
  <2>1. \/ Stops(r) \/ Continues(r, "add") \/ Continues(r, "adopt")
        \/ Continues(r, "clear")
      BY <1>1, <1>5, ViewSteps, Zenon
  <2>2. Stops(r) \/ Went
      BY <2>1
  <2> QED
      BY <1>1, <1>2, <2>2, MovesOn
<1>6. CASE Clears(r) \/ Loads(r)
  <2>1. Stops(r) \/ Continues(r, "load") \/ Continues(r, "rewrite")
      BY <1>1, <1>6, FlagSteps
  <2>2. Stops(r) \/ Went
      BY <2>1
  <2> QED
      BY <1>1, <1>2, <2>2, MovesOn
<1> QED
    BY <1>3, <1>4, <1>5, <1>6

LEMMA FileKept == FileInv /\ [Next]_vars => FileInv'
<1> SUFFICES ASSUME FileInv, [Next]_vars, ~hist'.shared, ~hist'.torn PROVE Whole'
    BY RolesKept DEF FileInv
<1>1. RolesInv /\ Whole
    BY Remembers DEF FileInv
<1>2. ASSUME NEW r \in Requests, EnrollerStep(r) PROVE Whole'
    BY <1>1, <1>2, OpensWhole, WritesWhole, RenamesWhole, OthersWhole
       DEF EnrollerStep
<1>3. ASSUME NEW r \in Requests, OwnerStep(r) PROVE Whole'
    BY <1>1, <1>3, OpensWhole, WritesWhole, OthersWhole DEF OwnerStep
<1>4. CASE UNCHANGED <<enroll, tmp, boot, req, hist>>
    BY <1>1, <1>4 DEF Whole, Renaming
<1> QED
    BY <1>1, <1>2, <1>3, <1>4, Disjoint, Kinds, FaultWhole

\* A truncated bms_enroll.json is one that is being written (save_enroll and
\* enroll_ui.py:987), with any number of requests at once - until two of them have
\* a file open together, or the enroll UI is stopped while one has.
THEOREM FileIsWhole == Spec => []FileWhole
<1>1. FileInv => FileWhole
    BY DEF FileInv, Whole, FileWhole
<1> QED
    BY <1>1, FileInitial, FileKept, PTL DEF Spec
=============================================================================

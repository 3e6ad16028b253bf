------------------------------ MODULE TuyaImport ------------------------------
(***************************************************************************)
(* platform/tuya_import_ui.py: the page that keeps a list of Tuya devices  *)
(* in a file and applies it, row by row, by driving config flows over a    *)
(* websocket, beside the users and scans of TuyaFlow.                      *)
(*                                                                         *)
(* Each request has a thread.  An upload is what tuya_csv.py makes of it:  *)
(* the rows that are complete.                                             *)
(***************************************************************************)
EXTENDS TuyaFlow, Sequences, SequencesExt

CONSTANTS
    Requests,       \* bound: each is made once
    Uploads,        \* lists of rows: [id, key]
    Torn,           \* a file that is no list
    MaxUpsets       \* bound: Upsets, stops of the container, clearings

Rows == UNION {Range(rows) : rows \in Uploads}

ASSUME ImportAssumption ==
    /\ Uploads \subseteq Seq(Rows)
    /\ \A row \in Rows : row.id \in Ids
    /\ None \notin Seq(Rows)
    /\ MaxUpsets \in Nat

VARIABLES
    file,       \* tuya_import_queue.json: a list, None or Torn
    tmp,        \* tuya_import_queue.tmp
    req,        \* of each request: see NoRequest
    upsets,
    hist        \* history, read by properties only

vars == <<tuya, file, tmp, req, upsets, hist>>

\* `fd`: where the file the thread opened is now; `out`: what is reported of the
\* rows that are done, and whether anything upset them (history).
NoRequest == [pc |-> "idle", rows |-> <<>>, apply |-> FALSE, fd |-> "none",
              flow |-> 0, out |-> <<>>]

Init ==
    /\ TuyaInit
    /\ file = None
    /\ tmp = None
    /\ req = [t \in Requests |-> NoRequest]
    /\ upsets = MaxUpsets
    /\ hist = [saved |-> None, overlap |-> FALSE]

Saving(t) == req[t].pc \in {"opened", "written"}

-----------------------------------------------------------------------------
(* save_queue, load_queue, clear_queue                                     *)

\* load_queue: a bad file is an empty list.
Loaded == IF file \in {None, Torn} THEN <<>> ELSE file

\* Mutant: the list is written over the file itself.
OpensFile(t, rows, apply) ==
    /\ file' = Torn
    /\ req' = [req EXCEPT ![t] = [NoRequest EXCEPT !.pc = "opened", !.rows = rows,
                                                   !.apply = apply, !.fd = "file"]]
    /\ UNCHANGED tmp

\* write_text: the temporary file, of whichever request, is emptied.
Opens(t, rows, apply) ==
    /\ tmp' = Torn
    /\ req' = [req EXCEPT ![t] = [NoRequest EXCEPT !.pc = "opened", !.rows = rows,
                                                   !.apply = apply, !.fd = "tmp"]]
    /\ UNCHANGED file

\* POST of /api/queue, or of /api/apply with a list.
Saves(t) ==
    /\ req[t].pc = "idle"
    /\ \E rows \in Uploads, apply \in BOOLEAN : Opens(t, rows, apply)
    /\ hist' = [hist EXCEPT !.overlap = @ \/ \E u \in Requests : Saving(u)]
    /\ UNCHANGED <<tuya, upsets>>

\* A text over another: whole only if it is the longer.
Over(old, rows) ==
    IF old \in {None, Torn} \/ old = rows THEN {rows} ELSE {rows, Torn}

Writes(t) ==
    LET r == req[t]
    IN  /\ r.pc = "opened"
        /\ IF r.fd = "tmp" THEN tmp' \in Over(tmp, r.rows) ELSE UNCHANGED tmp
        /\ IF r.fd = "file" THEN file' \in Over(file, r.rows) ELSE UNCHANGED file
        /\ req' = [req EXCEPT ![t].pc = "written", ![t].fd = "none"]
        /\ UNCHANGED <<tuya, upsets, hist>>

\* The next row, or the reply.
Row(r) == IF r.rows = <<>> THEN [r EXCEPT !.pc = "end"] ELSE [r EXCEPT !.pc = "check"]
Replied(r) == IF r.apply THEN Row(r) ELSE [r EXCEPT !.pc = "end", !.rows = <<>>]

\* replace: a file others have open is theirs still; without the temporary
\* file the request fails.
Replaces(t) ==
    LET moved(fd) == CASE fd = "tmp" -> "file" [] fd = "file" -> "none" [] OTHER -> fd
    IN  /\ req[t].pc = "written"
        /\ IF tmp = None
           THEN /\ req' = [req EXCEPT ![t] = [NoRequest EXCEPT !.pc = "end"]]
                /\ UNCHANGED <<file, hist>>
           ELSE /\ file' = tmp
                /\ req' = [u \in Requests |->
                       IF u = t THEN Replied(req[t]) ELSE [req[u] EXCEPT !.fd = moved(@)]]
                /\ hist' = [hist EXCEPT !.saved = req[t].rows]
        /\ tmp' = None
        /\ UNCHANGED <<tuya, upsets>>

\* POST of /api/apply without a list.
Applies(t) ==
    /\ req[t].pc = "idle"
    /\ Loaded # <<>>
    /\ req' = [req EXCEPT ![t] = Row([NoRequest EXCEPT !.rows = Loaded, !.apply = TRUE])]
    /\ UNCHANGED <<tuya, file, tmp, upsets, hist>>

\* DELETE of /api/queue
Clears ==
    /\ file # None
    /\ upsets > 0
    /\ upsets' = upsets - 1
    /\ file' = None
    /\ req' = [u \in Requests |-> [req[u] EXCEPT !.fd = IF @ = "file" THEN "none" ELSE @]]
    /\ hist' = [hist EXCEPT !.saved = None]
    /\ UNCHANGED <<tuya, tmp>>

-----------------------------------------------------------------------------
(* _ws_apply_device                                                        *)

Id(t) == Head(req[t].rows).id
Key(t) == Head(req[t].rows).key
Step(t) == flow[req[t].flow].step

\* The row is done, with this status.
Report(t, status, upset) ==
    LET r == req[t]
        done == [row |-> Head(r.rows), status |-> status, upset |-> upset]
    IN  req' = [req EXCEPT ![t] =
            Row([r EXCEPT !.rows = Tail(r.rows), !.flow = 0, !.out = Append(r.out, done)])]

Calls(t, pc) == req' = [req EXCEPT ![t].pc = pc]
Quiet == UNCHANGED <<file, tmp, upsets, hist>>

\* config_entries/get: any entry of the device, be it of its child.
Checks(t) ==
    /\ req[t].pc = "check"
    /\ IF \E i \in Ids : entries[i] # None /\ Device(i) = Id(t)
       THEN Report(t, "exists", FALSE)
       ELSE Calls(t, "create")
    /\ UNCHANGED tuya /\ Quiet

CreatesFlow(t) ==
    /\ req[t].pc = "create"
    /\ \E f \in Flows : Creates(f) /\ req' = [req EXCEPT ![t].flow = f, ![t].pc = "manual"]
    /\ Quiet

GoesManual(t) ==
    /\ req[t].pc = "manual"
    /\ IF Step(t) = "user"
       THEN Manual(req[t].flow) /\ Calls(t, "local")
       ELSE Report(t, "error", FALSE) /\ UNCHANGED tuya
    /\ Quiet

\* The local step is called, and answers when the test is over.
Connects(t) ==
    /\ req[t].pc = "local"
    /\ IF Step(t) = "local"
       THEN Tests(req[t].flow, Id(t)) /\ Calls(t, "wait")
       ELSE Report(t, "error", FALSE) /\ UNCHANGED tuya
    /\ Quiet

\* TestEnds of the importer's flow; an "already" that aborts it is "exists".
Connected(t, good) ==
    LET f == req[t].flow
    IN  /\ req[t].pc = "wait"
        /\ IF Step(t) # "test" THEN Report(t, "error", FALSE) /\ UNCHANGED tuya
           ELSE /\ TestEnds(f, good)
                /\ CASE ~good -> Report(t, "needs_manual", TRUE)
                     [] good /\ ~Unique(f, Id(t)) -> Report(t, "exists", FALSE)
                     [] good /\ Unique(f, Id(t)) /\ Options[Id(t)] = {} ->
                            Report(t, "error", FALSE)
                     [] OTHER -> Calls(t, "type")
        /\ Quiet

\* Mutant: no look for the bars of a key.
SentBarred(k) == {[k EXCEPT !.rest = "|||"]}

\* The type as it is sent: three bars after one without any, then without.
Sent(k) == IF k.rest # "" THEN {k} ELSE {[k EXCEPT !.rest = "|||"], k}

Types(t) ==
    /\ req[t].pc = "type"
    /\ CASE Step(t) # "type" -> Report(t, "error", FALSE) /\ UNCHANGED tuya
         [] Step(t) = "type" /\ Key(t) = None -> Report(t, "needs_manual", FALSE) /\ UNCHANGED tuya
         [] OTHER ->
              IF Sent(Key(t)) \cap Options[Id(t)] = {}
              THEN Report(t, "error", FALSE) /\ UNCHANGED tuya
              ELSE /\ \E k \in Sent(Key(t)) : SelectsType(req[t].flow, k)
                   /\ Calls(t, "name")
    /\ Quiet

Names(t) ==
    /\ req[t].pc = "name"
    /\ IF Step(t) = "name"
       THEN Named(req[t].flow) /\ Calls(t, "made")
       ELSE Report(t, "error", FALSE) /\ UNCHANGED tuya
    /\ Quiet

Made(t) ==
    /\ req[t].pc = "made"
    /\ Report(t, "created", FALSE)
    /\ UNCHANGED tuya /\ Quiet

\* The websocket breaks, or 45 s are over: what was called goes on.  A flow that a
\* starting Home Assistant refuses to create ends the row in the same way.
Breaks(t) ==
    /\ req[t].pc \in {"check", "create", "manual", "local", "wait", "type", "name", "made"}
    /\ Report(t, "error", TRUE)
    /\ UNCHANGED tuya /\ Quiet

-----------------------------------------------------------------------------
Driven(f) == \E t \in Requests : req[t].flow = f

ImportRestarts ==
    /\ upsets > 0
    /\ upsets' = upsets - 1
    /\ req' = [t \in Requests |-> IF req[t].pc = "idle" THEN NoRequest ELSE [NoRequest EXCEPT !.pc = "end"]]
    /\ UNCHANGED <<tuya, file, tmp, hist>>

Next ==
    \/ \E t \in Requests :
          \/ Saves(t) \/ Writes(t) \/ Replaces(t) \/ Applies(t)
          \/ Checks(t) \/ CreatesFlow(t) \/ GoesManual(t) \/ Connects(t)
          \/ \E good \in BOOLEAN : Connected(t, good)
          \/ Types(t) \/ Names(t) \/ Made(t) \/ Breaks(t)
    \/ Clears
    \/ ImportRestarts
    \/ /\ upsets > 0
       /\ upsets' = upsets - 1
       /\ Upsets
       /\ UNCHANGED <<file, tmp, req, hist>>
    \/ /\ \E f \in Flows : ~Driven(f) /\ Uses(f)
       /\ UNCHANGED <<file, tmp, req, upsets, hist>>
    \/ /\ Runs
       /\ UNCHANGED <<file, tmp, req, upsets, hist>>

Spec == Init /\ [][Next]_vars

-----------------------------------------------------------------------------
(* Properties.                                                             *)

\* While the saves of two requests do not overlap, the list on the box is one
\* that was saved whole, the last, wherever the container is stopped.
QueueKept == ~hist.overlap => file = hist.saved

Reports == UNION {{req[t].out[n] : n \in DOMAIN req[t].out} : t \in Requests}

\* Nothing went wrong around this row.
Calm(r) == ~r.upset /\ upsets = MaxUpsets

\* Apply makes the entry of a row that has a key the form offers, or finds its
\* device or a flow of it: as long as the device answers and Home Assistant
\* stays, no other row, request, user or scan stands in its way.
KeyedCreates ==
    \A r \in Reports : r.row.key # None /\ r.row.key \in Options[r.row.id] /\ Calm(r) =>
        r.status \in {"created", "exists"}

\* docs/TUYA_DEVICE_IMPORT.md: a type, a profile id, is what auto-apply needs.
TypedCreates ==
    \A r \in Reports :
        r.row.key # None /\ (\E k \in Options[r.row.id] : k.type = r.row.key.type) /\ Calm(r) =>
            r.status \in {"created", "exists"}
=============================================================================

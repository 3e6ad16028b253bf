--------------------------- MODULE TuyaImportProofs ---------------------------
(***************************************************************************)
(* What keeps config flows apart, what ends a pause, and what keeps the    *)
(* list of the import page, for any devices, flows, uploads and requests.  *)
(***************************************************************************)
EXTENDS TuyaImport, TLAPS

-----------------------------------------------------------------------------
(* The flows.                                                              *)

Steps == {"none", "user", "cloud", "scan", "choose", "search", "local", "test", "type", "name", "end"}
FlowRec == [step : Steps, uid : Ids \cup {None}, found : Ids \cup {None}, id : Ids \cup {None},
            holds : BOOLEAN, key : Keys \cup {None}, auth : {"none", "no", "yes"}, listed : SUBSET Ids]

FlowType ==
    /\ flow \in [Flows -> FlowRec]
    /\ entries \in [Ids -> Keys \cup {None}]
    /\ opt \in [Ids -> {"no", "form", "test"}]
    /\ paused \in [Ids -> BOOLEAN]

\* A flow that has a unique id is alone with it, and there is no entry of it.
Alone(f) == flow[f].uid # None =>
    /\ entries[flow[f].uid] = None
    /\ \A g \in Flows \ {f} : flow[g].uid # flow[f].uid

\* From the type on, the id is the one that was tested.
Tested(f) ==
    /\ flow[f].step \in {"type", "name"} => flow[f].id = flow[f].uid /\ flow[f].uid # None
    /\ flow[f].step = "test" => flow[f].id # None

\* A device is paused by a test that will resume it.
Held(i) == paused[i] =>
    opt[i] = "test" \/ \E f \in Flows : flow[f].step = "test" /\ flow[f].id = i /\ flow[f].holds

FlowInv == FlowType /\ (\A f \in Flows : Alone(f) /\ Tested(f)) /\ \A i \in Ids : Held(i)

\* One flow goes on, which neither begins nor ends a test, nor takes an id.
Moves(f, r) ==
    /\ r \in FlowRec
    /\ flow' = [flow EXCEPT ![f] = r]
    /\ flow[f].step # "test" /\ r.step # "test"
    /\ r.uid \in {None, flow[f].uid}
    /\ r.step \in {"type", "name"} => r.id = r.uid /\ r.uid # None
    /\ UNCHANGED <<entries, opt, paused>>

LEMMA MovesKeep ==
    ASSUME FlowInv, NEW f \in Flows, NEW r, Moves(f, r) PROVE FlowInv'
<1>1. flow'[f] = r /\ \A g \in Flows \ {f} : flow'[g] = flow[g]
  BY DEF FlowInv, FlowType, Moves
<1>2. FlowType'
  BY DEF FlowInv, FlowType, Moves
<1>3. ASSUME NEW g \in Flows PROVE Alone(g)' /\ Tested(g)'
  BY <1>1, <1>3 DEF FlowInv, Alone, Tested, Moves
<1>4. ASSUME NEW i \in Ids PROVE Held(i)'
  BY <1>1, <1>4 DEF FlowInv, Held, Moves
<1> QED BY <1>2, <1>3, <1>4 DEF FlowInv

LEMMA Forms ==
    /\ NoFlow \in FlowRec
    /\ Ended \in FlowRec /\ Ended.step = "end" /\ Ended.uid = None /\ ~Ended.holds
<1>1. NoFlow \in FlowRec /\ NoFlow.uid = None /\ ~NoFlow.holds
  BY DEF NoFlow, FlowRec, Steps
<1>2. [NoFlow EXCEPT !.step = "end"] \in FlowRec
  BY <1>1 DEF FlowRec, Steps
<1> QED BY <1>1, <1>2 DEF Ended, FlowRec

LEMMA Stepping ==
    ASSUME FlowInv, NEW f \in Flows, NEW step \in Steps \ {"test", "type", "name"},
           flow[f].step # "test", flow' = [flow EXCEPT ![f].step = step],
           UNCHANGED <<entries, opt, paused>>
    PROVE  FlowInv'
<1> DEFINE r == [flow[f] EXCEPT !.step = step]
<1>1. flow[f] \in FlowRec
  BY DEF FlowInv, FlowType
<1>2. r \in FlowRec /\ r.step = step /\ r.uid = flow[f].uid
  BY <1>1 DEF FlowRec
<1>3. flow' = [flow EXCEPT ![f] = r]
  OBVIOUS
<1>4. Moves(f, r)
  BY <1>2, <1>3 DEF Moves
<1> QED BY <1>4, MovesKeep

LEMMA CreatesKeep == ASSUME FlowInv, NEW f \in Flows, Creates(f) PROVE FlowInv'
BY Stepping DEF Creates, Next1, Goes, Steps

LEMMA GetsQrCodeKeep == ASSUME FlowInv, NEW f \in Flows, GetsQrCode(f) PROVE FlowInv'
BY Stepping DEF GetsQrCode, Goes, Steps

LEMMA LocalForm ==
    ASSUME NEW r \in FlowRec
    PROVE  Local(r) \in FlowRec /\ Local(r).step = "local" /\ Local(r).uid = r.uid
BY DEF Local, FlowRec, Steps

LEMMA ListForm ==
    ASSUME NEW r \in FlowRec
    PROVE  /\ Lists(r) \in FlowRec /\ Lists(r).step \in {"choose", "end"}
           /\ Lists(r).uid \in {None, r.uid}
<1>1. CASE Listed = {}
  BY <1>1, Forms DEF Lists
<1>2. CASE Listed # {}
  BY <1>2 DEF Lists, Listed, FlowRec, Steps
<1> QED BY <1>1, <1>2

LEMMA ManualKeep == ASSUME FlowInv, NEW f \in Flows, Manual(f) PROVE FlowInv'
<1>1. flow[f] \in FlowRec
  BY DEF FlowInv, FlowType
<1>2. Moves(f, Local(flow[f]))
  BY <1>1, LocalForm DEF Manual, Moves
<1> QED BY <1>2, MovesKeep

LEMMA SearchesKeep == ASSUME FlowInv, NEW f \in Flows, Searches(f) PROVE FlowInv'
<1>1. flow[f] \in FlowRec
  BY DEF FlowInv, FlowType
<1>2. Moves(f, Local(flow[f]))
  BY <1>1, LocalForm DEF Searches, Moves
<1> QED BY <1>2, MovesKeep

LEMMA DismissesKeep == ASSUME FlowInv, NEW f \in Flows, Dismisses(f) PROVE FlowInv'
<1>1. Moves(f, Ended)
  BY Forms DEF Dismisses, Moves
<1> QED BY <1>1, MovesKeep

LEMMA UsesCloudKeep ==
    ASSUME FlowInv, NEW f \in Flows, NEW fresh \in BOOLEAN, UsesCloud(f, fresh) PROVE FlowInv'
<1> DEFINE auth == IF fresh THEN "no"
                   ELSE IF flow[f].auth # "none" THEN flow[f].auth
                   ELSE IF cache THEN "yes" ELSE "no"
           r == [flow[f] EXCEPT !.auth = auth, !.step = "cloud"]
<1>1. flow[f] \in FlowRec
  BY DEF FlowInv, FlowType
<1>2. auth \in {"none", "no", "yes"}
  BY <1>1 DEF FlowRec
<1> HIDE DEF auth
<1>3. r \in FlowRec /\ r.step = "cloud" /\ r.uid = flow[f].uid
  BY <1>1, <1>2 DEF FlowRec, Steps
<1>4. UNCHANGED <<entries, opt, paused>> /\ flow[f].step = "user"
      /\ (flow' = [flow EXCEPT ![f] = r] \/ flow' = [flow EXCEPT ![f] = Lists(r)])
  BY DEF UsesCloud, auth
<1> HIDE DEF r
<1>5. Moves(f, r) \/ Moves(f, Lists(r))
  BY <1>3, <1>4, ListForm DEF Moves
<1> QED BY <1>5, MovesKeep

LEMMA ScansKeep ==
    ASSUME FlowInv, NEW f \in Flows, NEW ok \in BOOLEAN, Scans(f, ok) PROVE FlowInv'
<1> DEFINE r == [flow[f] EXCEPT !.auth = IF ok THEN "yes" ELSE "no"]
<1>1. flow[f] \in FlowRec
  BY DEF FlowInv, FlowType
<1>2. r \in FlowRec /\ r.step = flow[f].step /\ r.uid = flow[f].uid
  BY <1>1 DEF FlowRec
<1>3. /\ UNCHANGED <<entries, opt, paused>> /\ flow[f].step = "scan"
      /\ flow' = [flow EXCEPT ![f] = IF ~ok THEN r ELSE IF r.found # None THEN Local(r) ELSE Lists(r)]
  BY DEF Scans
<1> HIDE DEF r
<1>4. Moves(f, r) \/ Moves(f, Local(r)) \/ Moves(f, Lists(r))
  BY <1>2, <1>3, ListForm, LocalForm DEF Moves
<1> QED BY <1>4, MovesKeep

LEMMA ChoosesDeviceKeep ==
    ASSUME FlowInv, NEW f \in Flows, NEW i \in Ids, NEW hub, ChoosesDevice(f, i, hub) PROVE FlowInv'
<1> DEFINE r == [flow[f] EXCEPT !.step = "search", !.found = i, !.listed = {}]
<1>1. flow[f] \in FlowRec
  BY DEF FlowInv, FlowType
<1>2. r \in FlowRec /\ r.step = "search" /\ r.uid = flow[f].uid
  BY <1>1 DEF FlowRec, Steps
<1>3. flow' = [flow EXCEPT ![f] = r]
  BY <1>1 DEF ChoosesDevice, FlowInv, FlowType
<1> HIDE DEF r
<1>4. Moves(f, r)
  BY <1>2, <1>3 DEF Moves, ChoosesDevice
<1> QED BY <1>4, MovesKeep

LEMMA SelectsTypeKeep ==
    ASSUME FlowInv, NEW f \in Flows, NEW key \in Keys, SelectsType(f, key) PROVE FlowInv'
<1> DEFINE r == [flow[f] EXCEPT !.step = "name", !.key = key]
<1>1. flow[f] \in FlowRec /\ Tested(f)
  BY DEF FlowInv, FlowType
<1>2. r \in FlowRec /\ r.step = "name" /\ r.uid = flow[f].uid /\ r.id = flow[f].id
  BY <1>1 DEF FlowRec, Steps
<1>3. flow' = [flow EXCEPT ![f] = r]
  BY <1>1 DEF SelectsType, FlowInv, FlowType
<1> HIDE DEF r
<1>4. Moves(f, r)
  BY <1>1, <1>2, <1>3 DEF Moves, SelectsType, Tested
<1> QED BY <1>4, MovesKeep

LEMMA TestsKeep == ASSUME FlowInv, NEW f \in Flows, NEW i \in Ids, Tests(f, i) PROVE FlowInv'
<1> DEFINE r == [flow[f] EXCEPT !.step = "test", !.id = i, !.holds = entries[i] # None]
<1>1. flow[f] \in FlowRec
  BY DEF FlowInv, FlowType
<1>2. r \in FlowRec /\ r.step = "test" /\ r.uid = flow[f].uid /\ r.id = i /\ r.holds = (entries[i] # None)
  BY <1>1 DEF FlowRec, Steps
<1>3. flow' = [flow EXCEPT ![f] = r] /\ UNCHANGED <<entries, opt>> /\ flow[f].step = "local"
  BY <1>1 DEF Tests, FlowInv, FlowType
<1> HIDE DEF r
<1>4. flow'[f] = r /\ \A g \in Flows \ {f} : flow'[g] = flow[g]
  BY <1>3 DEF FlowInv, FlowType
<1>5. paused'[i] = (paused[i] \/ entries[i] # None) /\ \A j \in Ids \ {i} : paused'[j] = paused[j]
  BY DEF Tests, FlowInv, FlowType
<1>6. FlowType'
  <2>1. (paused[i] \/ entries[i] # None) \in BOOLEAN
    OBVIOUS
  <2>2. paused' \in [Ids -> BOOLEAN]
    BY <2>1 DEF Tests, FlowInv, FlowType
  <2> QED BY <1>2, <1>3, <2>2 DEF FlowInv, FlowType
<1>7. i # None
  BY FlowAssumption DEF Ids
<1>8. ASSUME NEW g \in Flows PROVE Alone(g)' /\ Tested(g)'
  BY <1>2, <1>3, <1>4, <1>7, <1>8 DEF FlowInv, Alone, Tested
<1>9. ASSUME NEW j \in Ids PROVE Held(j)'
  BY <1>2, <1>3, <1>4, <1>5, <1>9 DEF FlowInv, Held
<1> QED BY <1>6, <1>8, <1>9 DEF FlowInv

LEMMA TestEndsKeep ==
    ASSUME FlowInv, NEW f \in Flows, NEW good \in BOOLEAN, TestEnds(f, good) PROVE FlowInv'
<1> DEFINE i == flow[f].id
           back == [flow[f] EXCEPT !.holds = FALSE, !.step = "local", !.id = None]
           on == [flow[f] EXCEPT !.holds = FALSE, !.step = "type", !.uid = i]
<1>1. flow[f] \in FlowRec /\ i \in Ids
  BY DEF FlowInv, FlowType, Tested, TestEnds, FlowRec
<1>2. /\ back \in FlowRec /\ back.step = "local" /\ back.uid = flow[f].uid /\ ~back.holds
      /\ on \in FlowRec /\ on.step = "type" /\ on.uid = i /\ on.id = i
  BY <1>1 DEF FlowRec, Steps
<1>3. PICK r \in {back, on, Ended} : flow' = [flow EXCEPT ![f] = r] /\ (r = on => Unique(f, i))
  <2>1. CASE ~good
    BY <1>1, <2>1 DEF TestEnds, FlowRec
  <2>2. CASE good /\ (~Unique(f, i) \/ Options[i] = {})
    BY <1>2, <2>2, Forms DEF TestEnds
  <2>3. CASE good /\ Unique(f, i) /\ Options[i] # {}
    BY <1>1, <2>3 DEF TestEnds, FlowRec
  <2> QED BY <2>1, <2>2, <2>3
<1>4. i # None /\ flow[f].step = "test" /\ UNCHANGED <<entries, opt>>
      /\ paused' = [paused EXCEPT ![i] = @ /\ ~flow[f].holds]
  BY <1>1, FlowAssumption DEF TestEnds, Ids, Resumed
<1> HIDE DEF back, on, i
<1>5. r \in FlowRec /\ r.step \in {"local", "type", "end"} /\ r.uid \in {None, flow[f].uid, i}
      /\ (r.step = "type" => r.id = i /\ r.uid = i)
      /\ (r.uid \notin {None, flow[f].uid} => Unique(f, i))
  BY <1>2, <1>3, Forms
<1>6. flow'[f] = r /\ \A g \in Flows \ {f} : flow'[g] = flow[g]
  BY <1>3 DEF FlowInv, FlowType
<1>7. paused'[i] = (paused[i] /\ ~flow[f].holds) /\ \A j \in Ids \ {i} : paused'[j] = paused[j]
  BY <1>1, <1>4 DEF FlowInv, FlowType
<1>8. FlowType'
  BY <1>1, <1>3, <1>4, <1>5 DEF FlowInv, FlowType, FlowRec
<1>9. ASSUME NEW g \in Flows PROVE Alone(g)' /\ Tested(g)'
  BY <1>4, <1>5, <1>6, <1>9 DEF FlowInv, Alone, Tested, Unique, Taken
<1>10. ASSUME NEW j \in Ids PROVE Held(j)'
  <2> SUFFICES ASSUME paused'[j], opt'[j] # "test"
               PROVE  \E g \in Flows : flow'[g].step = "test" /\ flow'[g].id = j /\ flow'[g].holds
    BY DEF Held
  <2>1. paused[j] /\ (j = i => ~flow[f].holds)
    BY <1>7, <1>10
  <2>2. PICK g \in Flows : flow[g].step = "test" /\ flow[g].id = j /\ flow[g].holds
    BY <1>4, <1>10, <2>1 DEF FlowInv, Held
  <2>3. g # f
    BY <2>1, <2>2 DEF i
  <2> QED BY <1>6, <2>2, <2>3
<1> QED BY <1>8, <1>9, <1>10 DEF FlowInv

LEMMA NamedKeep == ASSUME FlowInv, NEW f \in Flows, Named(f) PROVE FlowInv'
<1> DEFINE i == flow[f].id
<1>1. /\ flow[f] \in FlowRec /\ i \in Ids /\ i = flow[f].uid /\ i # None
      /\ \A g \in Flows \ {f} : flow[g].uid # i
  BY DEF FlowInv, FlowType, FlowRec, Tested, Alone, Named
<1>2. /\ flow'[f] = Ended /\ \A g \in Flows \ {f} : flow'[g] = flow[g]
      /\ \A j \in Ids \ {i} : entries'[j] = entries[j]
      /\ UNCHANGED <<opt, paused>> /\ flow[f].step = "name"
  BY <1>1 DEF FlowInv, FlowType, Named
<1>3. FlowType'
  BY <1>1, Forms DEF FlowInv, FlowType, FlowRec, Named
<1>4. ASSUME NEW g \in Flows PROVE Alone(g)' /\ Tested(g)'
  <2>1. flow[g] \in FlowRec /\ Alone(g) /\ Tested(g)
    BY <1>4 DEF FlowInv, FlowType
  <2>2. CASE g = f
    BY <1>2, <2>2, Forms DEF Alone, Tested
  <2>3. CASE g # f
    <3>1. flow'[g] = flow[g] /\ (flow[g].uid # None => flow[g].uid \in Ids \ {i})
      BY <1>1, <1>2, <1>4, <2>1, <2>3 DEF FlowRec
    <3> QED BY <1>2, <1>4, <2>1, <2>3, <3>1, Forms DEF Alone, Tested
  <2> QED BY <2>2, <2>3
<1>5. ASSUME NEW j \in Ids PROVE Held(j)'
  BY <1>2, <1>5 DEF FlowInv, Held
<1> QED BY <1>3, <1>4, <1>5 DEF FlowInv

\* The end of the device object of an id.
LEMMA RenewedKeeps ==
    ASSUME FlowInv, NEW i \in Ids, Renewed(i)
    PROVE  /\ flow' \in [Flows -> FlowRec] /\ paused' \in [Ids -> BOOLEAN]
           /\ \A f \in Flows : /\ flow'[f].step = flow[f].step /\ flow'[f].uid = flow[f].uid
                               /\ flow'[f].id = flow[f].id
           /\ ~paused'[i] /\ \A j \in Ids \ {i} : paused'[j] = paused[j] /\ (Held(j) /\ opt'[j] = opt[j] => Held(j)')
<1>1. \A f \in Flows : flow[f] \in FlowRec
  BY DEF FlowInv, FlowType
<1>2. ASSUME NEW f \in Flows
      PROVE  /\ flow'[f] \in FlowRec /\ flow'[f].step = flow[f].step /\ flow'[f].uid = flow[f].uid
             /\ flow'[f].id = flow[f].id /\ (flow[f].id # i => flow'[f] = flow[f])
  <2>1. [flow[f] EXCEPT !.holds = FALSE] \in FlowRec
    BY <1>1 DEF FlowRec
  <2> QED BY <1>1, <2>1 DEF Renewed, FlowRec
<1>3. flow' \in [Flows -> FlowRec]
  BY <1>2 DEF Renewed
<1>4. paused' \in [Ids -> BOOLEAN] /\ ~paused'[i] /\ \A j \in Ids \ {i} : paused'[j] = paused[j]
  BY DEF Renewed, FlowInv, FlowType
<1>5. ASSUME NEW j \in Ids \ {i}, Held(j), opt'[j] = opt[j] PROVE Held(j)'
  BY <1>2, <1>4, <1>5 DEF Held
<1> QED BY <1>2, <1>3, <1>4, <1>5

LEMMA TestsOptionsKeep == ASSUME FlowInv, NEW i \in Ids, TestsOptions(i) PROVE FlowInv'
<1>1. FlowType' /\ UNCHANGED <<flow, entries>>
      /\ opt'[i] = "test" /\ \A j \in Ids \ {i} : opt'[j] = opt[j] /\ paused'[j] = paused[j]
  BY DEF FlowInv, FlowType, TestsOptions
<1> QED BY <1>1 DEF FlowInv, Alone, Tested, Held

LEMMA OptionsTestedKeep ==
    ASSUME FlowInv, NEW i \in Ids, NEW good \in BOOLEAN, OptionsTested(i, good) PROVE FlowInv'
<1>1. /\ entries' = entries /\ opt' \in [Ids -> {"no", "form", "test"}]
      /\ \A j \in Ids \ {i} : opt'[j] = opt[j]
  BY DEF FlowInv, FlowType, OptionsTested
<1>2. CASE good
  <2>1. Renewed(i)
    BY <1>2 DEF OptionsTested
  <2>2. FlowType' /\ \A j \in Ids : Held(j)'
    BY <1>1, <2>1, RenewedKeeps DEF FlowInv, FlowType, Held
  <2>3. \A f \in Flows : Alone(f)' /\ Tested(f)'
    BY <1>1, <2>1, RenewedKeeps DEF FlowInv, Alone, Tested
  <2> QED BY <2>2, <2>3 DEF FlowInv
<1>3. CASE ~good
  <2>1. flow' = flow /\ paused' = [paused EXCEPT ![i] = FALSE]
    BY <1>3 DEF OptionsTested, Resumed, FlowInv, FlowType
  <2>2. FlowType' /\ ~paused'[i] /\ \A j \in Ids \ {i} : paused'[j] = paused[j]
    BY <1>1, <2>1 DEF FlowInv, FlowType
  <2> QED BY <1>1, <2>1, <2>2 DEF FlowInv, Alone, Tested, Held
<1> QED BY <1>2, <1>3

LEMMA DeletesKeep == ASSUME FlowInv, NEW i \in Ids, Deletes(i) PROVE FlowInv'
<1>1. /\ Renewed(i) /\ opt' \in [Ids -> {"no", "form", "test"}]
      /\ \A j \in Ids \ {i} : opt'[j] = opt[j]
      /\ entries' \in [Ids -> Keys \cup {None}]
      /\ \A j \in Ids : entries'[j] \in {None, entries[j]}
  BY DEF FlowInv, FlowType, Deletes
<1>2. FlowType' /\ \A j \in Ids : Held(j)'
  BY <1>1, RenewedKeeps DEF FlowInv, FlowType, Held
<1>3. ASSUME NEW f \in Flows PROVE Alone(f)' /\ Tested(f)'
  <2>1. flow[f].uid \in Ids \cup {None}
    BY <1>3 DEF FlowInv, FlowType, FlowRec
  <2> QED BY <1>1, <1>3, <2>1, RenewedKeeps DEF FlowInv, Alone, Tested
<1> QED BY <1>2, <1>3 DEF FlowInv

LEMMA DiscoversKeep == ASSUME FlowInv, NEW d \in Devices, Discovers(d) PROVE FlowInv'
<1>1. CASE flow' = flow
  BY <1>1 DEF Discovers, FlowInv, FlowType, Alone, Tested, Held
<1>2. ASSUME NEW f \in Flows, Unique(0, d), Next1(f),
             flow' = [flow EXCEPT ![f] = [NoFlow EXCEPT !.step = "user", !.uid = d, !.found = d]]
      PROVE  FlowInv'
  <2> DEFINE r == [NoFlow EXCEPT !.step = "user", !.uid = d, !.found = d]
  <2>1. d \in Ids /\ d # None
    BY FlowAssumption DEF Ids
  <2>2. r \in FlowRec /\ r.step = "user" /\ r.uid = d
    BY <2>1, Forms DEF FlowRec, Steps
  <2> HIDE DEF r
  <2>3. flow'[f] = r /\ \A g \in Flows \ {f} : flow'[g] = flow[g]
    BY <1>2 DEF FlowInv, FlowType, r
  <2>4. FlowType' /\ UNCHANGED <<entries, opt, paused>>
    BY <1>2, <2>2 DEF FlowInv, FlowType, Discovers, r
  <2>5. entries[d] = None /\ \A g \in Flows : flow[g].uid # d
    BY <1>2, FlowAssumption DEF Unique, Taken
  <2>6. ASSUME NEW g \in Flows PROVE Alone(g)' /\ Tested(g)'
    BY <2>1, <2>2, <2>3, <2>4, <2>5, <2>6 DEF FlowInv, Alone, Tested
  <2>7. ASSUME NEW i \in Ids PROVE Held(i)'
    BY <1>2, <2>3, <2>4, <2>7 DEF FlowInv, Held, Next1
  <2> QED BY <2>4, <2>6, <2>7 DEF FlowInv
<1> QED BY <1>1, <1>2 DEF Discovers

LEMMA HaRestartsKeep == ASSUME FlowInv, HaRestarts PROVE FlowInv'
<1>1. NoFlow.step = "none" /\ NoFlow.uid = None
  BY DEF NoFlow
<1>2. FlowType'
  BY Forms DEF HaRestarts, FlowInv, FlowType
<1>3. \A f \in Flows : Alone(f)' /\ Tested(f)'
  BY <1>1, Forms DEF HaRestarts, Alone, Tested
<1>4. \A i \in Ids : Held(i)'
  BY DEF HaRestarts, Held
<1> QED BY <1>2, <1>3, <1>4 DEF FlowInv

LEMMA FlowsStart == TuyaInit => FlowInv
<1> SUFFICES ASSUME TuyaInit PROVE FlowInv
  OBVIOUS
<1>1. NoFlow.step = "none" /\ NoFlow.uid = None
  BY DEF NoFlow
<1>2. FlowType
  BY Forms DEF TuyaInit, FlowType
<1> QED BY <1>1, <1>2 DEF TuyaInit, FlowInv, Alone, Tested, Held

\* Whoever drives it, a flow keeps the invariant.
LEMMA UsesKeep == ASSUME FlowInv, NEW f \in Flows, Uses(f) PROVE FlowInv'
BY CreatesKeep, ManualKeep, GetsQrCodeKeep, SearchesKeep, NamedKeep, DismissesKeep, UsesCloudKeep,
   ScansKeep, TestEndsKeep, TestsKeep, ChoosesDeviceKeep, SelectsTypeKeep DEF Uses

LEMMA UpsetsKeep == ASSUME FlowInv, Upsets PROVE FlowInv'
BY HaRestartsKeep, TestsOptionsKeep, DeletesKeep DEF Upsets

LEMMA RunsKeep == ASSUME FlowInv, Runs PROVE FlowInv'
<1>1. CASE UNCHANGED <<entries, flow, opt, paused>>
  BY <1>1 DEF FlowInv, FlowType, Alone, Tested, Held
<1>2. CASE \E i \in Ids, good \in BOOLEAN : OptionsTested(i, good)
  BY <1>2, OptionsTestedKeep
<1>3. CASE ScanStarts \/ \E s \in SUBSET Devices : ScanReturns(s)
  BY <1>1, <1>3 DEF ScanStarts, ScanReturns
<1>4. CASE \E d \in Devices : Discovers(d)
  BY <1>4, DiscoversKeep
<1> QED BY <1>2, <1>3, <1>4 DEF Runs

-----------------------------------------------------------------------------
(* The requests and the list.                                              *)

Applying == {"check", "create", "manual", "local", "wait", "type", "name", "made"}
Pcs == {"idle", "opened", "written", "end"} \cup Applying
Statuses == {"exists", "created", "error", "needs_manual"}
ReqRec == [pc : Pcs, rows : Seq(Rows), apply : BOOLEAN, fd : {"none", "tmp", "file"},
           flow : Flows \cup {0}, out : Seq([row : Rows, status : Statuses, upset : BOOLEAN])]
ListFiles == {None, Torn} \cup Seq(Rows)

ReqType ==
    /\ req \in [Requests -> ReqRec]
    /\ file \in ListFiles /\ tmp \in ListFiles
    /\ hist \in [saved : ListFiles, overlap : BOOLEAN]

\* A request that applies has a row, and from its creation a flow.
Driving(t) ==
    /\ req[t].pc \in Applying => req[t].rows # <<>>
    /\ req[t].pc \in Applying \ {"check", "create"} => req[t].flow \in Flows

\* While saves do not overlap, the one under way has the temporary file to itself.
Kept == ~hist.overlap =>
    /\ file = hist.saved
    /\ \A t, u \in Requests : Saving(t) /\ Saving(u) => t = u
    /\ \A t \in Requests : req[t].pc = "opened" => req[t].fd = "tmp" /\ tmp = Torn
    /\ \A t \in Requests : req[t].pc = "written" => tmp = req[t].rows

ReqInv == ReqType /\ (\A t \in Requests : Driving(t)) /\ Kept

LEMMA NoRequestOK == NoRequest \in ReqRec /\ NoRequest.pc = "idle" /\ NoRequest.fd = "none"
BY DEF NoRequest, ReqRec, Pcs

\* A step of an application leaves the list alone.
LEMMA AppliedKeeps ==
    ASSUME ReqInv, NEW t \in Requests, NEW r \in ReqRec, req' = [req EXCEPT ![t] = r],
           r.pc \in Applying \cup {"end"},
           r.pc \in Applying => r.rows # <<>>,
           r.pc \in Applying \ {"check", "create"} => r.flow \in Flows,
           UNCHANGED <<file, tmp, hist>>
    PROVE  ReqInv'
<1>1. req'[t] = r /\ \A u \in Requests \ {t} : req'[u] = req[u]
  BY DEF ReqInv, ReqType
<1>2. ReqType'
  BY DEF ReqInv, ReqType
<1>3. \A u \in Requests : Driving(u)'
  BY <1>1 DEF ReqInv, Driving
<1>4. r.pc # "opened" /\ r.pc # "written"
  BY DEF Applying
<1>5. Kept'
  BY <1>1, <1>4 DEF ReqInv, Kept, Saving
<1> QED BY <1>2, <1>3, <1>5 DEF ReqInv

LEMMA RowOK ==
    ASSUME NEW r \in ReqRec
    PROVE  Row(r) \in ReqRec /\ Row(r).pc \in {"check", "end"} /\ Row(r).fd = r.fd /\ Row(r).rows = r.rows
           /\ (Row(r).pc = "check" => r.rows # <<>>)
BY DEF Row, ReqRec, Pcs, Applying

LEMMA ReportKeeps ==
    ASSUME ReqInv, NEW t \in Requests, req[t].pc \in Applying, NEW status \in Statuses,
           NEW upset \in BOOLEAN, Report(t, status, upset), Quiet
    PROVE  ReqInv'
<1> DEFINE done == [row |-> Head(req[t].rows), status |-> status, upset |-> upset]
           r == [req[t] EXCEPT !.rows = Tail(req[t].rows), !.flow = 0, !.out = Append(req[t].out, done)]
<1>1. req[t] \in ReqRec /\ req[t].rows # <<>>
  BY DEF ReqInv, ReqType, Driving
<1>2. req[t].rows \in Seq(Rows) /\ req[t].out \in Seq([row : Rows, status : Statuses, upset : BOOLEAN])
  BY <1>1 DEF ReqRec
<1>3. Tail(req[t].rows) \in Seq(Rows) /\ Head(req[t].rows) \in Rows
  BY <1>1, <1>2
<1>4. Append(req[t].out, done) \in Seq([row : Rows, status : Statuses, upset : BOOLEAN])
  <2>1. done \in [row : Rows, status : Statuses, upset : BOOLEAN]
    BY <1>3
  <2> HIDE DEF done
  <2> QED BY <1>2, <2>1
<1>5. r \in ReqRec
  BY <1>1, <1>3, <1>4 DEF ReqRec
<1>6. req' = [req EXCEPT ![t] = Row(r)]
  BY <1>1 DEF Report, ReqInv, ReqType
<1> HIDE DEF r
<1> QED BY <1>5, <1>6, RowOK, AppliedKeeps DEF Applying, Quiet

LEMMA CallsKeep ==
    ASSUME ReqInv, NEW t \in Requests, req[t].pc \in Applying, NEW pc \in Applying,
           pc \notin {"check", "create"} => req[t].flow \in Flows,
           Calls(t, pc), Quiet
    PROVE  ReqInv'
<1> DEFINE r == [req[t] EXCEPT !.pc = pc]
<1>1. req[t] \in ReqRec /\ req[t].rows # <<>>
  BY DEF ReqInv, ReqType, Driving
<1>2. r \in ReqRec /\ r.pc = pc /\ r.rows = req[t].rows /\ r.flow = req[t].flow
  BY <1>1 DEF ReqRec, Pcs
<1>3. req' = [req EXCEPT ![t] = r]
  BY DEF Calls
<1> HIDE DEF r
<1> QED BY <1>1, <1>2, <1>3, AppliedKeeps DEF Quiet

IInv == FlowInv /\ ReqInv

LEMMA FlowsRest ==
    ASSUME FlowInv, UNCHANGED tuya PROVE FlowInv'
BY DEF FlowInv, FlowType, Alone, Tested, Held, tuya

LEMMA ChecksKeep == ASSUME IInv, NEW t \in Requests, Checks(t) PROVE IInv'
<1>1. FlowInv'
  BY FlowsRest DEF Checks, IInv
<1>2. ReqInv'
  BY ReportKeeps, CallsKeep DEF Checks, IInv, Applying, Statuses
<1> QED BY <1>1, <1>2 DEF IInv

LEMMA CreatesFlowKeep == ASSUME IInv, NEW t \in Requests, CreatesFlow(t) PROVE IInv'
<1>1. PICK f \in Flows : Creates(f) /\ req' = [req EXCEPT ![t].flow = f, ![t].pc = "manual"]
  BY DEF CreatesFlow
<1>2. FlowInv'
  BY <1>1, CreatesKeep DEF IInv
<1> DEFINE r == [req[t] EXCEPT !.flow = f, !.pc = "manual"]
<1>3. req[t] \in ReqRec /\ req[t].rows # <<>> /\ Quiet
  BY DEF IInv, ReqInv, ReqType, Driving, CreatesFlow, Applying
<1>4. r \in ReqRec /\ r.pc = "manual" /\ r.rows = req[t].rows /\ r.flow = f
  BY <1>3 DEF ReqRec, Pcs, Applying
<1>5. req' = [req EXCEPT ![t] = r]
  BY <1>1, <1>3 DEF IInv, ReqInv, ReqType
<1> HIDE DEF r
<1>6. ReqInv'
  BY <1>3, <1>4, <1>5, AppliedKeeps DEF IInv, Applying, Quiet
<1> QED BY <1>2, <1>6 DEF IInv

LEMMA GoesManualKeep == ASSUME IInv, NEW t \in Requests, GoesManual(t) PROVE IInv'
<1>1. req[t].pc = "manual" /\ req[t].flow \in Flows
  BY DEF IInv, ReqInv, Driving, GoesManual, Applying
<1>2. FlowInv'
  BY <1>1, ManualKeep, FlowsRest DEF GoesManual, IInv
<1>3. ReqInv'
  BY <1>1, ReportKeeps, CallsKeep DEF GoesManual, IInv, Applying, Statuses
<1> QED BY <1>2, <1>3 DEF IInv

LEMMA ConnectsKeep == ASSUME IInv, NEW t \in Requests, Connects(t) PROVE IInv'
<1>1. req[t].pc = "local" /\ req[t].flow \in Flows /\ req[t].rows \in Seq(Rows) /\ req[t].rows # <<>>
  BY DEF IInv, ReqInv, ReqType, ReqRec, Driving, Connects, Applying
<1>2. Id(t) \in Ids
  <2>1. Head(req[t].rows) \in Rows
    BY <1>1
  <2> QED BY <2>1, ImportAssumption DEF Id
<1>3. FlowInv'
  BY <1>1, <1>2, TestsKeep, FlowsRest DEF Connects, IInv
<1>4. ReqInv'
  BY <1>1, ReportKeeps, CallsKeep DEF Connects, IInv, Applying, Statuses
<1> QED BY <1>3, <1>4 DEF IInv

LEMMA ConnectedKeeps ==
    ASSUME IInv, NEW t \in Requests, NEW good \in BOOLEAN, Connected(t, good) PROVE IInv'
<1>1. req[t].pc = "wait" /\ req[t].flow \in Flows
  BY DEF IInv, ReqInv, Driving, Connected, Applying
<1>2. FlowInv'
  BY <1>1, TestEndsKeep, FlowsRest DEF Connected, IInv
<1>3. \/ \E status \in Statuses, upset \in BOOLEAN : Report(t, status, upset)
      \/ Calls(t, "type")
  BY DEF Connected, Statuses
<1>4. ReqInv'
  BY <1>1, <1>3, ReportKeeps, CallsKeep DEF Connected, IInv, Applying
<1> QED BY <1>2, <1>4 DEF IInv

LEMMA TypesKeep == ASSUME IInv, NEW t \in Requests, Types(t) PROVE IInv'
<1>1. req[t].pc = "type" /\ req[t].flow \in Flows
  BY DEF IInv, ReqInv, Driving, Types, Applying
<1>2. \/ UNCHANGED tuya
      \/ \E k : SelectsType(req[t].flow, k)
  BY DEF Types
<1>3. ASSUME NEW k, SelectsType(req[t].flow, k) PROVE k \in Keys
  <2>1. flow[req[t].flow] \in FlowRec /\ Tested(req[t].flow)
    BY <1>1 DEF IInv, FlowInv, FlowType
  <2>2. flow[req[t].flow].id \in Ids
    BY <1>3, <2>1 DEF FlowRec, Tested, SelectsType
  <2> QED BY <1>3, <2>2 DEF SelectsType, Keys
<1>4. FlowInv'
  BY <1>1, <1>2, <1>3, SelectsTypeKeep, FlowsRest DEF IInv
<1>5. \/ \E status \in Statuses, upset \in BOOLEAN : Report(t, status, upset)
      \/ Calls(t, "name")
  BY DEF Types, Statuses
<1>6. ReqInv'
  BY <1>1, <1>5, ReportKeeps, CallsKeep DEF Types, IInv, Applying
<1> QED BY <1>4, <1>6 DEF IInv

LEMMA NamesKeep == ASSUME IInv, NEW t \in Requests, Names(t) PROVE IInv'
<1>1. req[t].pc = "name" /\ req[t].flow \in Flows
  BY DEF IInv, ReqInv, Driving, Names, Applying
<1>2. FlowInv'
  BY <1>1, NamedKeep, FlowsRest DEF Names, IInv
<1>3. ReqInv'
  BY <1>1, ReportKeeps, CallsKeep DEF Names, IInv, Applying, Statuses
<1> QED BY <1>2, <1>3 DEF IInv

LEMMA ReportsKeep == ASSUME IInv, NEW t \in Requests, Made(t) \/ Breaks(t) PROVE IInv'
<1>1. FlowInv'
  BY FlowsRest DEF Made, Breaks, IInv
<1>2. req[t].pc \in Applying /\ Quiet
      /\ \E status \in Statuses, upset \in BOOLEAN : Report(t, status, upset)
  BY DEF Made, Breaks, Applying, Statuses
<1>3. ReqInv'
  BY <1>2, ReportKeeps DEF IInv
<1> QED BY <1>1, <1>3 DEF IInv

-----------------------------------------------------------------------------
(* Saving the list.                                                        *)

LEMMA SavesKeep == ASSUME IInv, NEW t \in Requests, Saves(t) PROVE IInv'
<1>1. PICK rows \in Uploads, apply \in BOOLEAN : Opens(t, rows, apply)
  BY DEF Saves
<1> DEFINE r == [NoRequest EXCEPT !.pc = "opened", !.rows = rows, !.apply = apply, !.fd = "tmp"]
<1>2. rows \in Seq(Rows)
  BY ImportAssumption
<1>3. r \in ReqRec /\ r.pc = "opened" /\ r.fd = "tmp"
  BY <1>2, NoRequestOK DEF ReqRec, Pcs
<1>4. /\ req' = [req EXCEPT ![t] = r] /\ tmp' = Torn /\ file' = file
      /\ UNCHANGED tuya
      /\ hist' = [hist EXCEPT !.overlap = @ \/ \E u \in Requests : Saving(u)]
  BY <1>1 DEF Opens, Saves
<1> HIDE DEF r
<1>5. req'[t] = r /\ \A u \in Requests \ {t} : req'[u] = req[u]
  BY <1>4 DEF IInv, ReqInv, ReqType
<1>6. hist'.saved = hist.saved /\ (~hist'.overlap => ~hist.overlap /\ \A u \in Requests : ~Saving(u))
      /\ hist' \in [saved : ListFiles, overlap : BOOLEAN]
  <2>1. (hist.overlap \/ \E u \in Requests : Saving(u)) \in BOOLEAN
    BY DEF IInv, ReqInv, ReqType
  <2> QED BY <1>4, <2>1 DEF IInv, ReqInv, ReqType
<1>7. ReqType'
  BY <1>3, <1>4, <1>6 DEF IInv, ReqInv, ReqType, ListFiles
<1>8. \A u \in Requests : Driving(u)'
  BY <1>3, <1>5 DEF IInv, ReqInv, Driving, Applying
<1>9. Kept'
  BY <1>3, <1>4, <1>5, <1>6 DEF IInv, ReqInv, Kept, Saving
<1>10. FlowInv'
  BY <1>4, FlowsRest DEF IInv
<1> QED BY <1>7, <1>8, <1>9, <1>10 DEF IInv, ReqInv

LEMMA WritesKeep == ASSUME IInv, NEW t \in Requests, Writes(t) PROVE IInv'
<1> DEFINE r == [req[t] EXCEPT !.pc = "written", !.fd = "none"]
<1>1. req[t] \in ReqRec /\ req[t].pc = "opened" /\ req[t].rows \in Seq(Rows)
  BY DEF IInv, ReqInv, ReqType, ReqRec, Writes
<1>2. r \in ReqRec /\ r.pc = "written" /\ r.rows = req[t].rows
  BY <1>1 DEF ReqRec, Pcs
<1>3. req' = [req EXCEPT ![t] = r] /\ UNCHANGED <<tuya, hist>>
  BY <1>1 DEF Writes, IInv, ReqInv, ReqType
<1> HIDE DEF r
<1>4. req'[t] = r /\ \A u \in Requests \ {t} : req'[u] = req[u]
  BY <1>3 DEF IInv, ReqInv, ReqType
<1>5. \A old : Over(old, req[t].rows) \subseteq ListFiles
  BY <1>1 DEF Over, ListFiles
<1>6. tmp' \in ListFiles /\ file' \in ListFiles
  BY <1>5 DEF Writes, IInv, ReqInv, ReqType
<1>7. ReqType'
  BY <1>2, <1>3, <1>6 DEF IInv, ReqInv, ReqType
<1>8. \A u \in Requests : Driving(u)'
  BY <1>2, <1>4 DEF IInv, ReqInv, Driving, Applying
<1>9. ASSUME ~hist.overlap PROVE file' = file /\ tmp' = req[t].rows
  <2>1. req[t].fd = "tmp" /\ tmp = Torn
    BY <1>1, <1>9 DEF IInv, ReqInv, Kept
  <2>2. Over(tmp, req[t].rows) = {req[t].rows}
    BY <2>1 DEF Over
  <2> QED BY <2>1, <2>2 DEF Writes
<1>10. Kept'
  BY <1>1, <1>2, <1>3, <1>4, <1>9 DEF IInv, ReqInv, Kept, Saving
<1>11. FlowInv'
  BY <1>3, FlowsRest DEF IInv
<1> QED BY <1>7, <1>8, <1>10, <1>11 DEF IInv, ReqInv

LEMMA RepliedOK ==
    ASSUME NEW r \in ReqRec
    PROVE  /\ Replied(r) \in ReqRec /\ Replied(r).pc \in {"check", "end"}
           /\ (Replied(r).pc = "check" => Replied(r).rows # <<>>)
<1>1. CASE r.apply
  BY <1>1, RowOK DEF Replied
<1>2. CASE ~r.apply
  <2>1. <<>> \in Seq(Rows)
    OBVIOUS
  <2> QED BY <1>2, <2>1 DEF Replied, ReqRec, Pcs
<1> QED BY <1>1, <1>2

LEMMA ReplacesKeep == ASSUME IInv, NEW t \in Requests, Replaces(t) PROVE IInv'
<1>1. /\ UNCHANGED tuya /\ tmp' = None /\ req[t].pc = "written"
      /\ \A u \in Requests : req[u] \in ReqRec
      /\ req[t].rows \in Seq(Rows) /\ req[t].rows # None
  BY ImportAssumption DEF IInv, ReqInv, ReqType, ReqRec, Replaces
<1>2. FlowInv'
  BY <1>1, FlowsRest DEF IInv
<1>3. CASE tmp = None
  <2> DEFINE r == [NoRequest EXCEPT !.pc = "end"]
  <2>1. r \in ReqRec /\ r.pc = "end"
    BY NoRequestOK DEF ReqRec, Pcs
  <2>2. req' = [req EXCEPT ![t] = r] /\ UNCHANGED <<file, hist>>
    BY <1>3 DEF Replaces
  <2> HIDE DEF r
  <2>3. hist.overlap
    BY <1>1, <1>3 DEF IInv, ReqInv, Kept
  <2>4. req'[t] = r /\ \A u \in Requests \ {t} : req'[u] = req[u]
    BY <2>2 DEF IInv, ReqInv, ReqType
  <2>5. ReqType'
    BY <1>1, <2>1, <2>2 DEF IInv, ReqInv, ReqType, ListFiles
  <2>6. \A u \in Requests : Driving(u)'
    BY <2>1, <2>4 DEF IInv, ReqInv, Driving, Applying
  <2>7. Kept'
    BY <2>2, <2>3 DEF Kept
  <2> QED BY <1>2, <2>5, <2>6, <2>7 DEF IInv, ReqInv
<1>4. CASE tmp # None
  <2> DEFINE moved(fd) == CASE fd = "tmp" -> "file" [] fd = "file" -> "none" [] OTHER -> fd
  <2>1. /\ file' = tmp /\ hist' = [hist EXCEPT !.saved = req[t].rows]
        /\ req' = [u \in Requests |->
               IF u = t THEN Replied(req[t]) ELSE [req[u] EXCEPT !.fd = moved(req[u].fd)]]
    BY <1>4 DEF Replaces
  <2>2. \A u \in Requests : moved(req[u].fd) \in {"none", "tmp", "file"}
    BY <1>1 DEF ReqRec
  <2> HIDE DEF moved
  <2>3. /\ req'[t] \in ReqRec /\ req'[t].pc \in {"check", "end"}
        /\ (req'[t].pc = "check" => req'[t].rows # <<>>)
    BY <1>1, <2>1, RepliedOK
  <2>4. ASSUME NEW u \in Requests \ {t}
        PROVE  req'[u] \in ReqRec /\ req'[u].pc = req[u].pc /\ req'[u].rows = req[u].rows /\ req'[u].flow = req[u].flow
    <3>1. PICK fd \in {"none", "tmp", "file"} : fd = moved(req[u].fd)
      BY <2>2
    <3>2. req'[u] = [req[u] EXCEPT !.fd = fd]
      BY <2>1, <3>1
    <3>3. req[u] \in ReqRec
      BY <1>1
    <3> QED BY <3>2, <3>3 DEF ReqRec
  <2>5. hist' \in [saved : ListFiles, overlap : BOOLEAN] /\ hist'.saved = req[t].rows /\ hist'.overlap = hist.overlap
    BY <1>1, <2>1 DEF IInv, ReqInv, ReqType, ListFiles
  <2>6. ReqType'
    <3>1. req' \in [Requests -> ReqRec]
      BY <2>1, <2>3, <2>4
    <3> QED BY <1>1, <2>1, <2>5, <3>1 DEF IInv, ReqInv, ReqType, ListFiles
  <2>7. \A u \in Requests : Driving(u)'
    BY <2>3, <2>4 DEF IInv, ReqInv, Driving, Applying
  <2>8. ASSUME ~hist.overlap PROVE file' = req[t].rows /\ \A u \in Requests \ {t} : ~Saving(u)
    BY <1>1, <2>1, <2>8 DEF IInv, ReqInv, Kept, Saving
  <2>9. Kept'
    BY <2>3, <2>4, <2>5, <2>8 DEF Kept, Saving
  <2> QED BY <1>2, <2>6, <2>7, <2>9 DEF IInv, ReqInv
<1> QED BY <1>3, <1>4

LEMMA AppliesKeep == ASSUME IInv, NEW t \in Requests, Applies(t) PROVE IInv'
<1> DEFINE r == [NoRequest EXCEPT !.rows = Loaded, !.apply = TRUE]
<1>1. Loaded \in Seq(Rows)
  <2>1. <<>> \in Seq(Rows)
    OBVIOUS
  <2> QED BY <2>1 DEF Loaded, IInv, ReqInv, ReqType, ListFiles
<1>2. r \in ReqRec
  BY <1>1, NoRequestOK DEF ReqRec
<1>3. req' = [req EXCEPT ![t] = Row(r)] /\ UNCHANGED <<tuya, file, tmp, hist>>
  BY DEF Applies
<1> HIDE DEF r
<1>4. ReqInv'
  BY <1>2, <1>3, RowOK, AppliedKeeps DEF IInv, Applying
<1>5. FlowInv'
  BY <1>3, FlowsRest DEF IInv
<1> QED BY <1>4, <1>5 DEF IInv

LEMMA ClearsKeep == ASSUME IInv, Clears PROVE IInv'
<1>1. UNCHANGED <<tuya, tmp>> /\ file' = None /\ hist' = [hist EXCEPT !.saved = None]
  BY DEF Clears
<1>2. ASSUME NEW u \in Requests
      PROVE  /\ req'[u] \in ReqRec /\ req'[u].pc = req[u].pc /\ req'[u].rows = req[u].rows
             /\ req'[u].flow = req[u].flow /\ (req[u].fd = "tmp" => req'[u].fd = "tmp")
  <2>1. req[u] \in ReqRec /\ req'[u] = [req[u] EXCEPT !.fd = IF req[u].fd = "file" THEN "none" ELSE req[u].fd]
    BY <1>2 DEF Clears, IInv, ReqInv, ReqType
  <2>2. (IF req[u].fd = "file" THEN "none" ELSE req[u].fd) \in {"none", "tmp", "file"}
    BY <2>1 DEF ReqRec
  <2>3. PICK fd \in {"none", "tmp", "file"} :
            fd = (IF req[u].fd = "file" THEN "none" ELSE req[u].fd)
    BY <2>2
  <2>4. req'[u] = [req[u] EXCEPT !.fd = fd]
    BY <2>1, <2>3
  <2>5. req[u].fd = "tmp" => fd = "tmp"
    BY <2>3
  <2>6. req[u] \in ReqRec
    BY <2>1
  <2> QED BY <2>4, <2>5, <2>6 DEF ReqRec
<1>3. hist'.saved = None /\ hist'.overlap = hist.overlap /\ hist' \in [saved : ListFiles, overlap : BOOLEAN]
  BY <1>1 DEF IInv, ReqInv, ReqType, ListFiles
<1>4. ReqType'
  <2>1. req' \in [Requests -> ReqRec]
    BY <1>2 DEF Clears
  <2> QED BY <1>1, <1>3, <2>1 DEF IInv, ReqInv, ReqType, ListFiles
<1>5. \A u \in Requests : Driving(u)'
  BY <1>2 DEF IInv, ReqInv, Driving
<1>6. Kept'
  BY <1>1, <1>2, <1>3 DEF IInv, ReqInv, Kept, Saving
<1>7. FlowInv'
  BY <1>1, FlowsRest DEF IInv
<1> QED BY <1>4, <1>5, <1>6, <1>7 DEF IInv, ReqInv

LEMMA ImportRestartsKeep == ASSUME IInv, ImportRestarts PROVE IInv'
<1>1. UNCHANGED <<tuya, file, tmp, hist>>
  BY DEF ImportRestarts
<1>2. [NoRequest EXCEPT !.pc = "end"] \in ReqRec /\ [NoRequest EXCEPT !.pc = "end"].pc = "end"
  BY NoRequestOK DEF ReqRec, Pcs
<1>3. req' \in [Requests -> ReqRec] /\ \A u \in Requests : req'[u].pc \in {"idle", "end"}
  BY <1>2, NoRequestOK DEF ImportRestarts
<1>4. ReqType' /\ (\A u \in Requests : Driving(u)') /\ Kept'
  BY <1>1, <1>3 DEF IInv, ReqInv, ReqType, Driving, Applying, Kept, Saving
<1>5. FlowInv'
  BY <1>1, FlowsRest DEF IInv
<1> QED BY <1>4, <1>5 DEF IInv, ReqInv

LEMMA RequestsRest == ASSUME ReqInv, UNCHANGED <<file, tmp, req, hist>> PROVE ReqInv'
BY DEF ReqInv, ReqType, Driving, Kept, Saving

-----------------------------------------------------------------------------
LEMMA Initial == Init => IInv
<1> SUFFICES ASSUME Init PROVE IInv
  OBVIOUS
<1>1. FlowInv
  BY FlowsStart DEF Init
<1>2. ReqInv
  BY NoRequestOK DEF Init, ReqInv, ReqType, Driving, Applying, Kept, Saving, ListFiles
<1> QED BY <1>1, <1>2 DEF IInv

LEMMA Inductive == IInv /\ [Next]_vars => IInv'
<1> SUFFICES ASSUME IInv, [Next]_vars PROVE IInv'
  OBVIOUS
<1>1. CASE UNCHANGED vars
  BY <1>1, FlowsRest, RequestsRest DEF vars, IInv
<1>2. ASSUME NEW t \in Requests,
             \/ Saves(t) \/ Writes(t) \/ Replaces(t) \/ Applies(t)
             \/ Checks(t) \/ CreatesFlow(t) \/ GoesManual(t) \/ Connects(t)
             \/ \E good \in BOOLEAN : Connected(t, good)
             \/ Types(t) \/ Names(t) \/ Made(t) \/ Breaks(t)
      PROVE  IInv'
  BY <1>2, SavesKeep, WritesKeep, ReplacesKeep, AppliesKeep, ChecksKeep, CreatesFlowKeep, GoesManualKeep,
     ConnectsKeep, ConnectedKeeps, TypesKeep, NamesKeep, ReportsKeep
<1>3. CASE Clears \/ ImportRestarts
  BY <1>3, ClearsKeep, ImportRestartsKeep
<1>4. CASE Upsets /\ UNCHANGED <<file, tmp, req, hist>>
  BY <1>4, UpsetsKeep, RequestsRest DEF IInv
<1>5. CASE (\E f \in Flows : ~Driven(f) /\ Uses(f)) /\ UNCHANGED <<file, tmp, req, upsets, hist>>
  BY <1>5, UsesKeep, RequestsRest DEF IInv
<1>6. CASE Runs /\ UNCHANGED <<file, tmp, req, upsets, hist>>
  BY <1>6, RunsKeep, RequestsRest DEF IInv
<1> QED BY <1>1, <1>2, <1>3, <1>4, <1>5, <1>6 DEF Next

LEMMA Invariance == Spec => []IInv
<1>1. Init => IInv
  BY Initial
<1>2. IInv /\ [Next]_vars => IInv'
  BY Inductive
<1> QED BY <1>1, <1>2, PTL DEF Spec

\* However many users, requests and scans add devices, no two config flows go
\* on with one id and none with the id of an entry (config_flow.py).
THEOREM FlowsAlone == Spec => []OneEach
<1>1. IInv => OneEach
  BY DEF IInv, FlowInv, OneEach, Alone, Tested
<1> QED BY <1>1, Invariance, PTL

\* A device polls on once no test of it runs (config_flow.py, device.py).
THEOREM PausesEnd == Spec => []PauseEnds
<1>1. IInv => PauseEnds
  BY DEF IInv, FlowInv, PauseEnds, Held
<1> QED BY <1>1, Invariance, PTL

\* The list of the import page is the last one saved, unless two saves overlap
\* (tuya_import_ui.py).
THEOREM KeepsQueue == Spec => []QueueKept
<1>1. IInv => QueueKept
  BY DEF IInv, ReqInv, QueueKept, Kept
<1> QED BY <1>1, Invariance, PTL

-----------------------------------------------------------------------------
(* Rows that get their entry.                                              *)

\* The step of the flow that each part of an application finds.
Course == [manual |-> "user", local |-> "local", wait |-> "test", type |-> "type", name |-> "name"]

\* Of the flows fs, the one that request r drives is where r left it.
InCourse(r, fs) ==
    /\ r.pc \in DOMAIN Course => r.flow \in Flows /\ fs[r.flow].step = Course[r.pc]
    /\ r.pc \in {"wait", "type", "name"} => fs[r.flow].id = Head(r.rows).id

Good(d) == d.row.key # None /\ d.row.key \in Options[d.row.id] /\ ~d.upset =>
               d.status \in {"created", "exists"}
AllGood(out) == \A n \in DOMAIN out : Good(out[n])

\* No flow is driven by two requests, and none is raised again.
Driven1 ==
    /\ \A t, u \in Requests : t # u /\ req[t].flow = req[u].flow => req[t].flow = 0
    /\ \A t \in Requests : req[t].flow \in Flows => flow[req[t].flow].step # "none"

CalmInv ==
    /\ upsets \in Nat /\ upsets <= MaxUpsets
    /\ upsets = MaxUpsets =>
           /\ Driven1
           /\ \A t \in Requests : InCourse(req[t], flow) /\ AllGood(req[t].out)

LEMMA AppendGood ==
    ASSUME NEW S, NEW out \in Seq(S), NEW d \in S, AllGood(out), Good(d)
    PROVE  AllGood(Append(out, d))
BY DEF AllGood

\* What a request may become: r, when the flows of others rest.
LEMMA CourseMoves ==
    ASSUME IInv, CalmInv, NEW t \in Requests, NEW r,
           req' = [req EXCEPT ![t] = r], UNCHANGED upsets,
           \A g \in Flows : g = req[t].flow \/ g = r.flow \/ flow[g].step = "none"
               \/ (flow'[g].step = flow[g].step /\ flow'[g].id = flow[g].id),
           r.flow \in {0, req[t].flow} \/ (r.flow \in Flows /\ flow[r.flow].step = "none"),
           upsets = MaxUpsets =>
               /\ r.flow \in Flows => flow'[r.flow].step # "none"
               /\ InCourse(r, flow')
               /\ AllGood(r.out)
    PROVE  CalmInv'
<1> SUFFICES ASSUME upsets = MaxUpsets
             PROVE  Driven1' /\ \A u \in Requests : InCourse(req'[u], flow') /\ AllGood(req'[u].out)
  BY DEF CalmInv, AllGood, Good
<1>0. Driven1 /\ \A u \in Requests : InCourse(req[u], flow) /\ AllGood(req[u].out)
  BY DEF CalmInv
<1>1. req'[t] = r /\ \A u \in Requests \ {t} : req'[u] = req[u]
  BY DEF IInv, ReqInv, ReqType
<1>2. 0 \notin Flows
  BY FlowAssumption
<1>3. ASSUME NEW u \in Requests \ {t}, req[u].flow \in Flows
      PROVE  /\ req[u].flow # r.flow
             /\ flow'[req[u].flow].step = flow[req[u].flow].step /\ flow[req[u].flow].step # "none"
             /\ flow'[req[u].flow].id = flow[req[u].flow].id
  <2>1. flow[req[u].flow].step # "none" /\ req[u].flow # 0 /\ req[u].flow # req[t].flow
    BY <1>0, <1>2, <1>3 DEF Driven1
  <2> QED BY <1>3, <2>1
<1>4. Driven1'
  <2>1. ASSUME NEW a \in Requests, NEW b \in Requests, a # b, req'[a].flow = req'[b].flow
        PROVE  req'[a].flow = 0
    <3>1. req[a].flow \in Flows \cup {0} /\ req[b].flow \in Flows \cup {0}
      BY DEF IInv, ReqInv, ReqType, ReqRec
    <3>2. CASE a # t /\ b # t
      BY <1>0, <1>1, <2>1, <3>2 DEF Driven1
    <3>3. CASE a = t
      BY <1>1, <1>3, <2>1, <3>1, <3>3
    <3>4. CASE b = t
      BY <1>1, <1>3, <2>1, <3>1, <3>4
    <3> QED BY <3>2, <3>3, <3>4
  <2>2. ASSUME NEW a \in Requests, req'[a].flow \in Flows PROVE flow'[req'[a].flow].step # "none"
    BY <1>1, <1>3, <2>2
  <2> QED BY <2>1, <2>2 DEF Driven1
<1>5. ASSUME NEW u \in Requests PROVE InCourse(req'[u], flow') /\ AllGood(req'[u].out)
  <2>1. CASE u = t
    BY <1>1, <2>1
  <2>2. CASE u # t
    <3>1. req'[u] = req[u] /\ InCourse(req[u], flow) /\ AllGood(req[u].out)
      BY <1>0, <1>1, <2>2
    <3>2. req[u].pc \in {"wait", "type", "name"} => req[u].flow \in Flows
      BY <3>1 DEF InCourse, Course
    <3> QED BY <1>3, <2>2, <3>1, <3>2 DEF InCourse
  <2> QED BY <2>1, <2>2
<1> QED BY <1>4, <1>5

\* A row is done, with a good report.
LEMMA ReportCalm ==
    ASSUME IInv, CalmInv, NEW t \in Requests, req[t].pc \in Applying, NEW status \in Statuses,
           NEW upset \in BOOLEAN, Report(t, status, upset), UNCHANGED upsets,
           \A g \in Flows : g = req[t].flow
               \/ (flow'[g].step = flow[g].step /\ flow'[g].id = flow[g].id),
           upsets = MaxUpsets => Good([row |-> Head(req[t].rows), status |-> status, upset |-> upset])
    PROVE  CalmInv'
<1> DEFINE d == [row |-> Head(req[t].rows), status |-> status, upset |-> upset]
           DoneRec == [row : Rows, status : Statuses, upset : BOOLEAN]
           out == Append(req[t].out, d)
           s == [req[t] EXCEPT !.rows = Tail(req[t].rows), !.flow = 0, !.out = out]
           r == Row(s)
<1>1. req[t] \in ReqRec /\ req[t].rows # <<>>
  BY DEF IInv, ReqInv, ReqType, Driving
<1>2. req[t].rows \in Seq(Rows) /\ req[t].out \in Seq(DoneRec)
  BY <1>1 DEF ReqRec
<1>3. d \in DoneRec
  <2>1. Head(req[t].rows) \in Rows
    BY <1>1, <1>2
  <2> QED BY <2>1
<1>4. req' = [req EXCEPT ![t] = r]
  BY DEF Report
<1> HIDE DEF d, DoneRec
<1>5. upsets = MaxUpsets => AllGood(out)
  <2>1. upsets = MaxUpsets => AllGood(req[t].out) /\ Good(d)
    BY DEF CalmInv, d
  <2> QED BY <1>2, <1>3, <2>1, AppendGood
<1> HIDE DEF out
<1>6. s.flow = 0 /\ s.out = out
  BY <1>1 DEF ReqRec
<1> HIDE DEF s
<1>7. r.flow = 0 /\ r.out = out /\ r.pc \in {"check", "end"}
  BY <1>6 DEF Row
<1> HIDE DEF r
<1>8. InCourse(r, flow')
  BY <1>7 DEF InCourse, Course
<1>9. 0 \notin Flows
  BY FlowAssumption
<1> QED BY <1>4, <1>5, <1>7, <1>8, <1>9, CourseMoves

\* Home Assistant is called, and its flow has gone where the next call expects it.
LEMMA CallsCalm ==
    ASSUME IInv, CalmInv, NEW t \in Requests, NEW pc, Calls(t, pc), UNCHANGED upsets,
           \A g \in Flows : g = req[t].flow
               \/ (flow'[g].step = flow[g].step /\ flow'[g].id = flow[g].id),
           upsets = MaxUpsets /\ req[t].flow \in Flows => flow'[req[t].flow].step # "none",
           upsets = MaxUpsets /\ pc \in DOMAIN Course =>
               /\ req[t].flow \in Flows /\ flow'[req[t].flow].step = Course[pc]
               /\ pc \in {"wait", "type", "name"} => flow'[req[t].flow].id = Id(t)
    PROVE  CalmInv'
<1> DEFINE r == [req[t] EXCEPT !.pc = pc]
<1>1. req' = [req EXCEPT ![t] = r]
  BY DEF Calls
<1>2. r.pc = pc /\ r.flow = req[t].flow /\ r.rows = req[t].rows /\ r.out = req[t].out
  BY DEF IInv, ReqInv, ReqType, ReqRec
<1> HIDE DEF r
<1>3. upsets = MaxUpsets => InCourse(r, flow')
  BY <1>2 DEF InCourse, Course, Id
<1>4. upsets = MaxUpsets => AllGood(r.out)
  BY <1>2 DEF CalmInv
<1> QED BY <1>1, <1>2, <1>3, <1>4, CourseMoves

\* Of the steps of a flow, only its own state changes.
LEMMA OthersRest ==
    ASSUME FlowInv, NEW f \in Flows,
           \/ Uses(f)
           \/ \E i \in Ids : Tests(f, i)
           \/ \E good : TestEnds(f, good)
           \/ \E k : SelectsType(f, k)
    PROVE  \A g \in Flows \ {f} : flow'[g] = flow[g]
<1>1. flow \in [Flows -> FlowRec]
  BY DEF FlowInv, FlowType
<1>2. (\E r : flow' = [flow EXCEPT ![f] = r]) => \A g \in Flows \ {f} : flow'[g] = flow[g]
  BY <1>1
<1>3. \/ Creates(f) \/ Manual(f) \/ GetsQrCode(f) \/ Searches(f) \/ Named(f) \/ Dismisses(f)
      \/ \E b : UsesCloud(f, b) \/ Scans(f, b) \/ TestEnds(f, b)
      \/ \E i : Tests(f, i) \/ \E h : ChoosesDevice(f, i, h)
      \/ \E k : SelectsType(f, k)
  BY DEF Uses
<1>4. Creates(f) \/ Manual(f) \/ GetsQrCode(f) \/ Searches(f) \/ Named(f) \/ Dismisses(f) =>
          \A g \in Flows \ {f} : flow'[g] = flow[g]
  BY <1>1 DEF Creates, Manual, GetsQrCode, Searches, Named, Dismisses, Goes
<1>5. ASSUME NEW b, UsesCloud(f, b) \/ Scans(f, b) \/ TestEnds(f, b)
      PROVE  \A g \in Flows \ {f} : flow'[g] = flow[g]
  BY <1>1, <1>2, <1>5 DEF UsesCloud, Scans, TestEnds
<1>6. ASSUME NEW i, Tests(f, i) \/ \E h : ChoosesDevice(f, i, h)
      PROVE  \A g \in Flows \ {f} : flow'[g] = flow[g]
  BY <1>1, <1>6 DEF Tests, ChoosesDevice
<1>7. ASSUME NEW k, SelectsType(f, k)
      PROVE  \A g \in Flows \ {f} : flow'[g] = flow[g]
  BY <1>1, <1>7 DEF SelectsType
<1> QED BY <1>3, <1>4, <1>5, <1>6, <1>7

\* Where the flow of a request is, while nothing has been upset.
LEMMA Finds ==
    ASSUME IInv, CalmInv, upsets = MaxUpsets, NEW t \in Requests, req[t].pc \in DOMAIN Course
    PROVE  /\ req[t].flow \in Flows /\ Step(t) = Course[req[t].pc] /\ flow[req[t].flow] \in FlowRec
           /\ req[t].pc \in {"wait", "type", "name"} => flow[req[t].flow].id = Id(t)
BY DEF IInv, FlowInv, FlowType, CalmInv, InCourse, Step, Id

LEMMA ChecksCalm == ASSUME IInv, CalmInv, NEW t \in Requests, Checks(t) PROVE CalmInv'
<1>1. req[t].pc = "check" /\ UNCHANGED <<tuya, upsets>> /\ UNCHANGED flow
  BY DEF Checks, Quiet, tuya
<1>2. CASE Report(t, "exists", FALSE)
  <2>1. Good([row |-> Head(req[t].rows), status |-> "exists", upset |-> FALSE])
    BY DEF Good
  <2>2. "exists" \in Statuses /\ req[t].pc \in Applying
    BY <1>1 DEF Statuses, Applying
  <2> QED BY <1>1, <1>2, <2>1, <2>2, ReportCalm
<1>3. CASE Calls(t, "create")
  <2>1. upsets = MaxUpsets /\ req[t].flow \in Flows => flow'[req[t].flow].step # "none"
    BY <1>1 DEF CalmInv, Driven1
  <2>2. "create" \notin DOMAIN Course
    BY DEF Course
  <2> QED BY <1>1, <1>3, <2>1, <2>2, CallsCalm
<1> QED BY <1>2, <1>3 DEF Checks

LEMMA CreatesFlowCalm == ASSUME IInv, CalmInv, NEW t \in Requests, CreatesFlow(t) PROVE CalmInv'
<1>1. PICK f \in Flows : Creates(f) /\ req' = [req EXCEPT ![t].flow = f, ![t].pc = "manual"]
  BY DEF CreatesFlow
<1> DEFINE r == [req[t] EXCEPT !.flow = f, !.pc = "manual"]
<1>2. req[t] \in ReqRec /\ UNCHANGED upsets /\ flow \in [Flows -> FlowRec]
  BY DEF IInv, ReqInv, ReqType, CreatesFlow, Quiet, FlowInv, FlowType
<1>3. r.pc = "manual" /\ r.flow = f /\ r.out = req[t].out
  BY <1>2 DEF ReqRec
<1>4. req' = [req EXCEPT ![t] = r]
  BY <1>1 DEF IInv, ReqInv, ReqType
<1>5. /\ flow[f].step = "none" /\ flow'[f].step = "user"
      /\ \A g \in Flows \ {f} : flow'[g] = flow[g]
  BY <1>1, <1>2 DEF Creates, Next1, Goes, FlowRec
<1> HIDE DEF r
<1>6. InCourse(r, flow')
  BY <1>3, <1>5 DEF InCourse, Course
<1>7. upsets = MaxUpsets => AllGood(r.out)
  BY <1>3 DEF CalmInv
<1> QED BY <1>2, <1>3, <1>4, <1>5, <1>6, <1>7, CourseMoves

LEMMA GoesManualCalm == ASSUME IInv, CalmInv, NEW t \in Requests, GoesManual(t) PROVE CalmInv'
<1>1. req[t].pc = "manual" /\ UNCHANGED upsets /\ req[t].flow \in Flows /\ flow \in [Flows -> FlowRec]
  BY DEF GoesManual, Quiet, IInv, ReqInv, Driving, Applying, FlowInv, FlowType
<1>2. upsets = MaxUpsets => Step(t) = "user"
  BY <1>1, Finds DEF Course
<1>3. CASE Manual(req[t].flow) /\ Calls(t, "local")
  <2>1. flow'[req[t].flow].step = "local"
    <3>1. flow' = [flow EXCEPT ![req[t].flow] = Local(flow[req[t].flow])]
      BY <1>3 DEF Manual
    <3> QED BY <1>1, <3>1 DEF Local, FlowRec
  <2>2. \A g \in Flows \ {req[t].flow} : flow'[g] = flow[g]
    BY <1>1, <1>3, OthersRest DEF Uses, IInv
  <2>3. "local" \in DOMAIN Course /\ Course["local"] = "local" /\ "local" \notin {"wait", "type", "name"}
    BY DEF Course
  <2> QED BY <1>1, <1>3, <2>1, <2>2, <2>3, CallsCalm
<1>4. CASE Report(t, "error", FALSE) /\ UNCHANGED tuya /\ Step(t) # "user"
  <2>1. UNCHANGED flow /\ "error" \in Statuses /\ req[t].pc \in Applying
    BY <1>1, <1>4 DEF tuya, Statuses, Applying
  <2> QED BY <1>1, <1>2, <1>4, <2>1, ReportCalm
<1> QED BY <1>3, <1>4 DEF GoesManual

LEMMA ConnectsCalm == ASSUME IInv, CalmInv, NEW t \in Requests, Connects(t) PROVE CalmInv'
<1>1. req[t].pc = "local" /\ UNCHANGED upsets /\ req[t].flow \in Flows /\ flow \in [Flows -> FlowRec]
  BY DEF Connects, Quiet, IInv, ReqInv, Driving, Applying, FlowInv, FlowType
<1>2. upsets = MaxUpsets => Step(t) = "local"
  BY <1>1, Finds DEF Course
<1>3. CASE Tests(req[t].flow, Id(t)) /\ Calls(t, "wait")
  <2>1. flow'[req[t].flow].step = "test" /\ flow'[req[t].flow].id = Id(t)
        /\ \A g \in Flows \ {req[t].flow} : flow'[g] = flow[g]
    BY <1>1, <1>3 DEF Tests, FlowRec
  <2>2. Course["wait"] = "test" /\ "test" # "none"
    BY DEF Course
  <2> QED BY <1>1, <1>3, <2>1, <2>2, CallsCalm
<1>4. CASE Report(t, "error", FALSE) /\ UNCHANGED tuya /\ Step(t) # "local"
  <2>1. UNCHANGED flow /\ "error" \in Statuses /\ req[t].pc \in Applying
    BY <1>1, <1>4 DEF tuya, Statuses, Applying
  <2> QED BY <1>1, <1>2, <1>4, <2>1, ReportCalm
<1> QED BY <1>3, <1>4 DEF Connects

LEMMA ConnectedCalm ==
    ASSUME IInv, CalmInv, NEW t \in Requests, NEW good \in BOOLEAN, Connected(t, good) PROVE CalmInv'
<1> DEFINE f == req[t].flow
<1>1. req[t].pc = "wait" /\ UNCHANGED upsets /\ f \in Flows /\ flow \in [Flows -> FlowRec]
      /\ req[t].pc \in Applying
  BY DEF Connected, Quiet, IInv, ReqInv, Driving, Applying, FlowInv, FlowType
<1>2. upsets = MaxUpsets => Step(t) = "test" /\ flow[f].id = Id(t)
  BY <1>1, Finds DEF Course
<1>3. "error" \in Statuses /\ "exists" \in Statuses /\ "needs_manual" \in Statuses
  BY DEF Statuses
<1>4. CASE Step(t) # "test" /\ Report(t, "error", FALSE) /\ UNCHANGED tuya
  <2>1. UNCHANGED flow
    BY <1>4 DEF tuya
  <2> QED BY <1>1, <1>2, <1>3, <1>4, <2>1, ReportCalm
<1>5. CASE Step(t) = "test" /\ TestEnds(f, good)
  <2>1. \A g \in Flows \ {f} : flow'[g] = flow[g]
    BY <1>1, <1>5, OthersRest DEF IInv
  <2>2. CASE ~good /\ Report(t, "needs_manual", TRUE)
    <3>1. Good([row |-> Head(req[t].rows), status |-> "needs_manual", upset |-> TRUE])
      BY DEF Good
    <3> QED BY <1>1, <1>3, <2>1, <2>2, <3>1, ReportCalm
  <2>3. CASE Report(t, "exists", FALSE)
    <3>1. Good([row |-> Head(req[t].rows), status |-> "exists", upset |-> FALSE])
      BY DEF Good
    <3> QED BY <1>1, <1>3, <2>1, <2>3, <3>1, ReportCalm
  <2>4. CASE Options[Id(t)] = {} /\ Report(t, "error", FALSE)
    <3>1. Good([row |-> Head(req[t].rows), status |-> "error", upset |-> FALSE])
      BY <2>4 DEF Good, Id
    <3> QED BY <1>1, <1>3, <2>1, <2>4, <3>1, ReportCalm
  <2>5. CASE good /\ Unique(f, Id(t)) /\ Options[Id(t)] # {} /\ Calls(t, "type")
    <3> DEFINE i == flow[f].id
               r == [flow[f] EXCEPT !.holds = FALSE]
               s == [r EXCEPT !.step = "type", !.uid = i]
    <3>1. flow' = [flow EXCEPT ![f] =
             CASE ~good -> [r EXCEPT !.step = "local", !.id = None]
               [] good /\ (~Unique(f, i) \/ Options[i] = {}) -> Ended
               [] OTHER -> s]
      BY <1>5 DEF TestEnds
    <3>2. upsets = MaxUpsets => flow' = [flow EXCEPT ![f] = s]
      <4> SUFFICES ASSUME upsets = MaxUpsets PROVE flow' = [flow EXCEPT ![f] = s]
        OBVIOUS
      <4>1. i = Id(t)
        BY <1>2
      <4>2. ~(~good) /\ ~(good /\ (~Unique(f, i) \/ Options[i] = {}))
        BY <2>5, <4>1
      <4> HIDE DEF s, r, i
      <4> QED BY <3>1, <4>2
    <3>3. s.step = "type" /\ s.id = flow[f].id
      BY <1>1 DEF FlowRec
    <3> HIDE DEF s
    <3>4. upsets = MaxUpsets => flow'[f].step = "type" /\ flow'[f].id = Id(t)
      BY <1>1, <1>2, <3>2, <3>3
    <3>5. Course["type"] = "type" /\ "type" # "none"
      BY DEF Course
    <3> QED BY <1>1, <2>1, <2>5, <3>4, <3>5, CallsCalm
  <2> QED BY <1>5, <2>2, <2>3, <2>4, <2>5 DEF Connected
<1> QED BY <1>4, <1>5 DEF Connected

LEMMA TypesCalm == ASSUME IInv, CalmInv, NEW t \in Requests, Types(t) PROVE CalmInv'
<1> DEFINE f == req[t].flow
<1>1. req[t].pc = "type" /\ UNCHANGED upsets /\ f \in Flows /\ flow \in [Flows -> FlowRec]
      /\ req[t].pc \in Applying
  BY DEF Types, Quiet, IInv, ReqInv, Driving, Applying, FlowInv, FlowType
<1>2. upsets = MaxUpsets => Step(t) = "type" /\ flow[f].id = Id(t)
  BY <1>1, Finds DEF Course
<1>3. "error" \in Statuses /\ "needs_manual" \in Statuses
  BY DEF Statuses
<1>t. UNCHANGED tuya => UNCHANGED flow
  BY DEF tuya
<1>4. CASE Step(t) # "type" /\ Report(t, "error", FALSE) /\ UNCHANGED tuya
  BY <1>1, <1>2, <1>3, <1>4, <1>t, ReportCalm
<1>5. CASE Key(t) = None /\ Report(t, "needs_manual", FALSE) /\ UNCHANGED tuya
  <2>1. Good([row |-> Head(req[t].rows), status |-> "needs_manual", upset |-> FALSE])
    BY <1>5 DEF Good, Key
  <2> QED BY <1>1, <1>3, <1>5, <1>t, <2>1, ReportCalm
<1>6. CASE Sent(Key(t)) \cap Options[Id(t)] = {} /\ Report(t, "error", FALSE) /\ UNCHANGED tuya
  \* The key as it stands is among what is sent.
  <2>1. Key(t) \in Sent(Key(t))
    BY DEF Sent
  <2>2. Good([row |-> Head(req[t].rows), status |-> "error", upset |-> FALSE])
    BY <1>6, <2>1 DEF Good, Key, Id
  <2> QED BY <1>1, <1>3, <1>6, <1>t, <2>2, ReportCalm
<1>7. CASE (\E k \in Sent(Key(t)) : SelectsType(f, k)) /\ Calls(t, "name")
  <2>1. PICK k : SelectsType(f, k)
    BY <1>7
  <2> DEFINE r == [flow[f] EXCEPT !.step = "name", !.key = k]
  <2>2. flow' = [flow EXCEPT ![f] = r]
    BY <1>1, <2>1 DEF SelectsType
  <2>3. r.step = "name" /\ r.id = flow[f].id
    BY <1>1 DEF FlowRec
  <2> HIDE DEF r
  <2>4. flow'[f].step = "name" /\ flow'[f].id = flow[f].id /\ \A g \in Flows \ {f} : flow'[g] = flow[g]
    BY <1>1, <2>2, <2>3
  <2>5. Course["name"] = "name" /\ "name" # "none"
    BY DEF Course
  <2> QED BY <1>1, <1>2, <1>7, <2>4, <2>5, CallsCalm
<1> QED BY <1>4, <1>5, <1>6, <1>7 DEF Types

LEMMA NamesCalm == ASSUME IInv, CalmInv, NEW t \in Requests, Names(t) PROVE CalmInv'
<1> DEFINE f == req[t].flow
<1>1. req[t].pc = "name" /\ UNCHANGED upsets /\ f \in Flows /\ flow \in [Flows -> FlowRec]
      /\ req[t].pc \in Applying
  BY DEF Names, Quiet, IInv, ReqInv, Driving, Applying, FlowInv, FlowType
<1>2. upsets = MaxUpsets => Step(t) = "name"
  BY <1>1, Finds DEF Course
<1>3. CASE Named(f) /\ Calls(t, "made")
  <2>1. flow'[f].step = "end" /\ \A g \in Flows \ {f} : flow'[g] = flow[g]
    BY <1>1, <1>3, Forms DEF Named
  <2>2. "made" \notin DOMAIN Course
    BY DEF Course
  <2> QED BY <1>1, <1>3, <2>1, <2>2, CallsCalm
<1>4. CASE Step(t) # "name" /\ Report(t, "error", FALSE) /\ UNCHANGED tuya
  <2>1. UNCHANGED flow /\ "error" \in Statuses
    BY <1>4 DEF tuya, Statuses
  <2> QED BY <1>1, <1>2, <1>4, <2>1, ReportCalm
<1> QED BY <1>3, <1>4 DEF Names

LEMMA ReportsCalm == ASSUME IInv, CalmInv, NEW t \in Requests, Made(t) \/ Breaks(t) PROVE CalmInv'
<1>1. req[t].pc \in Applying /\ UNCHANGED <<flow, upsets>>
  BY DEF Made, Breaks, Quiet, tuya, Applying
<1>2. CASE Report(t, "created", FALSE)
  <2>1. Good([row |-> Head(req[t].rows), status |-> "created", upset |-> FALSE]) /\ "created" \in Statuses
    BY DEF Good, Statuses
  <2> QED BY <1>1, <1>2, <2>1, ReportCalm
<1>3. CASE Report(t, "error", TRUE)
  <2>1. Good([row |-> Head(req[t].rows), status |-> "error", upset |-> TRUE]) /\ "error" \in Statuses
    BY DEF Good, Statuses
  <2> QED BY <1>1, <1>3, <2>1, ReportCalm
<1> QED BY <1>2, <1>3 DEF Made, Breaks

\* A request that is not applying: it keeps its flow and its reports, or begins.
LEMMA ListCalm ==
    ASSUME IInv, CalmInv, NEW t \in Requests, NEW r,
           req' = [req EXCEPT ![t] = r], UNCHANGED <<flow, upsets>>,
           r.flow \in {0, req[t].flow}, r.out \in {<<>>, req[t].out},
           r.pc \notin DOMAIN Course
    PROVE  CalmInv'
<1>1. upsets = MaxUpsets => AllGood(r.out)
  BY DEF CalmInv, AllGood
<1>2. InCourse(r, flow')
  BY DEF InCourse, Course
<1>3. upsets = MaxUpsets => (r.flow \in Flows => flow'[r.flow].step # "none")
  BY FlowAssumption DEF CalmInv, Driven1
<1> QED BY <1>1, <1>2, <1>3, CourseMoves

LEMMA SavesCalm == ASSUME IInv, CalmInv, NEW t \in Requests, Saves(t) PROVE CalmInv'
<1>1. PICK rows \in Uploads, apply \in BOOLEAN : Opens(t, rows, apply)
  BY DEF Saves
<1> DEFINE r == [NoRequest EXCEPT !.pc = "opened", !.rows = rows, !.apply = apply, !.fd = "tmp"]
<1>2. req' = [req EXCEPT ![t] = r] /\ UNCHANGED <<flow, upsets>>
  BY <1>1 DEF Opens, Saves, tuya
<1>3. r.flow \in {0, req[t].flow} /\ r.out \in {<<>>, req[t].out} /\ r.pc = "opened"
  BY DEF NoRequest
<1> HIDE DEF r
<1>4. r.pc \notin DOMAIN Course
  BY <1>3 DEF Course
<1> QED BY <1>2, <1>3, <1>4, ListCalm

LEMMA WritesCalm == ASSUME IInv, CalmInv, NEW t \in Requests, Writes(t) PROVE CalmInv'
<1> DEFINE r == [req[t] EXCEPT !.pc = "written", !.fd = "none"]
<1>1. req' = [req EXCEPT ![t] = r] /\ UNCHANGED <<flow, upsets>>
  BY DEF Writes, IInv, ReqInv, ReqType, tuya
<1>2. r.flow \in {0, req[t].flow} /\ r.out \in {<<>>, req[t].out} /\ r.pc = "written"
  BY DEF IInv, ReqInv, ReqType, ReqRec
<1> HIDE DEF r
<1> QED BY <1>1, <1>2, ListCalm DEF Course

LEMMA AppliesCalm == ASSUME IInv, CalmInv, NEW t \in Requests, Applies(t) PROVE CalmInv'
<1> DEFINE s == [NoRequest EXCEPT !.rows = Loaded, !.apply = TRUE]
           r == Row(s)
<1>1. req' = [req EXCEPT ![t] = r] /\ UNCHANGED <<flow, upsets>>
  BY DEF Applies, tuya
<1>2. s \in ReqRec /\ s.flow = 0 /\ s.out = <<>>
  <2>1. <<>> \in Seq(Rows)
    OBVIOUS
  <2>2. Loaded \in Seq(Rows)
    BY <2>1 DEF Loaded, IInv, ReqInv, ReqType, ListFiles
  <2>3. s.flow = 0 /\ s.out = <<>>
    BY DEF NoRequest
  <2> QED BY <2>2, <2>3, NoRequestOK DEF ReqRec
<1> HIDE DEF s
<1>3. r.flow \in {0, req[t].flow} /\ r.out \in {<<>>, req[t].out} /\ r.pc \in {"check", "end"}
  BY <1>2 DEF Row, ReqRec
<1> HIDE DEF r
<1>4. r.pc \notin DOMAIN Course
  BY <1>3 DEF Course
<1> QED BY <1>1, <1>3, <1>4, ListCalm

\* The file of another request is moved under it; it goes on as it was.
LEMMA ReplacesCalm == ASSUME IInv, CalmInv, NEW t \in Requests, Replaces(t) PROVE CalmInv'
<1>1. UNCHANGED <<flow, upsets>> /\ \A u \in Requests : req[u] \in ReqRec
  BY DEF Replaces, tuya, IInv, ReqInv, ReqType
<1>2. CASE req' = [req EXCEPT ![t] = [NoRequest EXCEPT !.pc = "end"]]
  <2> DEFINE r == [NoRequest EXCEPT !.pc = "end"]
  <2>1. r.flow \in {0, req[t].flow} /\ r.out \in {<<>>, req[t].out} /\ r.pc = "end"
    BY DEF NoRequest
  <2>2. req' = [req EXCEPT ![t] = r]
    BY <1>2
  <2> HIDE DEF r
  <2>3. r.pc \notin DOMAIN Course
    BY <2>1 DEF Course
  <2> QED BY <1>1, <2>1, <2>2, <2>3, ListCalm
<1>3. ASSUME \A u \in Requests : req'[u].flow = req[u].flow /\ req'[u].out = req[u].out,
             \A u \in Requests \ {t} : req'[u].pc = req[u].pc /\ req'[u].rows = req[u].rows,
             req'[t].pc \in {"check", "end"}
      PROVE  CalmInv'
  <2> SUFFICES ASSUME upsets = MaxUpsets
               PROVE  Driven1' /\ \A u \in Requests : InCourse(req'[u], flow') /\ AllGood(req'[u].out)
    BY <1>1 DEF CalmInv, AllGood, Good
  <2>1. Driven1 /\ \A u \in Requests : InCourse(req[u], flow) /\ AllGood(req[u].out)
    BY DEF CalmInv
  <2>2. flow' = flow
    BY <1>1
  <2>3. Driven1'
    <3>1. \A u, v \in Requests : u # v /\ req'[u].flow = req'[v].flow => req'[u].flow = 0
      BY <1>3, <2>1 DEF Driven1
    <3>2. \A u \in Requests : req'[u].flow \in Flows => flow'[req'[u].flow].step # "none"
      BY <1>3, <2>1, <2>2 DEF Driven1
    <3> QED BY <3>1, <3>2 DEF Driven1
  <2>4. ASSUME NEW u \in Requests PROVE AllGood(req'[u].out)
    BY <1>3, <2>1
  <2>5. ASSUME NEW u \in Requests PROVE InCourse(req'[u], flow')
    <3>1. CASE u = t
      BY <1>3, <3>1 DEF InCourse, Course
    <3>2. CASE u # t
      <4>1. req'[u].flow = req[u].flow /\ req'[u].pc = req[u].pc /\ req'[u].rows = req[u].rows
        BY <1>3, <3>2
      <4> QED BY <4>1, <2>1, <2>2 DEF InCourse
    <3> QED BY <3>1, <3>2
  <2> QED BY <2>3, <2>4, <2>5
<1>4. CASE tmp # None
  <2> DEFINE moved(fd) == CASE fd = "tmp" -> "file" [] fd = "file" -> "none" [] OTHER -> fd
  <2>1. req' = [u \in Requests |-> IF u = t THEN Replied(req[t]) ELSE [req[u] EXCEPT !.fd = moved(req[u].fd)]]
    BY <1>4 DEF Replaces
  <2> HIDE DEF moved
  <2>2. ASSUME NEW u \in Requests, u # t
        PROVE  req'[u].flow = req[u].flow /\ req'[u].out = req[u].out /\ req'[u].pc = req[u].pc
               /\ req'[u].rows = req[u].rows
    BY <1>1, <2>1, <2>2 DEF ReqRec
  <2>3. req'[t].flow = req[t].flow /\ req'[t].out = req[t].out /\ req'[t].pc \in {"check", "end"}
    BY <1>1, <2>1 DEF Replied, Row, ReqRec
  <2>4. \A u \in Requests : req'[u].flow = req[u].flow /\ req'[u].out = req[u].out
    BY <2>2, <2>3
  <2> QED BY <1>3, <2>2, <2>3, <2>4
<1> QED BY <1>2, <1>4 DEF Replaces

\* Flows that no request drives, and what runs by itself.
LEMMA OthersCalm ==
    ASSUME IInv, CalmInv, UNCHANGED <<req, upsets>>,
           \/ \E f \in Flows : ~Driven(f) /\ Uses(f)
           \/ Runs
    PROVE  CalmInv'
<1> SUFFICES ASSUME upsets = MaxUpsets
             PROVE  Driven1' /\ \A u \in Requests : InCourse(req[u], flow') /\ AllGood(req[u].out)
  BY DEF CalmInv, AllGood, Good
<1>0. Driven1 /\ \A u \in Requests : InCourse(req[u], flow) /\ AllGood(req[u].out)
  BY DEF CalmInv
<1>1. flow \in [Flows -> FlowRec]
  BY DEF IInv, FlowInv, FlowType
<1>2. ASSUME NEW u \in Requests, req[u].flow \in Flows
      PROVE  /\ flow[req[u].flow].step # "none"
             /\ flow'[req[u].flow].step = flow[req[u].flow].step
             /\ flow'[req[u].flow].id = flow[req[u].flow].id
  <2> DEFINE g == req[u].flow
  <2>0. flow[g].step # "none" /\ g \in Flows
    BY <1>0, <1>2 DEF Driven1
  <2>1. CASE \E f \in Flows : ~Driven(f) /\ Uses(f)
    <3>1. PICK f \in Flows : ~Driven(f) /\ Uses(f)
      BY <2>1
    <3>2. g # f
      BY <3>1 DEF Driven
    <3>3. flow'[g] = flow[g]
      BY <2>0, <3>1, <3>2, OthersRest DEF IInv
    <3> QED BY <2>0, <3>3
  <2>2. CASE Runs
    <3>1. CASE UNCHANGED flow
      BY <2>0, <3>1
    <3>2. CASE \E i \in Ids, good \in BOOLEAN : OptionsTested(i, good)
      <4>1. PICK i \in Ids, good \in BOOLEAN : OptionsTested(i, good)
        BY <3>2
      <4>2. CASE Renewed(i)
        <5>1. flow'[g] = flow[g] \/ flow'[g] = [flow[g] EXCEPT !.holds = FALSE]
          BY <2>0, <4>2 DEF Renewed
        <5> QED BY <1>1, <2>0, <5>1 DEF FlowRec
      <4> QED BY <3>1, <4>1, <4>2 DEF OptionsTested
    <3>3. CASE \E d \in Devices : Discovers(d)
      <4>1. UNCHANGED flow \/ \E f \in Flows : Next1(f) /\ \E r : flow' = [flow EXCEPT ![f] = r]
        BY <3>3 DEF Discovers
      <4>2. ASSUME NEW f \in Flows, Next1(f), NEW r, flow' = [flow EXCEPT ![f] = r]
            PROVE  flow'[g] = flow[g]
        BY <1>1, <2>0, <4>2 DEF Next1
      <4> QED BY <2>0, <3>1, <4>1, <4>2
    <3> QED BY <2>2, <3>1, <3>2, <3>3 DEF Runs, ScanStarts, ScanReturns
  <2> QED BY <2>1, <2>2
<1>3. Driven1'
  BY <1>0, <1>2 DEF Driven1
<1>4. ASSUME NEW u \in Requests PROVE InCourse(req[u], flow')
  <2>1. req[u].pc \in {"wait", "type", "name"} => req[u].flow \in Flows
    BY <1>0 DEF InCourse, Course
  <2> QED BY <1>0, <1>2, <2>1 DEF InCourse
<1> QED BY <1>0, <1>3, <1>4

LEMMA CalmInit == Init => CalmInv
<1> SUFFICES ASSUME Init PROVE CalmInv
  OBVIOUS
<1>1. \A t \in Requests : req[t].flow = 0 /\ req[t].out = <<>> /\ req[t].pc = "idle"
  BY DEF Init, NoRequest
<1>2. Driven1
  BY <1>1, FlowAssumption DEF Driven1
<1>3. \A t \in Requests : InCourse(req[t], flow) /\ AllGood(req[t].out)
  BY <1>1 DEF InCourse, Course, AllGood
<1> QED BY <1>2, <1>3, ImportAssumption DEF Init, CalmInv

LEMMA CalmNext == IInv /\ CalmInv /\ [Next]_vars => CalmInv'
<1> SUFFICES ASSUME IInv, CalmInv, [Next]_vars PROVE CalmInv'
  OBVIOUS
<1>1. CASE UNCHANGED vars
  BY <1>1 DEF vars, tuya, CalmInv, Driven1, AllGood, Good, InCourse
<1>2. CASE upsets > 0 /\ upsets' = upsets - 1
  BY <1>2, ImportAssumption DEF CalmInv
<1>3. ASSUME NEW t \in Requests,
             \/ Saves(t) \/ Writes(t) \/ Replaces(t) \/ Applies(t)
             \/ Checks(t) \/ CreatesFlow(t) \/ GoesManual(t) \/ Connects(t)
             \/ \E good \in BOOLEAN : Connected(t, good)
             \/ Types(t) \/ Names(t) \/ Made(t) \/ Breaks(t)
      PROVE  CalmInv'
  BY <1>3, SavesCalm, WritesCalm, ReplacesCalm, AppliesCalm, ChecksCalm, CreatesFlowCalm, GoesManualCalm,
     ConnectsCalm, ConnectedCalm, TypesCalm, NamesCalm, ReportsCalm
<1>4. CASE (\E f \in Flows : ~Driven(f) /\ Uses(f)) /\ UNCHANGED <<file, tmp, req, upsets, hist>>
  BY <1>4, OthersCalm
<1>5. CASE Runs /\ UNCHANGED <<file, tmp, req, upsets, hist>>
  BY <1>5, OthersCalm
<1> QED BY <1>1, <1>2, <1>3, <1>4, <1>5 DEF Next, Clears, ImportRestarts

\* Whatever other rows, requests, users and scans there are: a row whose key the
\* form offers gets its entry, or finds one, unless its device did not answer, the
\* websocket broke, or Home Assistant or the container was upset.
THEOREM RowsCreate == Spec => []KeyedCreates
<1>1. Init => IInv /\ CalmInv
  BY Initial, CalmInit
<1>2. (IInv /\ CalmInv) /\ [Next]_vars => (IInv /\ CalmInv)'
  BY Inductive, CalmNext
<1>3. CalmInv => KeyedCreates
  <2> SUFFICES ASSUME CalmInv, NEW t \in Requests, NEW n \in DOMAIN req[t].out, upsets = MaxUpsets
               PROVE  Good(req[t].out[n])
    BY DEF KeyedCreates, Reports, Calm, Good
  <2> QED BY DEF CalmInv, AllGood
<1> QED BY <1>1, <1>2, <1>3, PTL DEF Spec
=============================================================================

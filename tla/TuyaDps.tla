------------------------------- MODULE TuyaDps -------------------------------
(***************************************************************************)
(* tuya_local/helpers/device_config.py: how the mapping rules of a device  *)
(* file turn the raw datapoints of a device into the values an entity      *)
(* shows, and a value that is set into the datapoints to send.             *)
(*                                                                         *)
(* d is the dps of an entity by name, q the raw value of each datapoint.   *)
(* A value is <<"n", number>>, <<"s", string>>, <<"b", boolean>>,          *)
(* <<"x", number>> (encoded, for masks) or Null.  A number is counted in   *)
(* 1/Unit, so that what has a scale is whole.                              *)
(*                                                                         *)
(* A mapping, a condition and a nested mapping are records of the same     *)
(* fields: dps, value, hidden, invalid, invert, scale, step, range,        *)
(* target, redirect, mirror, on (the constraint), conds and maps.  A field *)
(* that says nothing is Absent.  Text encodings, bitfields, times and      *)
(* rules that are available only at times are left out.                    *)
(***************************************************************************)
EXTENDS Integers, Sequences, FiniteSetsExt, Functions

CONSTANTS
    Entities,   \* entities of device files
    Unit,
    Absent,     \* no such rule
    Null,       \* no value
    Fails       \* an error is raised

VARIABLES
    entity,     \* an entity, and its device's datapoints
    device,
    last        \* what was set last, since the device changed, and what the
                \* masked settings were before (history)

vars == <<entity, device, last>>

Or(x, default) == IF x = Absent THEN default ELSE x
IsNumber(v) == v # Null /\ v[1] = "n"

Raw(d, n, q) == q[d[n].id]

\* One datapoint, and the datapoints of one beside those of another.
One(i, v) == [j \in {i} |-> v]
Over(s, t) == [i \in DOMAIN s \cup DOMAIN t |-> IF i \in DOMAIN s THEN s[i] ELSE t[i]]

-----------------------------------------------------------------------------
(* Finding the rule.                                                       *)

\* The first of those that fit, else the first of the near, else the last for all.
Chosen(rules, fit, near, all) ==
    IF fit # {} THEN rules[Min(fit)]
    ELSE IF near # {} THEN rules[Min(near)]
    ELSE IF all # {} THEN rules[Max(all)]
    ELSE Absent

\* _find_map_for_dps: the first that names the value, else the last for all.
MapForDps(d, n, v) ==
    LET maps == d[n].maps
    IN  Chosen(maps, {i \in DOMAIN maps : maps[i].dps = v}, {}, {i \in DOMAIN maps : maps[i].dps = Absent})

\* _equal_or_in
EqualOrIn(v, dps) == dps # Absent /\ v \in dps

Constraint(m, n) == Or(m.on, n)

HoldNow(d, n, q, m) == {i \in DOMAIN m.conds : EqualOrIn(Raw(d, Constraint(m, n), q), m.conds[i].dps)}

\* Mutant: the condition that holds, whatever is to be set.
ActiveNow(d, n, q, m, v) == Chosen(m.conds, {}, {}, HoldNow(d, n, q, m))

\* _active_condition: the first whose value is to be set, else the last that
\* holds now.
ActiveCondition(d, n, q, m, v) ==
    Chosen(m.conds, {i \in DOMAIN m.conds : v # Absent /\ m.conds[i].value = v}, {}, HoldNow(d, n, q, m))

\* A mapping, and its condition in force.
InForce(d, n, q, m, v) == [map |-> m, cond |-> IF m = Absent THEN Absent ELSE ActiveCondition(d, n, q, m, v)]

\* A setting of the condition, else of the mapping.
Setting(rule, field, default) ==
    IF rule.map = Absent THEN default
    ELSE IF rule.cond # Absent /\ rule.cond[field] # Absent THEN rule.cond[field]
    ELSE Or(rule.map[field], default)

Current(d, n, q) == MapForDps(d, n, Raw(d, n, q))
CurrentSetting(d, n, q, field, default) == Setting(InForce(d, n, q, Current(d, n, q), Absent), field, default)

\* scale and range(scaled=False), by what the datapoint is now.
Scale(d, n, q) == CurrentSetting(d, n, q, "scale", 1)
RangeNow(d, n, q) == CurrentSetting(d, n, q, "range", d[n].range)

\* A nested rule of the condition, the last that fits, says what is shown or sent.
Nested(rule, field, given, answer, base) ==
    LET maps == IF rule.cond = Absent THEN <<>> ELSE rule.cond.maps
        fit == {i \in DOMAIN maps : maps[i][field] = given /\ ~(field = "value" /\ maps[i].hidden)}
    IN  IF fit = {} THEN base ELSE Or(maps[Max(fit)][answer], base)

-----------------------------------------------------------------------------
(* Reading.                                                                *)

\* From one range to another.
Rescaled(k, from, to) ==
    IF from = Absent \/ to = Absent THEN k
    ELSE to[1] + ((k - from[1]) * (to[2] - to[1])) \div (from[2] - from[1])

Inverted(k, rule, r) == IF Setting(rule, "invert", FALSE) /\ r # Absent THEN r[1] + r[2] - k ELSE k

\* get_value: the bits of the mask.
Bits(d, n, v) ==
    IF d[n].mask = Absent \/ v = Null THEN v
    ELSE <<"n", ((v[2] \div d[n].mask.low) % d[n].mask.size) * Unit>>

\* The value of the rule, in the range and scale it is shown in.
Presented(d, n, q, rule, v) ==
    IF IsNumber(v)
    THEN <<"n", Rescaled(Inverted(v[2], rule, d[n].range), d[n].range, Setting(rule, "target", Absent)) \div Scale(d, n, q)>>
    ELSE v

\* A rule: no value, or another datapoint's, or its own.  What the others show
\* is `shown`.
Applied(d, n, q, v, rule, shown) ==
    LET redirect == Setting(rule, "redirect", Setting(rule, "mirror", Absent))
        base == Setting(rule, "value", v)
    IN  IF rule.cond # Absent /\ rule.cond.invalid THEN Null
        ELSE IF redirect # Absent THEN shown[redirect]
        ELSE Presented(d, n, q, rule, Nested(rule, "dps", base, "value", base))

\* _map_from_dps
MapFromDps(d, n, q, v, shown) == Applied(d, n, q, v, InForce(d, n, q, MapForDps(d, n, v), Absent), shown)

\* get_value, of every dp.
Shown(d, q) ==
    LET shown[n \in DOMAIN d] == MapFromDps(d, n, q, Bits(d, n, Raw(d, n, q)), shown)
    IN  shown

Value(d, n, q) == Shown(d, q)[n]

-----------------------------------------------------------------------------
(* Setting.                                                                *)

\* Mutant: a condition on a readonly constraint counts too.
ReachableAlways(d, n, q, m, c) == TRUE

\* A condition counts if its constraint can be set to it, or is it already.
Reachable(d, n, q, m, c) ==
    LET x == Constraint(m, n)
    IN  (d[x].id # d[n].id /\ ~d[x].readonly) \/ EqualOrIn(Raw(d, x, q), c.dps)

Mirrors(d, q, r, v) == r.value = Absent /\ r.mirror # Absent /\ Value(d, r.mirror, q) = v

\* The value is this mapping's own, or one of its conditions'.
Hits(d, n, q, m, v) ==
    \/ /\ ~m.hidden /\ m.dps \notin {Absent, Null}
       /\ m.value = v \/ Mirrors(d, q, m, v)
    \/ \E i \in DOMAIN m.conds :
          LET c == m.conds[i]
          IN  /\ ~c.hidden
              /\ (c.value = v /\ Reachable(d, n, q, m, c)) \/ Mirrors(d, q, c, v)

\* The mappings of the numbers nearest to a number.
Nearest(maps, v) ==
    LET near == {i \in DOMAIN maps : ~maps[i].hidden /\ maps[i].dps \notin {Absent, Null}
                                      /\ maps[i].value # Absent /\ IsNumber(maps[i].value) /\ IsNumber(v)}
        away(i) == LET k == maps[i].value[2] - v[2] IN IF k < 0 THEN -k ELSE k
    IN  {i \in near : \A j \in near : away(i) <= away(j)}

\* _find_map_for_value: the first that hits, else the nearest number, else the
\* last that is for all.
MapForValue(d, n, q, v) ==
    LET maps == d[n].maps
    IN  Chosen(maps, {i \in DOMAIN maps : Hits(d, n, q, maps[i], v)}, Nearest(maps, v),
               {i \in DOMAIN maps : maps[i].dps = Absent /\ ~maps[i].hidden})

\* round: half to even.
Rounded(k, step) ==
    LET up == (2 * k + step) \div (2 * step)
    IN  step * (IF (2 * k + step) % (2 * step) = 0 THEN up - (up % 2) ELSE up)

\* The bits of the mask are replaced in what the datapoint is now.
Merged(old, mask, k) ==
    old - ((old \div mask.low) % mask.size) * mask.low + (k % mask.size) * mask.low

\* A number that has a mapping of its own is sent as it says.
Renamed(x, m, k) == IF x # Absent /\ x.dps # Absent /\ m.dps = Absent /\ ~x.hidden THEN x.dps[2] ELSE k
Remapped(d, n, q, m, k) == Renamed(MapForValue(d, n, q, <<"n", k>>), m, k)

\* Scale, target range, invert, step.
Scaled(d, n, q, m, k, scale) == IF scale = 1 THEN k ELSE Remapped(d, n, q, m, k * scale)
Stepped(d, n, q, m, k, step) == IF step = Absent THEN k ELSE Remapped(d, n, q, m, Rounded(k, step))
Calculated(d, n, q, rule, k) ==
    LET scaled == Scaled(d, n, q, rule.map, k, Scale(d, n, q))
        spread == Rescaled(scaled, Setting(rule, "target", Absent), d[n].range)
    IN  Stepped(d, n, q, rule.map, Inverted(spread, rule, d[n].range), Setting(rule, "step", Absent))

\* The range, the mask and the type.
Sent(d, n, q, v) ==
    LET r == RangeNow(d, n, q)
        whole == Rounded(v[2], Unit)
        barred == IsNumber(v) /\ r # Absent /\ (whole < r[1] \/ whole > r[2])
    IN  CASE barred -> Fails
          [] ~barred /\ IsNumber(v) /\ d[n].mask # Absent ->
                 IF Raw(d, n, q) = Null THEN Fails
                 ELSE One(d[n].id, <<"x", Merged(Raw(d, n, q)[2], d[n].mask, whole \div Unit)>>)
          [] ~IsNumber(v) /\ d[n].int -> Fails
          [] OTHER -> One(d[n].id, IF d[n].int THEN <<"n", whole>> ELSE v)

\* What the rule says of a value that is set, by the dps of the mapping, or of
\* the nested rule.
Encoded(d, n, q, rule, k) ==
    Sent(d, n, q, IF IsNumber(k) THEN <<"n", Calculated(d, n, q, rule, k[2])>> ELSE k)

\* Both are sent; an error is one of all.
Both(s, t) == IF s = Fails \/ t = Fails THEN Fails ELSE Over(t, s)

\* The condition that has the value is made true first.
Side(d, n, q, v, c, x, sends) ==
    IF \/ c = Absent \/ d[x].id = d[n].id \/ (\A y \in c.dps : c.dps # {y})
       \/ v # IF c.value = Absent /\ c.mirror # Absent THEN Value(d, c.mirror, q) ELSE c.value
    THEN <<>>
    ELSE sends[<<x, MapFromDps(d, x, q, CHOOSE y \in c.dps : TRUE, Shown(d, q))>>]

\* get_values_to_set: a redirect drops what the conditions would set.  What
\* other datapoints would send is `sends`.
Sending(d, n, q, v, rule, sends) ==
    LET redirect == IF rule.map # Absent THEN Setting(rule, "redirect", Absent)
                    ELSE IF Current(d, n, q) = Absent THEN Absent ELSE Current(d, n, q).redirect
    IN  IF d[n].readonly THEN <<>>
        ELSE IF redirect # Absent THEN sends[<<redirect, v>>]
        ELSE IF rule.map = Absent THEN Sent(d, n, q, v)
        ELSE Both(Side(d, n, q, v, rule.cond, Constraint(rule.map, n), sends),
                  Encoded(d, n, q, rule, Nested(rule, "value", v, "dps", Or(rule.map.dps, v))))

Asked == {Null} \cup ({"n", "x"} \X Int) \cup ({"s"} \X STRING) \cup ({"b"} \X BOOLEAN)
ValuesToSet(d, n, q, v) ==
    LET sends[p \in (DOMAIN d) \X Asked] ==
            Sending(d, p[1], q, p[2], InForce(d, p[1], q, MapForValue(d, p[1], q, p[2]), p[2]), sends)
    IN  sends[<<n, v>>]

\* invalid_for: as the conditions are now, whatever the value would change.
InvalidFor(d, n, q, v) ==
    LET rule == InForce(d, n, q, MapForValue(d, n, q, v), Absent)
    IN  rule.cond # Absent /\ rule.cond.invalid

\* values: what the entity offers; the nested rules of the condition in force
\* replace all that came before.
Names(rules) == {rules[i].value : i \in {j \in DOMAIN rules : rules[j].value # Absent /\ ~rules[j].hidden}}
NestedNames(rule) == IF rule.cond = Absent THEN {} ELSE Names(rule.cond.maps)
Offers(d, n, q) ==
    LET maps == d[n].maps
        over == {i \in DOMAIN maps : NestedNames(InForce(d, n, q, maps[i], Absent)) # {}}
    IN  IF over # {} THEN NestedNames(InForce(d, n, q, maps[Min(over)], Absent))
        ELSE Names(maps) \cup UNION {Names(maps[i].conds) : i \in DOMAIN maps}

-----------------------------------------------------------------------------
Nothing == [dp |-> Absent, value |-> Absent, kept |-> <<>>]

Init ==
    /\ entity \in Entities
    /\ device \in {q \in [DOMAIN entity.raws -> UNION Range(entity.raws)] : \A i \in DOMAIN q : q[i] \in entity.raws[i]}
    /\ last = Nothing

\* What an entity may be asked to set: a value it offers, or a number in steps.
Settable(n) ==
    LET step == CurrentSetting(entity.dps, n, device, "step", 1)
    IN  IF Offers(entity.dps, n, device) # {} THEN Offers(entity.dps, n, device)
        ELSE {v \in entity.asks[n] : IsNumber(v) => (v[2] * Scale(entity.dps, n, device)) % step = 0}

Masked == {n \in DOMAIN entity.dps : entity.dps[n].mask # Absent}

\* async_set_value, and the device takes it.
Sets(n, v) ==
    LET s == ValuesToSet(entity.dps, n, device, v)
    IN  /\ ~entity.dps[n].readonly
        /\ ~InvalidFor(entity.dps, n, device, v)
        /\ s # Fails
        /\ device' = Over(s, device)
        /\ last' = [dp |-> n, value |-> v,
                    kept |-> [o \in {x \in Masked : x # n} |-> Value(entity.dps, o, device)]]
        /\ UNCHANGED entity

DeviceChanges(i) ==
    /\ \E v \in entity.raws[i] : device' = [device EXCEPT ![i] = v]
    /\ last' = Nothing
    /\ UNCHANGED entity

Next ==
    \/ \E n \in DOMAIN entity.dps : \E v \in Settable(n) : Sets(n, v)
    \/ \E i \in DOMAIN entity.raws : DeviceChanges(i)

Spec == Init /\ [][Next]_vars

-----------------------------------------------------------------------------
(* Properties.                                                             *)

\* A value that is offered, or a number that the steps allow, and that the
\* device takes, is the one that is shown afterwards: setting and reading
\* follow the rules to one end, through conditions, redirects, scales,
\* inversions and ranges that depend on other datapoints.  The settings that
\* are other bits of datapoints stay as they were.
ReadsBack ==
    last # Nothing =>
        /\ Value(entity.dps, last.dp, device) = last.value
        /\ \A o \in DOMAIN last.kept : Value(entity.dps, o, device) = last.kept[o]

\* The tables of devices/README.md for a dp with conditions on another: what is
\* set for each value, with a constraint that can be set and one that cannot.
AsDocumented ==
    \A t \in entity.table : t.when = device[t.on] => ValuesToSet(entity.dps, t.dp, device, t.value) = t.set
=============================================================================

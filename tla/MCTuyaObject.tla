------------------------------- MODULE MCTuyaObject -------------------------------
EXTENDS TuyaObject

\* A rule of a mapping, or of a condition, that says nothing.
NoRule == [dps |-> Absent, value |-> Absent, hidden |-> FALSE, invalid |-> FALSE,
           invert |-> Absent, scale |-> Absent, step |-> Absent, range |-> Absent,
           target |-> Absent, redirect |-> Absent, mirror |-> Absent, on |-> Absent,
           conds |-> <<>>, maps |-> <<>>]

MCUnit == 10
Num(k) == <<"n", k * Unit>>
S(x) == <<"s", x>>
B(b) == <<"b", b>>
Rule(dps, value) == [NoRule EXCEPT !.dps = dps, !.value = value]
Cond(x, value) == Rule({x}, value)
On(dps, c, conds) == [Rule(dps, Absent) EXCEPT !.on = c, !.conds = conds]
Dp(i, maps) == [id |-> i, readonly |-> FALSE, int |-> FALSE, range |-> Absent, mask |-> Absent, maps |-> maps]
Whole(i, lo, hi, maps) == [Dp(i, maps) EXCEPT !.int = TRUE, !.range = <<lo * Unit, hi * Unit>>]
Entity(dps, raws, asks) == [dps |-> dps, raws |-> raws, asks |-> asks, table |-> {}]
Strings(xs) == {S(x) : x \in xs}
Speeds == <<Rule(S("high"), Num(100)), Rule(S("low"), Num(33))>>

\* am24_blind_motor.yaml, of four steps.
Motor == Entity(
    [position |-> Whole("2", 0, 4, <<[NoRule EXCEPT !.invert = TRUE], [Rule(Null, Absent) EXCEPT !.mirror = "current_position"]>>),
     current_position |-> Whole("3", 0, 4, <<[NoRule EXCEPT !.invert = TRUE]>>)],
    ("2" :> {Num(k) : k \in 0..4} \cup {Null}) @@ ("3" :> {Num(0), Num(3)}),
    [position |-> {Num(k) : k \in 0..5}, current_position |-> {}])

\* alecoair_d16_dehumidifier.yaml, its fan.
Dehumidifier == Entity(
    [speed |-> Dp("5", <<[On(S("low"), "mode", <<[Cond(S("laundry"), Absent) EXCEPT !.invalid = TRUE]>>) EXCEPT !.value = Num(50)],
                         [On(S("high"), "mode", <<[Cond(S("sleep"), Absent) EXCEPT !.invalid = TRUE],
                                                 [Cond(S("purify"), Absent) EXCEPT !.invalid = TRUE]>>) EXCEPT !.value = Num(100)]>>),
     mode |-> Dp("4", <<>>)],
    ("5" :> Strings({"low", "high"})) @@ ("4" :> Strings({"manual", "laundry", "purify", "sleep"})),
    [speed |-> {}, mode |-> Strings({"sleep"})])

\* qlima_d820a_dehumidifier.yaml, its fan.
Purifier == Entity(
    [speed |-> Dp("4", <<On(Absent, "mode",
        <<[Cond(S("airpurify"), Absent) EXCEPT !.redirect = "purify_speed"],
          [Rule(Strings({"dehum_air", "dehum30_air"}), Absent) EXCEPT !.maps = Speeds]>>)>>),
     purify_speed |-> Dp("103", Speeds), mode |-> Dp("105", <<>>)],
    ("4" :> Strings({"low", "high"})) @@ ("103" :> Strings({"low", "high"}))
        @@ ("105" :> Strings({"auto", "airpurify", "dehum_air", "dehum30_air"})),
    [speed |-> {}, purify_speed |-> {}, mode |-> {}])

\* komeco_qc60_heatpump.yaml
HeatPump == Entity(
    [hvac_mode |-> Dp("1", <<Rule(B(FALSE), S("off")), On(B(TRUE), "mode",
        <<Cond(S("hot"), S("heat")), Cond(S("cold"), S("cool")), Cond(S("eco"), S("heat_cool"))>>)>>),
     mode |-> Dp("4", <<>>)],
    ("1" :> {B(TRUE), B(FALSE)}) @@ ("4" :> Strings({"hot", "cold", "eco"})),
    [hvac_mode |-> {}, mode |-> Strings({"hot"})])

\* goldair_fan.yaml
Fan == Entity(
    [speed |-> Whole("2", 1, 12, <<On(Absent, "preset_mode",
        <<[Cond(S("nature"), Absent) EXCEPT !.step = 4 * Unit], [Cond(S("sleep"), Absent) EXCEPT !.step = 4 * Unit]>>)>>),
     preset_mode |-> Dp("3", <<Rule(S("normal"), S("normal")), Rule(S("nature"), S("nature")), Rule(S("sleep"), S("sleep"))>>)],
    ("2" :> {Num(k) : k \in 1..12}) @@ ("3" :> Strings({"normal", "nature", "sleep"})),
    [speed |-> {Num(k) : k \in 1..13}, preset_mode |-> {}])

\* princess_panel_heater.yaml
PanelHeater == Entity(
    [temperature |-> Whole("2", 0, 3, <<On(Absent, "temperature_unit",
        <<[Cond(S("f"), Absent) EXCEPT !.redirect = "temp_set_f", !.range = <<5 * Unit, 9 * Unit>>]>>)>>),
     temperature_unit |-> Dp("13", <<Rule(S("c"), S("C")), Rule(S("f"), S("F"))>>),
     temp_set_f |-> Whole("14", 5, 9, <<>>)],
    ("2" :> {Num(0), Num(3)}) @@ ("13" :> Strings({"c", "f"})) @@ ("14" :> {Num(5), Num(9)}),
    [temperature |-> {Num(k) : k \in 0..9}, temperature_unit |-> {}, temp_set_f |-> {Num(6)}])

\* arlec_panel_heater.yaml
Lock == Entity(
    [lock |-> Dp("6", <<[Rule(Null, Absent) EXCEPT !.redirect = "alternate"]>>), alternate |-> Dp("7", <<>>)],
    ("6" :> {Null, B(TRUE), B(FALSE)}) @@ ("7" :> {B(TRUE), B(FALSE)}),
    [lock |-> {B(TRUE), B(FALSE)}, alternate |-> {B(TRUE)}])

\* eurom_saniwallheat2000_heater.yaml
Heater == Entity(
    [hvac_mode |-> Dp("1", <<Rule(B(FALSE), S("off")), On(B(TRUE), "preset_mode",
        <<Cond(S("off"), S("fan_only")), Cond(S("auto"), S("heat")), Cond(S("100_per"), S("heat"))>>)>>),
     preset_mode |-> Dp("4", <<Rule(S("off"), S("none")), Rule(S("100_per"), S("boost")), Rule(S("auto"), S("comfort"))>>)],
    ("1" :> {B(TRUE), B(FALSE)}) @@ ("4" :> Strings({"off", "auto", "100_per"})),
    [hvac_mode |-> {}, preset_mode |-> {}])

\* relay_switch_remote.yaml: inching and its duration, in shorter bits.
Inching == Entity(
    [inching |-> [Dp("44", <<Rule(Num(0), B(FALSE)), Rule(Num(1), B(TRUE))>>) EXCEPT !.int = FALSE, !.mask = [low |-> 4, size |-> 2]],
     value |-> [Whole("44", 0, 3, <<>>) EXCEPT !.int = FALSE, !.mask = [low |-> 1, size |-> 4]]],
    ("44" :> {<<"x", k>> : k \in 0..7} \cup {Null}), [inching |-> {}, value |-> {Num(k) : k \in 0..3}])

\* A thermostat in tenths of a degree, in steps of half a degree, as many are.
Thermostat == Entity(
    [temperature |-> Whole("16", 50, 70, <<[NoRule EXCEPT !.scale = 10, !.step = 5 * Unit]>>)],
    ("16" :> {Num(k) : k \in 50..70}), [temperature |-> {<<"n", k>> : k \in 45..75}])

\* desk_lamp.yaml, with fewer steps.
Lamp == Entity(
    [color_temp |-> Whole("4", 0, 4, <<[NoRule EXCEPT !.target = <<2700 * Unit, 6700 * Unit>>]>>)],
    ("4" :> {Num(k) : k \in 0..4}), [color_temp |-> {Num(1000 * k + 2700) : k \in 0..5}])

\* devices/README.md, "conditions".
Doc(readonly, table) == [
    dps |-> [target |-> [Dp("1", <<
                On(Num(1), "constraint", <<Cond(S("a"), S("x")), Cond(S("c"), S("z"))>>),
                On(Num(2), "constraint", <<Cond(S("b"), S("x")), Cond(S("c"), S("y"))>>)>>) EXCEPT !.int = TRUE],
             constraint |-> [Dp("2", <<>>) EXCEPT !.readonly = readonly]],
    raws |-> ("1" :> {Num(1), Num(2)}) @@ ("2" :> Strings({"a", "b", "c"})),
    asks |-> [target |-> {}, constraint |-> Strings({"a"})],
    table |-> table]
Row(c, v, set) == [on |-> "2", when |-> S(c), dp |-> "target", value |-> S(v), set |-> set]
Set(k, c) == ("1" :> Num(k)) @@ ("2" :> S(c))
DocSettable == Doc(FALSE, UNION {{Row(c, "x", Set(1, "a")), Row(c, "y", Set(2, "c")), Row(c, "z", Set(1, "c"))} : c \in {"a", "b", "c"}})
DocReadonly == Doc(TRUE,
    {Row("a", "x", "1" :> Num(1)), Row("a", "y", Fails), Row("a", "z", Fails),
     Row("b", "x", "1" :> Num(2)), Row("b", "y", Fails), Row("b", "z", Fails),
     Row("c", "x", Fails), Row("c", "y", "1" :> Num(2)), Row("c", "z", "1" :> Num(1))})

MCEntities == {Motor, Dehumidifier, Purifier, HeatPump, Fan, PanelHeater, Lock, Heater, Inching, Thermostat, Lamp, DocSettable, DocReadonly}
=============================================================================

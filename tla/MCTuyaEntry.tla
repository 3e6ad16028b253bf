---------------------------- MODULE MCTuyaEntry ----------------------------
(* Families of names that the tables connect, for TLC.                     *)
EXTENDS TuyaEntry

Families == {
    [on |-> "switch", keys |-> {"defrost", "anti_freeze", "anti_frost"}],
    [on |-> "sensor", keys |-> {"timer", "countdown", "time_remaining"}],
    [on |-> "light", keys |-> {"light", "night_light", "nightlight"}],
    [on |-> "fan", keys |-> {"", "purifier", "air_purifier"}],
    [on |-> "binary_sensor", keys |-> {"tank", "water_tank_full", "tank_full"}]}

Small(S, n) == {T \in SUBSET S : T # {} /\ Cardinality(T) <= n}

Entities(f, keys, of) == {[on |-> f.on, key |-> k, old |-> FALSE, of |-> of] : k \in keys}
File(f, keys) == {[on |-> f.on, key |-> k, named |-> FALSE] : k \in keys}
Entry(level, data, opt, child) ==
    [level |-> level, data |-> data, opt |-> opt, uid |-> "unset", child |-> child]

Renamers ==
    UNION {{[entry |-> Entry(l, "known", NoType, f.on = "switch"),
             registry |-> Entities(f, keys, "id"), conf |-> File(f, file)]
        : l \in {1301, 1310}, keys \in Small(f.keys, 2), file \in Small(f.keys, 2)} : f \in Families}

Old ==
    {[entry |-> Entry(ldo[1], ldo[2], ldo[3], FALSE),
      registry |-> {[on |-> "switch", key |-> k, old |-> TRUE, of |-> "id"] : k \in keys},
      conf |-> {[on |-> "switch", key |-> "beep", named |-> TRUE],
                [on |-> "switch", key |-> "sound", named |-> FALSE]}]
        : ldo \in ({100, 200} \X {"known", "auto", NoType} \X {"known", NoType})
                  \cup ({300, 500, 1100, 1200} \X {"known", "removed"} \X {NoType}),
          keys \in {{"beep"}, {"beep", ""}}}

Badly ==
    {[entry |-> Entry(1303, t, NoType, FALSE),
      registry |-> {[on |-> "switch", key |-> k, old |-> FALSE, of |-> o] : k \in {"mute"}, o \in ofs},
      conf |-> {[on |-> "switch", key |-> "sound", named |-> FALSE]}]
        : t \in {"known", "removed"}, ofs \in {{"None"}, {"id", "None"}}}

\* 13.19 gives a name that ends in its platform's.
Late ==
    {[entry |-> Entry(1200, "known", NoType, FALSE),
      registry |-> Entities([on |-> "light"], {"ambient"}, "id"),
      conf |-> File([on |-> "light"], {"nightlight", "ambient_light"})]}

MCDevices == Renamers \cup Old \cup Badly \cup Late
=============================================================================

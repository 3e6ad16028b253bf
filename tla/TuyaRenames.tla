------------------------------ MODULE TuyaRenames ------------------------------
(***************************************************************************)
(* tuya_local/__init__.py, async_migrate_entry: the tables of entity names *)
(* that releases of the integration have replaced.  A name of the source,  *)
(* "switch_beep", is a platform and the rest of it, here "" for an entity  *)
(* that has its platform's own name.                                       *)
(***************************************************************************)
EXTENDS Integers

R(on, new, olds) == [on |-> on, new |-> new, olds |-> olds]

\* "special meaning of None to handle _full and _empty variants"
NoName == "(None)"

\* Of the names of the tables, those that end in the name of their platform.
EndsInPlatform == {
    <<"light", "">>, <<"light", "light">>, <<"light", "night_light">>,
    <<"light", "nightlight">>, <<"light", "indicator_light">>,
    <<"light", "ambient_light">>, <<"fan", "">>, <<"switch", "disturb_switch">>}

\* Version 13 itself.
Table1 == {
    R("sensor", "carbon_dioxide", {"co2"}),
    R("sensor", "carbon_monoxide", {"co"}),
    R("sensor", "pm25", {"pm2_5", "pm_2_5"}),
    R("sensor", "pm10", {"pm_10"}),
    R("sensor", "pm1", {"pm_1_0"}),
    R("sensor", "volatile_organic_compounds", {"tvoc"}),
    R("sensor", "humidity", {"current_humidity"}),
    R("sensor", "temperature", {"current_temperature"})}

Table2 == {
    R("binary_sensor", NoName, {"tank"}),
    R("binary_sensor", "tank_full", {"tank_full_or_missing",
        "water_tank_full"}),
    R("binary_sensor", "tank_empty", {"low_water", "water_tank_empty"}),
    R("binary_sensor", "problem", {"fault", "error", "fault_alarm",
        "errors"}),
    R("binary_sensor", "defrost", {"defrosting", "anti_frost",
        "anti_freeze"}),
    R("binary_sensor", "battery", {"low_battery", "low_battery_alarm"}),
    R("select", "temperature_unit", {"temperature_units",
        "display_temperature_unit", "display_unit", "display_units",
        "temperature_display_units"}),
    R("switch", "anti_frost", {"defrost", "frost_protection"})}

Table3 == {
    R("light", "display", {"front_display", "lcd_brightness"}),
    R("light", "logs", {"coal_bed"}),
    R("light", "embers", {"ember"}),
    R("light", "indicator", {"led_indicator", "status_indicator",
        "indicator_light", "indicators"}),
    R("light", "nightlight", {"night_light"}),
    R("number", "timeout_period", {"tiemout_period"}),
    R("sensor", "time_remaining", {"remaining_time", "timer_remain", "timer",
        "timer_countdown", "timer_remaining", "time_left",
        "timer_minutes_left", "timer_time_left",
        "auto_shutoff_time_remaining", "warm_time_remaining",
        "run_time_remaining"}),
    R("switch", "ionizer", {"ioniser"}),
    R("switch", "uv_sterilization", {"run_uv_cycle", "uv_light", "ihealth",
        "uv_lamp"}),
    R("switch", "anti_frost", {"anti_freeze"})}

Table5 == {
    R("number", "timer", {"countdown"}),
    R("select", "timer", {"countdown"}),
    R("sensor", "time_remaining", {"countdown", "countdown_timer"}),
    R("fan", "aroma_diffuser", {""})}

Table6 == {
    R("switch", "sleep", {"sleep_mode", "sleep_timer"}),
    R("select", "language", {"voice_language"}),
    R("select", "initial_state", {"restore_power_state", "power_on_state",
        "restart_status", "poweron_status"}),
    R("select", "mopping", {"mop_mode", "mop_control", "water_setting",
        "water_mode", "water_control", "water_tank"}),
    R("light", "", {"light", "lights"})}

Table7 == {
    R("sensor", "status", {"charger_state"})}

Table8 == {
    R("sensor", "energy_consumed", {"forward_energy", "total_forward_energy",
        "energy_in"}),
    R("sensor", "energy_produced", {"reverse_energy", "energy_out"}),
    R("sensor", "energy_consumed_a", {"forward_energy_a",
        "energy_consumption_a"}),
    R("sensor", "energy_produced_a", {"reverse_energy_a"}),
    R("sensor", "energy_consumed_b", {"forward_energy_b",
        "energy_consumption_b"}),
    R("sensor", "energy_produced_b", {"reverse_energy_b"}),
    R("number", "timer_1", {"timer_switch_1", "timer_socket_1",
        "timer_outlet_1", "timer_gang_1"}),
    R("number", "timer_2", {"timer_switch_2", "timer_socket_2",
        "timer_outlet_2", "timer_gang_2"}),
    R("number", "timer_3", {"timer_switch_3", "timer_socket_3",
        "timer_outlet_3", "timer_gang_3"}),
    R("number", "timer_4", {"timer_switch_4"}),
    R("number", "timer_5", {"timer_switch_5"})}

Table9 == {
    R("number", "delay", {"delay_time"})}

Table10 == {
    R("switch", "do_not_disturb", {"disturb_switch"}),
    R("number", "temperature_calibration", {"temperature_correction",
        "calibration_offset"}),
    R("number", "maximum_temperature", {"high_temperature_limit"}),
    R("number", "minimum_temperature", {"low_temperature_limit"})}

Table13 == {
    R("switch", "flip_image", {"flip"}),
    R("number", "manual_feed", {"feed", "feed_portions", "manual_amount"})}

Table15 == {
    R("sensor", "filter_life", {"filter_lifetime", "filter", "filter_days",
        "filter_remaining", "filter_remain", "filter_replacement",
        "filter_days_left", "filter_left_days", "filter_left",
        "filter_hours_left", "replace_filter_in", "filter_change_due",
        "filter_usage", "filter_used", "filter_time"}),
    R("button", "filter_reset", {"reset_filter", "replace_filter",
        "filter_changed", "filter_replaced"}),
    R("select", "motion_sensitivity", {"motion_detection",
        "motion_distance"})}

Table16 == {
    R("switch", "sound", {"beep", "mute", "muffling", "mute_sound",
        "mute_voice"})}

Table17 == {
    R("sensor", "illuminance", {"light_intensity"}),
    R("sensor", "precipitation", {"rain"}),
    R("sensor", "precipitation_intensity", {"rainfall_rate"}),
    R("text", "schedule", {"regular_schedule", "program", "program_data",
        "weekly_program", "weekprogram"})}

Table18 == {
    R("sensor", "ambient_temperature", {"air_temperature"}),
    R("sensor", "temperature", {"current_temperature"})}

Table19 == {
    R("fan", "air_purifier", {"fan_with_presets", "purifier", ""}),
    R("light", "ambient_light", {"ambient"}),
    R("number", "snooze_duration", {"snooze_time"}),
    R("select", "display_brightness", {"display"}),
    R("select", "snooze_action", {"snooze_type"}),
    R("switch", "network_time", {"internet_time"})}

Table20 == {
    R("select", "night_vision", {"nightvision"}),
    R("switch", "timer", {"timer_set", "timer_start"}),
    R("select", "recording_mode", {"record_mode"}),
    R("switch", "watermark", {"osd_watermark", "timestamp"})}

Table21 == {
    R("switch", "motion_detection", {"motion_enable", "motion_sensing"}),
    R("swtich", "motion_detection", {"motion_notification"})}

\* By the version that a table brings.
Tables ==
    [t \in {1301, 1302, 1303, 1305, 1306, 1307, 1308, 1309, 1310, 1313} \cup 1315..1321 |->
        CASE t = 1301 -> Table1 [] t = 1302 -> Table2 [] t = 1303 -> Table3
          [] t = 1305 -> Table5 [] t = 1306 -> Table6 [] t = 1307 -> Table7
          [] t = 1308 -> Table8 [] t = 1309 -> Table9 [] t = 1310 -> Table10
          [] t = 1313 -> Table13 [] t = 1315 -> Table15 [] t = 1316 -> Table16
          [] t = 1317 -> Table17 [] t = 1318 -> Table18 [] t = 1319 -> Table19
          [] t = 1320 -> Table20 [] t = 1321 -> Table21]
=============================================================================

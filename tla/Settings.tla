------------------------------ MODULE Settings ------------------------------
(***************************************************************************)
(* The options of the server (Config and Core of core_impl.hpp, and        *)
(* LegacyConfig): where the value of an option comes from while the server *)
(* starts, of which type it is, who keeps a pointer to it, and what the    *)
(* network has of it.                                                      *)
(*                                                                         *)
(* Options do not touch each other, so a behaviour follows one.  Of its    *)
(* value only what matters is kept: "off" is false for a switch, empty for *)
(* a text, and out of bounds for the number of players.                    *)
(***************************************************************************)
EXTENDS FiniteSets

CONSTANTS
    Options,    \* the options followed
    Careful     \* a legacy file gives legacy names only

VARIABLES
    key,        \* the option
    stage,      \* how far the server has started
    option,     \* its type, who set it, and the value
    commanded,  \* the command line gives it, and what
    held,       \* a pointer to the value was taken
    copy        \* the option as the network has it

own  == <<key, stage, option, commanded, held, copy>>
vars == own
-----------------------------------------------------------------------------
\* The types of the options that have a default.
IntOptions == {
    "max_bots", "max_players", "game.death_drop_amount", "game.player_marker_mode",
    "game.time", "game.vehicle_respawn_time", "game.weather",
    "game.lag_compensation_mode", "network.port", "network.acks_limit",
    "network.aiming_sync_rate", "network.cookie_reseed_time",
    "network.in_vehicle_sync_rate", "network.limits_ban_time",
    "network.message_hole_limit", "network.messages_limit",
    "network.minimum_connection_time", "network.mtu", "network.multiplier",
    "network.on_foot_sync_rate", "network.player_marker_sync_rate",
    "network.player_timeout", "network.stream_rate", "network.time_sync_rate",
    "network.grace_period"}
FloatOptions == {
    "sleep", "game.chat_radius", "game.gravity", "game.nametag_draw_radius",
    "game.player_marker_draw_radius", "network.stream_radius",
    "network.minimum_send_bits_per_second"}
TextOptions == {
    "language", "name", "password", "website", "game.map", "game.mode",
    "logging.file", "logging.timestamp_format", "network.bind",
    "network.public_addr", "rcon.password", "banners.light", "banners.dark", "logo",
    "discord.invite"}
Switches == {
    "announce", "chat_input_filter", "enable_query", "use_dyn_ticks",
    "game.allow_interior_weapons", "game.use_chat_radius",
    "game.use_entry_exit_markers", "game.use_instagib", "game.use_nametag_los",
    "game.use_nametags", "game.use_player_marker_draw_radius",
    "game.use_player_ped_anims", "game.use_stunt_bonuses",
    "game.use_manual_engine_and_lights", "game.use_vehicle_friendly_fire",
    "game.use_zone_names", "game.validate_animations", "game.use_all_animations",
    "game.group_player_objects", "logging.enable", "logging.log_chat",
    "logging.log_connection_messages", "logging.log_cookies", "logging.log_deaths",
    "logging.log_queries", "logging.log_sqlite", "logging.log_sqlite_queries",
    "logging.use_timestamp", "logging.use_prefix", "network.use_lan_mode",
    "network.allow_037_clients", "network.use_omp_encryption", "rcon.allow_teleport",
    "rcon.enable"}

OffByDefault == (Switches \ {
    "announce", "chat_input_filter", "enable_query", "use_dyn_ticks",
    "game.allow_interior_weapons", "game.use_entry_exit_markers", "game.use_nametag_los",
    "game.use_nametags", "game.use_stunt_bonuses", "game.validate_animations",
    "game.use_all_animations", "logging.enable", "logging.log_chat",
    "logging.log_connection_messages", "logging.log_deaths", "logging.use_timestamp",
    "logging.use_prefix", "network.allow_037_clients"})
    \cup (TextOptions \ {"name", "website", "logging.file", "logging.timestamp_format"})

Types == {"int", "float", "bool", "string", "strings"}
DefaultType(k) ==
    CASE k \in IntOptions   -> "int"
      [] k \in FloatOptions -> "float"
      [] k \in Switches     -> "bool"
      [] k \in TextOptions  -> "string"
      [] OTHER              -> "none"

\* The options a line of a legacy file sets, by the type the line is read as.
LegacyInts == [
    weather |-> "game.weather", maxplayers |-> "max_players", port |-> "network.port",
    connseedtime |-> "network.cookie_reseed_time",
    minconnectiontime |-> "network.minimum_connection_time",
    messageslimit |-> "network.messages_limit",
    messageholelimit |-> "network.message_hole_limit",
    ackslimit |-> "network.acks_limit", playertimeout |-> "network.player_timeout",
    mtu |-> "network.mtu", onfoot_rate |-> "network.on_foot_sync_rate",
    incar_rate |-> "network.in_vehicle_sync_rate",
    weapon_rate |-> "network.aiming_sync_rate", stream_rate |-> "network.stream_rate",
    maxnpc |-> "max_bots", lagcompmode |-> "game.lag_compensation_mode"]
LegacyFloats == [
    gravity |-> "game.gravity", sleep |-> "sleep",
    stream_distance |-> "network.stream_radius"]
LegacyBools == [
    rcon |-> "rcon.enable", announce |-> "announce", query |-> "enable_query",
    lanmode |-> "network.use_lan_mode", cookielogging |-> "logging.log_cookies",
    timestamp |-> "logging.use_timestamp", logqueries |-> "logging.log_queries",
    db_logging |-> "logging.log_sqlite",
    db_log_queries |-> "logging.log_sqlite_queries", useartwork |-> "artwork.enable"]
LegacyTexts == [
    rcon_password |-> "rcon.password", hostname |-> "name", language |-> "language",
    mapname |-> "game.map", gamemodetext |-> "game.mode", weburl |-> "website",
    bind |-> "network.bind", logtimeformat |-> "logging.timestamp_format",
    artpath |-> "artwork.models_path"]

\* Those read in a way of their own, with the type they set.
LegacyCustom == {
    <<"gamemode", "pawn.main_scripts", "strings">>,
    <<"filterscripts", "pawn.side_scripts", "strings">>,
    <<"password", "password", "string">>,
    <<"chatlogging", "logging.log_chat", "bool">>,
    <<"chatlogging", "logging.log_deaths", "bool">>}

LegacyType(k) ==
    CASE \E l \in DOMAIN LegacyInts   : LegacyInts[l] = k      -> "int"
      [] \E l \in DOMAIN LegacyFloats : LegacyFloats[l] = k    -> "float"
      [] \E l \in DOMAIN LegacyBools  : LegacyBools[l] = k     -> "bool"
      [] \E l \in DOMAIN LegacyTexts  : LegacyTexts[l] = k     -> "string"
      [] \E c \in LegacyCustom : c[2] = k ->
            (CHOOSE c \in LegacyCustom : c[2] = k)[3]
      [] OTHER -> "none"

\* The options update() of the network reads, and those of them it leaves as
\* they are when they are off.
Blankable == {"name", "language", "game.mode", "website", "discord.invite",
              "banners.light", "banners.dark", "logo", "enable_query"}
Updated == Blankable \cup
    {"network.cookie_reseed_time", "network.player_timeout",
     "network.minimum_connection_time", "network.messages_limit",
     "network.message_hole_limit", "network.acks_limit", "network.limits_ban_time",
     "logging.log_cookies", "logging.log_queries", "game.lag_compensation_mode",
     "game.map", "game.weather", "game.time", "rcon.password", "rcon.enable",
     "password", "network.mtu"}
SetByData == {"name", "game.mode", "game.map", "language", "password",
              "rcon.password", "website"}
-----------------------------------------------------------------------------
Values == {"on", "off"}
\* What is written for an option, by how it reads.
Forms == {"number", "decimal", "switch", "word", "list"}
Texts == [form : Forms, value : Values]

\* The forms that are read as a value of a type: on the command line and the
\* console, in config.json between quotes, and in a legacy file.
Reads == [
    int |-> {"number", "decimal"}, float |-> {"number", "decimal"},
    bool |-> {"switch", "number", "decimal"}, string |-> Forms, strings |-> {"list"}]
Converts == [
    int |-> {"number"}, float |-> {"number", "decimal"},
    bool |-> {"switch", "number"}, string |-> Forms, strings |-> {}]
ReadsLegacy == [
    int |-> {"number", "decimal"}, float |-> {"number", "decimal"},
    bool |-> {"switch", "number"}, string |-> Forms, strings |-> Forms]

\* The type of what config.json has without quotes, and of what a legacy file
\* has under a name that is no legacy one.
PlainType  == [number |-> "int", decimal |-> "float", switch |-> "bool", word |-> "string",
               list |-> "strings"]
GuessedType == [PlainType EXCEPT !.list = "string"]

NoOption == [type |-> "none", by |-> "nobody", value |-> "off"]
NoText   == [form |-> "none", value |-> "off"]
Default  == IF DefaultType(key) = "none" THEN NoOption
            ELSE [type |-> DefaultType(key), by |-> "default",
                  value |-> IF key \in OffByDefault THEN "off" ELSE "on"]
Given(type, by, text) == [type |-> type, by |-> by, value |-> text.value]

Init ==
    /\ key \in Options
    /\ stage = "file"
    /\ option = NoOption /\ copy = NoOption
    /\ commanded = NoText
    /\ held = FALSE

\* Config: nothing of a file that cannot be read; a value of another type than
\* the default's is converted if it is between quotes, and else dropped.
ReadConfig ==
    /\ stage = "file"
    /\ stage' = "commandLine"
    /\ \/ option' = Default
       \/ \E text \in Texts, quoted \in BOOLEAN :
             LET type == IF quoted THEN "string" ELSE PlainType[text.form]
             IN  option' =
                 IF DefaultType(key) \in {"none", type} THEN Given(type, "json", text)
                 ELSE IF quoted /\ text.form \in Converts[DefaultType(key)]
                 THEN Given(DefaultType(key), "json", text)
                 ELSE Default
    /\ UNCHANGED <<key, commanded, held, copy>>

\* setConfigFromString: the option keeps its type; what cannot be read changes
\* nothing, but empties a list.
FromString(text, by) ==
    IF option.type = "none" THEN option
    ELSE IF text.form \in Reads[option.type] THEN Given(option.type, by, text)
    ELSE IF option.type = "strings" THEN Given("strings", by, NoText)
    ELSE option

\* The options of the command line are set as soon as there are options, for
\* what the components are loaded by.
CommandLine ==
    /\ stage = "commandLine"
    /\ stage' = "components"
    /\ \/ UNCHANGED <<option, commanded>>
       \/ \E text \in Texts :
             /\ commanded' = text
             /\ option' = FromString(text, "command")
    /\ UNCHANGED <<key, held, copy>>

\* --default-config
WriteDefault ==
    /\ stage = "components"
    /\ stage' = "stopped"
    /\ UNCHANGED <<key, option, commanded, held, copy>>

Configure ==
    /\ stage = "components"
    /\ stage' = "configure"
    /\ UNCHANGED <<key, option, commanded, held, copy>>

\* loadLegacyConfigFile: a line of the file, under the legacy name of the option
\* or under the option's own.
LegacyLine(text) ==
    /\ LegacyType(key) # "none"
    /\ option' = IF text.form \in ReadsLegacy[LegacyType(key)]
                 THEN Given(LegacyType(key), "legacy", text) ELSE option
ForeignLine(text) ==
    /\ ~Careful
    /\ option' = Given(GuessedType[text.form], "legacy", text)

LegacyFile ==
    /\ stage = "configure"
    /\ \E text \in Texts : LegacyLine(text) \/ ForeignLine(text)
    /\ UNCHANGED <<key, stage, commanded, held, copy>>

\* The number of players is brought within its bounds, and then the command line
\* is read again, over what the components have set.
Clamp ==
    /\ stage = "configure"
    /\ stage' = "commandLine2"
    /\ option' = IF key = "max_players" THEN [option EXCEPT !.value = "on"] ELSE option
    /\ UNCHANGED <<key, commanded, held, copy>>

CommandLineAgain ==
    /\ stage = "commandLine2"
    /\ stage' = "configured"
    /\ option' = IF commanded = NoText THEN option ELSE FromString(commanded, "command")
    /\ UNCHANGED <<key, commanded, held, copy>>

\* --script
AddScript ==
    /\ stage = "configured"
    /\ key = "pawn.main_scripts"
    /\ option' = Given("strings", "command", [form |-> "list", value |-> "on"])
    /\ UNCHANGED <<key, stage, commanded, held, copy>>

\* --dump-config
WriteCurrent ==
    /\ stage = "configured"
    /\ stage' = "stopped"
    /\ UNCHANGED <<key, option, commanded, held, copy>>

\* update() of the network; it does not undo what was on.
Copied(o) ==
    IF key \notin Updated THEN copy
    ELSE IF key \in Blankable /\ o.value = "off" THEN copy
    ELSE o

\* The core and the components take their pointers, and the network starts.
Hold ==
    /\ stage = "configured"
    /\ stage' = "running"
    /\ held' = (option.type # "none")
    /\ copy' = Copied(option)
    /\ UNCHANGED <<key, option, commanded>>
-----------------------------------------------------------------------------
\* While the server runs: the console, a legacy file run from it, and scripts.
Running(o) ==
    /\ stage = "running"
    /\ option' = o
    /\ copy' = Copied(o)
    /\ UNCHANGED <<key, stage, commanded, held>>

ConsoleConfig ==
    \E text \in Texts : Running(FromString(text, "console"))

Exec ==
    /\ stage = "running"
    /\ \E text \in Texts : LegacyLine(text) \/ ForeignLine(text)
    /\ copy' = Copied(option')
    /\ UNCHANGED <<key, stage, commanded, held>>

SetData ==
    /\ key \in SetByData
    /\ \E v \in Values : Running([type |-> "string", by |-> "script", value |-> v])

Stop ==
    /\ stage = "running"
    /\ stage' = "stopped"
    /\ UNCHANGED <<key, option, commanded, held, copy>>

Next ==
    \/ ReadConfig \/ CommandLine \/ WriteDefault \/ Configure \/ LegacyFile
    \/ Clamp \/ CommandLineAgain \/ AddScript \/ WriteCurrent \/ Hold
    \/ ConsoleConfig \/ Exec \/ SetData \/ Stop

Spec == Init /\ [][Next]_vars
-----------------------------------------------------------------------------
TypeOK ==
    /\ key \in Options
    /\ stage \in {"file", "commandLine", "components", "configure", "commandLine2",
                  "configured", "running", "stopped"}
    /\ {option.type, copy.type} \subseteq Types \cup {"none"}
    /\ {option.value, copy.value} \subseteq Values
    /\ commanded \in Texts \cup {NoText}
    /\ held \in BOOLEAN

\* What a legacy line sets is of the type the option has by default, for every
\* option of the server that a legacy line can set.
TablesAgree ==
    \A k \in UNION {IntOptions, FloatOptions, TextOptions, Switches} :
        LegacyType(k) \in {"none", DefaultType(k)}

\* An option with a default keeps its type, whatever sets it, so that the
\* pointers taken to its value while the server starts stay pointers to one.
Typed ==
    /\ stage # "file" /\ DefaultType(key) # "none" => option.type = DefaultType(key)
    /\ held => option.type # "none"

\* The command line has the last word when the server starts, though the
\* components that are configured after it was read first set options too; and
\* only it can leave more players than the pool has room for.
Precedence ==
    stage = "configured" =>
        /\ commanded.form \in (IF option.type = "none" THEN {} ELSE Reads[option.type]) =>
              option.by = "command"
        /\ key = "max_players" /\ option.value = "off" => option.by = "command"

\* The network has what the option is now, whoever set it, but for what it does
\* not take back once it is off.
NetworkCurrent ==
    stage = "running" /\ key \in Updated /\ ~(key \in Blankable /\ option.value = "off") =>
        copy = option
=============================================================================

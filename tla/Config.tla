-------------------------------- MODULE Config --------------------------------
(***************************************************************************)
(* internal/config: the settings of the server from the process            *)
(* environment and the .env file, and the first use of the tick interval.  *)
(* The values of variables are words; what a word means as a number, a     *)
(* switch or a level is given by tables.                                   *)
(***************************************************************************)
EXTENDS Integers

CONSTANTS Environments,  \* of the process: the words of the variables it sets
          Files,         \* of .env likewise
          NoFile, BadFile, \* there is none, it cannot be read or parsed
          Empty,         \* the word of a variable that is set to nothing
          Atoi,          \* the words that are integers
          ParseBool,     \* the words that strconv.ParseBool takes
          Levels         \* the words that name a log level, whatever their case

ASSUME ConfigAssumption ==
    /\ Empty \notin DOMAIN Atoi \cup DOMAIN ParseBool \cup DOMAIN Levels
    /\ {NoFile, BadFile} \cap Files = {} /\ NoFile # BadFile
    /\ \A f \in Environments \cup Files : f = [k \in DOMAIN f |-> f[k]]
    /\ \A w \in DOMAIN Atoi : Atoi[w] \in Int

Second  == 1000000000   \* a time.Duration counts nanoseconds
Integer == {"ROM_TICK_HZ", "ROM_WORLD_ID", "ROM_GAME_PORT"}

VARIABLES given,     \* the environment that the process is started with
          file,      \* the .env file in its directory
          environ,   \* the environment of the process
          phase,     \* "start", "read", "failed", "loaded", "ticking", "panicked"
          settings   \* the Config

configVars == <<given, file, environ, phase, settings>>

-----------------------------------------------------------------------------
(* Reading variables.                                                      *)

env(vars, key, fallback) ==
    IF key \in DOMAIN vars /\ vars[key] # Empty THEN vars[key] ELSE fallback

IsSet(vars, key) == key \in DOMAIN vars /\ vars[key] # Empty

\* Mutant: a word that is no integer is passed over.
envIntLenient(vars, key, fallback) ==
    IF IsSet(vars, key) /\ vars[key] \in DOMAIN Atoi
    THEN [ok |-> TRUE, n |-> Atoi[vars[key]]]
    ELSE [ok |-> TRUE, n |-> fallback]

envInt(vars, key, fallback) ==
    IF ~IsSet(vars, key) THEN [ok |-> TRUE, n |-> fallback]
    ELSE IF vars[key] \in DOMAIN Atoi THEN [ok |-> TRUE, n |-> Atoi[vars[key]]]
    ELSE [ok |-> FALSE, n |-> 0]

envBool(vars, key, fallback) ==
    IF IsSet(vars, key) /\ vars[key] \in DOMAIN ParseBool THEN ParseBool[vars[key]]
    ELSE fallback

parseLogLevel(name) == IF name \in DOMAIN Levels THEN Levels[name] ELSE "Info"

Refused == [ok |-> FALSE]

\* Mutant: the interval is counted in milliseconds.
MillisecondsPer(hz) == (Second \div 1000000) \div hz

\* time.Second / time.Duration(tickHz), in nanoseconds.
IntervalPer(hz) == Second \div hz

TickHz(vars)   == envInt(vars, "ROM_TICK_HZ", 20)
WorldID(vars)  == envInt(vars, "ROM_WORLD_ID", 1)
GamePort(vars) == envInt(vars, "ROM_GAME_PORT", 17701)

\* The Config, or an error.
Load(vars) ==
    IF \/ ~TickHz(vars).ok \/ TickHz(vars).n <= 0
       \/ ~WorldID(vars).ok
       \/ ~GamePort(vars).ok \/ GamePort(vars).n < 1 \/ GamePort(vars).n > 65535
    THEN Refused
    ELSE [ok             |-> TRUE,
          GameListenAddr |-> <<env(vars, "ROM_GAME_HOST", Empty), GamePort(vars).n>>,
          ConsumeSession |-> envBool(vars, "ROM_CONSUME_SESSION", FALSE),
          WorldID        |-> WorldID(vars).n,
          TickInterval   |-> IntervalPer(TickHz(vars).n),
          LogLevel       |-> parseLogLevel(env(vars, "ROM_LOG_LEVEL", "info"))]

-----------------------------------------------------------------------------
(* Start-up.                                                               *)

ConfigInit ==
    /\ given \in Environments
    /\ file \in Files \cup {NoFile, BadFile}
    /\ environ = given /\ phase = "start" /\ settings = Refused

\* The variables of f, and those of g that f leaves open.
Over(f, g) ==
    [k \in DOMAIN f \cup DOMAIN g |-> IF k \in DOMAIN f THEN f[k] ELSE g[k]]

\* Mutant: the file replaces what the environment has.
LoadFileOver ==
    /\ phase = "start"
    /\ \/ /\ file \in Files
          /\ environ' = Over(file, environ) /\ phase' = "read"
       \/ file = NoFile /\ phase' = "read" /\ UNCHANGED environ
       \/ file = BadFile /\ phase' = "failed" /\ UNCHANGED environ
    /\ UNCHANGED <<given, file, settings>>

\* godotenv.Load sets only the variables that are not there, set to nothing or not.
LoadFile ==
    /\ phase = "start"
    /\ \/ /\ file \in Files
          /\ environ' = Over(environ, file) /\ phase' = "read"
       \/ file = NoFile /\ phase' = "read" /\ UNCHANGED environ
       \/ file = BadFile /\ phase' = "failed" /\ UNCHANGED environ
    /\ UNCHANGED <<given, file, settings>>

LoadConfig ==
    /\ phase = "read"
    /\ settings' = Load(environ)
    /\ phase' = IF settings'.ok THEN "loaded" ELSE "failed"
    /\ UNCHANGED <<given, file, environ>>

\* main goes on to World.Run, whose time.NewTicker takes no interval of zero.
StartTicker ==
    /\ phase = "loaded"
    /\ phase' = IF settings.TickInterval > 0 THEN "ticking" ELSE "panicked"
    /\ UNCHANGED <<given, file, environ, settings>>

ConfigNext == LoadFile \/ LoadConfig \/ StartTicker

ConfigSpec == ConfigInit /\ [][ConfigNext]_configVars

-----------------------------------------------------------------------------
(* Properties.                                                             *)

\* What a file says of the variables that the process was not started with.
Said(f) == [k \in (IF f \in Files THEN DOMAIN f ELSE {}) \ DOMAIN given |-> f[k]]

\* What the process is started with decides, also where it is set to nothing:
\* files that agree on all other variables lead to the same settings
\* (config.go:42-44, "real environment variables always take precedence").
EnvWins ==
    phase \in {"loaded", "ticking", "panicked"} =>
        \A other \in Files : Said(other) = Said(file) => Load(Over(given, other)) = settings

\* The word that an operator has given for a variable.
Asked(k) ==
    IF k \in DOMAIN given THEN given[k]
    ELSE IF file \in Files /\ k \in DOMAIN file THEN file[k] ELSE Empty

AskedRate == IF Asked("ROM_TICK_HZ") = Empty THEN 20 ELSE Atoi[Asked("ROM_TICK_HZ")]

PortIsOne == settings.GameListenAddr[2] > 0 /\ settings.GameListenAddr[2] < 65536

RateKept ==
    /\ settings.TickInterval * AskedRate <= Second
    /\ Second - settings.TickInterval * AskedRate < AskedRate

\* A server runs with the integers it was given and with none that it makes up:
\* a word that is no integer keeps it from starting, wherever it stands, its
\* port is one, and it steps at the rate asked for, rounded up to a whole
\* interval (Load, envInt, world.Run).
RunsAsAsked ==
    phase = "ticking" =>
        /\ \A k \in Integer : Asked(k) \in DOMAIN Atoi \cup {Empty}
        /\ Asked("ROM_GAME_PORT") # Empty =>
               settings.GameListenAddr[2] = Atoi[Asked("ROM_GAME_PORT")]
        /\ Asked("ROM_WORLD_ID") # Empty => settings.WorldID = Atoi[Asked("ROM_WORLD_ID")]
        /\ PortIsOne /\ RateKept

\* The world's goroutine panics only at a rate that leaves no nanosecond to a
\* step: every other rate that Load lets through can be run (Load, world.Run).
PanicsOnlyBeyondSecond ==
    phase = "panicked" => /\ Asked("ROM_TICK_HZ") \in DOMAIN Atoi
                          /\ Atoi[Asked("ROM_TICK_HZ")] > Second
=============================================================================

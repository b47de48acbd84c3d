------------------------------- MODULE MCProcess -------------------------------
(* Words on every side of every check, in the environment and in .env; and *)
(* three clients: while one is in a handler another can wait in Recv and a *)
(* third in the backlog when the signal comes.                             *)
EXTENDS Process, TLC

MCAtoi      == ("0" :> 0) @@ ("3" :> 3) @@ ("65535" :> 65535) @@ ("65536" :> 65536)
               @@ ("2000000000" :> 2000000000)
MCParseBool == ("true" :> TRUE) @@ ("0" :> FALSE)
MCLevels    == ("warn" :> "Warn") @@ ("WARNING" :> "Warn")

MCEnvironments ==
    {[k \in {"ROM_TICK_HZ", "ROM_GAME_PORT"} |-> w] :
        w \in {"", "0", "3", "x", "65535", "65536"}}
    \cup {[k \in {"ROM_TICK_HZ"} |-> w] : w \in {"", "3", "2000000000"}}
    \cup {[k \in {"ROM_GAME_PORT"} |-> w] : w \in {"3", "65536"}}
    \cup {("ROM_WORLD_ID" :> w) @@ ("ROM_CONSUME_SESSION" :> w) @@ ("ROM_LOG_LEVEL" :> w) :
        w \in {"0", "x"}}
MCFiles ==
    {[k \in {"ROM_TICK_HZ", "ROM_GAME_PORT"} |-> w] : w \in {"", "3", "x"}}
    \cup {"ROM_TICK_HZ" :> "2000000000"}
    \cup {("ROM_GAME_PORT" :> "65535") @@ ("ROM_CONSUME_SESSION" :> "true")
            @@ ("ROM_WORLD_ID" :> "3") @@ ("ROM_LOG_LEVEL" :> "WARNING")}
=============================================================================

-------------------------------- MODULE Process --------------------------------
(***************************************************************************)
(* The process as a whole: Config decides whether the Server starts and    *)
(* how fast its world steps.  The world's first act is to make its ticker, *)
(* in a goroutine of its own, while main goes on to listen and accept.     *)
(***************************************************************************)
EXTENDS Config, Server

processVars == <<given, file, environ, phase, settings, vars>>

ProcessInit == ConfigInit /\ Init

\* config.Load, before run() does anything else; its error is run's.
Configure ==
    /\ LoadFile \/ LoadConfig
    /\ main' = IF phase' = "failed" THEN "exited" ELSE main
    /\ UNCHANGED <<ctxDone, store, worldLoop, listener, conn, wg>>

\* The first line of World.Run.
BeginRun ==
    /\ Alive /\ worldLoop = "running"
    /\ StartTicker
    /\ IF phase' = "panicked" THEN Crash ELSE UNCHANGED vars

\* Everything else waits for the settings, and the world's loop for its ticker.
Run ==
    /\ \/ phase \in {"loaded", "ticking"} /\ (Main \/ Others)
       \/ phase = "ticking" /\ StopWorld
    /\ UNCHANGED configVars

ProcessNext == Configure \/ BeginRun \/ Run

ProcessSpec == ProcessInit /\ [][ProcessNext]_processVars

\* The start-up is code of the process's own goroutines as well.
FairProcessSpec ==
    /\ ProcessSpec /\ WF_processVars(Configure) /\ WF_processVars(BeginRun)
    /\ ServerFairness /\ ClientFairness
=============================================================================

-------------------------------- MODULE Server --------------------------------
(***************************************************************************)
(* cmd/server: the life of the process.  main connects to Postgres, starts *)
(* World.Run, listens, and serves each accepted connection in a goroutine; *)
(* a signal cancels ctx, which closes the listener, ends the accept loop   *)
(* and makes main wait for the connections before it closes the store.     *)
(* What a connection does between two messages is module Session.          *)
(***************************************************************************)
EXTENDS Naturals, FiniteSets

CONSTANT Conns          \* client connections, each used once

ASSUME ConnsAssumption == IsFiniteSet(Conns)

VARIABLES main,         \* where run() is
          ctxDone,      \* the signal context is cancelled
          store,        \* the connection pool
          worldLoop,    \* the goroutine of World.Run
          listener,     \* the listening socket
          conn,         \* each connection: its socket, then its goroutine
          wg            \* the WaitGroup's counter

vars == <<main, ctxDone, store, worldLoop, listener, conn, wg>>

\* The connections that have a goroutine.
Serving == {"handshake", "top", "recv", "handling"}
Active  == {s \in Conns : conn[s] \in Serving}

TypeOK ==
    /\ main \in {"start", "world", "listen", "accept", "drain", "exited"}
    /\ ctxDone \in BOOLEAN
    /\ store \in {"none", "open", "closed"}
    /\ worldLoop \in {"none", "running", "stopped"}
    /\ listener \in {"none", "open", "closed"}
    /\ conn \in [Conns -> {"none", "backlog", "done"} \cup Serving]
    /\ wg \in Nat

Init ==
    /\ main = "start"
    /\ ctxDone = FALSE
    /\ store = "none"
    /\ worldLoop = "none"
    /\ listener = "none"
    /\ conn = [s \in Conns |-> "none"]
    /\ wg = 0

-----------------------------------------------------------------------------
(* run, the main goroutine, from the moment config.Load has returned.      *)

\* postgres.New opens the pool and pings, which needs a live ctx, or run
\* returns the error.
OpenStore ==
    /\ main = "start"
    /\ \/ ~ctxDone /\ main' = "world" /\ store' = "open"
       \/ main' = "exited" /\ UNCHANGED store
    /\ UNCHANGED <<ctxDone, worldLoop, listener, conn, wg>>

StartWorld ==
    /\ main = "world"
    /\ main' = "listen"
    /\ worldLoop' = "running"
    /\ UNCHANGED <<ctxDone, store, listener, conn, wg>>

\* run returns: the deferred calls close the store, then cancel ctx.
Exit ==
    /\ main' = "exited"
    /\ store' = "closed"
    /\ ctxDone' = TRUE

Listen ==
    /\ main = "listen"
    /\ \/ /\ main' = "accept"
          /\ listener' = "open"
          /\ UNCHANGED <<store, ctxDone>>
       \/ /\ Exit
          /\ UNCHANGED listener
    /\ UNCHANGED <<worldLoop, conn, wg>>

\* Mutant: the goroutine itself calls Add, later.
AcceptWithoutAdd(s) ==
    /\ main = "accept" /\ listener = "open"
    /\ conn[s] = "backlog"
    /\ conn' = [conn EXCEPT ![s] = "handshake"]
    /\ UNCHANGED <<main, ctxDone, store, worldLoop, listener, wg>>

\* Accept returns a socket; ctx is not looked at.
Accept(s) ==
    /\ main = "accept" /\ listener = "open"
    /\ conn[s] = "backlog"
    /\ conn' = [conn EXCEPT ![s] = "handshake"]
    /\ wg' = wg + 1
    /\ UNCHANGED <<main, ctxDone, store, worldLoop, listener>>

\* Accept returns an error, of the closed listener or a passing one.  When ctx
\* is live the loop goes on, which changes nothing.
StopAccepting ==
    /\ main = "accept"
    /\ ctxDone
    /\ main' = "drain"
    /\ UNCHANGED <<ctxDone, store, worldLoop, listener, conn, wg>>

\* Mutant: run returns without waiting.
DrainAtOnce ==
    /\ main = "drain"
    /\ Exit
    /\ UNCHANGED <<worldLoop, listener, conn, wg>>

\* wg.Wait returns.
Drain ==
    /\ main = "drain"
    /\ wg = 0
    /\ Exit
    /\ UNCHANGED <<worldLoop, listener, conn, wg>>

-----------------------------------------------------------------------------
(* The other goroutines.  When main returns the process ends at once, and  *)
(* none of them takes another step.                                        *)

Alive == main # "exited"

\* SIGINT or SIGTERM, from the moment it is handled.
Signal ==
    /\ Alive /\ ~ctxDone
    /\ ctxDone' = TRUE
    /\ UNCHANGED <<main, store, worldLoop, listener, conn, wg>>

\* The goroutine that waits for ctx closes the listener; the kernel resets
\* the sockets that were not accepted.
CloseListener ==
    /\ Alive /\ ctxDone /\ listener = "open"
    /\ listener' = "closed"
    /\ conn' = [s \in Conns |-> IF conn[s] = "backlog" THEN "done" ELSE conn[s]]
    /\ UNCHANGED <<main, ctxDone, store, worldLoop, wg>>

StopWorld ==
    /\ Alive /\ ctxDone /\ worldLoop = "running"
    /\ worldLoop' = "stopped"
    /\ UNCHANGED <<main, ctxDone, store, listener, conn, wg>>

\* A panic in a goroutine ends the process without a deferred call of main.
Crash ==
    /\ Alive
    /\ main' = "exited"
    /\ UNCHANGED <<ctxDone, store, worldLoop, listener, conn, wg>>

\* A client connects.
Dial(s) ==
    /\ Alive /\ listener = "open"
    /\ conn[s] = "none"
    /\ conn' = [conn EXCEPT ![s] = "backlog"]
    /\ UNCHANGED <<main, ctxDone, store, worldLoop, listener, wg>>

\* The goroutine of s goes on to the next place of serveConn and Serve.
Become(s, place) ==
    /\ conn' = [conn EXCEPT ![s] = place]
    /\ wg' = IF place = "done" THEN wg - 1 ELSE wg
    /\ UNCHANGED <<main, ctxDone, store, worldLoop, listener>>

\* Mutant: a failed handshake returns past the deferred Done.
HandshakeLeaks(s) ==
    /\ Alive /\ conn[s] = "handshake"
    /\ \/ Become(s, "top")
       \/ /\ conn' = [conn EXCEPT ![s] = "done"]
          /\ UNCHANGED <<main, ctxDone, store, worldLoop, listener, wg>>

\* The handshake only writes; if it fails the socket is closed.
Handshake(s) ==
    /\ Alive /\ conn[s] = "handshake"
    /\ Become(s, "top") \/ Become(s, "done")

\* Mutant: the loop of Serve does not look at ctx.
LoopTopUnchecked(s) ==
    /\ Alive /\ conn[s] = "top"
    /\ Become(s, "recv")

\* The top of Serve's loop looks at ctx, once.
LoopTop(s) ==
    /\ Alive /\ conn[s] = "top"
    /\ Become(s, IF ctxDone THEN "done" ELSE "recv")

\* The client sends a message, or closes, or its frame is malformed.
Recv(s) ==
    /\ Alive /\ conn[s] = "recv"
    /\ Become(s, "handling") \/ Become(s, "done")

\* The handler, which may use the store and the world, returns nil or an error.
Handle(s) ==
    /\ Alive /\ conn[s] = "handling"
    /\ Become(s, "top") \/ Become(s, "done")

Goroutine(s) == Handshake(s) \/ LoopTop(s) \/ Handle(s)

Main ==
    \/ OpenStore \/ StartWorld \/ Listen
    \/ \E s \in Conns : Accept(s)
    \/ StopAccepting \/ Drain

Others ==
    \/ Signal \/ CloseListener
    \/ \E s \in Conns : Dial(s) \/ Recv(s) \/ Goroutine(s)

Next == Main \/ Others \/ StopWorld \/ Crash

Spec == Init /\ [][Next]_vars

-----------------------------------------------------------------------------
(* Safety.                                                                 *)

\* The WaitGroup counts exactly the goroutines that serve a connection, with
\* every way in and every way out (main.go:82-86).
WaitGroupExact == wg = Cardinality(Active)

\* As long as a connection has a goroutine, and so may call the store or the
\* world, the pool is open and the world was started: not even a shutdown in
\* the middle of a handler closes the pool under it (main.go:44, 50, 90).
StoreOutlivesHandlers == Active # {} => store = "open" /\ worldLoop # "none"

-----------------------------------------------------------------------------
(* Liveness.                                                               *)

\* The process's own goroutines run, region and Postgres answer or fail, and
\* a peer reads what it is sent or its socket breaks.
ServerFairness ==
    /\ WF_vars(OpenStore) /\ WF_vars(StartWorld) /\ WF_vars(Listen)
    /\ WF_vars(StopAccepting /\ listener = "closed")
    /\ WF_vars(Drain) /\ WF_vars(CloseListener) /\ WF_vars(StopWorld)
    /\ \A s \in Conns : WF_vars(Goroutine(s))

\* Every client goes on sending, or closes.
ClientFairness == \A s \in Conns : WF_vars(Recv(s))

FairSpec == Spec /\ ServerFairness

FairClientSpec == FairSpec /\ ClientFairness

\* After the signal the process ends, however the signal interleaves with the
\* start-up, with connections being accepted and with handlers, provided that
\* every client sends one more message or closes (main.run, Handler.Serve).
ShutdownCompletes == ctxDone ~> main = "exited"

\* handler.go:51, "Serve runs the connection's lifecycle until it closes or
\* ctx is cancelled": every connection ends after the cancellation, unless the
\* whole process is gone.
ServeEndsOnCancel ==
    \A s \in Conns :
        (ctxDone /\ conn[s] \in Serving) ~> (conn[s] \notin Serving \/ main = "exited")
=============================================================================

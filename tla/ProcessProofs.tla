----------------------------- MODULE ProcessProofs -----------------------------
(***************************************************************************)
(* Proofs about cmd/server.  First the server alone, for any finite set of *)
(* connections: the WaitGroup is exact, and the store and the world        *)
(* outlive every goroutine that may use them.  Then the whole process:     *)
(* what is shown of the server holds with its configuration in front, a    *)
(* variable that the process is started with decides against any .env      *)
(* file, and the world's ticker panics at no rate of a billion steps a     *)
(* second or fewer.                                                        *)
(***************************************************************************)
EXTENDS Process, FiniteSetTheorems, TLAPS

-----------------------------------------------------------------------------
(* The server alone.                                                       *)

\* What each stage of run() has already done.  The store is open from the
\* first connection to the last because main closes it only in stages in
\* which no connection has a goroutine; a panic closes nothing.
Stages ==
    /\ main \in {"world", "listen", "accept", "drain"} => store = "open"
    /\ main \in {"listen", "accept", "drain"} => worldLoop # "none"
    /\ Active # {} => /\ main \in {"accept", "drain", "exited"}
                      /\ store = "open" /\ worldLoop # "none"

IInv == TypeOK /\ WaitGroupExact /\ Stages

\* The goroutines are as finite as the connections, so they can be counted.
LEMMA ActiveFinite == IsFiniteSet(Active) /\ Cardinality(Active) \in Nat
<1>1. Active \subseteq Conns
    BY DEF Active
<1>2. IsFiniteSet(Active)
    BY <1>1, ConnsAssumption, FS_Subset
<1> QED BY <1>2, FS_CardinalityType

\* Moving between two places of a goroutine keeps the invariant; finishing
\* gives back one count of the WaitGroup.
LEMMA BecomeKeeps ==
    ASSUME IInv, NEW s \in Active, NEW place \in Serving \cup {"done"}, Alive, Become(s, place)
    PROVE  IInv'
<1>1. s \in Conns /\ main \in {"accept", "drain"}
    BY DEF IInv, Stages, Active, Alive
<1>2. UNCHANGED <<main, ctxDone, store, worldLoop, listener>>
    BY DEF Become
<1>3. conn' \in [Conns -> {"none", "backlog", "done"} \cup Serving]
    BY <1>1 DEF IInv, TypeOK, Become
<1>4. wg = Cardinality(Active) /\ wg \in Nat
    BY ActiveFinite DEF IInv, WaitGroupExact
<1>5. CASE place = "done"
    <2>1. Active' = Active \ {s} /\ wg' = wg - 1
        BY <1>1, <1>5 DEF IInv, TypeOK, Become, Active, Serving
    <2>2. Cardinality(Active \ {s}) = Cardinality(Active) - 1
          /\ Cardinality(Active \ {s}) \in Nat
        BY ActiveFinite, FS_RemoveElement, FS_CardinalityType
    <2>3. wg' = Cardinality(Active)' /\ wg' \in Nat
        BY <1>4, <2>1, <2>2
    <2> QED BY <1>1, <1>2, <1>3, <2>3 DEF IInv, TypeOK, WaitGroupExact, Stages
<1>6. CASE place # "done"
    <2>1. Active' = Active /\ wg' = wg
        BY <1>1, <1>6 DEF IInv, TypeOK, Become, Active
    <2> QED BY <1>1, <1>2, <1>3, <1>4, <2>1 DEF IInv, TypeOK, WaitGroupExact, Stages
<1> QED BY <1>5, <1>6

\* A step that leaves the connections with a goroutine and the WaitGroup alone.
LEMMA ActiveKept ==
    ASSUME IInv, TypeOK', Stages', Active' = Active, wg' = wg
    PROVE  IInv'
BY DEF IInv, WaitGroupExact

\* Every step keeps the invariant.
LEMMA Inductive ==
    ASSUME IInv, [Next]_vars
    PROVE  IInv'
<1>1. CASE OpenStore
    <2>1. Active' = Active
        BY <1>1 DEF OpenStore, Active
    <2> QED BY <1>1, <2>1, ActiveKept DEF OpenStore, IInv, TypeOK, Stages
<1>2. CASE StartWorld
    <2>1. Active' = Active
        BY <1>2 DEF StartWorld, Active
    <2> QED BY <1>2, <2>1, ActiveKept DEF StartWorld, IInv, TypeOK, Stages
<1>3. CASE Listen
    <2>1. Active' = Active
        BY <1>3 DEF Listen, Active
    <2> QED BY <1>3, <2>1, ActiveKept DEF Listen, Exit, IInv, TypeOK, Stages
<1>4. ASSUME NEW s \in Conns, Accept(s)
      PROVE  IInv'
    <2>1. conn' \in [Conns -> {"none", "backlog", "done"} \cup Serving]
        BY <1>4 DEF Accept, IInv, TypeOK, Serving
    <2>2. Active' = Active \cup {s} /\ s \notin Active
        BY <1>4 DEF Accept, IInv, TypeOK, Active, Serving
    <2>3. Cardinality(Active \cup {s}) = Cardinality(Active) + 1
        BY <2>2, ActiveFinite, FS_AddElement
    <2>4. wg' = Cardinality(Active)' /\ wg' \in Nat
        BY <1>4, <2>2, <2>3, ActiveFinite DEF Accept, IInv, WaitGroupExact
    <2> QED BY <1>4, <2>1, <2>4 DEF Accept, IInv, TypeOK, WaitGroupExact, Stages
<1>5. CASE StopAccepting
    <2>1. Active' = Active
        BY <1>5 DEF StopAccepting, Active
    <2> QED BY <1>5, <2>1, ActiveKept DEF StopAccepting, IInv, TypeOK, Stages
<1>6. CASE Drain
    <2>1. Active = {}
        BY <1>6, ActiveFinite, FS_EmptySet DEF Drain, IInv, WaitGroupExact
    <2>2. Active' = Active
        BY <1>6 DEF Drain, Active
    <2> QED BY <1>6, <2>1, <2>2, ActiveKept DEF Drain, Exit, IInv, TypeOK, Stages
<1>7. CASE Signal
    <2>1. Active' = Active
        BY <1>7 DEF Signal, Active
    <2> QED BY <1>7, <2>1, ActiveKept DEF Signal, IInv, TypeOK, Stages
<1>8. CASE CloseListener
    <2>1. Active' = Active
        BY <1>8 DEF CloseListener, Active, Serving
    <2>2. conn' \in [Conns -> {"none", "backlog", "done"} \cup Serving]
        BY <1>8 DEF CloseListener, IInv, TypeOK
    <2> QED BY <1>8, <2>1, <2>2, ActiveKept DEF CloseListener, IInv, TypeOK, Stages
<1>9. CASE StopWorld
    <2>1. Active' = Active
        BY <1>9 DEF StopWorld, Active
    <2> QED BY <1>9, <2>1, ActiveKept DEF StopWorld, IInv, TypeOK, Stages
<1>10. ASSUME NEW s \in Conns, Dial(s)
       PROVE  IInv'
    <2>1. Active' = Active
        BY <1>10 DEF Dial, IInv, TypeOK, Active, Serving
    <2>2. conn' \in [Conns -> {"none", "backlog", "done"} \cup Serving]
        BY <1>10 DEF Dial, IInv, TypeOK
    <2> QED BY <1>10, <2>1, <2>2, ActiveKept DEF Dial, IInv, TypeOK, Stages
<1>11. ASSUME NEW s \in Conns, Recv(s) \/ Goroutine(s)
       PROVE  IInv'
    <2>1. s \in Active /\ Alive
        BY <1>11 DEF Recv, Goroutine, Handshake, LoopTop, Handle, Active, Serving
    <2>2. PICK place \in Serving \cup {"done"} : Become(s, place)
        BY <1>11 DEF Recv, Goroutine, Handshake, LoopTop, Handle, Serving
    <2> QED BY <2>1, <2>2, BecomeKeeps
<1>12. CASE Crash
    <2>1. Active' = Active
        BY <1>12 DEF Crash, Active
    <2> QED BY <1>12, <2>1, ActiveKept DEF Crash, IInv, TypeOK, Stages
<1>13. CASE UNCHANGED vars
    BY <1>13 DEF vars, IInv, TypeOK, WaitGroupExact, Stages, Active
<1>14. CASE Main
    BY <1>1, <1>2, <1>3, <1>4, <1>5, <1>6, <1>14 DEF Main
<1>15. CASE Others
    BY <1>7, <1>8, <1>10, <1>11, <1>15 DEF Others
<1> QED BY <1>9, <1>12, <1>13, <1>14, <1>15 DEF Next

\* The process starts in the invariant.
LEMMA Initially == Init => IInv
<1>1. Init => Active = {}
    BY DEF Init, Active, Serving
<1>2. Cardinality({}) = 0
    BY FS_EmptySet
<1>3. Init => WaitGroupExact
    BY <1>1, <1>2 DEF Init, WaitGroupExact
<1>4. ASSUME Init PROVE TypeOK
    <2>1. conn \in [Conns -> {"none", "backlog", "done"} \cup Serving]
        BY <1>4 DEF Init
    <2>2. wg \in Nat
        BY <1>4 DEF Init
    <2> QED BY <1>4, <2>1, <2>2 DEF Init, TypeOK
<1>5. Init => Stages
    BY <1>1 DEF Init, Stages
<1> QED BY <1>3, <1>4, <1>5 DEF IInv

\* The invariant holds throughout every run.
LEMMA Invariance == Spec => []IInv
BY Initially, Inductive, PTL DEF Spec

\* Every variable of the process keeps its type; the WaitGroup's counter never
\* becomes negative, which would panic.
THEOREM TypeCorrect == Spec => []TypeOK
BY Invariance, PTL DEF IInv

\* The WaitGroup counts the goroutines that serve a connection (main.go:82-86).
THEOREM WaitGroupCorrect == Spec => []WaitGroupExact
BY Invariance, PTL DEF IInv

\* The pool and the world outlive every goroutine that may use them, through
\* start-up, failure to listen, and shutdown (main.go:44, 50, 90).
THEOREM StoreOutlives == Spec => []StoreOutlivesHandlers
<1>1. IInv => StoreOutlivesHandlers
    BY DEF IInv, Stages, StoreOutlivesHandlers
<1> QED BY <1>1, Invariance, PTL

-----------------------------------------------------------------------------
(* The process: the configuration in front of the server.                  *)

\* What the process knows: where its settings come from, and that main waits
\* for them.
Effective == IF file \in Files THEN Over(given, file) ELSE given

Informed ==
    /\ given \in Environments /\ file \in Files \cup {NoFile, BadFile}
    /\ phase \in {"start", "read", "failed", "loaded", "ticking", "panicked"}
    /\ phase = "start" => environ = given
    /\ phase \in {"start", "read"} => main = "start"
    /\ phase \in {"read", "loaded", "ticking", "panicked"} => environ = Effective
    /\ phase \in {"loaded", "ticking", "panicked"} => settings = Load(environ) /\ settings.ok
    /\ phase = "ticking" => settings.TickInterval > 0
    /\ phase = "panicked" => ~(settings.TickInterval > 0)

LEMMA InformedInitially == ProcessInit => Informed
BY DEF ProcessInit, ConfigInit, Init, Informed

\* Only the start-up and the first line of the world touch the configuration.
LEMMA InformedInductive ==
    ASSUME Informed, [ProcessNext]_processVars
    PROVE  Informed'
<1>1. CASE Configure
    <2>1. CASE LoadFile
        BY <1>1, <2>1, ConfigAssumption DEF Configure, LoadFile, Informed, Effective
    <2>2. CASE LoadConfig
        BY <1>1, <2>2 DEF Configure, LoadConfig, Informed, Effective
    <2> QED BY <1>1, <2>1, <2>2 DEF Configure
<1>2. CASE BeginRun
    BY <1>2 DEF BeginRun, StartTicker, Informed, Effective
<1>3. CASE Run
    BY <1>3 DEF Run, configVars, Informed, Effective
<1>4. CASE UNCHANGED processVars
    BY <1>4 DEF processVars, vars, Informed, Effective
<1> QED BY <1>1, <1>2, <1>3, <1>4 DEF ProcessNext

LEMMA AlwaysInformed == ProcessSpec => []Informed
BY InformedInitially, InformedInductive, PTL DEF ProcessSpec

-----------------------------------------------------------------------------
(* The server behind its configuration.                                    *)

\* Every step of the process is one of the server or leaves it alone.
LEMMA ProcessStepServes ==
    ASSUME Informed, [ProcessNext]_processVars
    PROVE  [Next]_vars
<1>1. CASE Configure
    <2>1. main = "start"
        BY <1>1 DEF Configure, LoadFile, LoadConfig, Informed
    <2>2. CASE phase' = "failed"
        BY <1>1, <2>1, <2>2 DEF Configure, Next, Main, OpenStore
    <2>3. CASE phase' # "failed"
        BY <1>1, <2>3 DEF Configure, vars
    <2> QED BY <2>2, <2>3
<1>2. CASE BeginRun
    BY <1>2 DEF BeginRun, Next
<1>3. CASE Run
    BY <1>3 DEF Run, Next
<1>4. CASE UNCHANGED processVars
    BY <1>4 DEF processVars
<1> QED BY <1>1, <1>2, <1>3, <1>4 DEF ProcessNext

\* Whatever its configuration, the process is a server as Server specifies it.
THEOREM ProcessServes == ProcessSpec => Spec
<1>1. ProcessInit => Init
    BY DEF ProcessInit
<1> QED BY <1>1, ProcessStepServes, AlwaysInformed, PTL DEF ProcessSpec, Spec

\* The pool and the world outlive every goroutine that may use them, also with
\* the start-up and the panic of the ticker (main.go:30-92).
THEOREM ProcessStoreOutlives == ProcessSpec => []StoreOutlivesHandlers
BY ProcessServes, StoreOutlives, PTL

-----------------------------------------------------------------------------
(* The settings.                                                           *)

\* A file that says the same of what the process was not started with makes the
\* same environment.
LEMMA SaidDecides ==
    ASSUME Informed, NEW other \in Files, Said(other) = Said(file)
    PROVE  Over(given, other) = Effective
<1>1. DOMAIN Said(other) = DOMAIN other \ DOMAIN given
    BY DEF Said
<1>2. \A k \in DOMAIN other \ DOMAIN given : Said(other)[k] = other[k]
    BY DEF Said
<1>3. CASE file \in Files
    <2>1. DOMAIN Said(file) = DOMAIN file \ DOMAIN given
        BY <1>3 DEF Said
    <2>2. \A k \in DOMAIN file \ DOMAIN given : Said(file)[k] = file[k]
        BY <1>3 DEF Said
    <2>3. DOMAIN given \cup DOMAIN other = DOMAIN given \cup DOMAIN file
        BY <1>1, <2>1
    <2>4. \A k \in DOMAIN other \ DOMAIN given : other[k] = file[k]
        BY <1>1, <1>2, <2>1, <2>2
    <2>5. Over(given, other) = Over(given, file)
        BY <2>3, <2>4 DEF Over
    <2> QED BY <1>3, <2>5 DEF Effective
<1>4. CASE file \notin Files
    <2>1. DOMAIN Said(file) = {}
        BY <1>4 DEF Said
    <2>2. DOMAIN given \cup DOMAIN other = DOMAIN given
        BY <1>1, <2>1
    <2>3. given = [k \in DOMAIN given |-> given[k]]
        BY ConfigAssumption DEF Informed
    <2>4. Over(given, other) = [k \in DOMAIN given |-> given[k]]
        BY <2>2 DEF Over
    <2> QED BY <1>4, <2>3, <2>4 DEF Effective
<1> QED BY <1>3, <1>4

\* The variables that the process is started with decide (config.go:42-44).
THEOREM EnvironmentWins == ProcessSpec => []EnvWins
<1>1. ASSUME Informed PROVE EnvWins
    BY <1>1, SaidDecides DEF Informed, EnvWins
<1> QED BY <1>1, AlwaysInformed, PTL

\* What an operator has asked for is what the process finds.
LEMMA AskedIsFound ==
    ASSUME Informed, phase \in {"loaded", "ticking", "panicked"}, NEW k
    PROVE  /\ IsSet(environ, k) <=> Asked(k) # Empty
           /\ IsSet(environ, k) => environ[k] = Asked(k)
<1>1. CASE file \in Files
    <2>1. environ = Over(given, file)
        BY <1>1 DEF Informed, Effective
    <2> QED BY <1>1, <2>1 DEF Over, IsSet, Asked
<1>2. CASE file \notin Files
    BY <1>2 DEF Informed, Effective, IsSet, Asked
<1> QED BY <1>1, <1>2

\* Division, as the interval needs it.
LEMMA IntervalFits ==
    ASSUME NEW hz \in Int, hz > 0
    PROVE  /\ IntervalPer(hz) \in Int
           /\ IntervalPer(hz) * hz <= Second
           /\ Second - IntervalPer(hz) * hz < hz
           /\ hz <= Second => IntervalPer(hz) > 0
BY SMTT(60) DEF IntervalPer, Second

\* The integer that Load takes for a variable.
LEMMA IntegerFound ==
    ASSUME Informed, phase \in {"loaded", "ticking", "panicked"}, NEW k, NEW fallback \in Int,
           envInt(environ, k, fallback).ok
    PROVE  /\ envInt(environ, k, fallback).n \in Int
           /\ Asked(k) = Empty => envInt(environ, k, fallback).n = fallback
           /\ Asked(k) # Empty => /\ Asked(k) \in DOMAIN Atoi
                                  /\ envInt(environ, k, fallback).n = Atoi[Asked(k)]
BY AskedIsFound, ConfigAssumption DEF envInt

\* What a Config that Load has accepted is made of.
LEMMA SettingsFound ==
    ASSUME Informed, phase \in {"loaded", "ticking", "panicked"}
    PROVE  /\ TickHz(environ).ok /\ TickHz(environ).n > 0
           /\ settings.TickInterval = IntervalPer(TickHz(environ).n)
           /\ WorldID(environ).ok /\ settings.WorldID = WorldID(environ).n
           /\ GamePort(environ).ok /\ GamePort(environ).n > 0 /\ GamePort(environ).n < 65536
           /\ settings.GameListenAddr[2] = GamePort(environ).n
<1>1. settings = Load(environ) /\ settings.ok
    BY DEF Informed
<1>2. ~Refused.ok
    BY DEF Refused
<1>3. TickHz(environ).ok => TickHz(environ).n \in Int
    BY IntegerFound DEF TickHz
<1>4. GamePort(environ).ok => GamePort(environ).n \in Int
    BY IntegerFound DEF GamePort
<1> QED BY <1>1, <1>2, <1>3, <1>4 DEF Load

\* The integer that is used is the one asked for.
LEMMA IntegersAsked ==
    ASSUME Informed, phase \in {"loaded", "ticking", "panicked"}
    PROVE  /\ \A k \in Integer : Asked(k) \in DOMAIN Atoi \cup {Empty}
           /\ TickHz(environ).n \in Int /\ TickHz(environ).n = AskedRate
           /\ GamePort(environ).n \in Int
           /\ Asked("ROM_GAME_PORT") # Empty =>
                  GamePort(environ).n = Atoi[Asked("ROM_GAME_PORT")]
           /\ Asked("ROM_WORLD_ID") # Empty =>
                  WorldID(environ).n = Atoi[Asked("ROM_WORLD_ID")]
<1>1. TickHz(environ).ok /\ WorldID(environ).ok /\ GamePort(environ).ok
    BY SettingsFound
<1>2. TickHz(environ).n \in Int /\ TickHz(environ).n = AskedRate
      /\ Asked("ROM_TICK_HZ") \in DOMAIN Atoi \cup {Empty}
    BY <1>1, IntegerFound DEF TickHz, AskedRate
<1>3. /\ Asked("ROM_WORLD_ID") \in DOMAIN Atoi \cup {Empty}
      /\ Asked("ROM_WORLD_ID") # Empty => WorldID(environ).n = Atoi[Asked("ROM_WORLD_ID")]
    BY <1>1, IntegerFound DEF WorldID
<1>4. /\ Asked("ROM_GAME_PORT") \in DOMAIN Atoi \cup {Empty}
      /\ GamePort(environ).n \in Int
      /\ Asked("ROM_GAME_PORT") # Empty => GamePort(environ).n = Atoi[Asked("ROM_GAME_PORT")]
    BY <1>1, IntegerFound DEF GamePort
<1> QED BY <1>2, <1>3, <1>4 DEF Integer

\* The ticker cannot panic at a rate of a billion a second or fewer (world.Run).
THEOREM PanicsExplained == ProcessSpec => []PanicsOnlyBeyondSecond
<1>1. ASSUME Informed, phase = "panicked"
      PROVE  /\ Asked("ROM_TICK_HZ") \in DOMAIN Atoi
             /\ Atoi[Asked("ROM_TICK_HZ")] > Second
    <2>1. ~(IntervalPer(TickHz(environ).n) > 0)
        BY <1>1, SettingsFound DEF Informed
    <2>2. TickHz(environ).n \in Int /\ TickHz(environ).n > 0
        BY <1>1, SettingsFound, IntegersAsked
    <2>3. ~(TickHz(environ).n <= Second)
        BY <2>1, <2>2, IntervalFits
    <2>4. AskedRate \in Int /\ AskedRate > Second
        BY <1>1, <2>2, <2>3, IntegersAsked DEF Second
    <2>5. Asked("ROM_TICK_HZ") # Empty
        BY <2>4 DEF AskedRate, Second
    <2> QED BY <1>1, <2>4, <2>5, IntegersAsked DEF AskedRate, Integer
<1>2. Informed => PanicsOnlyBeyondSecond
    BY <1>1, Zenon DEF PanicsOnlyBeyondSecond
<1> QED BY <1>2, AlwaysInformed, PTL

\* A server that runs does so with the integers it was given (Load, envInt).
THEOREM ServerRunsAsAsked == ProcessSpec => []RunsAsAsked
<1>1. ASSUME Informed, phase = "ticking"
      PROVE  RateKept
    <2>1. settings.TickInterval = IntervalPer(AskedRate) /\ AskedRate \in Int /\ AskedRate > 0
        BY <1>1, SettingsFound, IntegersAsked
    <2>2. IntervalPer(AskedRate) * AskedRate <= Second
          /\ Second - IntervalPer(AskedRate) * AskedRate < AskedRate
        BY <2>1, IntervalFits
    <2> QED BY <2>1, <2>2, Zenon DEF RateKept
<1>2. ASSUME Informed, phase = "ticking"
      PROVE  PortIsOne
    <2>1. GamePort(environ).n > 0 /\ GamePort(environ).n < 65536 /\ settings.GameListenAddr[2] = GamePort(environ).n
        BY <1>2, SettingsFound
    <2> QED BY <2>1 DEF PortIsOne
<1>3. ASSUME Informed, phase = "ticking"
      PROVE  RunsAsAsked
    <2>1. Asked("ROM_GAME_PORT") # Empty =>
              settings.GameListenAddr[2] = Atoi[Asked("ROM_GAME_PORT")]
        BY <1>3, SettingsFound, IntegersAsked
    <2>2. Asked("ROM_WORLD_ID") # Empty => settings.WorldID = Atoi[Asked("ROM_WORLD_ID")]
        BY <1>3, SettingsFound, IntegersAsked
    <2>3. \A k \in Integer : Asked(k) \in DOMAIN Atoi \cup {Empty}
        BY <1>3, IntegersAsked
    <2> QED BY <1>1, <1>2, <1>3, <2>1, <2>2, <2>3 DEF RunsAsAsked
<1>4. Informed => RunsAsAsked
    BY <1>3 DEF RunsAsAsked
<1> QED BY <1>4, AlwaysInformed, PTL

=============================================================================

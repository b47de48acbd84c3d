-------------------------------- MODULE World --------------------------------
(***************************************************************************)
(* internal/world: the authoritative table of players, owned by the single *)
(* goroutine World.Run.  Every other goroutine changes it by putting a     *)
(* command on the buffered channel w.cmds.  The simulation step is still   *)
(* an empty function in the code, so a tick is a stuttering step here.     *)
(***************************************************************************)
EXTENDS Naturals, Sequences, FiniteSetsExt, Entities

CONSTANTS Entrants,     \* who a player entity is: its connection and account
          Poses,        \* map positions with a facing
          Capacity      \* buffer of w.cmds (256 in the code)

Player == [entrant : Entrants, pose : Poses]

ASSUME WorldAssumption ==
    /\ Capacity \in Nat \ {0}
    /\ None \notin Player

VARIABLES players,      \* w.players: the player of each character, or None
          cmds,         \* w.cmds: the commands that wait for the loop
          running,      \* World.Run has not returned
          cancelled     \* ctx is done

worldVars == <<players, cmds, running, cancelled>>

JoinCmd  == [op : {"Join"},  char : Characters, player : Player]
LeaveCmd == [op : {"Leave"}, char : Characters]
MoveCmd  == [op : {"Move"},  char : Characters, pose : Poses]
Command  == JoinCmd \cup LeaveCmd \cup MoveCmd

WorldTypeOK ==
    /\ players \in [Characters -> Player \cup {None}]
    /\ cmds \in Seq(Command)
    /\ Len(cmds) <= Capacity
    /\ running \in BOOLEAN
    /\ cancelled \in BOOLEAN

WorldInit ==
    /\ players = [c \in Characters |-> None]
    /\ cmds = <<>>
    /\ running = TRUE
    /\ cancelled = FALSE

-----------------------------------------------------------------------------
(* The callers.  do selects between the channel and ctx.Done: it blocks    *)
(* (the action is disabled) while the buffer is full and ctx is live, and  *)
(* either branch may be taken when both are ready.                         *)

\* Mutant: the buffer holds one command more than its capacity.
doOverfull(cmd) ==
    /\ Len(cmds) <= Capacity
    /\ cmds' = Append(cmds, cmd)
    /\ UNCHANGED <<players, running, cancelled>>

\* Mutant: the call does not watch ctx.
doWithoutCtx(cmd) ==
    /\ Len(cmds) < Capacity
    /\ cmds' = Append(cmds, cmd)
    /\ UNCHANGED <<players, running, cancelled>>

do(cmd) ==
    /\ \/ /\ Len(cmds) < Capacity
          /\ cmds' = Append(cmds, cmd)
       \/ /\ cancelled
          /\ UNCHANGED cmds
    /\ UNCHANGED <<players, running, cancelled>>

Join(c, p)    == do([op |-> "Join",  char |-> c, player |-> p])
Leave(c)      == do([op |-> "Leave", char |-> c])
Move(c, pose) == do([op |-> "Move",  char |-> c, pose |-> pose])

-----------------------------------------------------------------------------
(* The loop.                                                               *)

\* Mutant: Join keeps the player that is already in the table.
ApplyKeepFirst(table, cmd) ==
    CASE cmd.op = "Join"  -> IF table[cmd.char] = None
                             THEN [table EXCEPT ![cmd.char] = cmd.player]
                             ELSE table
      [] cmd.op = "Leave" -> [table EXCEPT ![cmd.char] = None]
      [] cmd.op = "Move"  -> table

\* The closure of a command, run on the table of players.
Apply(table, cmd) ==
    CASE cmd.op = "Join"  -> [table EXCEPT ![cmd.char] = cmd.player]
      [] cmd.op = "Leave" -> [table EXCEPT ![cmd.char] = None]
      [] cmd.op = "Move"  -> IF table[cmd.char] = None
                             THEN table
                             ELSE [table EXCEPT ![cmd.char].pose = cmd.pose]

\* Mutant: the newest command is executed first.
TakeNewest ==
    /\ running
    /\ cmds # <<>>
    /\ players' = Apply(players, cmds[Len(cmds)])
    /\ cmds' = SubSeq(cmds, 1, Len(cmds) - 1)
    /\ UNCHANGED <<running, cancelled>>

\* Mutant: commands are still executed after Run has returned.
TakeAfterStop ==
    /\ cmds # <<>>
    /\ players' = Apply(players, Head(cmds))
    /\ cmds' = Tail(cmds)
    /\ UNCHANGED <<running, cancelled>>

\* Run receives a command.  The select may pick it after ctx is done too.
Take ==
    /\ running
    /\ cmds # <<>>
    /\ players' = Apply(players, Head(cmds))
    /\ cmds' = Tail(cmds)
    /\ UNCHANGED <<running, cancelled>>

\* Run receives from ctx.Done and returns: what is still queued is lost.
Stop ==
    /\ running
    /\ cancelled
    /\ running' = FALSE
    /\ UNCHANGED <<players, cmds, cancelled>>

\* SIGINT or SIGTERM cancels the context.
Cancel ==
    /\ ~cancelled
    /\ cancelled' = TRUE
    /\ UNCHANGED <<players, cmds, running>>

WorldNext ==
    \/ \E c \in Characters :
          \/ \E p \in Player : Join(c, p)
          \/ Leave(c)
          \/ \E pose \in Poses : Move(c, pose)
    \/ Take
    \/ Stop
    \/ Cancel

WorldSpec == WorldInit /\ [][WorldNext]_worldVars

FairWorldSpec == WorldSpec /\ WF_worldVars(Take)

-----------------------------------------------------------------------------
(* The table the callers are promised: the one the loop will have when it  *)
(* has executed all that is queued, in closed form.                        *)

Touching(c) == {i \in DOMAIN cmds : cmds[i].char = c}

Binding(c) == {i \in Touching(c) : cmds[i].op # "Move"}

\* The last queued Join or Leave of c decides who is present.
Settled(c) ==
    IF Binding(c) = {} THEN players[c]
    ELSE LET last == cmds[Max(Binding(c))]
         IN  IF last.op = "Join" THEN last.player ELSE None

\* A Move queued after it decides the pose.
Promised(c) ==
    IF Settled(c) # None /\ Touching(c) # {} /\ cmds[Max(Touching(c))].op = "Move"
    THEN [Settled(c) EXCEPT !.pose = cmds[Max(Touching(c))].pose]
    ELSE Settled(c)

PromisedTable ==
    IF running THEN [c \in Characters |-> Promised(c)] ELSE players

Promise == INSTANCE Presence WITH present <- PromisedTable, up <- running

-----------------------------------------------------------------------------
(* Properties.                                                             *)

\* A call takes effect at the moment do puts it on the channel, on the table
\* as all earlier calls left it, and executing it later changes nothing that
\* was promised: the callers cannot tell the queue from a table updated in
\* place (world.go:1-3, "other goroutines interact only by enqueuing commands").
ActsWhenCalled ==
    [][running' =>
         PromisedTable' = IF Len(cmds') > Len(cmds)
                          THEN Apply(PromisedTable, cmds'[Len(cmds')])
                          ELSE PromisedTable]_worldVars

\* The world implements its abstract table: every step is one atomic call on
\* one character or invisible, and nothing changes once the loop has returned
\* (World.Run, World.do).
PresenceSpec == Promise!Spec

\* A Join that was queued is executed, whatever else is queued or present,
\* unless the loop ends first (World.Run drains commands until ctx is done).
JoinTakesEffect ==
    \A c \in Characters, p \in Player :
        (\E i \in DOMAIN cmds : cmds[i] = [op |-> "Join", char |-> c, player |-> p])
            ~> (players[c] = p \/ ~running)
=============================================================================

---------------------------- MODULE SessionProofs ----------------------------
(***************************************************************************)
(* Proofs about the world and the connections that use it.                 *)
(*                                                                         *)
(* internal/world (module World), for every set of characters, every       *)
(* capacity of the channel and every number of callers: the world has its  *)
(* type, a call takes effect when it is queued, and the world implements   *)
(* the abstract table of module Presence.                                  *)
(*                                                                         *)
(* The connections (module Session), for any number of them, any accounts, *)
(* keys and stored characters: what the handlers promise, and then who is  *)
(* in the world, only characters of the account that entered with them and *)
(* no character that its closed connection entered with last; and that a   *)
(* character is created in one step of the abstract list of module Roster. *)
(***************************************************************************)
EXTENDS Session, SequenceTheorems, WellFoundedInduction, TLAPS

-----------------------------------------------------------------------------
(* Positions in the queue.                                                 *)

\* A nonempty set of positions has a last one, and Max is it.
LEMMA LastPosition ==
    ASSUME NEW n \in Nat, NEW S \in SUBSET (1 .. n), S # {}
    PROVE  /\ Max(S) \in S
           /\ \A i \in S : i <= Max(S)
<1> DEFINE R == {ss \in Nat \X Nat : ss[1] < ss[2]}
           T == {k \in Nat : n - k \in S}
<1>1. IsWellFoundedOn(R, Nat)
    BY NatLessThanWellFounded, Zenon DEF OpToRel
<1>2. T \subseteq Nat /\ T # {}
    <2>1. PICK i \in S : TRUE
        OBVIOUS
    <2>2. n - i \in Nat /\ n - (n - i) = i
        OBVIOUS
    <2> QED BY <2>1, <2>2
<1>3. \E x \in T : \A y \in T : ~(<<y, x>> \in R)
    <2> HIDE DEF R, T
    <2> QED BY <1>1, <1>2, WFMin
<1>4. PICK x \in T : \A y \in T : ~(<<y, x>> \in R)
    BY <1>3
<1>5. \A y \in T : y >= x
    <2> SUFFICES ASSUME NEW y \in T, y < x PROVE FALSE
        BY <1>2
    <2>1. <<y, x>> \in Nat \X Nat /\ <<y, x>>[1] < <<y, x>>[2]
        OBVIOUS
    <2>2. <<y, x>> \in R
        BY <2>1
    <2> QED BY <1>4, <2>2
<1>6. \A i \in S : i <= n - x
    <2> SUFFICES ASSUME NEW i \in S PROVE i <= n - x
        OBVIOUS
    <2>1. n - i \in Nat /\ n - (n - i) = i
        OBVIOUS
    <2> QED BY <1>5, <2>1
<1>7. \E m \in S : \A i \in S : m >= i
    BY <1>6
<1> QED BY <1>7 DEF Max

LEMMA LastPositionUnique ==
    ASSUME NEW S \in SUBSET Nat, NEW m \in S, \A i \in S : i <= m
    PROVE  Max(S) = m
<1>1. \A x \in S : (\A y \in S : x >= y) => x = m
    OBVIOUS
<1>2. \A y \in S : m >= y
    OBVIOUS
<1> QED BY <1>1, <1>2 DEF Max

-----------------------------------------------------------------------------
(* Type correctness.                                                       *)

\* The table of players stays a table of players under every closure.
LEMMA ApplyType ==
    ASSUME NEW table \in [Characters -> Player \cup {None}], NEW cmd \in Command
    PROVE  Apply(table, cmd) \in [Characters -> Player \cup {None}]
<1>1. CASE cmd \in JoinCmd
    BY <1>1 DEF Apply, JoinCmd
<1>2. CASE cmd \in LeaveCmd
    BY <1>2 DEF Apply, LeaveCmd
<1>3. CASE cmd \in MoveCmd
    <2>1. ASSUME table[cmd.char] # None
          PROVE  [table[cmd.char] EXCEPT !.pose = cmd.pose] \in Player
        BY <1>3, <2>1 DEF MoveCmd, Player
    <2> QED BY <1>3, <2>1 DEF Apply, MoveCmd
<1> QED BY <1>1, <1>2, <1>3 DEF Command

\* do, whoever calls it, keeps the channel within its buffer.
LEMMA DoType ==
    ASSUME WorldTypeOK, NEW cmd \in Command, do(cmd)
    PROVE  WorldTypeOK'
<1>1. Append(cmds, cmd) \in Seq(Command) /\ Len(Append(cmds, cmd)) = Len(cmds) + 1
    BY AppendProperties DEF WorldTypeOK
<1>2. Len(cmds) \in Nat
    BY LenProperties DEF WorldTypeOK
<1> QED BY <1>1, <1>2, WorldAssumption DEF WorldTypeOK, do

\* The loop's steps and the cancellation keep the type.
LEMMA LoopType ==
    ASSUME WorldTypeOK, Take \/ Stop \/ Cancel
    PROVE  WorldTypeOK'
<1>1. CASE Take
    <2>1. /\ Head(cmds) \in Command
          /\ Tail(cmds) \in Seq(Command)
          /\ Len(Tail(cmds)) = Len(cmds) - 1
          /\ Len(cmds) \in Nat
        BY <1>1, HeadTailProperties, LenProperties DEF Take, WorldTypeOK
    <2>2. players' \in [Characters -> Player \cup {None}]
        BY <1>1, <2>1, ApplyType DEF Take, WorldTypeOK
    <2> QED BY <1>1, <2>1, <2>2, WorldAssumption DEF Take, WorldTypeOK
<1>2. CASE Stop
    BY <1>2 DEF Stop, WorldTypeOK
<1>3. CASE Cancel
    BY <1>3 DEF Cancel, WorldTypeOK
<1> QED BY <1>1, <1>2, <1>3

\* Every call the sessions can make is a command.
LEMMA CallsAreCommands ==
    /\ \A c \in Characters, p \in Player : [op |-> "Join", char |-> c, player |-> p] \in Command
    /\ \A c \in Characters : [op |-> "Leave", char |-> c] \in Command
    /\ \A c \in Characters, q \in Poses : [op |-> "Move", char |-> c, pose |-> q] \in Command
BY DEF Command, JoinCmd, LeaveCmd, MoveCmd

\* A step of the world is a call, a step of the loop, or the cancellation.
LEMMA WorldStep ==
    ASSUME WorldNext
    PROVE  (\E cmd \in Command : do(cmd)) \/ Take \/ Stop \/ Cancel
BY CallsAreCommands DEF WorldNext, Join, Leave, Move

LEMMA WorldTypeInductive ==
    ASSUME WorldTypeOK, [WorldNext]_worldVars
    PROVE  WorldTypeOK'
<1>1. CASE WorldNext
    BY <1>1, WorldStep, DoType, LoopType
<1>2. CASE UNCHANGED worldVars
    BY <1>2 DEF worldVars, WorldTypeOK
<1> QED BY <1>1, <1>2

\* The players, the channel and the flags keep their types, and the channel
\* never holds more than its buffer (world.go:45, world.do).
THEOREM WorldTypeCorrect == WorldSpec => []WorldTypeOK
<1>1. WorldInit => WorldTypeOK
    <2>1. <<>> \in Seq(Command) /\ Len(<<>>) = 0
        BY EmptySeq
    <2>2. 0 <= Capacity
        BY WorldAssumption
    <2> QED BY <2>1, <2>2 DEF WorldInit, WorldTypeOK
<1>2. WorldTypeOK /\ [WorldNext]_worldVars => WorldTypeOK'
    BY WorldTypeInductive
<1> QED BY <1>1, <1>2, PTL DEF WorldSpec

-----------------------------------------------------------------------------
(* The promised table, when a command is queued.                           *)

\* The positions of c are positions of the queue.
LEMMA PositionsType ==
    ASSUME WorldTypeOK, NEW c \in Characters
    PROVE  /\ Len(cmds) \in Nat
           /\ DOMAIN cmds = 1 .. Len(cmds)
           /\ Touching(c) \in SUBSET (1 .. Len(cmds))
           /\ Binding(c) \in SUBSET Touching(c)
           /\ \A i \in 1 .. Len(cmds) : cmds[i] \in Command
BY LenProperties, ElementOfSeq DEF WorldTypeOK, Touching, Binding

\* A command appended for c is the last position of c, and leaves the
\* positions of the others alone.
LEMMA PositionsAfterAppend ==
    ASSUME WorldTypeOK, NEW cmd \in Command, cmds' = Append(cmds, cmd),
           NEW c \in Characters
    PROVE  /\ \A i \in 1 .. Len(cmds) : cmds'[i] = cmds[i]
           /\ cmds'[Len(cmds) + 1] = cmd
           /\ Touching(c)' = IF cmd.char = c THEN Touching(c) \cup {Len(cmds) + 1}
                                            ELSE Touching(c)
           /\ Binding(c)' = IF cmd.char = c /\ cmd.op # "Move"
                            THEN Binding(c) \cup {Len(cmds) + 1} ELSE Binding(c)
<1>1. /\ cmds' \in Seq(Command)
      /\ Len(cmds') = Len(cmds) + 1
      /\ \A i \in 1 .. Len(cmds) : cmds'[i] = cmds[i]
      /\ cmds'[Len(cmds) + 1] = cmd
    BY AppendProperties DEF WorldTypeOK
<1>2. DOMAIN cmds = 1 .. Len(cmds) /\ Len(cmds) \in Nat
    BY PositionsType
<1>3. DOMAIN cmds' = 1 .. Len(cmds) + 1
    BY <1>1, LenProperties
<1>4. DOMAIN cmds' = DOMAIN cmds \cup {Len(cmds) + 1}
    BY <1>2, <1>3
<1>5. Touching(c)' = IF cmd.char = c THEN Touching(c) \cup {Len(cmds) + 1}
                                     ELSE Touching(c)
    BY <1>1, <1>2, <1>4 DEF Touching
<1>6. Touching(c) \subseteq 1 .. Len(cmds)
    BY PositionsType
<1>7. Binding(c)' = IF cmd.char = c /\ cmd.op # "Move"
                    THEN Binding(c) \cup {Len(cmds) + 1} ELSE Binding(c)
    BY <1>1, <1>2, <1>5, <1>6 DEF Binding
<1> QED BY <1>1, <1>5, <1>7

\* Queueing a command for another character promises c nothing new.
LEMMA AppendElsewhere ==
    ASSUME WorldTypeOK, NEW cmd \in Command, cmds' = Append(cmds, cmd),
           players' = players, NEW c \in Characters, cmd.char # c
    PROVE  Promised(c)' = Promised(c)
<1>1. Touching(c)' = Touching(c) /\ Binding(c)' = Binding(c)
    BY PositionsAfterAppend
<1>2. \A i \in Touching(c) : cmds'[i] = cmds[i]
    BY PositionsAfterAppend, PositionsType
<1>3. Touching(c) # {} => Max(Touching(c)) \in Touching(c)
    BY LastPosition, PositionsType
<1>4. Binding(c) # {} => Max(Binding(c)) \in Touching(c)
    BY LastPosition, PositionsType
<1>5. Max(Touching(c))' = Max(Touching(c)) /\ Max(Binding(c))' = Max(Binding(c))
    BY <1>1
<1>6. Settled(c)' = Settled(c)
    BY <1>1, <1>2, <1>4, <1>5 DEF Settled
<1> QED BY <1>1, <1>2, <1>3, <1>5, <1>6 DEF Promised

\* The promised table is a table of players.
LEMMA PromisedType ==
    ASSUME WorldTypeOK, NEW c \in Characters
    PROVE  /\ Settled(c) \in Player \cup {None}
           /\ Promised(c) \in Player \cup {None}
           /\ Promised(c) = None <=> Settled(c) = None
<1>1. Binding(c) # {} => cmds[Max(Binding(c))] \in JoinCmd \cup LeaveCmd
    <2>1. Binding(c) # {} => Max(Binding(c)) \in Binding(c)
        BY LastPosition, PositionsType
    <2> QED BY <2>1, PositionsType DEF Binding, Command, MoveCmd
<1>2. Settled(c) \in Player \cup {None}
    BY <1>1 DEF Settled, WorldTypeOK, JoinCmd, LeaveCmd
<1>3. ASSUME Touching(c) # {}, cmds[Max(Touching(c))].op = "Move"
      PROVE  cmds[Max(Touching(c))].pose \in Poses
    <2>1. Max(Touching(c)) \in Touching(c)
        BY <1>3, LastPosition, PositionsType
    <2> QED BY <1>3, <2>1, PositionsType DEF Command, JoinCmd, LeaveCmd, MoveCmd
<1>4. ASSUME NEW p \in Player, NEW q \in Poses
      PROVE  [p EXCEPT !.pose = q] \in Player /\ [p EXCEPT !.pose = q] # None
    BY WorldAssumption DEF Player
<1>5. Promised(c) = Settled(c) \/ \E p \in Player, q \in Poses :
            Settled(c) = p /\ Promised(c) = [p EXCEPT !.pose = q]
    BY <1>2, <1>3 DEF Promised
<1> QED BY <1>2, <1>4, <1>5, WorldAssumption

\* Queueing a command for c promises what executing it on the promise gives.
LEMMA AppendHere ==
    ASSUME WorldTypeOK, NEW cmd \in Command, cmds' = Append(cmds, cmd),
           players' = players, NEW c \in Characters, cmd.char = c
    PROVE  Promised(c)' =
             CASE cmd.op = "Join"  -> cmd.player
               [] cmd.op = "Leave" -> None
               [] cmd.op = "Move"  -> IF Promised(c) = None THEN None
                                      ELSE [Promised(c) EXCEPT !.pose = cmd.pose]
<1> DEFINE n == Len(cmds) + 1
<1>1. /\ n \in Nat
      /\ cmds'[n] = cmd
      /\ \A i \in 1 .. Len(cmds) : cmds'[i] = cmds[i]
      /\ Touching(c)' = Touching(c) \cup {n}
      /\ Binding(c)' = IF cmd.op # "Move" THEN Binding(c) \cup {n} ELSE Binding(c)
    BY PositionsAfterAppend, PositionsType
<1>2. Max(Touching(c))' = n
    <2>1. Touching(c)' \in SUBSET Nat /\ \A i \in Touching(c)' : i <= n
        BY <1>1, PositionsType
    <2> QED BY <1>1, <2>1, LastPositionUnique
<1>3. ASSUME cmd.op # "Move" PROVE Max(Binding(c))' = n
    <2>1. Binding(c)' \in SUBSET Nat /\ \A i \in Binding(c)' : i <= n
        BY <1>1, PositionsType
    <2> QED BY <1>1, <1>3, <2>1, LastPositionUnique
<1>4. CASE cmd \in JoinCmd
    <2>1. Settled(c)' = cmd.player
        BY <1>1, <1>3, <1>4 DEF Settled, JoinCmd
    <2> QED BY <1>1, <1>2, <1>4, <2>1 DEF Promised, JoinCmd
<1>5. CASE cmd \in LeaveCmd
    <2>1. Settled(c)' = None
        BY <1>1, <1>3, <1>5 DEF Settled, LeaveCmd
    <2> QED BY <1>1, <1>2, <1>5, <2>1 DEF Promised, LeaveCmd
<1>6. CASE cmd \in MoveCmd
    <2>1. cmd.op = "Move"
        BY <1>6 DEF MoveCmd
    <2>2. Binding(c)' = Binding(c) /\ Max(Binding(c))' = Max(Binding(c))
        BY <1>1, <2>1
    <2>3. Binding(c) # {} => Max(Binding(c)) \in 1 .. Len(cmds)
        BY LastPosition, PositionsType
    <2>4. Settled(c)' = Settled(c)
        BY <1>1, <2>2, <2>3 DEF Settled
    <2>5. Promised(c)' = IF Settled(c) = None THEN None
                         ELSE [Settled(c) EXCEPT !.pose = cmd.pose]
        BY <1>1, <1>2, <2>1, <2>4 DEF Promised
    <2>6. ASSUME Settled(c) # None
          PROVE  [Promised(c) EXCEPT !.pose = cmd.pose] = [Settled(c) EXCEPT !.pose = cmd.pose]
        <3>1. Settled(c) \in Player
            BY <2>6, PromisedType
        <3>2. ASSUME NEW q
              PROVE  [[Settled(c) EXCEPT !.pose = q] EXCEPT !.pose = cmd.pose]
                        = [Settled(c) EXCEPT !.pose = cmd.pose]
            BY <3>1 DEF Player
        <3> QED BY <3>2 DEF Promised
    <2> QED BY <2>1, <2>5, <2>6, PromisedType
<1> QED BY <1>4, <1>5, <1>6 DEF Command

-----------------------------------------------------------------------------
(* The promised table, when a command is executed.                         *)

\* Positions move down by one; the last one moves with them.
LEMMA LastPositionShift ==
    ASSUME NEW n \in Nat, NEW S \in SUBSET (1 .. n), NEW T,
           T = {i \in 1 .. n - 1 : i + 1 \in S}
    PROVE  /\ T # {} => Max(S) = Max(T) + 1 /\ Max(T) \in T
           /\ T = {} => S \subseteq {1}
<1>1. ASSUME T # {}
      PROVE  Max(S) = Max(T) + 1 /\ Max(T) \in T
    <2>1. T \in SUBSET (1 .. n)
        OBVIOUS
    <2>2. Max(T) \in T /\ \A i \in T : i <= Max(T)
        BY <1>1, <2>1, LastPosition
    <2>3. Max(T) + 1 \in S
        BY <2>2
    <2>4. \A i \in S : i <= Max(T) + 1
        <3> SUFFICES ASSUME NEW i \in S, i # 1 PROVE i <= Max(T) + 1
            BY <2>2
        <3>1. i - 1 \in T
            OBVIOUS
        <3> QED BY <2>2, <3>1
    <2>5. S \in SUBSET Nat
        OBVIOUS
    <2> QED BY <2>2, <2>3, <2>4, <2>5, LastPositionUnique
<1>2. ASSUME T = {}, NEW i \in S, i # 1
      PROVE  FALSE
    <2>1. i - 1 \in T
        BY <1>2
    <2> QED BY <1>2, <2>1
<1> QED BY <1>1, <1>2

LEMMA PositionsAfterTake ==
    ASSUME WorldTypeOK, cmds # <<>>, cmds' = Tail(cmds), NEW c \in Characters
    PROVE  /\ \A i \in 1 .. Len(cmds) - 1 : cmds'[i] = cmds[i + 1]
           /\ cmds[1] = Head(cmds) /\ cmds[1] \in Command
           /\ 1 \in Touching(c) <=> cmds[1].char = c
           /\ 1 \in Binding(c) <=> cmds[1].char = c /\ cmds[1].op # "Move"
           /\ Touching(c)' = {i \in 1 .. Len(cmds) - 1 : i + 1 \in Touching(c)}
           /\ Binding(c)' = {i \in 1 .. Len(cmds) - 1 : i + 1 \in Binding(c)}
<1>1. /\ cmds' \in Seq(Command)
      /\ Len(cmds') = Len(cmds) - 1
      /\ \A i \in 1 .. Len(cmds') : cmds'[i] = cmds[i + 1]
    BY HeadTailProperties DEF WorldTypeOK
<1>2. /\ DOMAIN cmds = 1 .. Len(cmds) /\ Len(cmds) \in Nat \ {0}
      /\ cmds[1] = Head(cmds) /\ cmds[1] \in Command
    BY PositionsType, EmptySeq, HeadTailProperties DEF WorldTypeOK
<1>3. DOMAIN cmds' = 1 .. Len(cmds) - 1
    BY <1>1, LenProperties
<1>4. Touching(c)' = {i \in 1 .. Len(cmds) - 1 : i + 1 \in Touching(c)}
    <2>1. \A i \in 1 .. Len(cmds) - 1 : i + 1 \in DOMAIN cmds
        BY <1>2
    <2> QED BY <1>1, <1>3, <2>1 DEF Touching
<1>5. Binding(c)' = {i \in 1 .. Len(cmds) - 1 : i + 1 \in Binding(c)}
    BY <1>1, <1>4 DEF Binding
<1>6. 1 \in DOMAIN cmds
    BY <1>2
<1> QED BY <1>1, <1>2, <1>4, <1>5, <1>6 DEF Touching, Binding

\* What the loop does to the entry of c when it executes cmd.
LEMMA ApplyEntry ==
    ASSUME NEW table \in [Characters -> Player \cup {None}], NEW cmd \in Command,
           NEW c \in Characters
    PROVE  /\ cmd.op \in {"Join", "Leave", "Move"}
           /\ cmd.char # c => Apply(table, cmd)[c] = table[c]
           /\ cmd.char = c /\ cmd.op = "Join"  => Apply(table, cmd)[c] = cmd.player
           /\ cmd.char = c /\ cmd.op = "Leave" => Apply(table, cmd)[c] = None
           /\ cmd.char = c /\ cmd.op = "Move" =>
                Apply(table, cmd)[c] = IF table[c] = None THEN None
                                       ELSE [table[c] EXCEPT !.pose = cmd.pose]
<1>1. CASE cmd \in JoinCmd
    BY <1>1 DEF Apply, JoinCmd
<1>2. CASE cmd \in LeaveCmd
    BY <1>2 DEF Apply, LeaveCmd
<1>3. CASE cmd \in MoveCmd
    <2>1. CASE table[cmd.char] = None
        BY <1>3, <2>1 DEF Apply, MoveCmd
    <2>2. CASE table[cmd.char] # None
        BY <1>3, <2>2 DEF Apply, MoveCmd
    <2> QED BY <2>1, <2>2
<1> QED BY <1>1, <1>2, <1>3 DEF Command

\* Executing a command changes nothing that was promised.
LEMMA TakeKeepsPromise ==
    ASSUME WorldTypeOK, Take, NEW c \in Characters
    PROVE  Promised(c)' = Promised(c)
<1> DEFINE n == Len(cmds)
           h == cmds[1]
<1>1. /\ n \in Nat
      /\ Touching(c) \in SUBSET (1 .. n) /\ Binding(c) \in SUBSET (1 .. n)
      /\ Binding(c) \subseteq Touching(c) /\ Binding(c)' \subseteq Touching(c)'
    BY PositionsType DEF Binding
<1>2. /\ \A i \in 1 .. n - 1 : cmds'[i] = cmds[i + 1]
      /\ h = Head(cmds) /\ h \in Command
      /\ 1 \in Touching(c) <=> h.char = c
      /\ 1 \in Binding(c) <=> h.char = c /\ h.op # "Move"
      /\ Touching(c)' = {i \in 1 .. n - 1 : i + 1 \in Touching(c)}
      /\ Binding(c)' = {i \in 1 .. n - 1 : i + 1 \in Binding(c)}
    BY PositionsAfterTake DEF Take
<1>3. players' = Apply(players, h)
    BY <1>2 DEF Take
<1>4. /\ Touching(c)' # {} =>
            Max(Touching(c)) = Max(Touching(c))' + 1 /\ Max(Touching(c))' \in Touching(c)'
      /\ Touching(c)' = {} => Touching(c) \subseteq {1}
      /\ Binding(c)' # {} =>
            Max(Binding(c)) = Max(Binding(c))' + 1 /\ Max(Binding(c))' \in Binding(c)'
      /\ Binding(c)' = {} => Binding(c) \subseteq {1}
    <2>1. ASSUME NEW S \in SUBSET (1 .. n), NEW T, T = {i \in 1 .. n - 1 : i + 1 \in S}
          PROVE  /\ T # {} => Max(S) = Max(T) + 1 /\ Max(T) \in T
                 /\ T = {} => S \subseteq {1}
        <3> HIDE DEF n
        <3> QED BY <1>1, <2>1, LastPositionShift
    <2>2. /\ Touching(c)' # {} =>
                Max(Touching(c)) = Max(Touching(c)') + 1 /\ Max(Touching(c)') \in Touching(c)'
          /\ Touching(c)' = {} => Touching(c) \subseteq {1}
        BY <1>1, <1>2, <2>1
    <2>3. /\ Binding(c)' # {} =>
                Max(Binding(c)) = Max(Binding(c)') + 1 /\ Max(Binding(c)') \in Binding(c)'
          /\ Binding(c)' = {} => Binding(c) \subseteq {1}
        BY <1>1, <1>2, <2>1
    <2> QED BY <2>2, <2>3
<1>5. Touching(c)' # {} =>
            Touching(c) # {} /\ cmds'[Max(Touching(c))'] = cmds[Max(Touching(c))]
    BY <1>2, <1>4
<1>6. Binding(c)' # {} =>
            Binding(c) # {} /\ cmds'[Max(Binding(c))'] = cmds[Max(Binding(c))]
    BY <1>2, <1>4
<1>7. Touching(c)' = {} /\ Touching(c) # {} => Touching(c) = {1} /\ Max(Touching(c)) = 1
    BY <1>4, LastPositionUnique
<1>8. players[c] \in Player \cup {None} /\ players \in [Characters -> Player \cup {None}]
    BY DEF WorldTypeOK
<1>9. CASE Binding(c)' # {}
    <2>1. Settled(c)' = Settled(c)
        BY <1>6, <1>9 DEF Settled
    <2>2. Touching(c)' # {}
        BY <1>1, <1>9
    <2> QED BY <1>5, <2>1, <2>2 DEF Promised
<1>10. CASE Binding(c)' = {} /\ 1 \in Binding(c)
    <2>1. Binding(c) = {1} /\ Max(Binding(c)) = 1
        BY <1>4, <1>10, LastPositionUnique
    <2>2. h.char = c /\ h.op # "Move"
        BY <1>2, <1>10
    <2>3. Settled(c)' = players'[c]
        BY <1>10 DEF Settled
    <2>4. players'[c] = IF h.op = "Join" THEN h.player ELSE None
        BY <1>2, <1>3, <1>8, <2>2, ApplyEntry
    <2>5. Settled(c) = players'[c]
        BY <2>1, <2>4 DEF Settled
    <2> QED BY <1>5, <1>7, <2>2, <2>3, <2>5 DEF Promised
<1>11. CASE Binding(c)' = {} /\ 1 \notin Binding(c)
    <2>1. Settled(c)' = players'[c] /\ Settled(c) = players[c]
        BY <1>4, <1>11 DEF Settled
    <2>2. CASE h.char # c
        <3>1. players'[c] = players[c]
            BY <1>2, <1>3, <1>8, <2>2, ApplyEntry
        <3>2. Touching(c)' = {} => Touching(c) = {}
            BY <1>2, <1>4, <2>2
        <3> QED BY <1>5, <2>1, <3>1, <3>2 DEF Promised
    <2>3. CASE h.char = c
        <3>1. h.op = "Move" /\ 1 \in Touching(c)
            BY <1>2, <1>11, <2>3
        <3>2. players'[c] = IF players[c] = None THEN None
                            ELSE [players[c] EXCEPT !.pose = h.pose]
            BY <1>2, <1>3, <1>8, <2>3, <3>1, ApplyEntry
        <3>3. CASE players[c] = None
            BY <2>1, <3>2, <3>3 DEF Promised
        <3>4. CASE players[c] # None
            <4>1. players[c] \in Player
                BY <1>8, <3>4
            <4>2. \A q : [[players[c] EXCEPT !.pose = h.pose] EXCEPT !.pose = q]
                            = [players[c] EXCEPT !.pose = q]
                BY <4>1 DEF Player
            <4>3. h.pose \in Poses
                BY <1>2, <3>1 DEF Command, JoinCmd, LeaveCmd, MoveCmd
            <4>4. players'[c] \in Player /\ players'[c] # None
                BY <3>2, <3>4, <4>1, <4>3, WorldAssumption DEF Player
            <4>5. CASE Touching(c)' = {}
                BY <1>7, <2>1, <3>1, <3>2, <3>4, <4>5 DEF Promised
            <4>6. CASE Touching(c)' # {}
                <5>1. Max(Touching(c)) \in Touching(c)
                    BY <1>2, <1>4, <4>6
                <5>2. cmds[Max(Touching(c))].op = "Move"
                    BY <1>4, <1>11, <5>1 DEF Binding
                <5> QED BY <1>5, <2>1, <3>2, <3>4, <4>2, <4>4, <4>6, <5>2 DEF Promised
            <4> QED BY <4>5, <4>6
        <3> QED BY <3>3, <3>4
    <2> QED BY <2>2, <2>3
<1> QED BY <1>9, <1>10, <1>11

-----------------------------------------------------------------------------
(* The promised table as a whole.                                          *)

\* Queueing a command while the loop runs executes it on the promised table.
LEMMA AppendPromises ==
    ASSUME WorldTypeOK, NEW cmd \in Command, cmds' = Append(cmds, cmd),
           UNCHANGED <<players, running>>, running
    PROVE  PromisedTable' = Apply(PromisedTable, cmd)
<1>1. /\ PromisedTable = [c \in Characters |-> Promised(c)]
      /\ PromisedTable' = [c \in Characters |-> Promised(c)']
    BY DEF PromisedTable
<1>2. PromisedTable \in [Characters -> Player \cup {None}]
    BY <1>1, PromisedType
<1>3. Apply(PromisedTable, cmd) \in [Characters -> Player \cup {None}]
    BY <1>2, ApplyType
<1>4. ASSUME NEW c \in Characters
      PROVE  Promised(c)' = Apply(PromisedTable, cmd)[c]
    <2>1. PromisedTable[c] = Promised(c)
        BY <1>1
    <2>2. CASE cmd.char # c
        BY <1>2, <2>1, <2>2, ApplyEntry, AppendElsewhere
    <2>3. CASE cmd.char = c
        <3>1. Promised(c)' =
                CASE cmd.op = "Join"  -> cmd.player
                  [] cmd.op = "Leave" -> None
                  [] cmd.op = "Move"  -> IF Promised(c) = None THEN None
                                         ELSE [Promised(c) EXCEPT !.pose = cmd.pose]
            BY <2>3, AppendHere
        <3> QED BY <1>2, <2>1, <2>3, <3>1, ApplyEntry
    <2> QED BY <2>2, <2>3
<1> QED BY <1>1, <1>3, <1>4

LEMMA TakePromises ==
    ASSUME WorldTypeOK, Take
    PROVE  PromisedTable' = PromisedTable
<1>1. running /\ running'
    BY DEF Take
<1> QED BY <1>1, TakeKeepsPromise DEF PromisedTable

\* What each kind of step does to the promised table and to the loop.
LEMMA StepPromises ==
    ASSUME WorldTypeOK, [WorldNext]_worldVars
    PROVE  \/ /\ running /\ running'
              /\ \E cmd \in Command : cmds' = Append(cmds, cmd)
                                     /\ PromisedTable' = Apply(PromisedTable, cmd)
           \/ /\ running' = running
              /\ PromisedTable' = PromisedTable
              /\ running => ~(Len(cmds') > Len(cmds))
           \/ /\ running /\ ~running'
<1>1. Len(cmds) \in Nat
    BY LenProperties DEF WorldTypeOK
<1>2. CASE UNCHANGED <<players, cmds, running>>
    <2>1. \A c \in Characters : Promised(c)' = Promised(c)
        BY <1>2 DEF Promised, Settled, Binding, Touching
    <2> QED BY <1>1, <1>2, <2>1 DEF PromisedTable
<1>3. ASSUME NEW cmd \in Command, cmds' = Append(cmds, cmd), UNCHANGED <<players, running>>
      PROVE  \/ running /\ running' /\ PromisedTable' = Apply(PromisedTable, cmd)
             \/ ~running /\ ~running' /\ PromisedTable' = PromisedTable
    <2>1. CASE running
        BY <1>3, <2>1, AppendPromises
    <2>2. CASE ~running
        BY <1>3, <2>2 DEF PromisedTable
    <2> QED BY <2>1, <2>2
<1>4. ASSUME NEW cmd \in Command, do(cmd)
      PROVE  \/ UNCHANGED <<players, cmds, running>>
             \/ cmds' = Append(cmds, cmd) /\ UNCHANGED <<players, running>>
    BY <1>4 DEF do
<1>5. CASE Take
    <2>1. Len(cmds') = Len(cmds) - 1 /\ running' = running
        BY <1>5, HeadTailProperties DEF Take, WorldTypeOK
    <2> QED BY <1>1, <1>5, <2>1, TakePromises
<1>6. CASE Stop
    BY <1>6 DEF Stop
<1>7. CASE Cancel
    BY <1>2, <1>7 DEF Cancel
<1>8. CASE UNCHANGED worldVars
    BY <1>2, <1>8 DEF worldVars
<1> QED BY <1>2, <1>3, <1>4, <1>5, <1>6, <1>7, <1>8, WorldStep

\* A call takes effect, for every later observer, in the step that queues it,
\* and the step that executes it changes nothing (World.do, World.Run).
THEOREM CallsActWhenMade == WorldSpec => ActsWhenCalled
<1>1. ASSUME WorldTypeOK, [WorldNext]_worldVars, running'
      PROVE  PromisedTable' = IF Len(cmds') > Len(cmds)
                              THEN Apply(PromisedTable, cmds'[Len(cmds')])
                              ELSE PromisedTable
    <2>1. ASSUME NEW cmd \in Command, cmds' = Append(cmds, cmd)
          PROVE  Len(cmds') > Len(cmds) /\ cmds'[Len(cmds')] = cmd
        <3>1. Len(cmds') = Len(cmds) + 1 /\ cmds'[Len(cmds) + 1] = cmd /\ Len(cmds) \in Nat
            BY <1>1, <2>1, AppendProperties, LenProperties DEF WorldTypeOK
        <3> QED BY <3>1
    <2> QED BY <1>1, <2>1, StepPromises
<1>2. WorldTypeOK /\ [WorldNext]_worldVars =>
        [running' => PromisedTable' = IF Len(cmds') > Len(cmds)
                                      THEN Apply(PromisedTable, cmds'[Len(cmds')])
                                      ELSE PromisedTable]_worldVars
    BY <1>1
<1> QED BY <1>2, WorldTypeCorrect, PTL DEF WorldSpec, ActsWhenCalled

\* The world implements the abstract table of players that its callers may
\* think of: no queue, no loop (World.Join, World.Leave, World.Move, World.Run).
THEOREM WorldImplementsPresence == WorldSpec => PresenceSpec
<1>1. ASSUME WorldInit PROVE Promise!Init
    <2>1. ASSUME NEW c \in Characters PROVE Promised(c) = None
        <3>1. Touching(c) = {} /\ Binding(c) = {}
            BY <1>1 DEF WorldInit, Touching, Binding
        <3> QED BY <1>1, <2>1, <3>1 DEF WorldInit, Promised, Settled
    <2> QED BY <1>1, <2>1 DEF WorldInit, Promise!Init, PromisedTable
<1>2. ASSUME WorldTypeOK, [WorldNext]_worldVars
      PROVE  [Promise!Next]_<<PromisedTable, running>>
    <2>1. ASSUME NEW cmd \in Command, running, running',
                 PromisedTable' = Apply(PromisedTable, cmd)
          PROVE  [Promise!Next]_<<PromisedTable, running>>
        <3>1. CASE cmd \in JoinCmd
            BY <2>1, <3>1, <1>2 DEF JoinCmd, Apply, Promise!Next, Promise!Enter,
                Promise!Player, Player, WorldTypeOK
        <3>2. CASE cmd \in LeaveCmd
            BY <2>1, <3>2, <1>2 DEF LeaveCmd, Apply, Promise!Next, Promise!Depart, WorldTypeOK
        <3>3. CASE cmd \in MoveCmd
            BY <2>1, <3>3, <1>2 DEF MoveCmd, Apply, Promise!Next, Promise!Reposition, WorldTypeOK
        <3> QED BY <3>1, <3>2, <3>3 DEF Command
    <2>2. ASSUME running, ~running'
          PROVE  [Promise!Next]_<<PromisedTable, running>>
        <3>1. PromisedTable' = players' /\ running' = FALSE
            BY <1>2, <2>2, WorldTypeInductive DEF PromisedTable, WorldTypeOK
        <3>2. players' \in [Characters -> Player \cup {None}]
            BY <1>2, WorldTypeInductive DEF WorldTypeOK
        <3> QED BY <2>2, <3>1, <3>2 DEF Promise!Next, Promise!Halt, Promise!Player, Player
    <2> QED BY <1>2, <2>1, <2>2, StepPromises
<1> QED BY <1>1, <1>2, WorldTypeCorrect, PTL DEF WorldSpec, PresenceSpec, Promise!Spec

-----------------------------------------------------------------------------
(* The steps, by what they change.                                         *)

\* A call is over: the goroutine waits for its client or is on its way out.
Ends(s) == Goto(s, "recv") \/ Goto(s, "send") \/ Goto(s, Teardown(s))

LEMMA EndsAll ==
    ASSUME NEW s \in Conns, Reply(s) \/ Resume(s) \/ Fail(s)
    PROVE  Ends(s)
BY DEF Reply, Resume, Fail, Ends

\* A step that changes nothing but where the goroutine is.
Quiet(s) ==
    /\ pc[s] \in {"new", "recv", "send"}
    /\ Ends(s)
    /\ UNCHANGED <<login, character, warpToken, work, live, storeVars, worldVars>>

LEMMA AnswerQuiet ==
    ASSUME NEW s \in Conns, NEW message, Answer(s, message)
    PROVE  Quiet(s)
BY EndsAll DEF Answer, Dispatch, Receive, Quiet

\* The steps of a connection that are not quiet.
Effect(s) ==
    \/ \E key \in Keys, code \in Codes : handleLogin(s, key, code)
    \/ \E o \in Options : handleSetOptions(s, o)
    \/ \E name \in Names : handleCreatePlayer(s, name)
    \/ \E slot \in Slots : handleEnterWorld(s, slot)
    \/ Continue(s)

LEMMA ServeQuietOrEffect ==
    ASSUME NEW s \in Conns, Serve(s)
    PROVE  Quiet(s) \/ Effect(s)
<1>1. CASE Connect(s)
    BY <1>1, EndsAll DEF Connect, Quiet
<1>2. CASE handleVersionCheck(s)
    BY <1>2, EndsAll DEF handleVersionCheck, Receive, Quiet
<1>3. CASE BeforeLogin(s)
    BY <1>3, EndsAll DEF BeforeLogin, Receive, Quiet
<1>4. CASE \/ handleWaitingUserCount(s) \/ handlePlayerList(s) \/ handleLogout(s)
           \/ handleMapEnterPreComplete(s) \/ handlePlayerLoadFirstCall(s)
    BY <1>4, AnswerQuiet DEF handleWaitingUserCount, handlePlayerList, handleLogout,
       handleMapEnterPreComplete, handlePlayerLoadFirstCall
<1>5. CASE \/ \E token \in {0} \cup RawTokens \cup {warpToken[s]} : handleMapEnter(s, token)
           \/ handleMapEnterComplete(s)
    BY <1>5, EndsAll DEF handleMapEnter, handleMapEnterComplete, Dispatch, Receive, Quiet
<1>6. CASE Ignore(s) \/ Disconnect(s)
    BY <1>6, EndsAll DEF Ignore, Disconnect, Quiet
<1> QED BY <1>1, <1>2, <1>3, <1>4, <1>5, <1>6, Zenon DEF Serve, Effect

\* A step is one of these.
LEMMA SessionStep ==
    ASSUME SessionNext
    PROVE  (\E s \in Conns : Quiet(s) \/ Effect(s)) \/ Loop
<1>1. ASSUME NEW s \in Conns, Sent(s) PROVE Quiet(s)
    BY <1>1, EndsAll DEF Sent, Quiet
<1> QED BY <1>1, ServeQuietOrEffect DEF SessionNext, Effect

-----------------------------------------------------------------------------
(* Type correctness.                                                       *)

\* What a goroutine between two calls of a handler already has.
Entitled ==
    \A s \in Conns :
        /\ pc[s] \in {"create", "join"} => authed(s)
        /\ pc[s] \in {"join", "leave"} => character[s] # None

IInv == SessionTypeOK /\ Entitled

\* A nonempty set of numbers has a least one, and Min is it.
LEMMA LeastNumber ==
    ASSUME NEW S \in SUBSET Nat, S # {}
    PROVE  Min(S) \in S /\ \A n \in S : Min(S) <= n
<1> DEFINE R == {ss \in Nat \X Nat : ss[1] < ss[2]}
<1>1. IsWellFoundedOn(R, Nat)
    BY NatLessThanWellFounded, Zenon DEF OpToRel
<1>2. \E x \in S : \A y \in S : ~(<<y, x>> \in R)
    <2> HIDE DEF R
    <2> QED BY <1>1, WFMin
<1>3. PICK x \in S : \A y \in S : ~(<<y, x>> \in R)
    BY <1>2
<1>4. ASSUME NEW y \in S PROVE x <= y
    <2> SUFFICES ASSUME y < x PROVE FALSE
        OBVIOUS
    <2>1. <<y, x>> \in Nat \X Nat /\ <<y, x>>[1] < <<y, x>>[2]
        OBVIOUS
    <2> QED BY <1>3, <2>1
<1>5. \E m \in S : \A n \in S : m <= n
    BY <1>4
<1> QED BY <1>5 DEF Min

\* The slot a creation chooses is free, below the cap, and behind taken ones.
LEMMA ChosenSlot ==
    ASSUME StoreTypeOK, NEW a \in Accounts, FreeSlots(ListCharacters(a)) # {}
    PROVE  LET slot == Min(FreeSlots(ListCharacters(a)))
           IN  /\ slot \in Slots /\ slot \in Nat /\ slot < MaxSlots
               /\ \A lower \in 0 .. slot - 1 : SlotTaken(a, lower)
<1> DEFINE free == FreeSlots(ListCharacters(a))
<1>1. free \in SUBSET Nat /\ free # {} /\ free \subseteq 0 .. MaxSlots - 1
    BY SessionAssumption DEF FreeSlots
<1>2. Min(free) \in free /\ \A n \in free : Min(free) <= n
    BY <1>1, LeastNumber
<1>3. Min(free) \in Nat /\ Min(free) < MaxSlots /\ Min(free) \in Slots
    BY <1>1, <1>2, SessionAssumption
<1>4. ASSUME NEW lower \in 0 .. Min(free) - 1 PROVE SlotTaken(a, lower)
    <2>1. lower \in 0 .. MaxSlots - 1 /\ lower \notin free
        BY <1>2, <1>3, SessionAssumption
    <2> QED BY <2>1 DEF FreeSlots, ListCharacters, SlotTaken
<1> QED BY <1>3, <1>4

\* The account of a connection that is logged in.
LEMMA AccountType ==
    ASSUME SessionTypeOK, NEW s \in Conns, authed(s)
    PROVE  login[s] \in Keys /\ accountID(s) \in Accounts
BY SessionAssumption DEF SessionTypeOK, authed, accountID

\* What the sessions do to the world is what anybody may do to it.
LEMMA WorldPart ==
    ASSUME IInv, [SessionNext]_sessionVars
    PROVE  [WorldNext]_worldVars
<1>1. ASSUME NEW s \in Conns, JoinWorld(s)
      PROVE  WorldNext
    <2>1. character[s] \in Characters /\ authed(s)
        BY <1>1 DEF IInv, Entitled, SessionTypeOK, JoinWorld
    <2>2. [entrant |-> [conn |-> s, account |-> accountID(s)], pose |-> SpawnPose] \in Player
        BY <2>1, AccountType, SessionAssumption DEF IInv, Player
    <2> QED BY <1>1, <2>1, <2>2 DEF JoinWorld, WorldNext
<1>2. ASSUME NEW s \in Conns, LeaveWorld(s)
      PROVE  WorldNext
    <2>1. character[s] \in Characters
        BY <1>2 DEF IInv, Entitled, SessionTypeOK, LeaveWorld
    <2> QED BY <1>2, <2>1 DEF LeaveWorld, WorldNext
<1>3. ASSUME NEW s \in Conns, Effect(s), ~JoinWorld(s), ~LeaveWorld(s)
      PROVE  UNCHANGED worldVars
    BY <1>3 DEF Effect, Continue, handleLogin, handleSetOptions, handleCreatePlayer,
       handleEnterWorld, Upsert, CreateInsert
<1>4. ASSUME NEW s \in Conns, Quiet(s) PROVE UNCHANGED worldVars
    BY <1>4 DEF Quiet
<1>5. CASE Loop
    BY <1>5 DEF Loop, WorldNext
<1>6. CASE UNCHANGED sessionVars
    BY <1>6 DEF sessionVars
<1> QED BY <1>1, <1>2, <1>3, <1>4, <1>5, <1>6, SessionStep

\* The rows keep their types.
LEMMA StorePart ==
    ASSUME IInv, [SessionNext]_sessionVars
    PROVE  StoreTypeOK'
<1> USE DEF IInv, SessionTypeOK, StoreTypeOK
<1>1. ASSUME NEW s \in Conns, Upsert(s) PROVE StoreTypeOK'
    <2>1. /\ RegionSession[work[s]].account \in Accounts
          /\ RegionSession[work[s]].code \in Codes
        BY <1>1, SessionAssumption DEF Upsert
    <2>2. CASE UNCHANGED storeVars
        BY <2>2 DEF storeVars
    <2>3. CASE UpsertAccount(RegionSession[work[s]].account, RegionSession[work[s]].code)
        BY <2>1, <2>3, StoreAssumption DEF UpsertAccount, AccountRow
    <2> QED BY <1>1, <2>2, <2>3 DEF Upsert
<1>2. ASSUME NEW s \in Conns, NEW o \in Options, handleSetOptions(s, o) PROVE StoreTypeOK'
    <2>1. accountID(s) \in Accounts
        BY <1>2, AccountType DEF handleSetOptions, Dispatch
    <2>2. CASE UNCHANGED storeVars
        BY <2>2 DEF storeVars
    <2>3. CASE SaveOptions(accountID(s), o)
        BY <2>1, <2>3 DEF SaveOptions, AccountRow
    <2> QED BY <1>2, <2>2, <2>3 DEF handleSetOptions
<1>3. ASSUME NEW s \in Conns, CreateInsert(s) PROVE StoreTypeOK'
    <2>1. accountID(s) \in Accounts /\ work[s].slot \in Slots /\ work[s].name \in Names
        BY <1>3, AccountType DEF CreateInsert, Entitled
    <2>2. CASE UNCHANGED storeVars
        BY <2>2 DEF storeVars
    <2>3. CASE CreateCharacter(accountID(s), work[s].slot, work[s].name)
        BY <2>1, <2>3 DEF CreateCharacter, CharacterRow, Rows
    <2> QED BY <1>3, <2>2, <2>3 DEF CreateInsert, RefuseName, RefuseSlot
<1>4. ASSUME NEW s \in Conns, Effect(s), ~Upsert(s), ~CreateInsert(s),
             ~\E o \in Options : handleSetOptions(s, o)
      PROVE  UNCHANGED storeVars
    BY <1>4 DEF Effect, Continue, handleLogin, handleCreatePlayer,
       handleEnterWorld, JoinWorld, LeaveWorld
<1>5. (\E s \in Conns : Quiet(s)) \/ Loop \/ UNCHANGED sessionVars => UNCHANGED storeVars
    BY DEF Quiet, Loop, sessionVars
<1>6. UNCHANGED storeVars => StoreTypeOK'
    BY DEF storeVars
<1> QED BY <1>1, <1>2, <1>3, <1>4, <1>5, <1>6, SessionStep

\* The variables of the connections, apart from world and store.
LocalTypeOK ==
    /\ pc \in [Conns -> {"new", "closed"} \cup Ready \cup Busy]
    /\ login \in [Conns -> Keys \cup {None}]
    /\ character \in [Conns -> Characters \cup {None}]
    /\ warpToken \in [Conns -> Nat]
    /\ work \in [Conns -> Keys \cup [slot : Slots, name : Names] \cup {None}]
    /\ live \in SUBSET Keys
    /\ \A s \in Conns :
          /\ pc[s] = "upsert" => work[s] \in Keys
          /\ pc[s] = "create" => work[s] \in [slot : Slots, name : Names]

\* A handler that ends leaves the program counter well typed, and leads to
\* Leave only with a character.
LEMMA EndsType ==
    ASSUME SessionTypeOK, NEW s \in Conns, Ends(s)
    PROVE  /\ pc' \in [Conns -> {"new", "closed"} \cup Ready \cup Busy]
           /\ \A t \in Conns \ {s} : pc'[t] = pc[t]
           /\ pc'[s] \in {"recv", "send", "closed", "leave"}
           /\ pc'[s] = "leave" => character[s] # None
BY DEF SessionTypeOK, Ends, Goto, Teardown, Ready, Busy

\* Each step keeps the types of the connections and what they are entitled to.
LEMMA LocalPart ==
    ASSUME IInv, [SessionNext]_sessionVars
    PROVE  LocalTypeOK' /\ Entitled'
<1> USE DEF IInv, SessionTypeOK, LocalTypeOK, Entitled, authed, Ready, Busy
<1>1. ASSUME NEW s \in Conns, Quiet(s) PROVE LocalTypeOK' /\ Entitled'
    BY <1>1, EndsType DEF Quiet
<1>2. ASSUME NEW s \in Conns, NEW key \in Keys, NEW code \in Codes, handleLogin(s, key, code)
      PROVE  LocalTypeOK' /\ Entitled'
    <2>1. CASE Goto(s, "upsert") /\ work' = [work EXCEPT ![s] = key] /\ live' = live \ Retire(key)
        BY <1>2, <2>1 DEF handleLogin, Receive, Goto
    <2>2. CASE Reply(s) /\ live' \in {live, live \ Retire(key)} /\ UNCHANGED work
        BY <1>2, <2>2, EndsAll, EndsType DEF handleLogin, Receive
    <2> QED BY <1>2, <2>1, <2>2 DEF handleLogin
<1>3. ASSUME NEW s \in Conns, Upsert(s) PROVE LocalTypeOK' /\ Entitled'
    <2>1. login' \in [Conns -> Keys \cup {None}] /\ \A t \in Conns \ {s} : login'[t] = login[t]
        BY <1>3 DEF Upsert
    <2>2. work' = [work EXCEPT ![s] = None] /\ Ends(s)
          /\ UNCHANGED <<character, warpToken, live>>
        BY <1>3, EndsAll DEF Upsert
    <2> QED BY <2>1, <2>2, EndsType
<1>4. ASSUME NEW s \in Conns, NEW o \in Options, handleSetOptions(s, o)
      PROVE  LocalTypeOK' /\ Entitled'
    BY <1>4, EndsAll, EndsType DEF handleSetOptions, Dispatch, Receive
<1>5. ASSUME NEW s \in Conns, NEW name \in Names, handleCreatePlayer(s, name)
      PROVE  LocalTypeOK' /\ Entitled'
    <2>1. authed(s) /\ accountID(s) \in Accounts /\ pc[s] = "recv"
          /\ UNCHANGED <<login, character, warpToken, live>>
        BY <1>5, AccountType DEF handleCreatePlayer, Dispatch, Receive
    <2>2. CASE Reply(s) /\ UNCHANGED work
        BY <2>1, <2>2, EndsAll, EndsType
    <2>3. CASE /\ FreeSlots(ListCharacters(accountID(s))) # {}
               /\ Goto(s, "create")
               /\ work' = [work EXCEPT ![s] =
                     [slot |-> Min(FreeSlots(ListCharacters(accountID(s)))), name |-> name]]
        <3>1. [slot |-> Min(FreeSlots(ListCharacters(accountID(s)))), name |-> name]
                 \in [slot : Slots, name : Names]
            BY <2>1, <2>3, ChosenSlot
        <3> QED BY <2>1, <2>3, <3>1 DEF Goto
    <2> QED BY <1>5, <2>2, <2>3 DEF handleCreatePlayer
<1>6. ASSUME NEW s \in Conns, CreateInsert(s) PROVE LocalTypeOK' /\ Entitled'
    <2>1. Ends(s) /\ work' = [work EXCEPT ![s] = None]
          /\ UNCHANGED <<login, character, warpToken, live>>
        BY <1>6, EndsAll DEF CreateInsert, RefuseName, RefuseSlot
    <2> QED BY <2>1, EndsType
<1>7. ASSUME NEW s \in Conns, NEW slot \in Slots, handleEnterWorld(s, slot)
      PROVE  LocalTypeOK' /\ Entitled'
    <2>1. authed(s) /\ pc[s] = "recv" /\ UNCHANGED <<login, work, live>>
        BY <1>7 DEF handleEnterWorld, Dispatch, Receive
    <2>2. CASE Ends(s) /\ UNCHANGED <<character, warpToken>>
        BY <2>1, <2>2, EndsType
    <2>3. ASSUME NEW chosen \in InSlot(s, slot), NEW raw \in RawTokens,
                 character' = [character EXCEPT ![s] = chosen],
                 warpToken' = [warpToken EXCEPT ![s] = newWarpToken(raw)],
                 Goto(s, "join")
          PROVE  LocalTypeOK' /\ Entitled'
        <3>1. chosen \in Characters /\ chosen # None
            BY SessionAssumption DEF InSlot, ListCharacters, Rows
        <3>2. newWarpToken(raw) \in Nat
            BY SessionAssumption DEF newWarpToken
        <3>3. pc' = [pc EXCEPT ![s] = "join"]
            BY <2>3 DEF Goto
        <3> QED BY <2>1, <2>3, <3>1, <3>2, <3>3
    <2> QED BY <1>7, <2>2, <2>3, EndsAll DEF handleEnterWorld
<1>8. ASSUME NEW s \in Conns, JoinWorld(s) PROVE LocalTypeOK' /\ Entitled'
    BY <1>8, EndsAll, EndsType DEF JoinWorld
<1>9. ASSUME NEW s \in Conns, LeaveWorld(s) PROVE LocalTypeOK' /\ Entitled'
    BY <1>9 DEF LeaveWorld, Goto
<1>10. CASE Loop \/ UNCHANGED sessionVars
    BY <1>10 DEF Loop, sessionVars, connVars
<1> QED BY <1>1, <1>2, <1>3, <1>4, <1>5, <1>6, <1>7, <1>8, <1>9, <1>10,
        SessionStep DEF Effect, Continue

LEMMA IInvInit == SessionInit => IInv
<1> SUFFICES ASSUME SessionInit PROVE IInv
    OBVIOUS
<1>1. WorldTypeOK
    <2>1. <<>> \in Seq(Command) /\ Len(<<>>) = 0 /\ 0 <= Capacity
        BY EmptySeq, WorldAssumption
    <2> QED BY <2>1 DEF SessionInit, WorldInit, WorldTypeOK
<1>2. StoreTypeOK
    BY StoreAssumption DEF SessionInit, StoreInit, StoreTypeOK
<1>3. LocalTypeOK
    BY DEF SessionInit, LocalTypeOK, Ready, Busy
<1>4. Entitled
    BY DEF SessionInit, Entitled
<1> QED BY <1>1, <1>2, <1>3, <1>4 DEF IInv, SessionTypeOK, LocalTypeOK

LEMMA IInvInductive == IInv /\ [SessionNext]_sessionVars => IInv'
<1> SUFFICES ASSUME IInv, [SessionNext]_sessionVars PROVE IInv'
    OBVIOUS
<1>1. WorldTypeOK'
    BY WorldPart, WorldTypeInductive DEF IInv, SessionTypeOK
<1> QED BY <1>1, StorePart, LocalPart DEF IInv, SessionTypeOK, LocalTypeOK

LEMMA IInvAlways == SessionSpec => []IInv
BY IInvInit, IInvInductive, PTL DEF SessionSpec

\* Every variable has its type, and a goroutine between two calls of a handler
\* has the account and the character that its next call is about
\* (Handler.dispatch, Handler.handleEnterWorld).
THEOREM SessionTypeCorrect == SessionSpec => []SessionTypeOK
<1>1. IInv => SessionTypeOK
    BY DEF IInv
<1> QED BY <1>1, IInvAlways, PTL

\* The sessions use the world as its specification lets anybody use it, so
\* all that the theorems on the world say holds for the server's own callers.
THEOREM SessionsRespectWorld == SessionSpec => WorldSpec
<1>1. SessionInit => WorldInit
    BY DEF SessionInit
<1>2. IInv /\ [SessionNext]_sessionVars => [WorldNext]_worldVars
    BY WorldPart
<1> QED BY <1>1, <1>2, IInvAlways, PTL DEF SessionSpec, WorldSpec

-----------------------------------------------------------------------------
(* Safety.                                                                 *)

\* A quiet step, a step of the loop, and a stuttering step.
Idle == (\E s \in Conns : Quiet(s)) \/ Loop \/ UNCHANGED sessionVars

\* A step of a session is idle or one of the effects.
LEMMA SessionCases ==
    ASSUME [SessionNext]_sessionVars
    PROVE  Idle \/ \E s \in Conns : Effect(s)
BY SessionStep DEF Idle

LEMMA IdleLocals ==
    ASSUME IInv, Idle
    PROVE  /\ UNCHANGED <<login, character, warpToken, work, live, storeVars>>
           /\ \A s \in Conns : pc'[s] \in {"upsert", "create", "join"} => pc[s] = pc'[s]
<1>1. ASSUME NEW s \in Conns, Quiet(s), NEW t \in Conns,
             pc'[t] \in {"upsert", "create", "join"}
      PROVE  pc[t] = pc'[t]
    BY <1>1, EndsType DEF Quiet, IInv
<1> QED BY <1>1 DEF Idle, Quiet, Loop, sessionVars, connVars

\* Which connections hold a key changes only in handleLogin, by the key that
\* was validated, and in Upsert, where it may be dropped.
LEMMA HoldersAfter ==
    ASSUME IInv, [SessionNext]_sessionVars, NEW t \in Conns, NEW k \in Keys, Holds(t, k)'
    PROVE  \/ Holds(t, k)
           \/ \E code \in Codes : /\ handleLogin(t, k, code)
                                  /\ Validate(k, code)
                                  /\ live' = live \ Retire(k)
<1> USE DEF Holds
<1>1. CASE Idle
    BY <1>1, IdleLocals
<1>2. ASSUME NEW s \in Conns, NEW key \in Keys, NEW code \in Codes, handleLogin(s, key, code)
      PROVE  Holds(t, k) \/ (t = s /\ k = key /\ Validate(key, code) /\ live' = live \ Retire(key))
    <2>1. CASE /\ Validate(key, code) /\ Goto(s, "upsert")
               /\ work' = [work EXCEPT ![s] = key] /\ live' = live \ Retire(key)
        BY <1>2, <2>1 DEF handleLogin, Goto, IInv, SessionTypeOK
    <2>2. CASE Reply(s) /\ UNCHANGED work
        BY <1>2, <2>2, EndsAll, EndsType DEF handleLogin, IInv
    <2> QED BY <1>2, <2>1, <2>2 DEF handleLogin
<1>3. ASSUME NEW s \in Conns, Upsert(s) PROVE Holds(t, k)
    <2>1. pc[s] = "upsert" /\ work' = [work EXCEPT ![s] = None] /\ Ends(s)
        BY <1>3, EndsAll DEF Upsert
    <2>2. login' = [login EXCEPT ![s] = work[s]] \/ UNCHANGED login
        BY <1>3 DEF Upsert
    <2>3. t # s => pc'[t] = pc[t] /\ work'[t] = work[t] /\ login'[t] = login[t]
        BY <2>1, <2>2, EndsType DEF IInv, SessionTypeOK
    <2>4. pc'[s] # "upsert"
        BY <2>1, EndsType DEF IInv
    <2>5. login'[s] = login[s] \/ login'[s] = work[s]
        BY <2>2 DEF IInv, SessionTypeOK
    <2> QED BY <2>1, <2>3, <2>4, <2>5
<1>4. ASSUME NEW s \in Conns, Effect(s), ~Upsert(s),
             ~\E key \in Keys, code \in Codes : handleLogin(s, key, code)
      PROVE  Holds(t, k)
    <2>1. login' = login
        BY <1>4 DEF Effect, Continue, handleSetOptions, handleCreatePlayer, CreateInsert,
           handleEnterWorld, JoinWorld, LeaveWorld
    <2>2. pc'[t] = "upsert" => pc[t] = "upsert" /\ t # s
        <3>1. Ends(s) \/ Goto(s, "create") \/ Goto(s, "join") \/ Goto(s, "closed")
            BY <1>4, EndsAll DEF Effect, Continue, handleSetOptions, handleCreatePlayer,
               CreateInsert, RefuseName, RefuseSlot, handleEnterWorld,
               JoinWorld, LeaveWorld
        <3> QED BY <3>1, EndsType DEF Goto, IInv, SessionTypeOK
    <2>3. t # s => work'[t] = work[t]
        BY <1>4 DEF Effect, Continue, handleSetOptions, handleCreatePlayer, CreateInsert,
           handleEnterWorld, JoinWorld, LeaveWorld, IInv, SessionTypeOK
    <2> QED BY <2>1, <2>2, <2>3
<1> QED BY <1>1, <1>2, <1>3, <1>4, SessionCases

\* Region never takes a key back.
LEMMA LiveShrinks ==
    ASSUME IInv, [SessionNext]_sessionVars
    PROVE  live' \subseteq live
<1>1. CASE Idle
    BY <1>1, IdleLocals
<1>2. ASSUME NEW s \in Conns, Effect(s) PROVE live' \subseteq live
    BY <1>2 DEF Effect, Continue, handleLogin, Upsert, handleSetOptions, handleCreatePlayer,
       CreateInsert, handleEnterWorld, JoinWorld, LeaveWorld
<1> QED BY <1>1, <1>2, SessionCases

\* With single-use validation a key logs in one connection at most (Client
\* consume, handleLogin): it stops being live in the very step that accepts it.
THEOREM KeysSingleUse == SessionSpec => []OneConnectionPerKey
<1>1. SessionInit => OneConnectionPerKey
    BY SessionAssumption DEF SessionInit, OneConnectionPerKey, Holds
<1>2. ASSUME IInv, OneConnectionPerKey, [SessionNext]_sessionVars PROVE OneConnectionPerKey'
    <2> SUFFICES ASSUME Consume, NEW t \in Conns, NEW k \in Keys, Holds(t, k)'
                 PROVE  k \notin live' /\ \A u \in Conns : Holds(u, k)' => u = t
        BY DEF OneConnectionPerKey
    <2>1. CASE Holds(t, k)
        <3>1. k \notin live /\ \A u \in Conns : Holds(u, k) => u = t
            BY <1>2, <2>1 DEF OneConnectionPerKey
        <3>2. ASSUME NEW u \in Conns, Holds(u, k)' PROVE Holds(u, k)
            BY <1>2, <3>1, <3>2, HoldersAfter DEF Validate
        <3> QED BY <1>2, <3>1, <3>2, LiveShrinks
    <2>2. CASE ~Holds(t, k)
        <3>1. PICK code \in Codes : /\ handleLogin(t, k, code) /\ Validate(k, code)
                                    /\ live' = live \ Retire(k)
            BY <1>2, <2>2, HoldersAfter
        <3>2. k \in live /\ k \notin live'
            BY <3>1 DEF Validate, Retire
        <3>3. \A u \in Conns : ~Holds(u, k)
            BY <1>2, <3>2 DEF OneConnectionPerKey
        <3>4. ASSUME NEW u \in Conns, Holds(u, k)' PROVE u = t
            <4>1. PICK other \in Codes : handleLogin(u, k, other)
                BY <1>2, <3>3, <3>4, HoldersAfter
            <4>2. pc[u] = "recv" /\ pc'[t] = "upsert" /\ pc[t] = "recv" /\ pc'[u] = "upsert"
                BY <2>2, <3>1, <3>3, <3>4, <4>1, EndsAll, EndsType, <1>2
                   DEF handleLogin, Receive, Holds, IInv
            <4> QED BY <4>1, <4>2, EndsAll, EndsType, <1>2 DEF handleLogin, Goto, IInv, SessionTypeOK
        <3> QED BY <3>2, <3>4
    <2> QED BY <2>1, <2>2
<1> QED BY <1>1, <1>2, IInvAlways, PTL DEF SessionSpec

\* Account rows are never removed, and character rows never change.
LEMMA StoreGrows ==
    ASSUME IInv, [SessionNext]_sessionVars
    PROVE  /\ \A a \in Accounts : HasAccount(a) => HasAccount(a)'
           /\ \A c \in Rows : c \in Rows' /\ roster'[c] = roster[c]
<1> USE DEF HasAccount, Rows
<1>1. /\ accounts \in [Accounts -> AccountRow \cup {None}]
      /\ accounts' \in [Accounts -> AccountRow \cup {None}]
      /\ roster \in [Characters -> CharacterRow \cup {None}]
      /\ None \notin AccountRow
    BY StorePart, StoreAssumption DEF StoreTypeOK, IInv, SessionTypeOK
<1>2. ASSUME NEW s \in Conns, Upsert(s)
      PROVE  UNCHANGED roster /\ \A a \in Accounts : HasAccount(a) => HasAccount(a)'
    <2>1. /\ RegionSession[work[s]].account \in Accounts
          /\ RegionSession[work[s]].code \in Codes
        BY <1>2, SessionAssumption DEF Upsert, IInv, SessionTypeOK
    <2>2. ASSUME NEW row \in AccountRow, NEW code \in Codes
          PROVE  [row EXCEPT !.code = code] \in AccountRow
        BY DEF AccountRow
    <2>3. CASE UpsertAccount(RegionSession[work[s]].account, RegionSession[work[s]].code)
        <3>1. ASSUME NEW code \in Codes PROVE [code |-> code, options |-> DefaultOptions] # None
            BY <1>1, StoreAssumption DEF AccountRow
        <3> QED BY <1>1, <2>1, <2>2, <2>3, <3>1 DEF UpsertAccount
    <2> QED BY <1>2, <2>3 DEF Upsert, storeVars
<1>3. ASSUME NEW s \in Conns, NEW o \in Options, handleSetOptions(s, o)
      PROVE  UNCHANGED roster /\ \A a \in Accounts : HasAccount(a) => HasAccount(a)'
    <2>1. ASSUME NEW row \in AccountRow PROVE [row EXCEPT !.options = o] \in AccountRow
        BY DEF AccountRow
    <2> QED BY <1>1, <1>3, <2>1 DEF handleSetOptions, SaveOptions, storeVars
<1>4. ASSUME NEW s \in Conns, CreateInsert(s)
      PROVE  UNCHANGED accounts /\ \A c \in Rows : c \in Rows' /\ roster'[c] = roster[c]
    BY <1>1, <1>4 DEF CreateInsert, CreateCharacter, RefuseName, RefuseSlot, storeVars
<1>5. ASSUME NEW s \in Conns, Effect(s), ~Upsert(s), ~CreateInsert(s),
             ~\E o \in Options : handleSetOptions(s, o)
      PROVE  UNCHANGED storeVars
    BY <1>5 DEF Effect, Continue, handleLogin, handleCreatePlayer,
       handleEnterWorld, JoinWorld, LeaveWorld
<1>6. UNCHANGED storeVars => UNCHANGED <<accounts, roster>>
    BY DEF storeVars
<1> QED BY <1>2, <1>3, <1>4, <1>5, <1>6, IdleLocals, SessionCases

\* A connection gets an identity only in Upsert, with the row of its account.
LEMMA LoginAfter ==
    ASSUME IInv, [SessionNext]_sessionVars, NEW s \in Conns, login'[s] # login[s]
    PROVE  login'[s] \in Keys /\ HasAccount(accountID(s))'
<1>1. ASSUME NEW t \in Conns, Effect(t), ~Upsert(t) PROVE login' = login
    BY <1>1 DEF Effect, Continue, handleLogin, handleSetOptions, handleCreatePlayer,
       CreateInsert, handleEnterWorld, JoinWorld, LeaveWorld
<1>2. PICK t \in Conns : Upsert(t)
    BY <1>1, SessionCases, IdleLocals
<1>3. /\ login' = [login EXCEPT ![t] = work[t]] /\ work[t] \in Keys
      /\ UpsertAccount(RegionSession[work[t]].account, RegionSession[work[t]].code)
    BY <1>2 DEF Upsert, IInv, SessionTypeOK
<1>4. t = s /\ login'[s] = work[t]
    BY <1>3 DEF IInv, SessionTypeOK
<1>5. /\ RegionSession[work[t]].account \in Accounts
      /\ RegionSession[work[t]].code \in Codes
    BY <1>3, SessionAssumption
<1>6. accounts'[RegionSession[work[t]].account] # None
    <2>1. ASSUME NEW code \in Codes PROVE [code |-> code, options |-> DefaultOptions] \in AccountRow
        BY StoreAssumption DEF AccountRow
    <2>2. ASSUME NEW row \in AccountRow, NEW code \in Codes
          PROVE  [row EXCEPT !.code = code] \in AccountRow
        BY DEF AccountRow
    <2> QED BY <1>3, <1>5, <2>1, <2>2, StoreAssumption
            DEF UpsertAccount, IInv, SessionTypeOK, StoreTypeOK
<1> QED BY <1>3, <1>4, <1>6 DEF HasAccount, accountID

\* Whoever is logged in has an account row (handleLogin sets the identity only
\* once UpsertAccount has succeeded, and rows stay).
THEOREM AccountsFirst == SessionSpec => []AccountBeforeCharacters
<1>1. SessionInit => AccountBeforeCharacters
    BY DEF SessionInit, AccountBeforeCharacters, authed
<1>2. ASSUME IInv, AccountBeforeCharacters, [SessionNext]_sessionVars
      PROVE  AccountBeforeCharacters'
    <2> SUFFICES ASSUME NEW s \in Conns, authed(s)' PROVE HasAccount(accountID(s))'
        BY DEF AccountBeforeCharacters
    <2>1. CASE login'[s] = login[s]
        <3>1. authed(s) /\ HasAccount(accountID(s)) /\ accountID(s)' = accountID(s)
            BY <1>2, <2>1 DEF authed, accountID, AccountBeforeCharacters
        <3>2. accountID(s) \in Accounts
            BY <1>2, <3>1, AccountType DEF IInv
        <3>3. HasAccount(accountID(s)) => accounts'[accountID(s)] # None
            BY <1>2, <3>2, StoreGrows DEF HasAccount
        <3> QED BY <3>1, <3>3 DEF HasAccount
    <2>2. CASE login'[s] # login[s]
        BY <1>2, <2>2, LoginAfter
    <2> QED BY <2>1, <2>2
<1> QED BY <1>1, <1>2, IInvAlways, PTL DEF SessionSpec

\* A warp token is never the zero that a missing field decodes to
\* (newWarpToken).
THEOREM TokensNonZero == SessionSpec => []NoTokenNoEntry
<1>1. SessionInit => NoTokenNoEntry
    BY DEF SessionInit, NoTokenNoEntry
<1>2. ASSUME IInv, NoTokenNoEntry, [SessionNext]_sessionVars PROVE NoTokenNoEntry'
    <2>1. ASSUME NEW s \in Conns, NEW slot \in Slots, handleEnterWorld(s, slot)
          PROVE  NoTokenNoEntry'
        <3>1. \A raw \in RawTokens : newWarpToken(raw) # 0
            BY SessionAssumption DEF newWarpToken
        <3>2. UNCHANGED <<character, warpToken>> \/ \E chosen, raw :
                 /\ raw \in RawTokens
                 /\ character' = [character EXCEPT ![s] = chosen]
                 /\ warpToken' = [warpToken EXCEPT ![s] = newWarpToken(raw)]
            BY <2>1 DEF handleEnterWorld
        <3> QED BY <1>2, <3>1, <3>2 DEF NoTokenNoEntry, IInv, SessionTypeOK
    <2>2. ASSUME NEW s \in Conns, Effect(s), ~\E slot \in Slots : handleEnterWorld(s, slot)
          PROVE  UNCHANGED <<character, warpToken>>
        BY <2>2 DEF Effect, Continue, handleLogin, Upsert, handleSetOptions,
           handleCreatePlayer, CreateInsert, JoinWorld, LeaveWorld
    <2>3. UNCHANGED <<character, warpToken>> => NoTokenNoEntry'
        BY <1>2 DEF NoTokenNoEntry
    <2> QED BY <1>2, <2>1, <2>2, <2>3, IdleLocals, SessionCases
<1> QED BY <1>1, <1>2, IInvAlways, PTL DEF SessionSpec

-----------------------------------------------------------------------------
(* The roster.                                                             *)

\* A creation in progress has chosen a slot below the cap behind taken ones.
\* Whether the slot itself is still free is up to the insert.
SlotsChosen ==
    \A s \in Conns : pc[s] = "create" =>
        /\ work[s].slot < MaxSlots
        /\ \A lower \in 0 .. work[s].slot - 1 : SlotTaken(accountID(s), lower)

\* A slot once taken stays taken.
LEMMA TakenStays ==
    ASSUME IInv, [SessionNext]_sessionVars, NEW a \in Accounts, NEW slot, SlotTaken(a, slot)
    PROVE  SlotTaken(a, slot)'
<1>1. PICK c \in Rows : roster[c].account = a /\ roster[c].slot = slot
    BY DEF SlotTaken
<1>2. c \in Rows' /\ roster'[c] = roster[c]
    BY <1>1, StoreGrows
<1> QED BY <1>1, <1>2 DEF SlotTaken

\* Only handleCreatePlayer starts a creation, and nothing touches one between
\* its two calls.
LEMMA CreationAfter ==
    ASSUME IInv, [SessionNext]_sessionVars, NEW s \in Conns, pc'[s] = "create"
    PROVE  /\ login'[s] = login[s]
           /\ \/ pc[s] = "create" /\ work'[s] = work[s]
              \/ /\ authed(s)
                 /\ FreeSlots(ListCharacters(accountID(s))) # {}
                 /\ work'[s].slot = Min(FreeSlots(ListCharacters(accountID(s))))
<1>1. CASE Idle
    BY <1>1, IdleLocals
<1>2. ASSUME NEW t \in Conns, NEW name \in Names, handleCreatePlayer(t, name)
      PROVE  /\ login'[s] = login[s]
             /\ \/ pc[s] = "create" /\ work'[s] = work[s]
                \/ /\ authed(s)
                   /\ FreeSlots(ListCharacters(accountID(s))) # {}
                   /\ work'[s].slot = Min(FreeSlots(ListCharacters(accountID(s))))
    <2>1. authed(t) /\ UNCHANGED login
        BY <1>2 DEF handleCreatePlayer, Dispatch
    <2>2. CASE Reply(t) /\ UNCHANGED work
        BY <2>1, <2>2, EndsAll, EndsType DEF IInv
    <2>3. CASE /\ FreeSlots(ListCharacters(accountID(t))) # {}
               /\ Goto(t, "create")
               /\ work' = [work EXCEPT ![t] =
                     [slot |-> Min(FreeSlots(ListCharacters(accountID(t)))), name |-> name]]
        BY <2>1, <2>3 DEF Goto, IInv, SessionTypeOK
    <2> QED BY <1>2, <2>2, <2>3 DEF handleCreatePlayer
<1>3. ASSUME NEW t \in Conns, Effect(t), ~\E name \in Names : handleCreatePlayer(t, name)
      PROVE  /\ login'[s] = login[s]
             /\ pc[s] = "create" /\ work'[s] = work[s]
    <2>1. Ends(t) \/ \E l \in {"upsert", "join", "closed"} : Goto(t, l)
        BY <1>3, EndsAll DEF Effect, Continue, handleLogin, Upsert, handleSetOptions,
           CreateInsert, RefuseName, RefuseSlot, handleEnterWorld,
           JoinWorld, LeaveWorld
    <2>2. t # s /\ pc[s] = "create"
        BY <2>1, EndsType DEF Goto, IInv, SessionTypeOK
    <2>3. work'[s] = work[s] /\ login'[s] = login[s]
        BY <1>3, <2>2 DEF Effect, Continue, handleLogin, Upsert, handleSetOptions, CreateInsert,
           handleEnterWorld, JoinWorld, LeaveWorld, IInv, SessionTypeOK
    <2> QED BY <2>2, <2>3
<1> QED BY <1>1, <1>2, <1>3, SessionCases DEF Effect

LEMMA SlotsChosenInductive ==
    ASSUME IInv, SlotsChosen, [SessionNext]_sessionVars
    PROVE  SlotsChosen'
<1> SUFFICES ASSUME NEW s \in Conns, pc'[s] = "create"
             PROVE  /\ work'[s].slot < MaxSlots
                    /\ \A lower \in 0 .. work'[s].slot - 1 : SlotTaken(accountID(s), lower)'
    BY DEF SlotsChosen
<1>1. accountID(s)' = accountID(s)
    BY CreationAfter DEF accountID
<1>2. authed(s) /\ accountID(s) \in Accounts
    BY CreationAfter, AccountType DEF IInv, Entitled
<1>3. /\ work'[s].slot < MaxSlots
      /\ \A lower \in 0 .. work'[s].slot - 1 : SlotTaken(accountID(s), lower)
    <2>1. CASE pc[s] = "create" /\ work'[s] = work[s]
        BY <2>1 DEF SlotsChosen
    <2>2. CASE /\ FreeSlots(ListCharacters(accountID(s))) # {}
               /\ work'[s].slot = Min(FreeSlots(ListCharacters(accountID(s))))
        BY <1>2, <2>2, ChosenSlot DEF IInv, SessionTypeOK
    <2> QED BY <2>1, <2>2, CreationAfter
<1>4. \A lower : SlotTaken(accountID(s), lower) =>
                 \E c \in Rows' : roster'[c].account = accountID(s) /\ roster'[c].slot = lower
    BY <1>2, TakenStays DEF SlotTaken
<1> QED BY <1>1, <1>3, <1>4 DEF SlotTaken

\* Only CreateInsert adds a character.
LEMMA RosterAfter ==
    ASSUME IInv, [SessionNext]_sessionVars, roster' # roster
    PROVE  \E s \in Conns : /\ pc[s] = "create"
                            /\ CreateCharacter(accountID(s), work[s].slot, work[s].name)
<1>1. ASSUME NEW s \in Conns, Effect(s), ~CreateInsert(s) PROVE UNCHANGED roster
    BY <1>1 DEF Effect, Continue, handleLogin, Upsert, UpsertAccount, handleSetOptions,
       SaveOptions, handleCreatePlayer, handleEnterWorld, JoinWorld,
       LeaveWorld, storeVars
<1>2. Idle => UNCHANGED roster
    BY IdleLocals DEF storeVars
<1>3. PICK s \in Conns : CreateInsert(s)
    BY <1>1, <1>2, SessionCases
<1> QED BY <1>3 DEF CreateInsert, RefuseName, RefuseSlot, storeVars

\* One insert keeps a sound roster sound.
LEMMA InsertSound ==
    ASSUME StoreTypeOK, RosterSound, NEW a \in Accounts, NEW slot \in Slots, NEW name \in Names,
           slot < MaxSlots, \A lower \in 0 .. slot - 1 : SlotTaken(a, lower),
           CreateCharacter(a, slot, name)
    PROVE  RosterSound'
<1> DEFINE row == [account |-> a, slot |-> slot, name |-> name]
<1>1. PICK c \in Characters \ Rows : roster' = [roster EXCEPT ![c] = row]
    BY DEF CreateCharacter
<1>2. row # None
    BY StoreAssumption DEF CharacterRow
<1>3. Rows' = Rows \cup {c} /\ roster'[c] = row /\ \A d \in Rows : roster'[d] = roster[d]
    BY <1>1, <1>2 DEF Rows, StoreTypeOK
<1>4. /\ \A d \in Rows : roster[d].account = a => roster[d].slot # slot
      /\ \A d \in Rows : roster[d].name # name
    BY DEF CreateCharacter, SlotTaken, NameTaken
<1>5. ASSUME NEW d \in Rows'
      PROVE  /\ roster'[d].slot < MaxSlots
             /\ \A lower \in 0 .. roster'[d].slot - 1 : \E e \in Rows' :
                   roster'[e].account = roster'[d].account /\ roster'[e].slot = lower
    <2>1. CASE d = c
        BY <1>3, <2>1 DEF SlotTaken
    <2>2. CASE d \in Rows
        <3>1. /\ roster[d].slot < MaxSlots
              /\ \A lower \in 0 .. roster[d].slot - 1 : \E e \in Rows :
                   roster[e].account = roster[d].account /\ roster[e].slot = lower
            BY <2>2 DEF RosterSound, Sound, Rows
        <3> QED BY <1>3, <2>2, <3>1
    <2> QED BY <1>3, <2>1, <2>2
<1>6. ASSUME NEW d \in Rows', NEW e \in Rows', d # e
      PROVE  /\ roster'[d].name # roster'[e].name
             /\ roster'[d].account = roster'[e].account => roster'[d].slot # roster'[e].slot
    <2>1. \A x, y \in Rows : x # y =>
              /\ roster[x].name # roster[y].name
              /\ roster[x].account = roster[y].account => roster[x].slot # roster[y].slot
        BY DEF RosterSound, Sound, Rows
    <2>2. CASE d \in Rows /\ e \in Rows
        BY <1>3, <1>6, <2>1, <2>2
    <2>3. CASE d = c /\ e \in Rows
        BY <1>3, <1>4, <2>3
    <2>4. CASE d \in Rows /\ e = c
        BY <1>3, <1>4, <2>4
    <2> QED BY <1>3, <1>6, <2>2, <2>3, <2>4
<1> QED BY <1>5, <1>6 DEF RosterSound, Sound, Rows

\* However creations race, slots stay below the cap, dense and unique, and
\* names unique (freeSlot, handleCreatePlayer, migrations 0001 and 0003): the
\* list a slot is chosen from may be stale, but only by rows that were added.
THEOREM RostersSound == SessionSpec => []RosterSound
<1> DEFINE Inv == IInv /\ SlotsChosen /\ RosterSound
<1>1. SessionInit => Inv
    BY IInvInit, StoredRosterSound DEF SessionInit, StoreInit, SlotsChosen, RosterSound
<1>2. Inv /\ [SessionNext]_sessionVars => Inv'
    <2> SUFFICES ASSUME Inv, [SessionNext]_sessionVars PROVE Inv'
        OBVIOUS
    <2>1. IInv' /\ SlotsChosen'
        BY IInvInductive, SlotsChosenInductive
    <2>2. CASE roster' = roster
        BY <2>1, <2>2 DEF RosterSound, Sound
    <2>3. CASE roster' # roster
        <3>1. PICK s \in Conns : /\ pc[s] = "create"
                                 /\ CreateCharacter(accountID(s), work[s].slot, work[s].name)
            BY <2>3, RosterAfter
        <3>2. /\ accountID(s) \in Accounts
              /\ work[s].slot \in Slots /\ work[s].name \in Names
            BY <3>1, AccountType DEF IInv, Entitled, SessionTypeOK
        <3> QED BY <2>1, <3>1, <3>2, InsertSound DEF SlotsChosen, IInv, SessionTypeOK
    <2> QED BY <2>1, <2>2, <2>3
<1> QED BY <1>1, <1>2, PTL DEF SessionSpec

-----------------------------------------------------------------------------
(* Creating a character is atomic.                                         *)

\* The abstract table's free slots of an account are the store's.
LEMMA FreeAlike ==
    ASSUME NEW a, NEW slot
    PROVE  slot \in Lobby!Free(a) <=> slot \in 0 .. MaxSlots - 1 /\ ~SlotTaken(a, slot)
BY DEF Lobby!Free, Lobby!Created, SlotTaken, Rows

\* An insert into a slot behind taken ones is an atomic creation: all lower
\* slots are taken, this one is not, so that it is the lowest free one.
LEMMA InsertIsCreate ==
    ASSUME StoreTypeOK, NEW a \in Accounts, NEW slot \in Slots, NEW name \in Names,
           slot < MaxSlots, \A lower \in 0 .. slot - 1 : SlotTaken(a, lower),
           CreateCharacter(a, slot, name)
    PROVE  Lobby!Create(a, name)
<1>1. HasAccount(a) /\ ~SlotTaken(a, slot) /\ ~NameTaken(name) /\ UNCHANGED accounts
    BY DEF CreateCharacter
<1>2. PICK c \in Characters \ Rows :
         roster' = [roster EXCEPT ![c] = [account |-> a, slot |-> slot, name |-> name]]
    BY DEF CreateCharacter
<1>3. Lobby!Created = Rows
    BY DEF Lobby!Created, Rows
<1>4. slot \in Nat /\ MaxSlots \in Nat
    BY StoreAssumption, SessionAssumption
<1>5. slot \in Lobby!Free(a)
    BY <1>1, <1>4, FreeAlike
<1>6. ASSUME NEW other \in Lobby!Free(a) PROVE slot <= other
    <2>1. other \in 0 .. MaxSlots - 1 /\ ~SlotTaken(a, other)
        BY FreeAlike
    <2> QED BY <1>4, <2>1
<1>7. \A d \in Lobby!Created : roster[d].name # name
    BY <1>1, <1>3 DEF NameTaken
<1>8. {b \in Accounts : HasAccount(b)}' = {b \in Accounts : HasAccount(b)}
    BY <1>1 DEF HasAccount
<1> QED BY <1>1, <1>2, <1>3, <1>5, <1>6, <1>7, <1>8 DEF Lobby!Create

\* Accounts are registered one at a time, by UpsertAccount.
LEMMA AccountsAfter ==
    ASSUME IInv, [SessionNext]_sessionVars, UNCHANGED roster
    PROVE  \/ {b \in Accounts : HasAccount(b)}' = {b \in Accounts : HasAccount(b)}
           \/ \E a \in Accounts : Lobby!Register(a)
<1>1. /\ accounts \in [Accounts -> AccountRow \cup {None}]
      /\ accounts' \in [Accounts -> AccountRow \cup {None}]
      /\ None \notin AccountRow
    BY StorePart, StoreAssumption DEF StoreTypeOK, IInv, SessionTypeOK
<1>2. ASSUME NEW a \in Accounts, \A b \in Accounts \ {a} : accounts'[b] = accounts[b]
      PROVE  \/ {b \in Accounts : HasAccount(b)}' = {b \in Accounts : HasAccount(b)}
             \/ \E b \in Accounts : Lobby!Register(b)
    <2>1. HasAccount(a) => HasAccount(a)'
        BY StoreGrows
    <2>2. CASE HasAccount(a) \/ ~HasAccount(a)'
        BY <1>2, <2>1, <2>2 DEF HasAccount
    <2>3. CASE ~HasAccount(a) /\ HasAccount(a)'
        <3>1. {b \in Accounts : HasAccount(b)}' = {b \in Accounts : HasAccount(b)} \cup {a}
            BY <1>2, <2>3 DEF HasAccount
        <3> QED BY <3>1 DEF Lobby!Register
    <2> QED BY <2>2, <2>3
<1>3. ASSUME NEW s \in Conns, Upsert(s)
      PROVE  \E a \in Accounts : \A b \in Accounts \ {a} : accounts'[b] = accounts[b]
    <2>1. RegionSession[work[s]].account \in Accounts
        BY <1>3, SessionAssumption DEF Upsert, IInv, SessionTypeOK
    <2>2. UNCHANGED accounts \/ UpsertAccount(RegionSession[work[s]].account, RegionSession[work[s]].code)
        BY <1>3 DEF Upsert, storeVars
    <2> QED BY <1>1, <2>1, <2>2 DEF UpsertAccount
<1>4. ASSUME NEW s \in Conns, NEW o \in Options, handleSetOptions(s, o)
      PROVE  \E a \in Accounts : \A b \in Accounts \ {a} : accounts'[b] = accounts[b]
    <2>1. accountID(s) \in Accounts
        BY <1>4, AccountType DEF handleSetOptions, Dispatch, IInv
    <2>2. UNCHANGED accounts \/ SaveOptions(accountID(s), o)
        BY <1>4 DEF handleSetOptions, storeVars
    <2> QED BY <1>1, <2>1, <2>2 DEF SaveOptions
<1>5. ASSUME NEW s \in Conns, Effect(s), ~Upsert(s), ~\E o \in Options : handleSetOptions(s, o)
      PROVE  UNCHANGED accounts
    BY <1>5 DEF Effect, Continue, handleLogin, handleCreatePlayer, CreateInsert, CreateCharacter,
       RefuseName, RefuseSlot, handleEnterWorld, JoinWorld, LeaveWorld, storeVars
<1>6. UNCHANGED accounts => {b \in Accounts : HasAccount(b)}' = {b \in Accounts : HasAccount(b)}
    BY DEF HasAccount
<1>7. Idle => UNCHANGED accounts
    BY IdleLocals DEF storeVars
<1> QED BY <1>2, <1>3, <1>4, <1>5, <1>6, <1>7, SessionCases

\* However creations race, the lobby behaves as if each were one atomic step
\* that takes the lowest free slot: of two connections of an account that
\* chose the same slot, the second is refused rather than given another one
\* (handleCreatePlayer, freeSlot, CreateCharacter).
THEOREM CreationIsAtomic == SessionSpec => RosterSpec
<1> DEFINE registered == {a \in Accounts : HasAccount(a)}
<1>1. SessionInit => Lobby!Init
    BY DEF SessionInit, StoreInit, Lobby!Init
<1>2. SessionInit => SlotsChosen
    BY DEF SessionInit, SlotsChosen
<1>3. IInv /\ SlotsChosen /\ [SessionNext]_sessionVars => SlotsChosen'
    BY SlotsChosenInductive
<1>4. ASSUME IInv, SlotsChosen, [SessionNext]_sessionVars
      PROVE  [Lobby!Next]_<<roster, registered>>
    <2>1. CASE UNCHANGED roster
        BY <1>4, <2>1, AccountsAfter DEF Lobby!Next
    <2>2. CASE roster' # roster
        <3>1. PICK s \in Conns : /\ pc[s] = "create"
                                 /\ CreateCharacter(accountID(s), work[s].slot, work[s].name)
            BY <1>4, <2>2, RosterAfter
        <3>2. /\ accountID(s) \in Accounts
              /\ work[s].slot \in Slots /\ work[s].name \in Names
            BY <1>4, <3>1, AccountType DEF IInv, Entitled, SessionTypeOK
        <3>3. Lobby!Create(accountID(s), work[s].name)
            BY <1>4, <3>1, <3>2, InsertIsCreate DEF SlotsChosen, IInv, SessionTypeOK
        <3> QED BY <3>2, <3>3 DEF Lobby!Next
    <2> QED BY <2>1, <2>2
<1> QED BY <1>1, <1>2, <1>3, <1>4, IInvAlways, PTL DEF SessionSpec, RosterSpec, Lobby!Spec

-----------------------------------------------------------------------------
(* What a step does to the world, and to the characters of connections.    *)

\* Nothing that the promised table depends on.
WorldStill == UNCHANGED <<players, cmds, running>>

LEMMA EntryCases ==
    ASSUME IInv, [SessionNext]_sessionVars
    PROVE  \/ WorldStill
           \/ Take
           \/ Stop
           \/ \E s \in Conns : JoinWorld(s) \/ LeaveWorld(s)
<1>1. CASE Idle
    BY <1>1 DEF Idle, Quiet, Loop, Cancel, WorldStill, worldVars, sessionVars
<1>2. ASSUME NEW s \in Conns, Effect(s), ~JoinWorld(s), ~LeaveWorld(s)
      PROVE  WorldStill
    BY <1>2 DEF Effect, Continue, handleLogin, handleSetOptions, handleCreatePlayer,
       handleEnterWorld, Upsert, CreateInsert, WorldStill, worldVars
<1> QED BY <1>1, <1>2, SessionCases

\* A connection about to join has just chosen a character of its account.
LEMMA JoiningAfter ==
    ASSUME IInv, [SessionNext]_sessionVars, NEW s \in Conns, pc'[s] = "join"
    PROVE  /\ login'[s] = login[s]
           /\ \/ pc[s] = "join" /\ character'[s] = character[s]
              \/ character'[s] \in ListCharacters(accountID(s))
<1>1. CASE Idle
    BY <1>1, IdleLocals
<1>2. ASSUME NEW t \in Conns, NEW slot \in Slots, handleEnterWorld(t, slot)
      PROVE  /\ login'[s] = login[s]
             /\ \/ pc[s] = "join" /\ character'[s] = character[s]
                \/ character'[s] \in ListCharacters(accountID(s))
    <2>1. UNCHANGED login
        BY <1>2 DEF handleEnterWorld
    <2>2. CASE Ends(t) /\ UNCHANGED character
        BY <2>1, <2>2, EndsType DEF IInv
    <2>3. ASSUME NEW chosen \in InSlot(t, slot), Goto(t, "join"),
                 character' = [character EXCEPT ![t] = chosen]
          PROVE  \/ pc[s] = "join" /\ character'[s] = character[s]
                 \/ character'[s] \in ListCharacters(accountID(s))
        BY <2>3 DEF Goto, InSlot, IInv, SessionTypeOK
    <2> QED BY <1>2, <2>1, <2>2, <2>3, EndsAll DEF handleEnterWorld
<1>3. ASSUME NEW t \in Conns, Effect(t), ~\E slot \in Slots : handleEnterWorld(t, slot)
      PROVE  /\ login'[s] = login[s]
             /\ pc[s] = "join" /\ character'[s] = character[s]
    <2>1. Ends(t) \/ \E l \in {"upsert", "create", "closed"} : Goto(t, l)
        BY <1>3, EndsAll DEF Effect, Continue, handleLogin, Upsert, handleSetOptions,
           handleCreatePlayer, CreateInsert, RefuseName, RefuseSlot,
           JoinWorld, LeaveWorld
    <2>2. t # s /\ pc[s] = "join"
        BY <2>1, EndsType DEF Goto, IInv, SessionTypeOK
    <2>3. character' = character /\ login'[s] = login[s]
        BY <1>3, <2>2 DEF Effect, Continue, handleLogin, Upsert, handleSetOptions,
           handleCreatePlayer, CreateInsert, JoinWorld, LeaveWorld,
           IInv, SessionTypeOK
    <2> QED BY <2>2, <2>3
<1> QED BY <1>1, <1>2, <1>3, SessionCases DEF Effect

-----------------------------------------------------------------------------
(* Ownership.                                                              *)

\* The character is a stored one of the account the player entered for.
OwnedBy(c, p) == c \in Rows /\ roster[c].account = p.entrant.account

\* Everybody in the table, on the way to it, or about to go, is owned.
Owned ==
    /\ \A c \in Characters : players[c] # None => OwnedBy(c, players[c])
    /\ \A i \in DOMAIN cmds : cmds[i].op = "Join" => OwnedBy(cmds[i].char, cmds[i].player)
    /\ \A s \in Conns : pc[s] = "join" => character[s] \in ListCharacters(accountID(s))

\* Rows are there to stay, so ownership is.
LEMMA OwnedStays ==
    ASSUME IInv, [SessionNext]_sessionVars, NEW c, NEW p, OwnedBy(c, p)
    PROVE  c \in Rows' /\ roster'[c].account = p.entrant.account
BY StoreGrows DEF OwnedBy

LEMMA OwnedInductive ==
    ASSUME IInv, Owned, [SessionNext]_sessionVars
    PROVE  Owned'
<1>1. WorldTypeOK /\ DOMAIN cmds = 1 .. Len(cmds) /\ Len(cmds) \in Nat
      /\ \A i \in DOMAIN cmds : cmds[i] \in Command
    BY LenProperties, ElementOfSeq DEF IInv, SessionTypeOK, WorldTypeOK
<1>2. ASSUME NEW s \in Conns, pc'[s] = "join"
      PROVE  character'[s] \in ListCharacters(accountID(s))'
    <2>1. character'[s] \in ListCharacters(accountID(s))
        BY <1>2, JoiningAfter DEF Owned
    <2>2. accountID(s)' = accountID(s)
        BY <1>2, JoiningAfter DEF accountID
    <2>3. character'[s] \in Rows' /\ roster'[character'[s]] = roster[character'[s]]
        BY <2>1, StoreGrows DEF ListCharacters
    <2> QED BY <2>1, <2>2, <2>3 DEF ListCharacters
<1>3. ASSUME NEW c \in Characters, players'[c] # None, players'[c] = players[c]
      PROVE  OwnedBy(c, players[c])'
    BY <1>3, OwnedStays DEF Owned, OwnedBy
<1>4. ASSUME NEW i \in DOMAIN cmds, cmds[i].op = "Join"
      PROVE  /\ cmds[i].char \in Rows'
             /\ roster'[cmds[i].char].account = cmds[i].player.entrant.account
    BY <1>4, OwnedStays DEF Owned
<1>5. CASE WorldStill \/ Stop
    BY <1>2, <1>3, <1>4, <1>5 DEF WorldStill, Stop, Owned, OwnedBy
<1>6. CASE Take
    <2>1. /\ cmds # <<>> /\ cmds' = Tail(cmds) /\ players' = Apply(players, cmds[1])
          /\ 1 \in DOMAIN cmds /\ cmds[1] \in Command
        BY <1>1, <1>6, EmptySeq DEF Take
    <2>2. DOMAIN cmds' = 1 .. Len(cmds) - 1
          /\ \A i \in DOMAIN cmds' : i + 1 \in DOMAIN cmds /\ cmds'[i] = cmds[i + 1]
        BY <1>1, <2>1, HeadTailProperties, LenProperties DEF WorldTypeOK
    <2>3. ASSUME NEW c \in Characters, players'[c] # None
          PROVE  OwnedBy(c, players[c])'
        <3>1. CASE cmds[1].op = "Join" /\ cmds[1].char = c
            <4>1. players'[c] = cmds[1].player
                BY <1>1, <2>1, <3>1 DEF Apply, WorldTypeOK
            <4> QED BY <1>4, <2>1, <3>1, <4>1 DEF OwnedBy
        <3>2. CASE ~(cmds[1].op = "Join" /\ cmds[1].char = c)
            <4>1. players[c] # None /\ players'[c].entrant = players[c].entrant
                <5>1. CASE cmds[1] \in JoinCmd \cup LeaveCmd
                    BY <1>1, <2>1, <2>3, <3>2, <5>1 DEF Apply, WorldTypeOK, JoinCmd, LeaveCmd
                <5>2. CASE cmds[1] \in MoveCmd
                    <6>1. players'[c] = players[c]
                          \/ (players[c] # None
                              /\ players'[c] = [players[c] EXCEPT !.pose = cmds[1].pose])
                        BY <1>1, <2>1, <5>2 DEF Apply, WorldTypeOK, MoveCmd
                    <6>2. players[c] # None => players[c] \in Player
                        BY <1>1 DEF WorldTypeOK
                    <6> QED BY <2>3, <6>1, <6>2 DEF Player
                <5> QED BY <2>1, <5>1, <5>2 DEF Command
            <4> QED BY <4>1, OwnedStays DEF Owned, OwnedBy
        <3> QED BY <3>1, <3>2
    <2>4. ASSUME NEW i \in DOMAIN cmds', cmds'[i].op = "Join"
          PROVE  OwnedBy(cmds[i].char, cmds[i].player)'
        BY <1>4, <2>2, <2>4 DEF OwnedBy
    <2> QED BY <1>2, <2>3, <2>4 DEF Owned
<1>7. ASSUME NEW cmd \in Command, do(cmd),
             cmd.op = "Join" => OwnedBy(cmd.char, cmd.player)
      PROVE  Owned'
    <2>1. CASE UNCHANGED <<players, cmds>>
        BY <1>2, <1>3, <1>4, <2>1 DEF Owned, OwnedBy
    <2>2. CASE UNCHANGED players /\ cmds' = Append(cmds, cmd)
        <3>1. DOMAIN cmds' = DOMAIN cmds \cup {Len(cmds) + 1}
              /\ cmds'[Len(cmds) + 1] = cmd /\ \A i \in DOMAIN cmds : cmds'[i] = cmds[i]
            BY <1>1, <2>2, AppendProperties, LenProperties DEF WorldTypeOK
        <3>2. cmd.op = "Join" => OwnedBy(cmd.char, cmd.player)'
            BY <1>7, OwnedStays DEF OwnedBy
        <3>3. ASSUME NEW i \in DOMAIN cmds', cmds'[i].op = "Join"
              PROVE  OwnedBy(cmds[i].char, cmds[i].player)'
            BY <1>4, <3>1, <3>2, <3>3 DEF OwnedBy
        <3> QED BY <1>2, <1>3, <2>2, <3>3 DEF Owned
    <2> QED BY <1>7, <2>1, <2>2 DEF do
<1>8. ASSUME NEW s \in Conns, JoinWorld(s) PROVE Owned'
    <2> DEFINE p == [entrant |-> [conn |-> s, account |-> accountID(s)], pose |-> SpawnPose]
    <2>1. character[s] \in ListCharacters(accountID(s)) /\ character[s] \in Characters /\ authed(s)
        BY <1>8 DEF JoinWorld, Owned, ListCharacters, Rows, IInv, Entitled
    <2>2. p \in Player
        BY <2>1, AccountType, SessionAssumption DEF IInv, Player
    <2>3. [op |-> "Join", char |-> character[s], player |-> p] \in Command
        BY <2>1, <2>2, CallsAreCommands
    <2>4. OwnedBy(character[s], p)
        BY <2>1 DEF OwnedBy, ListCharacters
    <2> QED BY <1>7, <1>8, <2>3, <2>4 DEF JoinWorld, Join
<1>9. ASSUME NEW s \in Conns, LeaveWorld(s) PROVE Owned'
    <2>1. character[s] \in Characters
        BY <1>9 DEF LeaveWorld, IInv, Entitled, SessionTypeOK
    <2> QED BY <1>7, <1>9, <2>1, CallsAreCommands DEF LeaveWorld, Leave
<1> QED BY <1>5, <1>6, <1>8, <1>9, EntryCases

\* Whoever is promised to be present entered with a queued Join, or is there.
LEMMA PromisedOwned ==
    ASSUME IInv, Owned
    PROVE  PlayersOwned
<1> SUFFICES ASSUME NEW c \in Characters, PromisedTable[c] # None
             PROVE  c \in Rows /\ roster[c].account = PromisedTable[c].entrant.account
    BY DEF PlayersOwned
<1>1. CASE ~running
    BY <1>1 DEF PromisedTable, Owned, OwnedBy
<1>2. CASE running
    <2>1. PromisedTable[c] = Promised(c)
        BY <1>2 DEF PromisedTable
    <2>2. WorldTypeOK
        BY DEF IInv, SessionTypeOK
    <2>3. Settled(c) # None /\ Settled(c) \in Player
        BY <2>1, <2>2, PromisedType
    <2>4. Promised(c).entrant = Settled(c).entrant
        BY <2>3 DEF Promised, Player
    <2>5. OwnedBy(c, Settled(c))
        <3>1. CASE Binding(c) = {}
            BY <2>3, <3>1 DEF Settled, Owned
        <3>2. CASE Binding(c) # {}
            <4>1. /\ Max(Binding(c)) \in Touching(c)
                  /\ Max(Binding(c)) \in DOMAIN cmds
                BY <2>2, <3>2, LastPosition, PositionsType
            <4>2. cmds[Max(Binding(c))].op = "Join" /\ cmds[Max(Binding(c))].char = c
                  /\ Settled(c) = cmds[Max(Binding(c))].player
                BY <2>3, <3>2, <4>1 DEF Settled, Touching
            <4> QED BY <4>1, <4>2 DEF Owned
        <3> QED BY <3>1, <3>2
    <2> QED BY <2>1, <2>4, <2>5 DEF OwnedBy
<1> QED BY <1>1, <1>2 DEF IInv, SessionTypeOK, WorldTypeOK

\* Whoever is in the world, and whoever is still queued for it, plays a stored
\* character of the account it entered for, however often its connection has
\* logged in since (handleEnterWorld, handleLogin, World.Join).
THEOREM PlayersAreOwned == SessionSpec => []PlayersOwned
<1>1. SessionInit => Owned
    <2>1. SessionInit => DOMAIN cmds = {}
        BY DEF SessionInit, WorldInit
    <2> QED BY <2>1 DEF SessionInit, WorldInit, Owned
<1>2. IInv /\ Owned /\ [SessionNext]_sessionVars => Owned'
    BY OwnedInductive
<1>3. IInv /\ Owned => PlayersOwned
    BY PromisedOwned
<1> QED BY <1>1, <1>2, <1>3, IInvAlways, PTL DEF SessionSpec

-----------------------------------------------------------------------------
(* Leaving.                                                                *)

\* The loop ends only after the cancellation.
LoopLives == ~cancelled => running

LEMMA LoopLivesInductive ==
    ASSUME IInv, LoopLives, [SessionNext]_sessionVars
    PROVE  LoopLives' /\ (cancelled => cancelled')
<1>1. [WorldNext]_worldVars
    BY WorldPart
<1>2. CASE UNCHANGED worldVars
    BY <1>2 DEF worldVars, LoopLives
<1>3. ASSUME NEW cmd \in Command, do(cmd) PROVE LoopLives' /\ (cancelled => cancelled')
    BY <1>3 DEF do, LoopLives
<1>4. CASE Take \/ Stop \/ Cancel
    BY <1>4 DEF Take, Stop, Cancel, LoopLives
<1> QED BY <1>1, <1>2, <1>3, <1>4, WorldStep

\* A connection with a character is closed by LeaveWorld and by nothing else.
LEMMA ClosedAfter ==
    ASSUME IInv, [SessionNext]_sessionVars, NEW s \in Conns,
           pc'[s] = "closed", character'[s] # None
    PROVE  /\ character'[s] = character[s]
           /\ LeaveWorld(s) \/ pc[s] = "closed"
<1>1. ASSUME NEW t \in Conns, Ends(t), character'[t] = character[t]
      PROVE  pc[s] = "closed"
    <2>1. t = s => pc'[s] # "closed"
        BY <1>1 DEF Ends, Goto, Teardown, IInv, SessionTypeOK
    <2> QED BY <1>1, <2>1, EndsType DEF IInv
<1>2. ASSUME NEW t \in Conns, NEW l \in {"upsert", "create", "join"}, Goto(t, l)
      PROVE  pc[s] = "closed" /\ t # s
    BY <1>2 DEF Goto, IInv, SessionTypeOK
<1>3. CASE Idle
    <2>1. character' = character
        BY <1>3, IdleLocals
    <2>2. (\E t \in Conns : Ends(t)) \/ UNCHANGED pc
        BY <1>3 DEF Idle, Quiet, Loop, sessionVars, connVars
    <2> QED BY <1>1, <2>1, <2>2
<1>4. ASSUME NEW t \in Conns, NEW slot \in Slots, handleEnterWorld(t, slot)
      PROVE  character'[s] = character[s] /\ pc[s] = "closed"
    <2>1. CASE Ends(t) /\ UNCHANGED character
        BY <1>1, <2>1
    <2>2. ASSUME NEW chosen, Goto(t, "join"), character' = [character EXCEPT ![t] = chosen]
          PROVE  character'[s] = character[s] /\ pc[s] = "closed"
        BY <1>2, <2>2 DEF IInv, SessionTypeOK
    <2> QED BY <1>4, <2>1, <2>2, EndsAll DEF handleEnterWorld
<1>5. ASSUME NEW t \in Conns, Effect(t), ~LeaveWorld(t),
             ~\E slot \in Slots : handleEnterWorld(t, slot)
      PROVE  character'[s] = character[s] /\ pc[s] = "closed"
    <2>1. character' = character
        BY <1>5 DEF Effect, Continue, handleLogin, Upsert, handleSetOptions,
           handleCreatePlayer, CreateInsert, JoinWorld
    <2>2. Ends(t) \/ \E l \in {"upsert", "create", "join"} : Goto(t, l)
        BY <1>5, EndsAll DEF Effect, Continue, handleLogin, Upsert, handleSetOptions,
           handleCreatePlayer, CreateInsert, RefuseName, RefuseSlot, JoinWorld
    <2> QED BY <1>1, <1>2, <2>1, <2>2
<1>6. ASSUME NEW t \in Conns, LeaveWorld(t), t # s
      PROVE  character'[s] = character[s] /\ pc[s] = "closed"
    BY <1>6 DEF LeaveWorld, Goto, IInv, SessionTypeOK
<1>7. ASSUME LeaveWorld(s) PROVE character'[s] = character[s]
    BY <1>7 DEF LeaveWorld
<1> QED BY <1>3, <1>4, <1>5, <1>6, <1>7, SessionCases DEF Effect

\* What a call of a session does to the table promised while the server is up.
LEMMA CallPromises ==
    ASSUME IInv, running, ~cancelled, NEW cmd \in Command, do(cmd)
    PROVE  PromisedTable' = Apply(PromisedTable, cmd)
<1>1. cmds' = Append(cmds, cmd) /\ UNCHANGED <<players, running>>
    BY DEF do
<1> QED BY <1>1, AppendPromises DEF IInv, SessionTypeOK

\* A connection that is closed has taken the character it entered with last
\* out of the world, whichever of its replies failed (Serve, the deferred
\* Leave), and only a newer connection has put it back.
THEOREM ClosedConnectionsLeave == SessionSpec => []ClosedHasLeft
<1> DEFINE Inv == IInv /\ LoopLives /\ ClosedHasLeft
<1>1. SessionInit => Inv
    BY IInvInit DEF SessionInit, WorldInit, LoopLives, ClosedHasLeft
<1>2. Inv /\ [SessionNext]_sessionVars => Inv'
    <2> SUFFICES ASSUME Inv, [SessionNext]_sessionVars PROVE Inv'
        OBVIOUS
    <2>1. IInv' /\ LoopLives' /\ (cancelled => cancelled')
        BY IInvInductive, LoopLivesInductive
    <2> SUFFICES ASSUME ~cancelled', NEW s \in Conns, pc'[s] = "closed", character'[s] # None
                 PROVE  \/ PromisedTable'[character'[s]] = None
                        \/ PromisedTable'[character'[s]].entrant.conn # s
        BY <2>1 DEF ClosedHasLeft
    <2>2. ~cancelled /\ running /\ WorldTypeOK
        BY <2>1 DEF LoopLives, IInv, SessionTypeOK
    <2>3. PromisedTable \in [Characters -> Player \cup {None}]
        BY <2>2, PromisedType DEF PromisedTable
    <2>4. character'[s] = character[s] /\ character[s] \in Characters
        BY ClosedAfter DEF IInv, SessionTypeOK
    <2>5. CASE LeaveWorld(s)
        <3>1. [op |-> "Leave", char |-> character[s]] \in Command
            BY <2>4, CallsAreCommands
        <3>2. PromisedTable' = Apply(PromisedTable, [op |-> "Leave", char |-> character[s]])
            BY <2>2, <2>5, <3>1, CallPromises DEF LeaveWorld, Leave
        <3>3. PromisedTable'[character[s]] = None
            BY <2>3, <2>4, <3>2 DEF Apply
        <3> QED BY <2>4, <3>3
    <2>6. CASE ~LeaveWorld(s)
        <3>1. pc[s] = "closed"
            BY <2>6, ClosedAfter
        <3>2. \/ PromisedTable[character[s]] = None
              \/ PromisedTable[character[s]].entrant.conn # s
            BY <2>2, <2>4, <3>1 DEF ClosedHasLeft
        <3>3. CASE PromisedTable' = PromisedTable
            BY <2>4, <3>2, <3>3
        <3>4. ASSUME NEW t \in Conns, JoinWorld(t)
              PROVE  \/ PromisedTable'[character[s]] = None
                     \/ PromisedTable'[character[s]].entrant.conn # s
            <4> DEFINE p == [entrant |-> [conn |-> t, account |-> accountID(t)], pose |-> SpawnPose]
                       join == [op |-> "Join", char |-> character[t], player |-> p]
            <4>1. t # s /\ character[t] \in Characters /\ authed(t)
                BY <3>1, <3>4 DEF JoinWorld, IInv, Entitled, SessionTypeOK
            <4>2. p \in Player
                BY <4>1, AccountType, SessionAssumption DEF IInv, Player
            <4>3. join \in Command
                BY <4>1, <4>2, CallsAreCommands
            <4>4. PromisedTable' = Apply(PromisedTable, join)
                BY <2>2, <3>4, <4>3, CallPromises DEF JoinWorld, Join
            <4>5. PromisedTable' = [PromisedTable EXCEPT ![character[t]] = p]
                BY <4>4 DEF Apply
            <4> QED BY <2>3, <2>4, <3>2, <4>1, <4>5
        <3>5. ASSUME NEW t \in Conns, LeaveWorld(t)
              PROVE  \/ PromisedTable'[character[s]] = None
                     \/ PromisedTable'[character[s]].entrant.conn # s
            <4>1. character[t] \in Characters
                BY <3>5 DEF LeaveWorld, IInv, Entitled, SessionTypeOK
            <4>2. [op |-> "Leave", char |-> character[t]] \in Command
                BY <4>1, CallsAreCommands
            <4>3. PromisedTable' = Apply(PromisedTable, [op |-> "Leave", char |-> character[t]])
                BY <2>2, <3>5, <4>2, CallPromises DEF LeaveWorld, Leave
            <4>4. PromisedTable' = [PromisedTable EXCEPT ![character[t]] = None]
                BY <4>3 DEF Apply
            <4> QED BY <2>3, <2>4, <3>2, <4>4
        <3>6. WorldStill => PromisedTable' = PromisedTable
            BY DEF WorldStill, PromisedTable, Promised, Settled, Binding, Touching
        <3>7. Take => PromisedTable' = PromisedTable
            BY <2>2, TakePromises
        <3>8. ~Stop
            BY <2>2 DEF Stop
        <3> QED BY <2>4, <3>3, <3>4, <3>5, <3>6, <3>7, <3>8, EntryCases
    <2> QED BY <2>5, <2>6
<1> QED BY <1>1, <1>2, PTL DEF SessionSpec

==============================================================================

------------------------------- MODULE Session -------------------------------
(***************************************************************************)
(* internal/game: one goroutine per connection (Handler.Serve) that reads  *)
(* a message, runs its handler and reads again, against the shared store,  *)
(* the region service (internal/auth) and the shared world.  A handler is  *)
(* split where other goroutines can act between its calls:                 *)
(*                                                                         *)
(*   recv --Login--------> upsert --Upsert-------> send --Sent--> recv     *)
(*   recv --CreatePlayer-> create --CreateInsert-> send --Sent--> recv     *)
(*   recv --EnterWorld---> join   --JoinWorld----> send --Sent--> recv     *)
(*   any  --(failure, disconnection, shutdown)---> leave or closed         *)
(*                                                                         *)
(* Every other handler makes at most one call and then sends its reply,    *)
(* which lasts as long as the client does not read it.                     *)
(***************************************************************************)
EXTENDS World, CharacterStore

CONSTANTS Conns,          \* connections, each used once
          Keys,           \* region session keys
          RegionSession,  \* what region knows of each key: account, code, world
          Consume,        \* AUTH: POST .../consume instead of GET
          WorldID,        \* the world this server hosts
          RawTokens,      \* what rand.Read may yield for a warp token
          MaxSlots,       \* maxCharacterSlots (3 in the code)
          SpawnPose,      \* pose of a character, never saved by the code
          Requests        \* the messages clients send, to bound a run

ASSUME SessionAssumption ==
    /\ Entrants = [conn : Conns, account : Accounts]
    /\ RegionSession \in [Keys -> [account : Accounts, code : Codes, world : Nat]]
    /\ None \notin Keys \cup Characters
    /\ Consume \in BOOLEAN
    /\ RawTokens \subseteq Nat
    /\ MaxSlots \in Nat
    /\ 0 .. MaxSlots \subseteq Slots
    /\ SpawnPose \in Poses

VARIABLES pc,         \* where each connection's goroutine is
          login,      \* the region session it authenticated with: accountID,
                      \* accountCode and authed are set together from it
          character,  \* s.character; inWorld is set together with it
          warpToken,  \* s.warpToken
          work,       \* local variables of the handler in progress
          live        \* keys region still accepts

connVars    == <<pc, login, character, warpToken, work>>
sessionVars == <<connVars, live, storeVars, worldVars>>

\* Where a goroutine waits for its client, and where for anything else.
Ready == {"recv", "send"}
Busy  == {"upsert", "create", "join", "leave"}

SessionTypeOK ==
    /\ WorldTypeOK
    /\ StoreTypeOK
    /\ pc \in [Conns -> {"new", "closed"} \cup Ready \cup Busy]
    /\ login \in [Conns -> Keys \cup {None}]
    /\ character \in [Conns -> Characters \cup {None}]
    /\ warpToken \in [Conns -> Nat]
    /\ work \in [Conns -> Keys \cup [slot : Slots, name : Names] \cup {None}]
    /\ live \in SUBSET Keys
    /\ \A s \in Conns :
          /\ pc[s] = "upsert" => work[s] \in Keys
          /\ pc[s] = "create" => work[s] \in [slot : Slots, name : Names]

SessionInit ==
    /\ WorldInit
    /\ StoreInit
    /\ pc = [s \in Conns |-> "new"]
    /\ login = [s \in Conns |-> None]
    /\ character = [s \in Conns |-> None]
    /\ warpToken = [s \in Conns |-> 0]
    /\ work = [s \in Conns |-> None]
    /\ live = Keys

authed(s)    == login[s] # None
accountID(s) == RegionSession[login[s]].account

-----------------------------------------------------------------------------
(* The ends of a step of Serve.                                            *)

Goto(s, label) == pc' = [pc EXCEPT ![s] = label]

\* Where the deferred function of Serve goes: Leave if inWorld, then Close.
Teardown(s) == IF character[s] # None THEN "leave" ELSE "closed"

\* The handler returned nil: back to the top of the loop, which checks ctx.
Resume(s) == Goto(s, IF cancelled THEN Teardown(s) ELSE "recv")

\* The handler returned an error, or Recv failed: Serve returns.
Fail(s) == Goto(s, Teardown(s))

\* The handler ends with its reply, or with an error before it.
Reply(s) == Goto(s, "send") \/ Fail(s)

\* The reply is written, or its write fails.  The socket has no deadline, so
\* this takes as long as the client does not read.
Sent(s) ==
    /\ pc[s] = "send"
    /\ Resume(s) \/ Fail(s)
    /\ UNCHANGED <<login, character, warpToken, work, live, storeVars, worldVars>>

\* Recv returned a message of this name.
Receive(s, message) == pc[s] = "recv" /\ message \in Requests

\* ... and dispatch lets it through to a handler that needs a login.
Dispatch(s, message) == Receive(s, message) /\ authed(s)

-----------------------------------------------------------------------------
(* Connection and login.                                                   *)

\* The handshake of an accepted socket succeeds or fails; until it is over
\* the connection has no session.
Connect(s) ==
    /\ pc[s] = "new"
    /\ Resume(s) \/ Fail(s)
    /\ UNCHANGED <<login, character, warpToken, work, live, storeVars, worldVars>>

\* The echoed identifiers or the version may not match.
handleVersionCheck(s) ==
    /\ Receive(s, "C2S_VersionCheck")
    /\ Reply(s)
    /\ UNCHANGED <<login, character, warpToken, work, live, storeVars, worldVars>>

\* Mutant: the key is not consumed at region.
RetireNever(key) == {}

\* The keys region forgets when it answers a validation.
Retire(key) == IF Consume THEN {key} ELSE {}

\* Validate accepts: region knows the key and the user code is the client's.
Validate(key, code) == key \in live /\ RegionSession[key].code = code

\* handleLogin up to the answer of region.  A rejection is answered and the
\* old identity stays; region may have consumed the key all the same.
handleLogin(s, key, code) ==
    /\ Receive(s, "C2S_SessionAuthLogin")
    /\ \/ /\ Validate(key, code)
          /\ RegionSession[key].world = WorldID
          /\ Goto(s, "upsert")
          /\ work' = [work EXCEPT ![s] = key]
          /\ live' = live \ Retire(key)
       \/ /\ Reply(s)
          /\ live' \in {live, live \ Retire(key)}
          /\ UNCHANGED work
    /\ UNCHANGED <<login, character, warpToken, storeVars, worldVars>>

\* Mutant: the identity is set although the account row could not be written.
UpsertIgnoringError(s) ==
    /\ pc[s] = "upsert"
    /\ \/ UpsertAccount(RegionSession[work[s]].account, RegionSession[work[s]].code)
       \/ UNCHANGED storeVars
    /\ login' = [login EXCEPT ![s] = work[s]]
    /\ work' = [work EXCEPT ![s] = None]
    /\ Reply(s)
    /\ UNCHANGED <<character, warpToken, live, worldVars>>

\* handleLogin from UpsertAccount on: only a stored account is logged in.  The
\* row may be written and the answer lost.
Upsert(s) ==
    /\ pc[s] = "upsert"
    /\ \/ /\ UpsertAccount(RegionSession[work[s]].account, RegionSession[work[s]].code)
          /\ login' \in {login, [login EXCEPT ![s] = work[s]]}
       \/ UNCHANGED <<storeVars, login>>
    /\ work' = [work EXCEPT ![s] = None]
    /\ Reply(s)
    /\ UNCHANGED <<character, warpToken, live, worldVars>>

\* Everything but the version check and the login needs a login first.
BeforeLogin(s) ==
    /\ \E message \in Requests \ {"C2S_VersionCheck", "C2S_SessionAuthLogin"} :
           Receive(s, message)
    /\ ~authed(s)
    /\ Fail(s)
    /\ UNCHANGED <<login, character, warpToken, work, live, storeVars, worldVars>>

-----------------------------------------------------------------------------
(* The lobby.                                                              *)

\* A storage error is only logged, and nothing is sent.
handleSetOptions(s, o) ==
    /\ Dispatch(s, "C2S_SetOptions")
    /\ SaveOptions(accountID(s), o) \/ UNCHANGED storeVars
    /\ Resume(s)
    /\ UNCHANGED <<login, character, warpToken, work, live, worldVars>>

\* A handler that changes nothing: it reads, answers, and may fail.
Answer(s, message) ==
    /\ Dispatch(s, message)
    /\ Reply(s)
    /\ UNCHANGED <<login, character, warpToken, work, live, storeVars, worldVars>>

handleWaitingUserCount(s)  == Answer(s, "C2S_WaitingUserCount")
handlePlayerList(s)        == Answer(s, "C2S_PlayerList")
handleLogout(s)            == Answer(s, "C2S_Logout")

\* Mutant: the cap is forgotten.
FreeSlotsUncapped(taken) == (0 .. Cardinality(taken)) \ {roster[c].slot : c \in taken}

\* Mutant: slots are numbered from one.
FreeSlotsFromOne(taken) == (1 .. MaxSlots) \ {roster[c].slot : c \in taken}

FreeSlots(taken) == (0 .. MaxSlots - 1) \ {roster[c].slot : c \in taken}

\* handleCreatePlayer up to the slot: an invalid name, a full account and a
\* storage error end the handler, the first two with a reply.
handleCreatePlayer(s, name) ==
    /\ Dispatch(s, "C2S_CreatePlayer")
    /\ \/ /\ FreeSlots(ListCharacters(accountID(s))) # {}
          /\ Goto(s, "create")
          /\ work' = [work EXCEPT ![s] =
                 [slot |-> Min(FreeSlots(ListCharacters(accountID(s)))), name |-> name]]
       \/ /\ Reply(s)
          /\ UNCHANGED work
    /\ UNCHANGED <<login, character, warpToken, live, storeVars, worldVars>>

\* The INSERT of handleCreatePlayer found the name or the slot taken; which of
\* two violated constraints Postgres reports is not specified.
RefuseName(s) ==
    /\ NameTaken(work[s].name)
    /\ Reply(s)
    /\ UNCHANGED storeVars

RefuseSlot(s) ==
    /\ SlotTaken(accountID(s), work[s].slot)
    /\ Reply(s)
    /\ UNCHANGED storeVars

\* handleCreatePlayer from CreateCharacter on.
CreateInsert(s) ==
    /\ pc[s] = "create"
    /\ \/ CreateCharacter(accountID(s), work[s].slot, work[s].name) /\ Reply(s)
       \/ RefuseName(s)
       \/ RefuseSlot(s)
       \/ Fail(s) /\ UNCHANGED storeVars
    /\ work' = [work EXCEPT ![s] = None]
    /\ UNCHANGED <<login, character, warpToken, live, worldVars>>

-----------------------------------------------------------------------------
(* Entering the world.                                                     *)

\* Mutant: the zero that rand.Read may yield is kept.
ZeroTokenKept(raw) == raw

newWarpToken(raw) == IF raw = 0 THEN 1 ELSE raw

InSlot(s, slot) == {c \in ListCharacters(accountID(s)) : roster[c].slot = slot}

\* handleEnterWorld up to the call of Join.  An empty slot is answered; a
\* storage or random source error ends the connection.
handleEnterWorld(s, slot) ==
    /\ Dispatch(s, "C2S_EnterWorld")
    /\ \/ \E chosen \in InSlot(s, slot), raw \in RawTokens :
             /\ character' = [character EXCEPT ![s] = chosen]
             /\ warpToken' = [warpToken EXCEPT ![s] = newWarpToken(raw)]
             /\ Goto(s, "join")
       \/ /\ (InSlot(s, slot) = {} /\ Reply(s)) \/ Fail(s)
          /\ UNCHANGED <<character, warpToken>>
    /\ UNCHANGED <<login, work, live, storeVars, worldVars>>

\* Mutant: inWorld is set only after the replies, so a failed one skips Leave.
JoinWorldLate(s) ==
    /\ pc[s] = "join"
    /\ Join(character[s], [entrant |-> [conn |-> s, account |-> accountID(s)],
                           pose |-> SpawnPose])
    /\ Goto(s, "send") \/ Goto(s, "closed")
    /\ UNCHANGED <<login, character, warpToken, work, live, storeVars>>

\* handleEnterWorld from World.Join on: Join may block, then two replies.
JoinWorld(s) ==
    /\ pc[s] = "join"
    /\ Join(character[s], [entrant |-> [conn |-> s, account |-> accountID(s)],
                           pose |-> SpawnPose])
    /\ Reply(s)
    /\ UNCHANGED <<login, character, warpToken, work, live, storeVars>>

\* Only the token is checked; the requested map is not, and the token stays.
handleMapEnter(s, token) ==
    /\ Dispatch(s, "C2S_MapEnter")
    /\ IF character[s] # None /\ token = warpToken[s] THEN Reply(s) ELSE Fail(s)
    /\ UNCHANGED <<login, character, warpToken, work, live, storeVars, worldVars>>

handleMapEnterPreComplete(s) == Answer(s, "C2S_MapEnterPreComplete")
handlePlayerLoadFirstCall(s) == Answer(s, "C2S_PlayerLoadFirstCall")

handleMapEnterComplete(s) ==
    /\ Dispatch(s, "C2S_MapEnterComplete")
    /\ IF character[s] # None THEN Reply(s) ELSE Fail(s)
    /\ UNCHANGED <<login, character, warpToken, work, live, storeVars, worldVars>>

-----------------------------------------------------------------------------
(* The rest of Serve.                                                      *)

\* An unknown opcode, or a known message without a handler after the login.
Ignore(s) ==
    /\ pc[s] = "recv"
    /\ Resume(s)
    /\ UNCHANGED <<login, character, warpToken, work, live, storeVars, worldVars>>

\* Recv fails: the peer closed, or the frame is malformed.
Disconnect(s) ==
    /\ pc[s] = "recv"
    /\ Fail(s)
    /\ UNCHANGED <<login, character, warpToken, work, live, storeVars, worldVars>>

\* The deferred Leave, which may block, and the Close.
LeaveWorld(s) ==
    /\ pc[s] = "leave"
    /\ Leave(character[s])
    /\ Goto(s, "closed")
    /\ UNCHANGED <<login, character, warpToken, work, live, storeVars>>

\* What a message, or the end of the input, makes the goroutine of s do.
Serve(s) ==
    \/ Connect(s)
    \/ handleVersionCheck(s)
    \/ \E key \in Keys, code \in Codes : handleLogin(s, key, code)
    \/ BeforeLogin(s)
    \/ \E o \in Options : handleSetOptions(s, o)
    \/ handleWaitingUserCount(s)
    \/ handlePlayerList(s)
    \/ \E name \in Names : handleCreatePlayer(s, name)
    \/ handleLogout(s)
    \/ \E slot \in Slots : handleEnterWorld(s, slot)
    \/ \E token \in {0} \cup RawTokens \cup {warpToken[s]} : handleMapEnter(s, token)
    \/ handleMapEnterPreComplete(s)
    \/ handleMapEnterComplete(s)
    \/ handlePlayerLoadFirstCall(s)
    \/ Ignore(s)
    \/ Disconnect(s)

\* What it does next without waiting for the client.
Continue(s) == Upsert(s) \/ CreateInsert(s) \/ JoinWorld(s) \/ LeaveWorld(s)

Loop == (Take \/ Stop \/ Cancel) /\ UNCHANGED <<connVars, live, storeVars>>

SessionNext ==
    \/ \E s \in Conns : Serve(s) \/ Continue(s) \/ Sent(s)
    \/ Loop

SessionSpec == SessionInit /\ [][SessionNext]_sessionVars

-----------------------------------------------------------------------------
(* Safety.                                                                 *)

\* A connection that is logged in has its account row, so that a character it
\* creates never violates the foreign key (store.go:66-68, "before any
\* character operation (characters reference the account)").
AccountBeforeCharacters == \A s \in Conns : authed(s) => HasAccount(accountID(s))

\* In a table of characters, slots are below the cap, used in order without a
\* gap and never twice by one account, and names are unique.
Sound(table) ==
    LET rows == {c \in Characters : table[c] # None}
    IN  /\ \A c \in rows :
              /\ table[c].slot < MaxSlots
              /\ \A lower \in 0 .. table[c].slot - 1 : \E d \in rows :
                    table[d].account = table[c].account /\ table[d].slot = lower
        /\ \A c, d \in rows : c # d =>
              /\ table[c].name # table[d].name
              /\ table[c].account = table[d].account => table[c].slot # table[d].slot

\* What an earlier run of the server left behind.
ASSUME StoredRosterSound == Sound(StoredRoster)

\* However creations race, an account never has more characters than slots,
\* never two in one slot, and its slots are used in order without a gap; names
\* are unique (lobby.go freeSlot, migrations 0001 and 0003).
RosterSound == Sound(roster)

Lobby == INSTANCE Roster
    WITH rows <- roster, registered <- {a \in Accounts : HasAccount(a)}

\* A creation that takes two calls, with other connections in between, acts as
\* one: the character that the insert adds is in the lowest slot that is free
\* then, though it was chosen from an older list (handleCreatePlayer,
\* freeSlot, CreateCharacter).
RosterSpec == Lobby!Spec

\* A connection that is logged in, or about to be, with this key.
Holds(s, key) == login[s] = key \/ (pc[s] = "upsert" /\ work[s] = key)

\* With single-use validation a key logs in one connection at most, however
\* many present it and whatever fails later (auth.Client, "consume").
OneConnectionPerKey ==
    Consume => \A s \in Conns, key \in Keys : Holds(s, key) =>
                  /\ key \notin live
                  /\ \A t \in Conns : Holds(t, key) => t = s

\* The world holds a character only for the account that owns it, whoever
\* logged in again on whichever connection (handleEnterWorld, ListCharacters).
PlayersOwned ==
    \A c \in Characters : PromisedTable[c] # None =>
        c \in Rows /\ roster[c].account = PromisedTable[c].entrant.account

\* When a connection is closed, the character it entered with last is no
\* longer its player, even if its replies failed or the channel was full
\* (Serve, the deferred Leave).  A cancelled ctx drops calls.
ClosedHasLeft ==
    ~cancelled => \A s \in Conns : pc[s] = "closed" /\ character[s] # None =>
        \/ PromisedTable[character[s]] = None
        \/ PromisedTable[character[s]].entrant.conn # s

\* A connection that has entered with a character has a token that is not 0,
\* the value that a missing one decodes to and handleMapEnter compares with
\* (newWarpToken, "returns a non-zero random token").
NoTokenNoEntry == \A s \in Conns : character[s] # None => warpToken[s] # 0

-----------------------------------------------------------------------------
(* What the comments promise and the code does not keep.                   *)

\* world.go:19, "Player is an entity present in the world, bound to a live
\* connection": no player of a closed connection stays in the world.
NoGhost ==
    running /\ ~cancelled => \A c \in Characters :
        PromisedTable[c] # None => pc[PromisedTable[c].entrant.conn] # "closed"

\* enter.go:163, "the client is now in-world": whenever C2S_MapEnterComplete
\* would be answered with success, the character is in the world.
InWorldWhenComplete ==
    running /\ ~cancelled => \A s \in Conns :
        pc[s] = "recv" /\ character[s] # None => PromisedTable[character[s]] # None

\* lobby.go:31, "ERR_DB_NOT_ENOUGH_CHAR_SLOT": a creation is answered with it
\* only when the account has no free slot.
NoFreeSlotMeansFull ==
    [][\A s \in Conns :
          /\ pc[s] = "create" /\ pc'[s] = "send"
          /\ RefuseSlot(s) /\ ~NameTaken(work[s].name)
          => FreeSlots(ListCharacters(accountID(s))) = {}]_sessionVars

-----------------------------------------------------------------------------
(* Liveness.                                                               *)

\* A goroutine in a handler keeps running: Postgres answers or fails.  The
\* runtime queues blocked senders, so a sender is served when the channel has
\* room again and again.  The world's select takes what is ready.  Nothing makes
\* a client send (Serve) or read (Sent).
Fairness ==
    /\ \A s \in Conns :
          /\ WF_sessionVars(Upsert(s) \/ CreateInsert(s))
          /\ SF_sessionVars(JoinWorld(s) \/ LeaveWorld(s))
    /\ WF_sessionVars(Take /\ UNCHANGED <<connVars, live, storeVars>>)
    /\ WF_sessionVars(Stop /\ UNCHANGED <<connVars, live, storeVars>>)

FairSessionSpec == SessionSpec /\ Fairness

\* No handler is stuck but on its own client: a goroutine that waits for the
\* store or the world gets to its reply or closes, with the channel full, the
\* loop gone, and the shutdown under way (World.do, "dropping it if ctx is
\* cancelled").
HandlersReturn ==
    \A s \in Conns : pc[s] \in Busy ~> pc[s] \in Ready \cup {"closed"}
=============================================================================

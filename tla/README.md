# A verification project for the game server

TLA+ modules, TLC runs and TLAPS proofs for the Go server in this repository
(`src/`).  The server accepts game clients over TCP, authenticates them against
an external "region" service, keeps accounts and characters in Postgres, and
owns one in-memory world whose players it changes from a single goroutine.

The server is small, but it is concurrent in every direction: a goroutine per
connection, one world goroutine behind a bounded channel, a shared database
whose unique constraints are the only lock, an external service that may
consume a key and lose the answer, and a signal that may arrive at any moment.
Those are what the modules are about.

## 1. Inventory

| Component | Source | State | Operations | Module |
|---|---|---|---|---|
| World | `internal/world/world.go` | `players`, the channel `cmds` (256) | `Join`, `Leave`, `Move` (any goroutine), `Run` (one) | `World`, abstract `Presence` |
| Session and handlers | `internal/game/*.go` | per connection: account, character, warp token | `Serve`, `dispatch`, 11 handlers; the values of their replies | `Session`, `Replies` |
| Region client | `internal/auth/client.go` | none here; region knows which keys are live | `Validate`, plain or single use | inside `Session` |
| Persistence | `internal/persist/**`, `migrations/` | `accounts`, `characters` | `UpsertAccount`, `SaveOptions`, `ListCharacters`, `CreateCharacter` | `CharacterStore`, abstract `Roster` |
| Server process | `cmd/server/main.go` | pool, listener, WaitGroup, context | start-up, accept loop, drain, a panic | `Server`, `Process` |
| Transport | `internal/transport/session.go` | one keystream per direction, the byte stream | `Handshake`, `Send`, `Recv`, `crypt`, frames | `Transport`, abstract `Pipe` |
| Rabbit cipher | `internal/transport/rabbit.go` | counters, carry, buffer | `next`, `Keystream` | `Rabbit`, `Ciphers`; buffering in `Transport` |
| Codec | `internal/protocol/{codec,primitives,zero,catalog}.go` | none (pure) | `Encode`, `Decode`, `ZeroValues` | `Layouts`, `Codec`, `Exchange`, `Arrivals` |
| Catalog | `internal/protocol/catalog_gen.go` | generated tables | none | `Catalog`, values in `Replies` |
| Generator | `cmd/gen/main.go` | none (offline) | base-class chains, reachable structs, what is emitted | `CatalogGen` |
| Configuration | `internal/config/config.go` | the process environment | `Load`, with `.env` | `Config` |

How they interact:

- `main` starts `World.Run`, listens, and starts one goroutine per accepted
  socket (`serveConn`: handshake, then `Handler.Serve`).  It counts them in a
  WaitGroup and closes the pool when they are gone.
- `Serve` owns its `Conn` and its `session` record: no lock, no second writer.
  It calls the region service and the store synchronously, and the world by
  putting a closure on the channel, which blocks when the channel is full.
- Connections meet in three places only: the tables (unique constraints), the
  region's keys, and the world's table (keyed by *character*, not connection).
- A signal cancels one context, which the listener's closer, `World.Run`,
  `World.do`, database calls and the top of `Serve`'s loop look at.  `Recv`
  does not.

What is hard, and what makes each component correct:

| Component | Hard behaviour | Correct when |
|---|---|---|
| World | calls are queued; `Run` may stop with calls in the queue; the channel fills | the queue is invisible: each call acts when it is made, in order, on the table all earlier calls left |
| Session | failures between any two calls; messages in any order, repeated; re-login; two connections of one account | whoever is in the world owns the character; a closed connection is not there; identity only with an account row |
| Region keys | the answer lost after the key was consumed; two connections with one key | one key, one connection |
| Store | check-then-insert across connections | slots dense and unique, names unique, never more than `maxCharacterSlots` |
| Server | the signal against start-up, accept and handlers | the pool outlives every handler; the process ends |
| Transport | two keystreams that must advance in step; errors in the middle of a frame; 16-bit lengths, unchecked | what a peer decodes is what was sent, in order, up to the first error or the first body that does not fit |
| Rabbit | carries found by comparing wrapped sums, kept from one block to the next | the eight counter words count as one number |
| Codec | dynamic values against typed layouts; bodies cut anywhere; zeroes inside a `Char[]` | what is accepted reads as it was meant; what is read of a short body is right; bytes are shared out exactly |
| Catalog, replies | entries built field by field; one row told in two layouts | every reply is complete and of the right types; both layouts tell the same character |
| Generator | types that nest themselves or each other; base classes by two routes | the walk ends; what it emits is the least set with all that the codec looks up; base fields first everywhere |
| Configuration | set, empty and absent differ between `env` and godotenv; integer quotients | what the process is started with decides; it runs as asked or not at all |

The hazards behind this table are listed line by line in `PROJECT.json`.

## 2. Plan

Modules in the order of the system's risk; each is written so that it can be
proved about (constants with named assumptions, one action per operation,
invariants as conjunctions of named parts, no recursive operator).

1. `World` with its abstract table `Presence` — done, proved.
2. `CharacterStore`, `Session` (extends both `World` and `CharacterStore`: a
   composition by shared variables), with the abstract list `Roster` — done, proved.
3. `Server` — done, proved.
4. `Transport` with its abstract `Pipe` — done, proved.
5. `Layouts`, `Codec`, `Exchange` (a message from `Send` to `Recv`) — done, proved;
   `Catalog`, `Replies` and `Arrivals` (the real tables and replies over them) —
   done, model-checked: they are about concrete data.
6. `Config`, and `Process`, which puts it in front of `Server` — done, proved.
7. `CatalogGen` — done, proved but for termination.
8. `Rabbit`, and `Ciphers`, which ties it to `Transport` — done, proved.
9. Left: `Session` on top of `Transport` through a shared "connection failed"
   interface; liveness of `Transport`.

## 3. The modules and the code

**Entities** holds the constants several modules share.

**World** (`world.go`).  `players` maps a character to its player or `None`.
`cmds` is the channel: a closure is modelled by the record of the call that
made it, and `Apply` runs it.  `do(cmd)` is `World.do`'s select: it is disabled
while the channel is full and the context live, which is what blocking means,
and either branch may be taken when both are ready.  `Take` and `Stop` are the
cases of `Run`'s select; the tick calls the empty `step` and stutters.
**Presence** is the abstract table: one atomic call on one character at a time,
nothing after the end.

**CharacterStore** (`persist`, `migrations`).  One store call is one SQL
statement and one step; the constraints of the migrations are guards.  Errors
of a statement (connection lost, context cancelled) are a disjunct of the
caller.  Nothing in the code sets `deleted_time`, so there are no deleted rows.
**Roster** is what the lobby promises: `handleCreatePlayer` lists, chooses a slot,
and inserts in a second call, but `Create` is one atomic step that takes the
lowest slot free at that moment.

**Session** (`internal/game`) extends both.  `pc[s]` says where a connection's
goroutine is: `recv` (blocked in `Recv`), `upsert`, `create`, `join` and `leave`
(before the second call of a handler that makes two, where others can
interleave), `send` (blocked in the write of its reply), `closed`.  `login[s]` is the region session a connection
authenticated with, from which `accountID` and `accountCode` are read;
`character[s]` stands for `s.character` and `inWorld`, which the code sets
together with it; `work[s]` holds the local variables of a handler between its
calls.  Every handler `dispatch` can reach is an action with its failures:
`Reply(s)` begins the send that ends a handler, or fails; `Sent(s)` is its return,
which waits until the client reads, and may never come, since `raw.Write` has no
deadline.  `Fail(s)` is an error that ends the connection, `Resume(s)` the top of
the loop, where the context is checked.  `Upsert` may commit the row and lose the
answer.  The region service is external: `live` is the set of keys it accepts,
`Retire` what a validation consumes, also when its answer is lost.

**Server** (`cmd/server/main.go`).  `main` walks through `run()`; each
connection goes from the backlog to its goroutine, whose body is reduced to the
places where it can wait or end; `Become` runs the deferred `wg.Done`.  When
`main` returns the process ends, and no other action is enabled; `Crash` is the
panic of a goroutine, which ends it in any state.  **Config** (`config.go`) is
`Load`: `.env` fills in what the process was not started with, and a variable
that is set to nothing is there for godotenv and absent for `env`.  Values are
words, what a word means is given by tables (`Atoi`, `ParseBool`, `Levels`).
**Process** composes both: `Configure` comes before everything in `run()`,
`BeginRun` is the `NewTicker` of the world's goroutine, which panics on an
interval that is not positive, while `main` goes on.

**Transport** (`session.go`, `rabbit.go`).  A direction of the socket is the
sequence of its frames in flight, the last of which may be cut short.  A frame
carries its 16-bit length as written and the keystream offset of its body; a
reader that is at another offset, or misled by the length, reads `Garbage`.  A
cipher is counted in blocks made and bytes to spare, as `Keystream` handles its
buffer.  The server sends bodies of any size, as `writeFrame` does; a length that
does not fit wraps, and from then on the client reads garbage.  The client's end
is external, counts blocks on its own and sends frames whose lengths hold.
**Pipe** is what a direction promises; what the server sends is compared with it
in front of the first body that does not fit (`Clear`).  **Rabbit** has the counters of the cipher as `next`
advances them, over words of `Word` values; **Ciphers** follows them through
the blocks that the sending cipher of `Transport` has made.

**Layouts** (`internal/protocol`) has the tables of the catalogue as constants,
the types and Go values, and `ZeroValues`.  A type name is the record it parses
to; a Go value carries its dynamic type, because `toInt64`, `toUint64` and
`toFloat64` accept different ones.  `Nesting` says how deep a type nests others:
the code would not return from a type that contains itself.  **Codec** is `Encode`
and `Decode` byte for byte, over a byte of `Base` values: a text is a sequence of
code points, each of one or two UTF-16 units; a reader is the bytes it has left.
`encodeValue` and `decodeValue` are functions on the types, defined by recursion:
`encodeType` and `decodeType` are the type switches, given what the function does
for the types inside.  Decoding fails exactly where the code returns an error,
and keeps what was read before.  **Exchange** sends one message: `Encode`, a body
that may be cut anywhere, `Decode`; a body may also come from a foreign peer.  It
says without bytes what a receiver must see: `Kept`, what is left of a value,
`Carried`, that the bytes can carry it, `Fits`, that its type can hold it as it is,
`Size`, how many bytes it takes, and `Unsized`, the messages without a zero.
**Catalog** holds the layouts of every nested type, of all messages with a
fixed array and of those that the handlers read or send, transcribed from the
generated file.  **Replies** has the values of every message of the handlers, built
the way the handlers build them: from `ZeroValues`, or field by field.
**Arrivals** says what must arrive of them over `Exchange`, and what `handleLogin`
answers to a login that was cut (`LoginEcho`).

**CatalogGen** (`cmd/gen`) loads the metadata, resolves base classes and walks
the types depth first; the recursion of `collectReachable` is the stack.  `Base`
takes off one `[]` and one `List<>` in that order, as the code does; what a layout
nests in the properties (`Nested`) is what the codec arrives at instead, which
takes off every wrapping.

`MC*.tla` give the constants values a `.cfg` cannot write: **MCWorld**,
**MCSession** (shared definitions), **MCLobby**, **MCEntry**, **MCProgress**,
**MCServer**, **MCProcess**, **MCTransport**, **MCTables** and **MCProtocol**,
**MCCatalogGen**.
**SessionProofs** (with the world's), **ProcessProofs**, **TransportProofs**,
**CodecProofs**, **ExchangeProofs** and **CatalogGenProofs** hold the theorems;
**Recursion** and **Ranked** have the lemmas on induction and recursion that the
last four share.
Definitions whose comment begins with "Mutant:" are faulty variants of the
definition next to them; no specification uses them, they show that each property
can fail.

## 4. The runs

| Run | Shows |
|---|---|
| `world` | The channel is invisible (`ActsWhenCalled`), the world implements `Presence` (`PresenceSpec`), a queued `Join` is executed unless the loop ends (`JoinTakesEffect`). |
| `lobby` | Two connections race from login through character creation into the world and out of it: `AccountBeforeCharacters`, `RosterSound`, `OneConnectionPerKey`, `PlayersOwned`, `ClosedHasLeft`; a creation acts atomically (`RosterSpec`). |
| `progress` | Every handler, on two connections whose clients may stop sending or reading: each comes as far as its reply or the end of the connection (`HandlersReturn`), and a random source that yields zero opens no way in (`NoTokenNoEntry`). |
| `server` | The whole process with every kind of environment and `.env`: `WaitGroupExact`, `StoreOutlivesHandlers`, `EnvWins`, `RunsAsAsked`, `PanicsOnlyBeyondSecond`, `ShutdownCompletes`. |
| `transport` | Both directions are pipes, the server's up to a body that does not fit its frame (`PipeSpec`), keystream is used once (`KeystreamUsedOnce`), nothing follows a cut frame (`CutIsLast`), the counters lose no carry over all blocks (`CountersInStep`). |
| `protocol` | Every reply of the handlers is accepted and read as it was meant (`ReplyArrives`), both layouts of a character agree (`SameCharacter`), `ZeroValues` is complete for every type of the catalogue (`ZeroIsComplete`), and for all kinds of fields: `RoundTrip`, `CutKeepsFields`, `TailExact`, and that what fits the layout is accepted and arrives as it is (`FittingArrives`). |
| `catalog_gen` | The walk ends (`GenEnds`), emits what the codec looks up, if types are wrapped as the client's (`GenClosed`), and nothing else (`GenLeast`), base class first (`BaseFirst`), and a nested message as on its own (`NestedMessageSame`). |
| `ghost_player` | violated: `NoGhost` |
| `stale_leave` | violated: `InWorldWhenComplete` |
| `create_race` | violated: `NoFreeSlotMeansFull` |
| `login_echo` | violated: `LoginEchoFits` |
| `serve_blocked` | violated: `ServeEndsOnCancel` |

The violated properties state what a comment of the code says, and the code
does not do:

- `NoGhost`: a second `C2S_EnterWorld` overwrites `s.character` (`enter.go:50`),
  so the deferred `Leave` removes only the last character, and the first stays
  in the world, bound to a closed connection (`world.go:19`).
- `InWorldWhenComplete`: `Leave` deletes by character (`world.go:93`).  When a
  second connection of the account enters with the same character and the first
  closes, the player of the second is gone (`enter.go:163`).
- `NoFreeSlotMeansFull`: the loser of a race for a slot is answered "not enough
  slots" (`lobby.go:128` against `lobby.go:31`) though another slot is free.
- `LoginEchoFits`: `Decode` keeps what it could read of a login that was cut
  short, and `handleLogin` does not ask whether it was.  A body of 12+2n bytes,
  with an account code of n units and nothing behind it, is answered with 26+2n.
  At n = 32760 it came in one frame, and the 65546 bytes of the answer go out
  with a length of 12 (`session.go:139` against `session.go:120`, "The u16
  length is plaintext and includes its own 2 bytes").
- `ServeEndsOnCancel`: `Serve` looks at the context only between messages; with
  a silent client it stays in `Recv`, and `main` waits for it in the drain
  (`handler.go:70` against `handler.go:51`).  A process that has crashed does not
  count.

### Bounds

Every bound is a constant or named definition.

- Connections are used once (`Conns`); a client that reconnects is another
  element.  Two connections are the fewest that race, and every race found in
  the code is between two: for a slot, a name, a key, or a character.  `server`
  takes three, so that one can be accepted while one is served and one ends.
- `Capacity` (256 in the code) is 1 to 3, so that the channel does fill up and
  calls do block; the proofs hold for every capacity.
- `MaxSlots` (3 in the code) is 2: with two connections, one slot each and the
  full account are all reached.
- `Requests` restricts the messages of a run to those its properties depend on:
  `lobby` leaves out what changes neither the tables nor the world nor the
  identity; `progress` sends every message.  `lobby` treats connections,
  characters and names as symmetric: its properties are about states and single
  steps (`RosterSpec` too has no liveness), and no definition tells two of them apart.
- `RawTokens` has the zero and one other value; a client echoes zero, any of
  these, or the right token.
- `Transport` scales a block to 3 bytes, an opcode to as many, and the length
  field to 8 values, so that the bodies are of no byte (and refused by `Decode`),
  of a block, of the largest size that a frame can hold, and of one that wraps;
  each direction sends `MaxSends` = 3 messages.  `PipeSpec` compares message
  values, so three messages of different sizes expose a keystream that drifts by
  one byte.
- `LengthLimit` is 100 in `protocol` and `login_echo` (2^16 in the code): some
  logins fit it and their answers do not.
- `Word` is 8 (2^32 in the code) and the increments are the first three bits of
  the real ones, so a word carries nearly every second block; the counters
  start where the next block carries, where a later one does, and where every
  word does.
- `Base` is 4 (256 in the code): numbers of two, four and eight bytes still
  have bytes above the first, signs, and values too wide for them; the least and
  the greatest number of a width are sent.  One UTF-16
  unit in each half of the surrogates stands for all.  `FloatStep` is the
  distance of the numbers that a `Single` keeps.
- `MaxCut` = 26: bodies up to that length are cut at every place, longer ones
  arrive whole.  It lets through every message that has one field of each kind.
- The catalogue of `protocol` is the real one for what the handlers use, for
  arrays and for every nested type (one message of zeroes each), and a small
  one with a message for each kind of field.  `LongestArray` is 32: the one array
  that is longer (of 249) is cut to it.  `LargestCount` is 63: a body that says it
  has more values fails like one that says so many and ends.
- `MCMetadata` has classes that nest themselves, each other and a message,
  empty, untyped and static fields, and five shapes of inheritance.  Its base
  maps have no cycle: `chain` would not end on one.
- `MCEnvironments` and `MCFiles` have a word on either side of each check of
  `Load`: empty, zero, not a number, the last port and the one behind it, a rate
  above a billion.

Deadlock checking is off where the system does stop: all connections used and
closed, or the process ended.

### Fairness

- `FairWorldSpec` assumes weak fairness of `Take`: Go's `select` picks among
  ready cases at random, so a ready command is not passed over for ever.
- `Fairness` of `Session`: a goroutine between two calls goes on (region and
  Postgres answer or fail: the HTTP client has a timeout, the calls carry the
  context).  `JoinWorld` and `LeaveWorld` get strong fairness because Go queues
  blocked senders of a channel first come first served: a sender is not starved
  by others who refill the channel.  `Take` and `Stop` are weakly fair as above.
  Clients get none: nothing makes one send (`Serve`) or read (`Sent`), not even
  a cancellation.
- `ServerFairness` makes the process's own goroutines run, where a peer reads what
  it is sent or its socket breaks: `raw.Write` has no deadline, and a client that
  did not read would hold up the drain like a silent one.  `ShutdownCompletes`
  needs `ClientFairness` besides, a client that sends or closes, and
  `serve_blocked` shows that it does.  `FairProcessSpec` adds that `Load` and
  the first line of `World.Run` are executed.
- `GenSpec` has weak fairness of its next-state relation: the generator is one
  goroutine that waits for nobody.

## 5. The proofs

All for every value of the constants, under the named assumptions.

- `SessionProofs!WorldTypeCorrect`: `WorldTypeOK`, inductive as it stands; the
  bound of the channel comes from the guard of `do`.
- `SessionProofs!CallsActWhenMade`, `WorldImplementsPresence`: the argument is
  about `PromisedTable`, the table the loop will have once it has executed the
  queue, defined without recursion: the last `Join` or `Leave` of a character
  decides whether it is there, a later `Move` its pose. Two lemmas say that
  appending a command to the queue applies it to the promised table, and that
  executing the first command leaves that table as it is; each goes by cases on
  where the maximal position of the queue that touches a character lies. Both
  theorems follow action by action.
- `ProcessProofs!TypeCorrect`, `WaitGroupCorrect`, `StoreOutlives`: `wg =
  Cardinality(Active)` is inductive with the type invariant; each step adds or
  removes one active connection or none.  `StoreOutlives` needs more: where
  `main` is decides what is open, and `main` is past the drain only when the
  counter, hence the set of active connections, was empty.
- `SessionProofs!SessionTypeCorrect`: the inductive invariant is `IInv`, the type
  invariant with `Entitled`: a goroutine that is about to create or join is logged
  in, one that is about to join or leave has a character.  Without it the calls of
  a handler's second half would not be about anything.  Steps are grouped into
  `Quiet` ones, which only move the program counter, and `Effect`s.
- `SessionProofs!SessionsRespectWorld`: `SessionSpec => WorldSpec`, so the
  theorems on the world alone hold for the world the server's sessions use.
- `SessionProofs!KeysSingleUse`, `AccountsFirst`, `TokensNonZero`: each inductive
  with `IInv`; the lemmas say who may come to hold a key, or an identity.
- `SessionProofs!RostersSound`: needs `SlotsChosen`, that a creation in progress
  chose a slot below the cap behind taken ones.  The list it was chosen from may
  be stale, but only by rows that were added (`StoreGrows`), so that part of the
  choice stays true; that the slot itself is still free is left to the insert's
  constraint.
- `SessionProofs!CreationIsAtomic`: `SessionSpec => RosterSpec`, with the table as
  it is and the accounts that have a row as the registered ones.  The step that has
  to be explained is the insert: the slot was the lowest free one of a list that may
  be stale.  Rows are only added, so all slots below it are still taken
  (`SlotsChosen`), and the constraint has found the slot itself free: it is the
  lowest one free now.  The refusals stutter.
- `SessionProofs!PlayersAreOwned`: needs `Owned`, which says the same of every
  player in the table, of every `Join` in the queue and of every connection about
  to join; a character once stored keeps its account, and a `Move` its entrant.
- `SessionProofs!ClosedConnectionsLeave`: by the promised table.  The `Leave` that
  closes a connection acts when it is queued (`CallPromises`), executing the queue
  changes no promise, and only another connection can put the character back.

- `ProcessProofs!ProcessServes`: `ProcessSpec => Spec`, so what is proved
  of the server alone holds with the configuration in front; `ProcessStoreOutlives` is its
  consequence.  `EnvironmentWins`, `PanicsExplained`, `ServerRunsAsAsked` rest on
  `Informed`: where the settings come from in each phase, and that `main` waits
  for them.
- `TransportProofs`: the invariant is a chain.  The frames in flight carry the
  messages behind the ones received, each starts in the keystream where the one
  before it ended, the first where the reader is, and the last ends where the
  writer is unless it was cut.  That is more than `KeystreamUsedOnce`: without
  both ends one could not say what the reader makes of the next frame.
  `TransportInvariant` keeps it, and one lemma for each operation shows at the
  same time that the step is one of each `Pipe` or a stutter, where the server's stutters
  behind a body that does not fit (`ClearGrows`, `PipeTakes`, `PipeGives`); so
  `TransportTypes`, `KeystreamIsUsedOnce`, `NothingBehindCut` and `TransportIsPipe`
  follow, the last a refinement.
- `TransportProofs!BlockAdds`: for every size of a word and all increments below the
  largest word, a block adds the increments and the last carry to the counters as
  one number of eight words.  The comparison finds the carry of one word
  (`CarryFound`); the words then go in front of each other (`WordInFront`).  The
  bound on the increments is needed: the largest word with a carry comes out equal.
- `TransportProofs!CountersNeverSlip`: the carry out of a block is the one that the
  next block adds, so counters and carry together turn by the increments around
  the largest number (`BlockTurns`); `BlocksTurn` repeats that for every number of
  blocks, and `TransportTypes` says that the blocks made are a number.
- `CatalogGenProofs`: what is found or still on the stack holds whatever the
  walk has seen in the layouts found so far (`GenNoneLost`), and lies in every set
  that holds what the codec looks up (`GenNoneMore`).  When the stack is empty the
  second is `CatalogLeast`.  The first is `CatalogClosed` where the walk sees as
  much as the codec does, which needs `WrappedAsClient`: the generator takes off
  at most a `[]` and then a `List<>`, the codec all there are.
- `CatalogGenProofs!BaseComesFirst`: `chain` steps from a class to its base
  (`ChainStep`), so the fields of a class are those of its base and then its own
  (`FieldsOfStep`, `LayoutStep`), at any depth; the rest is that what is resolved
  is what `messageFields` and `buildStructs` made of the metadata (`GenResolved`).
  `NestedAsMessage` follows from the same invariant.
- `ExchangeProofs!MessagesArrive`, `CutsKeepFields`: the invariant is
  `ExchangeInv`, that a body on its way is what `Encode` made of the values, or
  a proper start of it, and that what was read is `Decode` of that body
  (`ExchangeHolds`). The rest is about the two functions, and in `CodecProofs`.
  `Taken` says that a decoder takes exactly the bytes of a value, whatever is
  behind them, and fails on every proper start of them. `Faithful` says that of
  the bytes `encodeValue` makes of any value of a type, and `AllFaithful` has it
  for every type, by induction on how deep the type nests others, with one lemma
  for each kind. Numbers come down to the sum of the bytes being the number
  modulo the width, for every even `Base`; texts to the runes of the units being
  the runes that were sent, which fails for lone surrogates and is why `Carried`
  is the premise; arrays, lists and nested types to an induction over their
  pieces (`ItemsTaken`, `FieldsTaken`), where the field that a cut falls into
  fails, and all before it are read as if there were no cut. Being needed in
  full, the second half of `Taken`, is what makes the induction go through: a
  field that could be read from a start of its bytes would shift all that
  follow.
- `ExchangeProofs!TailsExact`: of any bytes at all, not of those that `Encode` has
  made, so nothing of the above helps.  `Exact` says that what a decoder takes are as
  many bytes as `Size` says of the value it returns; `AllExact` has it for every type
  by the same induction, with the sums of what is inside.  `Size` is defined by
  recursion over the values inside a value, and `Inside` collects those to the
  depth of the type; that this is deep enough (`Steady`) is part of the induction.
  That a body is of bytes also where `Encode` has made it is `EncodeWrites`.
- `ExchangeProofs!FittingsArrive`: what fits is written, carried, and kept as it is
  (`Sent`), again for every type (`AllSent`); numbers because a number of the range
  does not wrap (`InRangeStays`), nested types because the names lead back to the
  same fields (`ByNameBack`).  So `Encode` refuses nothing that fits (`SendInv`),
  and `RoundTrip` does the rest.
- `ExchangeProofs!ZeroesAreComplete`: a type has no zero exactly if it needs an
  unknown size or layout (`AllNoneIf`), and a zero fits its type (`AllZeroesFit`);
  so it is a case of `FittingArrives`.
- `Recursion`: the provers cannot instantiate the library's induction theorems,
  but they can state an induction over a set.  `NatSet` says that a set of naturals
  with 0 and every successor has them all, and is proved from the well-foundedness
  of `<`; `NatRecursion` gets from it that a function defined by recursion over the
  naturals exists, `FlattenSteps` what a flattened sequence of sequences is, and
  `TreeRecursion` that a function defined by recursion up a base map exists when
  the map is `Rooted`.  `Ranked` has the same once for all: its parameters are a
  domain, a rank and a definition, as constant operators, and it is instantiated
  for each recursive function of the codec.  When a definition depends on what has
  a smaller rank only, `RankedRecursion` says that there is such a function, and
  `RankInduction` that what is inherited from smaller ranks holds everywhere.

Assumptions used, each evaluated by the runs for their instances:
`WorldAssumption` (`Capacity` positive, `None` not a player), `StoreAssumption`
and `SessionAssumption` (the sorts of the constants, and that every slot up to
the cap is one), `StoredRosterSound` (an earlier run of the server left a sound
roster), `ConnsAssumption` (finitely many connections), `TransportAssumption`
(the sizes, and that the handshake fits its frame; no other body has to), `RabbitAssumption` (the
increments are below the largest word), `ConfigAssumption`,
`CiphersAssumption` (the keys leave eight words and a carry of 0 or 1),
`MetadataAssumption` and `NamesAssumption` (the sorts of the inputs), and
`BasesAssumption` (no class is its own ancestor: on a cycle `chain` in the code
does not return, so there is nothing to say).  Of the codec: `TypesAssumption`
(the types nest each other to a finite depth), `CatalogAssumption` (the sorts of
the tables; opcodes are unique, and so are the names of the fields of a type),
`CodecAssumption` (a byte has an even number of values, surrogates are of two
disjoint kinds and not zero, opcodes fit four bytes), `ValuesAssumption` (the
sorts of the values, whose counts fit four bytes) and `BodiesAssumption`.  The
run of `protocol` has them evaluated for the real catalogue.

Only model-checked:

- all liveness (`JoinTakesEffect`, `HandlersReturn`, `ShutdownCompletes`,
  `GenEnds`), which the proof system does not reach;
- of `protocol`, `ReplyArrives` and `SameCharacter`, which are about
  the tables and replies as they are.  Their general part is proved: `FittingsArrive`
  says that a reply which keeps to its layout arrives, and what is left for TLC is
  that the handlers' replies do, over the layouts of the generated file.

## 6. Observations

Met while modelling, and claimed by no run:

- `toFloat64` refuses int8, int16, uint, uint8 and uint16, which the integer
  fields accept (`primitives.go:147`, against "Encode accepts any Go numeric for a
  numeric field" at `codec.go:19`).
  No handler sends one in a float field (`ReplyArrives`).
- The warp token is compared and never cleared (`enter.go:127`): its own
  connection can send it again.  `enter.go:188` says that a client "cannot reuse or
  forge one", which may speak of another exchange only.
- A connection may log in with another account while its player is in the world
  (`handler.go:180`); the player keeps the account it entered with.
- `collectReachable` takes off one `[]` and one `List<` (`cmd/gen/main.go:209`):
  the `T` of a `List<T[]>` would have no layout, which no type of the catalogue is.
- A field that the next client version adds to a lobby entry makes the replies
  fail, since the entry is built field by field (`lobby.go:177`); `ReplyArrives`
  is about the layouts as they are.
- A `Char[]` with a zero inside does not read as it was sent (`codec.go:104-130`);
  `RoundTrip` leaves that case out, as its premise says.
- `loadOwn` drops a class without fields of its own, and with it what it
  inherits (`cmd/gen/main.go:125`).
- A tick rate above 10^9 Hz passes `Load` and makes `NewTicker` panic
  (`config.go:77`); `PanicsOnlyBeyondSecond` says that no other rate does.

## 7. Not modelled

- The layouts of the messages that no handler knows and that hold no array: they
  are data of the same few kinds, and nothing in the code depends on them.  The
  values of opcodes.
- Logging, the rules for the length of names, the numbers of maps and poses.
- Memory: `codec.go:268` allocates as many values as a count says before it has
  read one.
- Region's expiry of keys, and the client's HTTP and JSON (`flexInt64`, which
  nobody reads).
- `GetCharacter` and `SavePosition` of the store, which nothing calls, although
  `README.md:40-41` and migration 0004 speak of pose snapshots.
- What Go leaves to the machine: a float outside of an integer's range is taken to
  wrap (`Whole`), as a negative one does on amd64.
- The key setup, the g-function and the rotations of the Rabbit cipher, and the
  AES key derivation: 32-bit word arithmetic without control, beyond TLC's
  integers; the repository's golden vectors check them value by value.
- Files, JSON and formatting of the generator.

---------------------------- MODULE CharacterStore ---------------------------
(***************************************************************************)
(* internal/persist and internal/persist/postgres: the durable rows, and   *)
(* what each store call does to them.  A call is one SQL statement, hence  *)
(* one atomic step; sessions interleave between calls.  The statement may  *)
(* also fail (connection, cancelled ctx), which its caller models.  No     *)
(* code sets characters.deleted_time, so every row is an active one.       *)
(***************************************************************************)
EXTENDS Naturals, Entities

CONSTANTS Accounts,     \* account ids, owned by rom-api
          Codes,        \* user codes
          Names,        \* character names
          Options,      \* option bitmasks
          DefaultOptions,
          Slots,        \* values of characters.slot_index
          StoredAccounts, StoredRoster  \* the rows an earlier run left behind

AccountRow   == [code : Codes, options : Options]
CharacterRow == [account : Accounts, slot : Slots, name : Names]

ASSUME StoreAssumption ==
    /\ None \notin AccountRow \cup CharacterRow
    /\ DefaultOptions \in Options
    /\ Slots \subseteq Nat
    /\ StoredAccounts \in [Accounts -> AccountRow \cup {None}]
    /\ StoredRoster \in [Characters -> CharacterRow \cup {None}]

VARIABLES accounts,     \* the accounts table: a row of each account, or None
          roster        \* the characters table: a row of each id, or None

storeVars == <<accounts, roster>>

StoreTypeOK ==
    /\ accounts \in [Accounts -> AccountRow \cup {None}]
    /\ roster \in [Characters -> CharacterRow \cup {None}]

StoreInit ==
    /\ accounts = StoredAccounts
    /\ roster = StoredRoster

Rows == {c \in Characters : roster[c] # None}

-----------------------------------------------------------------------------
(* The store's calls.                                                      *)

UpsertAccount(a, code) ==
    /\ accounts' = [accounts EXCEPT ![a] =
           IF @ = None THEN [code |-> code, options |-> DefaultOptions]
                       ELSE [@ EXCEPT !.code = code]]
    /\ UNCHANGED roster

\* ErrNotFound when no row is updated.
SaveOptions(a, o) ==
    /\ accounts' = IF accounts[a] = None THEN accounts
                   ELSE [accounts EXCEPT ![a].options = o]
    /\ UNCHANGED roster

\* Mutant: the WHERE clause forgets the account.
ListEverybody(a) == Rows

ListCharacters(a) == {c \in Rows : roster[c].account = a}

\* Mutant: the constraint is dropped.
NeverTaken(a, slot) == FALSE

\* UNIQUE (account_id, slot_index): ErrSlotTaken.
SlotTaken(a, slot) == \E c \in Rows : roster[c].account = a /\ roster[c].slot = slot

\* UNIQUE (name) WHERE deleted_time = 0: ErrNameTaken.
NameTaken(name) == \E c \in Rows : roster[c].name = name

\* characters_account_id_fkey.
HasAccount(a) == accounts[a] # None

\* The INSERT succeeds; the id comes from a sequence.
CreateCharacter(a, slot, name) ==
    /\ HasAccount(a)
    /\ ~SlotTaken(a, slot)
    /\ ~NameTaken(name)
    /\ \E c \in Characters \ Rows :
           roster' = [roster EXCEPT ![c] = [account |-> a, slot |-> slot, name |-> name]]
    /\ UNCHANGED accounts
=============================================================================

------------------------------- MODULE MCTables -------------------------------
(* The tables of MCProtocol: the real catalogue, with a message of zeroes    *)
(* for each nested type, and a small one with a message for each kind of     *)
(* field; and the values that are sent over them, in bytes of four values.   *)
(* TLC keeps what a definition is worth, and not the constant it stands for: *)
(* what is costly is defined here, before the modules that use it.           *)
EXTENDS Replies

KindStructs ==
    [Pair |-> <<FieldOf("a", Byte), FieldOf("s", Chars)>>,
     Move |-> <<FieldOf("n", Int16), FieldOf("x", Single)>>]

KindMessages ==
    [Ping    |-> [id |-> 1, fields |-> <<>>],
     Login   |-> [id |-> 2, fields |-> <<FieldOf("code", String), FieldOf("key", Int16), FieldOf("on", Boolean)>>],
     Create  |-> [id |-> 3, fields |-> <<FieldOf("name", Chars), FieldOf("class", SByte)>>],
     Players |-> [id |-> 5, fields |-> <<FieldOf("list", List(Struct("Pair"))), FieldOf("end", Byte)>>],
     Equip   |-> [id |-> 7, fields |-> <<FieldOf("one", Array(Byte)), FieldOf("two", Array(List(Byte)))>>],
     Auction |-> [id |-> 11, fields |-> <<FieldOf("n", Byte), FieldOf("many", Array(Byte)), FieldOf("m", Byte)>>],
     Guard   |-> [id |-> 12, fields |-> <<FieldOf("keys", Array(Byte)), FieldOf("n", Byte)>>],
     Moves   |-> [id |-> 13, fields |-> <<FieldOf("first", Struct("Move")), FieldOf("more", List(Struct("Move")))>>],
     Move    |-> [id |-> 17, fields |-> KindStructs.Move]]

KindFixedArrays == (<<"Equip", "one">> :> 2) @@ (<<"Equip", "two">> :> 2)

-----------------------------------------------------------------------------
\* A function written out is what TLC looks up fast.
AllStructs ==
    LET all == CatalogStructs @@ KindStructs
    IN  [name \in DOMAIN all |-> all[name]]

\* A message for each nested type of the tables.
RECURSIVE Nested(_, _)
Nested(tables, first) ==
    IF tables = <<>> THEN <<>>
    ELSE Numbered(CatalogStructs, DOMAIN Head(tables), first)
         @@ Nested(Tail(tables), first + Cardinality(DOMAIN Head(tables)))

AllMessages ==
    LET all == KindMessages @@ CatalogMessages @@ Nested(StructTables, 64)
    IN  [name \in DOMAIN all |-> all[name]]

\* Bound: the one array of the catalogue that is longer, of 249, is cut to this.
LongestArray == 32

AllFixedArrays ==
    LET all == CatalogFixedArrays @@ KindFixedArrays
    IN  [place \in DOMAIN all |-> Min({all[place], LongestArray})]

AllMessageFullNames == CatalogMessageFullNames \cup {"Move"}

\* The types of the layouts, and what is inside of arrays and lists.
AllTypes ==
    LET layouts == {AllStructs[n] : n \in DOMAIN AllStructs}
                   \cup {AllMessages[m].fields : m \in DOMAIN AllMessages}
        outer   == UNION {{l[i].type : i \in DOMAIN l} : l \in layouts}
        inner(S) == {t.elem : t \in {u \in S : u.kind \in {"array", "list"}}}
    IN  outer \cup inner(outer) \cup inner(inner(outer))

RECURSIVE Depth(_)
Depth(type) ==
    LET inside ==
            IF type.kind \in {"array", "list"} THEN {type.elem}
            ELSE IF type.kind = "struct"
            THEN {AllStructs[type.name][i].type : i \in DOMAIN AllStructs[type.name]}
            ELSE {}
    IN  IF inside = {} THEN 0 ELSE 1 + Max({Depth(t) : t \in inside})

AllNesting == [t \in AllTypes |-> Depth(t)]

-----------------------------------------------------------------------------
(* What is sent.                                                             *)

Texts == {<<>>, <<<<1>>>>, <<<<12, 13>>>>, <<<<1>>, <<0>>, <<12, 13>>>>}
Ns    == {Num("int64", -50), Num("uint64", 3), Num("float64", -3), Num("int", 9),
          Num("int64", -8), Num("int64", 7)}
Pairs == {Values([a |-> Num("uint64", 5), s |-> Text(t)]) : t \in Texts}
Some  == {Values([n |-> n, x |-> Num(go, 3)]) : n \in Ns, go \in Ints \cup Floats}
UpTo2(S) == {Items(<<>>)} \cup {Items(<<x>>) : x \in S} \cup {Items(<<x, y>>) : x, y \in S}
BytesOf == {Num("uint64", 1), Num("uint8", 7)}

KindSendings ==
    {<<"Login", [code |-> Text(t), key |-> n, on |-> Bool(b)]>> :
        t \in Texts, n \in Ns, b \in BOOLEAN}
    \cup {<<"Create", [name |-> Text(t), class |-> n]>> : t \in Texts, n \in Ns}
    \cup {<<"Create", [class |-> n]>> : n \in Ns}
    \cup {<<"Players", [list |-> l, end |-> Num("uint64", 2)]>> : l \in UpTo2(Pairs)}
    \cup {<<"Equip", [one |-> one, two |-> Items(<<a, b>>)]>> :
            one \in UpTo2(BytesOf), a, b \in {Items(<<>>), Items(<<Num("uint64", 2)>>)}}
    \cup {<<"Auction", [n |-> Num("uint64", 1), many |-> Items(<<>>), m |-> Num("uint64", 1)]>>}
    \cup {<<"Moves", [first |-> m, more |-> Items(l)]>> : m \in Some, l \in {<<>>} \cup {<<x>> : x \in Some}}
    \cup {<<"Move", m.fields>> : m \in Some}

\* Two rows that differ in every field the tables let differ.
TwoCharacters ==
    {[ID |-> i, SlotIndex |-> i - 1, Name |-> <<<<1>>, <<12, 13>>, <<i>>>>,
      ClassType |-> i, SubClassType |-> 3 - i, HeadType |-> 2 * i - 1, Level |-> 10 * i,
      Exp |-> 700 * i, RealPower |-> 5, MapID |-> 30 + i, EquipCostumeIndex |-> -i,
      EquipCostumeStepUp |-> i, WeaponItemIndex |-> 8, WeaponEnchant |-> 3,
      GuildName |-> <<>>, LatestLoginTime |-> 90 * i, LatestLogoutTime |-> 91 * i,
      DeletedTime |-> 0, CreatedAt |-> 89, X |-> -6, Y |-> 4 * i, Z |-> 0, Dir |-> 2] :
        i \in 1 .. 2}

MCWarpTokens == {1, -300}
Codes == {<<>>, <<<<1>>>>, <<<<12, 13>>, <<2>>>>}

AllSendings == KindSendings \cup HandlerReplies

\* What is read of the account codes of a client that is not ours.
EchoTexts == BoundedSeq({<<1>>, <<15>>, <<12, 13>>}, 3)
             \cup {[i \in 1 .. 40 |-> <<u>>] : u \in {2, 15}}

RECURSIVE Parts(_)
Parts(v) ==
    {v} \cup (IF v.go = "[]any" THEN UNION {Parts(v.items[i]) : i \in DOMAIN v.items}
              ELSE IF v.go \in {"Values", "map"}
              THEN UNION {Parts(v.fields[f]) : f \in DOMAIN v.fields}
              ELSE {})

\* What the handlers send, zeroes, and what they echo.
SentAndZero ==
    LET zeroes == {ZeroValues(m) : m \in DOMAIN AllMessages} \ {Error}
        sent   == {p[2] : p \in AllSendings} \cup {z.value : z \in zeroes}
    IN  UNION {UNION {Parts(g[f]) : f \in DOMAIN g} : g \in sent}
        \cup {Text(s) : s \in EchoTexts}

-----------------------------------------------------------------------------
\* For the cfg.  LET keeps a coverage report from following each use of a
\* constant into its tables.
MCStructs          == LET all == AllStructs IN all
MCMessages         == LET all == AllMessages IN all
MCFixedArrays      == LET all == AllFixedArrays IN all
MCMessageFullNames == LET all == AllMessageFullNames IN all
MCTypes            == LET all == AllTypes IN all
MCNesting          == LET all == AllNesting IN all
MCCharacters       == TwoCharacters
MCSendings         == LET all == AllSendings IN all
MCGoValues         == LET all == SentAndZero IN all
=============================================================================

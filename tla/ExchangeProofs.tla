----------------------------- MODULE ExchangeProofs -----------------------------
(***************************************************************************)
(* What arrives of a message (module Exchange), proved for every           *)
(* catalogue, every byte size and every value, from what CodecProofs says  *)
(* of Encode and Decode: the values that were sent, of a cut body the      *)
(* fields before the cut, and the zeroes the server sends.                 *)
(***************************************************************************)
EXTENDS CodecProofs

-----------------------------------------------------------------------------
(* What is written are bytes.                                              *)

\* What encodeValue makes of the values of a type are bytes.
Writes(t) ==
    \A at \in Places, v \in GoValues :
        encodeValue[t][<<at, v>>] # Error => encodeValue[t][<<at, v>>].bytes \in Seq(Bytes)

\* What is joined of bytes are bytes.
LEMMA JoinedBytes ==
    ASSUME NEW n \in Nat, NEW pieces, AllJoined(n, pieces) # Error,
           \A i \in 1 .. n : pieces[i] # Error => pieces[i].bytes \in Seq(Bytes)
    PROVE  AllJoined(n, pieces).bytes \in Seq(Bytes)
<1> DEFINE F == FirstPieces(n, pieces)
           S == {k \in Nat : k <= n => F[k].bytes \in Seq(Bytes)}
<1>1. /\ \A k \in 1 .. n : pieces[k] # Error
      /\ F[0].bytes = <<>>
      /\ \A k \in Nat : k < n => F[k + 1].bytes = F[k].bytes \o pieces[k + 1].bytes
      /\ AllJoined(n, pieces).bytes = F[n].bytes
    BY JoinedParts, Zenon
<1> HIDE DEF F
<1>2. 0 \in S
    <2>1. <<>> \in Seq(Bytes)
        OBVIOUS
    <2>2. F[0].bytes \in Seq(Bytes)
        BY <1>1, <2>1
    <2> QED BY <2>2
<1>3. ASSUME NEW k \in Nat, k \in S PROVE k + 1 \in S
    <2> SUFFICES ASSUME k + 1 <= n PROVE F[k + 1].bytes \in Seq(Bytes)
        OBVIOUS
    <2>1. k < n /\ k <= n /\ k + 1 \in 1 .. n
        OBVIOUS
    <2>2. F[k].bytes \in Seq(Bytes) /\ pieces[k + 1].bytes \in Seq(Bytes)
        BY <1>1, <1>3, <2>1
    <2>3. F[k].bytes \o pieces[k + 1].bytes \in Seq(Bytes)
        BY <2>2, Concat
    <2> QED BY <1>1, <2>1, <2>3, Zenon
<1> HIDE DEF S
<1>4. n \in S
    BY <1>2, <1>3, NatSet
<1>5. F[n].bytes \in Seq(Bytes)
    BY <1>4 DEF S
<1> QED BY <1>1, <1>5

\* Bytes behind bytes are bytes.
LEMMA BothBytes ==
    ASSUME NEW word \in Seq(Bytes), NEW b, Joined(Written(word), b) # Error,
           b # Error => b.bytes \in Seq(Bytes)
    PROVE  Joined(Written(word), b).bytes \in Seq(Bytes)
<1>1. PICK a : a = Written(word)
    OBVIOUS
<1>2. a.bytes = word
    BY <1>1 DEF Written
<1>3. b # Error /\ Joined(a, b).bytes = word \o b.bytes
    BY <1>1, <1>2, JoinedIsWritten, Zenon
<1>4. word \o b.bytes \in Seq(Bytes)
    BY <1>3, Concat
<1> QED BY <1>1, <1>3, <1>4

\* What is written of a number, a boolean or a text are bytes.
LEMMA ScalarWrites ==
    ASSUME NEW t \in Types, t.kind \in {"integer", "float", "boolean", "string", "chars"}
    PROVE  Writes(t)
<1> SUFFICES ASSUME NEW at \in Places, NEW v \in GoValues, encodeValue[t][<<at, v>>] # Error
             PROVE  encodeValue[t][<<at, v>>].bytes \in Seq(Bytes)
    BY DEF Writes
<1>0. \A b : Written(b).bytes = b
    BY DEF Written
<1>1. encodeValue[t][<<at, v>>] = encodeType(encodeValue, t, at, v)
    BY ValueAt
<1>2. CASE t.kind = "integer"
    <2>1. encodeValue[t][<<at, v>>] = encodeInteger(v, t.width)
        BY <1>1, <1>2 DEF encodeType
    <2>2. v.go \in IntegerSources
          /\ encodeValue[t][<<at, v>>] = Written(LittleEndian(Whole(v), t.width))
        BY <2>1 DEF encodeInteger
    <2>3. Whole(v) \in Int /\ t.width \in Nat
        BY <1>2, <2>2, GoValueIs, WholeIs, WidthIs DEF IntegerSources
    <2>4. LittleEndian(Whole(v), t.width) \in Seq(Bytes)
        BY <2>3, WordWritten, Zenon
    <2> QED BY <1>0, <2>2, <2>4
<1>3. CASE t.kind = "float"
    <2>1. encodeValue[t][<<at, v>>] = encodeFloat(v, t.width)
        BY <1>1, <1>3 DEF encodeType
    <2>2. v.go \in FloatSources
          /\ encodeValue[t][<<at, v>>] = Written(LittleEndian(Halves(v, t.width), t.width))
        BY <2>1 DEF encodeFloat
    <2>3. v.go \in Ints \cup Floats
        BY <2>2 DEF FloatSources, Ints, Floats
    <2>4. Halves(v, t.width) \in Int /\ t.width \in Nat
        BY <1>3, <2>3, GoValueIs, WholeIs, WidthIs
    <2>5. LittleEndian(Halves(v, t.width), t.width) \in Seq(Bytes)
        BY <2>4, WordWritten, Zenon
    <2> QED BY <1>0, <2>2, <2>5
<1>4. CASE t.kind = "boolean"
    <2> DEFINE n == IF v.b THEN 1 ELSE 0
    <2>1. encodeValue[t][<<at, v>>] = encodeBoolean(v)
        BY <1>1, <1>4 DEF encodeType
    <2>2. encodeValue[t][<<at, v>>] = Written(<<n>>)
        BY <2>1 DEF encodeBoolean
    <2>3. n \in {0, 1}
        OBVIOUS
    <2> HIDE DEF n
    <2>4. n \in Int /\ 1 \in Nat /\ <<n>> = LittleEndian(n, 1)
        BY <2>3, BooleanIs
    <2>5. <<n>> \in Seq(Bytes)
        BY <2>4, WordWritten, Zenon
    <2> QED BY <1>0, <2>2, <2>5, Zenon
<1> DEFINE units == Units(v.s)
<1>5. ASSUME v.go = "string"
      PROVE  Wide(units) \in Seq(Bytes) /\ Len(units) \in Int
    <2>1. units \in Seq(Utf16)
        BY <1>5, GoValueIs, UnitsType
    <2> HIDE DEF units
    <2>2. Len(units) \in Int
        BY <2>1
    <2> QED BY <2>1, <2>2, WideIs
<1>6. \A n \in Int : LittleEndian(n, 4) \in Seq(Bytes) /\ LittleEndian(n, 2) \in Seq(Bytes)
    <2>1. 4 \in Nat /\ 2 \in Nat
        OBVIOUS
    <2> QED BY <2>1, WordWritten, Zenon
<1>7. CASE t.kind = "string"
    <2>1. encodeValue[t][<<at, v>>] = encodeString(v)
        BY <1>1, <1>7 DEF encodeType
    <2>2. v.go = "string"
          /\ encodeValue[t][<<at, v>>] = Written(LittleEndian(Len(units), 4) \o Wide(units))
        BY <2>1 DEF encodeString
    <2> HIDE DEF units
    <2>3. LittleEndian(Len(units), 4) \o Wide(units) \in Seq(Bytes)
        BY <1>5, <1>6, <2>2, Concat
    <2> QED BY <1>0, <2>2, <2>3, Zenon
<1>8. CASE t.kind = "chars"
    <2>1. encodeValue[t][<<at, v>>] = encodeChars(v)
        BY <1>1, <1>8 DEF encodeType
    <2>2. v.go = "string"
          /\ encodeValue[t][<<at, v>>] = Written(Wide(units) \o LittleEndian(0, 2))
        BY <2>1 DEF encodeChars
    <2> HIDE DEF units
    <2>3. LittleEndian(0, 2) \in Seq(Bytes)
        BY <1>6
    <2>4. Wide(units) \o LittleEndian(0, 2) \in Seq(Bytes)
        BY <1>5, <2>2, <2>3, Concat
    <2> QED BY <1>0, <2>2, <2>4, Zenon
<1> QED BY <1>2, <1>3, <1>4, <1>7, <1>8

\* What is written of items are bytes if it is of each.
LEMMA ItemsWrite ==
    ASSUME NEW e \in Types, Writes(e), NEW at \in Places, NEW items \in Seq(GoValues),
           encodeItems(encodeValue[e], at, items) # Error
    PROVE  encodeItems(encodeValue[e], at, items).bytes \in Seq(Bytes)
<1> DEFINE n == Len(items)  pieces == [i \in DOMAIN items |-> encodeValue[e][<<at, items[i]>>]]
<1>1. n \in Nat /\ DOMAIN items = 1 .. n /\ \A i \in 1 .. n : items[i] \in GoValues
    OBVIOUS
<1>2. encodeItems(encodeValue[e], at, items) = AllJoined(n, pieces)
    BY DEF encodeItems
<1>3. \A i \in 1 .. n : pieces[i] # Error => pieces[i].bytes \in Seq(Bytes)
    BY <1>1 DEF Writes
<1> HIDE DEF n, pieces
<1> QED BY <1>1, <1>2, <1>3, JoinedBytes

\* What is written of fields are bytes if it is of each.
LEMMA FieldsWrite ==
    ASSUME NEW owner \in STRING, NEW fields, Layout(fields, Types),
           \A i \in DOMAIN fields : Writes(fields[i].type),
           NEW values, \A f \in DOMAIN values : values[f] \in GoValues,
           encodeFields(Each(encodeValue, fields), owner, fields, values) # Error
    PROVE  encodeFields(Each(encodeValue, fields), owner, fields, values).bytes \in Seq(Bytes)
<1> DEFINE n == Len(fields)
           encoders == Each(encodeValue, fields)
           pieces == [i \in DOMAIN fields |->
                        LET name == fields[i].name
                        IN  IF name \notin DOMAIN values THEN Error
                            ELSE encoders[i][<<<<owner, name>>, values[name]>>]]
<1>1. /\ n \in Nat /\ DOMAIN fields = 1 .. n
      /\ \A i \in 1 .. n : fields[i].name \in STRING /\ fields[i].type \in Types
    BY LayoutIs
<1>2. encodeFields(encoders, owner, fields, values) = AllJoined(n, pieces)
    BY DEF encodeFields
<1>3. ASSUME NEW i \in 1 .. n, pieces[i] # Error PROVE pieces[i].bytes \in Seq(Bytes)
    <2> DEFINE name == fields[i].name  t == fields[i].type  at == <<owner, name>>  v == values[name]
    <2>0. i \in DOMAIN fields /\ name \in STRING /\ t \in Types
        BY <1>1
    <2>1. encoders[i] = encodeValue[t] /\ at \in Places /\ Writes(t)
        BY <2>0 DEF Each, Places
    <2>2. pieces[i] = IF name \notin DOMAIN values THEN Error ELSE encoders[i][<<at, v>>]
        BY <2>0
    <2> HIDE DEF pieces, encoders, name, t, at, v
    <2>3. name \in DOMAIN values /\ pieces[i] = encodeValue[t][<<at, v>>]
        BY <1>3, <2>1, <2>2
    <2>4. v \in GoValues
        BY <2>3 DEF v
    <2> QED BY <1>3, <2>1, <2>3, <2>4 DEF Writes
<1> HIDE DEF n, pieces
<1> QED BY <1>1, <1>2, <1>3, JoinedBytes

\* What is written of an array, a list or a nested type are bytes, too.
LEMMA NestedWrites ==
    ASSUME NEW t \in Types, t.kind \in {"array", "list", "struct"},
           \A u \in Types : Nesting[u] < Nesting[t] => Writes(u)
    PROVE  Writes(t)
<1> SUFFICES ASSUME NEW at \in Places, NEW v \in GoValues, encodeValue[t][<<at, v>>] # Error
             PROVE  encodeValue[t][<<at, v>>].bytes \in Seq(Bytes)
    BY DEF Writes
<1>1. encodeValue[t][<<at, v>>] = encodeType(encodeValue, t, at, v)
    BY ValueAt
<1>2. CASE t.kind \in {"array", "list"}
    <2> DEFINE e == t.elem  encoded == encodeItems(encodeValue[e], at, v.items)
               word == LittleEndian(Len(v.items), 4)
    <2>1. /\ v.go = "[]any"
          /\ encodeValue[t][<<at, v>>] \in {encoded, Joined(Written(word), encoded)}
        BY <1>1, <1>2 DEF encodeType, encodeArray, encodeList
    <2>2. e \in Types /\ Writes(e) /\ v.items \in Seq(GoValues)
        BY <1>2, <2>1, TypeFacts, GoValueIs
    <2>3. encoded # Error => encoded.bytes \in Seq(Bytes)
        BY <2>2, ItemsWrite
    <2>4. word \in Seq(Bytes)
        <3>1. Len(v.items) \in Int /\ 4 \in Nat
            BY <2>2
        <3> QED BY <3>1, WordWritten, Zenon
    <2> HIDE DEF encoded, word
    <2>5. CASE encodeValue[t][<<at, v>>] = encoded
        BY <2>3, <2>5
    <2>6. CASE encodeValue[t][<<at, v>>] = Joined(Written(word), encoded)
        BY <2>3, <2>4, <2>6, BothBytes
    <2> QED BY <2>1, <2>5, <2>6
<1>3. CASE t.kind = "struct"
    <2> DEFINE name == t.name  fields == structs[name]
               encoded == encodeFields(Each(encodeValue, fields), name, fields, v.fields)
    <2>1. /\ name \in DOMAIN structs
          /\ encodeValue[t][<<at, v>>] = encodeStruct(Each(encodeValue, fields), name, v)
        BY <1>1, <1>3 DEF encodeType
    <2>2. /\ v.go \in {"Values", "map"}
          /\ encodeValue[t][<<at, v>>] = Joined(Written(OpcodePrefix(name)), encoded)
        BY <2>1 DEF encodeStruct
    <2>3. name \in STRING /\ Layout(fields, Types)
        BY <2>1, CatalogAssumption DEF Tables
    <2>4. \A i \in DOMAIN fields : Writes(fields[i].type)
        BY <1>3, <2>1, TypeFacts
    <2>5. \A f \in DOMAIN v.fields : v.fields[f] \in GoValues
        <3>1. v.fields \in [DOMAIN v.fields -> GoValues]
            BY <2>2, GoValueIs
        <3> QED BY <3>1
    <2> HIDE DEF name, fields
    <2>6. encoded # Error => encoded.bytes \in Seq(Bytes)
        BY <2>3, <2>4, <2>5, FieldsWrite
    <2>7. OpcodePrefix(name) \in Seq(Bytes)
        BY PrefixIs
    <2> HIDE DEF encoded
    <2> QED BY <2>2, <2>6, <2>7, BothBytes
<1> QED BY <1>2, <1>3

\* What holds of a type if it holds of all that nest less holds of all.
LEMMA TypeInduction ==
    ASSUME NEW S,
           \A t \in Types : (\A u \in Types : Nesting[u] < Nesting[t] => u \in S) => t \in S
    PROVE  \A t \in Types : t \in S
<1>1. EncodeIs!Ranks(0)
    BY TypeFacts DEF EncodeIs!Ranks, TypesDom, TypesRank
<1>2. \A x \in TypesDom(0) :
          (\A y \in TypesDom(0) : TypesRank(0, y) < TypesRank(0, x) => y \in S) => x \in S
    BY DEF TypesDom, TypesRank
<1>3. \A t \in TypesDom(0) : t \in S
    BY <1>1, <1>2, EncodeIs!RankInduction
<1> QED BY <1>3 DEF TypesDom

\* The kinds of types.
LEMMA KindsAre ==
    ASSUME NEW t \in Types
    PROVE  t.kind \in {"array", "list", "struct", "integer", "float", "boolean", "string", "chars"}
<1>1. \/ t \in Scalars \/ t \in [kind : {"array", "list"}, elem : Types]
      \/ t \in [kind : {"struct"}, name : STRING]
    BY TypesAssumption DEF Deeper
<1> QED BY <1>1 DEF Scalars

\* Whatever type the catalogue has, what is written of its values are bytes.
LEMMA AllWrite == \A t \in Types : Writes(t)
<1> DEFINE S == {t \in Types : Writes(t)}
<1>1. ASSUME NEW t \in Types, \A u \in Types : Nesting[u] < Nesting[t] => u \in S
      PROVE  t \in S
    BY <1>1, KindsAre, ScalarWrites, NestedWrites
<1> HIDE DEF S
<1>2. \A t \in Types : t \in S
    BY <1>1, TypeInduction
<1> QED BY <1>2 DEF S

\* What Encode makes of a message are bytes.
LEMMA EncodeWrites ==
    ASSUME NEW m \in DOMAIN messages, NEW values, \A f \in DOMAIN values : values[f] \in GoValues,
           Encode(m, values) # Error
    PROVE  Encode(m, values).bytes \in Seq(Bytes)
<1> DEFINE fields == messages[m].fields  word == LittleEndian(messages[m].id, 4)
           encoded == encodeFields(Each(encodeValue, fields), m, fields, values)
<1>1. m \in STRING /\ Layout(fields, Types) /\ messages[m].id \in Int
    BY CatalogAssumption DEF Tables
<1>2. Encode(m, values) = Joined(Written(word), encoded)
    BY DEF Encode
<1>3. \A i \in DOMAIN fields : Writes(fields[i].type)
    BY <1>1, LayoutIs, AllWrite
<1>4. word \in Seq(Bytes)
    <2>1. 4 \in Nat
        OBVIOUS
    <2> QED BY <1>1, <2>1, WordWritten, Zenon
<1> HIDE DEF fields, word
<1>5. encoded # Error => encoded.bytes \in Seq(Bytes)
    BY <1>1, <1>3, FieldsWrite, Zenon
<1> HIDE DEF encoded
<1> QED BY <1>2, <1>4, <1>5, BothBytes

-----------------------------------------------------------------------------
(* What ZeroValues makes of a type.                                        *)

ZeroDef(p, f, t)    == [at \in Places |-> zeroType(f, t, at)]
UnsizedDef(p, f, t) == [at \in Places |-> UnsizedOf(f, t, at)]

ZeroIs    == INSTANCE Ranked WITH Dom <- TypesDom, Rank <- TypesRank, Def <- ZeroDef
UnsizedIs == INSTANCE Ranked WITH Dom <- TypesDom, Rank <- TypesRank, Def <- UnsizedDef

unsized == CHOOSE f : f = [t \in Types |-> UnsizedDef(0, f, t)]

\* zeroValue has the value that its definition says.
LEMMA ZeroDefined == zeroValue = [t \in Types |-> ZeroDef(0, zeroValue, t)]
<1>1. ZeroIs!Ranks(0)
    BY TypeFacts DEF ZeroIs!Ranks, TypesDom, TypesRank
<1>2. ZeroIs!Descends(0)
    <2> SUFFICES ASSUME NEW t \in Types, NEW g, NEW h,
                        \A y \in Types : Nesting[y] < Nesting[t] => g[y] = h[y]
                 PROVE  ZeroDef(0, g, t) = ZeroDef(0, h, t)
        BY DEF ZeroIs!Descends, TypesDom, TypesRank
    <2>1. t.kind = "array" => g[t.elem] = h[t.elem]
        BY TypeFacts
    <2>2. t.kind = "struct" /\ t.name \in DOMAIN structs =>
              Each(g, structs[t.name]) = Each(h, structs[t.name])
        BY TypeFacts, EachSame
    <2> QED BY <2>1, <2>2 DEF ZeroDef, zeroType
<1>3. \E f : f = [t \in Types |-> ZeroDef(0, f, t)]
    BY <1>1, <1>2, ZeroIs!RankedRecursion DEF TypesDom
<1> QED BY <1>3, Zenon DEF zeroValue, ZeroDef

\* The fields of a layout, by their numbers.
LEMMA FieldNumbers ==
    ASSUME NEW fields, Layout(fields, Types)
    PROVE  ToSet(fields) = {fields[i] : i \in DOMAIN fields}
BY DEF ToSet

\* A layout of the catalogue is one.
LEMMA LayoutsAre ==
    /\ \A n \in DOMAIN structs : n \in STRING /\ Layout(structs[n], Types)
    /\ \A m \in DOMAIN messages : m \in STRING /\ Layout(FieldsOf(m), Types)
BY CatalogAssumption DEF Tables, FieldsOf

\* Unsized is one function of the types and the places.
LEMMA UnsizedDefined ==
    /\ unsized = [t \in Types |-> UnsizedDef(0, unsized, t)]
    /\ \A m : Unsized(m) <=> \E g \in ToSet(FieldsOf(m)) : unsized[g.type][<<m, g.name>>]
<1>1. UnsizedIs!Ranks(0)
    BY TypeFacts DEF UnsizedIs!Ranks, TypesDom, TypesRank
<1>2. UnsizedIs!Descends(0)
    <2> SUFFICES ASSUME NEW t \in Types, NEW g, NEW h,
                        \A y \in Types : Nesting[y] < Nesting[t] => g[y] = h[y]
                 PROVE  UnsizedDef(0, g, t) = UnsizedDef(0, h, t)
        BY DEF UnsizedIs!Descends, TypesDom, TypesRank
    <2>1. t.kind = "array" => g[t.elem] = h[t.elem]
        BY TypeFacts
    <2>2. ASSUME t.kind = "struct", t.name \in DOMAIN structs
          PROVE  \A u \in ToSet(structs[t.name]) : g[u.type] = h[u.type]
        <3>1. ToSet(structs[t.name]) = {structs[t.name][i] : i \in DOMAIN structs[t.name]}
            BY <2>2, LayoutsAre, FieldNumbers
        <3> QED BY <2>2, <3>1, TypeFacts
    <2>3. ASSUME NEW at \in Places PROVE UnsizedOf(g, t, at) = UnsizedOf(h, t, at)
        BY <2>1, <2>2, Zenon DEF UnsizedOf
    <2> QED BY <2>3, Zenon DEF UnsizedDef
<1>3. \E f : f = [t \in Types |-> UnsizedDef(0, f, t)]
    BY <1>1, <1>2, UnsizedIs!RankedRecursion DEF TypesDom
<1>4. unsized = [t \in Types |-> UnsizedDef(0, unsized, t)]
    BY <1>3, Zenon DEF unsized
<1>5. \A m : Unsized(m) <=> \E g \in ToSet(FieldsOf(m)) : unsized[g.type][<<m, g.name>>]
    BY Zenon DEF Unsized, unsized, UnsizedDef
<1> QED BY <1>4, <1>5, Zenon

\* A zero is no error.
LEMMA ZeroHas == \A v : Zero(v) # Error /\ Zero(v).value = v
BY DEF Zero, Error

\* zeroValue does what the type switch says.
LEMMA ZeroAt ==
    ASSUME NEW t \in Types, NEW at \in Places
    PROVE  zeroValue[t][at] = zeroType(zeroValue, t, at)
<1>1. zeroValue[t] = ZeroDef(0, zeroValue, t)
    BY ZeroDefined
<1> QED BY <1>1 DEF ZeroDef

\* A type is unsized if UnsizedOf says so.
LEMMA UnsizedAt ==
    ASSUME NEW t \in Types, NEW at \in Places
    PROVE  unsized[t][at] = UnsizedOf(unsized, t, at)
BY UnsizedDefined DEF UnsizedDef

\* The fields have no zero if one of them has none.
LEMMA FieldWithout ==
    ASSUME NEW owner, NEW fields, NEW zeros
    PROVE  zeroFields(zeros, owner, fields) = Error
           <=> \E i \in DOMAIN fields : zeros[i][<<owner, fields[i].name>>] = Error
<1> DEFINE r == zeroFields(zeros, owner, fields)
           zero(i) == zeros[i][<<owner, fields[i].name>>]
           zeroes == {<<fields[i].name, zero(i)>> : i \in DOMAIN fields}
           worth == [f \in {z[1] : z \in zeroes} |-> (CHOOSE z \in zeroes : z[1] = f)[2].value]
<1>1. /\ \A i \in DOMAIN fields : <<fields[i].name, zero(i)>> \in zeroes
      /\ \A z \in zeroes : \E i \in DOMAIN fields : z[1] = fields[i].name /\ z[2] = zero(i)
    <2> HIDE DEF zero
    <2> QED OBVIOUS
<1>2. (\E z \in zeroes : z[2] = Error) <=> \E i \in DOMAIN fields : zero(i) = Error
    <2> HIDE DEF zero, zeroes
    <2>1. ASSUME NEW i \in DOMAIN fields, zero(i) = Error PROVE \E z \in zeroes : z[2] = Error
        <3>1. <<fields[i].name, zero(i)>>[2] = zero(i)
            OBVIOUS
        <3> QED BY <1>1, <2>1, <3>1, Zenon
    <2> QED BY <1>1, <2>1, Zenon
<1>3. r = IF \E z \in zeroes : z[2] = Error THEN Error ELSE Zero(worth)
    BY DEF zeroFields
<1> HIDE DEF worth, zeroes, r
<1>4. r = Error <=> \E i \in DOMAIN fields : zero(i) = Error
    <2> HIDE DEF zero
    <2> QED BY <1>2, <1>3, ZeroHas
<1> QED BY <1>4, Zenon DEF r

\* The zeroes of the fields by their names, if there are all of them.
LEMMA ZeroFieldsAre ==
    ASSUME NEW fields, Layout(fields, Types), NEW zeros, NEW owner
    PROVE  LET r == zeroFields(zeros, owner, fields)
               zero(i) == zeros[i][<<owner, fields[i].name>>]
           IN  r # Error =>
                  /\ r.value = [f \in DOMAIN r.value |-> r.value[f]]
                  /\ DOMAIN r.value = Names(fields, Len(fields))
                  /\ \A i \in DOMAIN fields : r.value[fields[i].name] = zero(i).value
<1> DEFINE r == zeroFields(zeros, owner, fields)
           zero(i) == zeros[i][<<owner, fields[i].name>>]
           zeroes == {<<fields[i].name, zero(i)>> : i \in DOMAIN fields}
           N == {z[1] : z \in zeroes}
           worth == [f \in N |-> (CHOOSE z \in zeroes : z[1] = f)[2].value]
<1>1. /\ DOMAIN fields = 1 .. Len(fields)
      /\ \A i, j \in DOMAIN fields : fields[i].name = fields[j].name => i = j
    BY LayoutIs
<1>2. /\ \A i \in DOMAIN fields : <<fields[i].name, zero(i)>> \in zeroes
      /\ \A z \in zeroes : \E i \in DOMAIN fields : z[1] = fields[i].name /\ z[2] = zero(i)
    <2> HIDE DEF zero
    <2> QED OBVIOUS
<1>3. r = IF \E z \in zeroes : z[2] = Error THEN Error ELSE Zero(worth)
    BY DEF zeroFields
<1>4. N = {fields[i].name : i \in DOMAIN fields}
    <2> HIDE DEF zero, zeroes
    <2>1. ASSUME NEW i \in DOMAIN fields PROVE fields[i].name \in N
        <3>1. <<fields[i].name, zero(i)>>[1] = fields[i].name
            OBVIOUS
        <3> QED BY <1>2, <3>1, Zenon
    <2>2. \A f \in N : \E i \in DOMAIN fields : f = fields[i].name
        BY <1>2, Zenon
    <2> HIDE DEF N
    <2> QED BY <2>1, <2>2
<1>5. ASSUME NEW i \in DOMAIN fields PROVE worth[fields[i].name] = zero(i).value
    <2> DEFINE f == fields[i].name  z == <<f, zero(i)>>  c == CHOOSE y \in zeroes : y[1] = f
    <2>1. z \in zeroes /\ z[1] = f /\ z[2] = zero(i)
        <3> HIDE DEF zero
        <3> QED OBVIOUS
    <2>2. c \in zeroes /\ c[1] = f
        <3> HIDE DEF zeroes, z, f
        <3> QED BY <2>1, Zenon
    <2>3. PICK j \in DOMAIN fields : c = <<fields[j].name, zero(j)>>
        <3> HIDE DEF c, zero
        <3> QED BY <2>2
    <2>4. j = i
        <3> HIDE DEF c, zero
        <3> QED BY <1>1, <2>2, <2>3 DEF f
    <2>5. c[2] = zero(i)
        <3> HIDE DEF c, zero
        <3> QED BY <2>3, <2>4
    <2>6. f \in N
        <3> HIDE DEF zero, zeroes
        <3> QED BY <2>1
    <2>7. worth[f] = c[2].value
        <3> HIDE DEF N, zero, zeroes, f
        <3> QED BY <2>6
    <2> HIDE DEF c, zero
    <2> QED BY <2>5, <2>7
<1>6. DOMAIN worth = N /\ worth = [f \in DOMAIN worth |-> worth[f]]
    <2> HIDE DEF N, zeroes
    <2> QED OBVIOUS
<1>7. Names(fields, Len(fields)) = N
    BY <1>1, <1>4, Zenon DEF Names
<1> HIDE DEF worth, N, zeroes, r
<1>8. r # Error => r = Zero(worth) /\ r.value = worth
    BY <1>3, ZeroHas
<1> HIDE DEF zero
<1> QED BY <1>5, <1>6, <1>7, <1>8 DEF r, zero

\* A type has no zero exactly if it needs an unknown size or layout.
NoneIf(t) == \A at \in Places : zeroValue[t][at] = Error <=> unsized[t][at]

\* The fields have none if one of them has none.
LEMMA NoFields ==
    ASSUME NEW owner \in STRING, NEW fields, Layout(fields, Types),
           \A i \in DOMAIN fields : NoneIf(fields[i].type)
    PROVE  zeroFields(Each(zeroValue, fields), owner, fields) = Error
           <=> \E g \in ToSet(fields) : unsized[g.type][<<owner, g.name>>]
<1> DEFINE P(i) == Each(zeroValue, fields)[i][<<owner, fields[i].name>>] = Error
           Q(i) == unsized[fields[i].type][<<owner, fields[i].name>>]
           r == zeroFields(Each(zeroValue, fields), owner, fields)
           U == \E g \in ToSet(fields) : unsized[g.type][<<owner, g.name>>]
<1>1. r = Error <=> \E i \in DOMAIN fields : P(i)
    <2>1. \A zeros : zeroFields(zeros, owner, fields) = Error
              <=> \E i \in DOMAIN fields : zeros[i][<<owner, fields[i].name>>] = Error
        BY FieldWithout, Zenon
    <2> QED BY <2>1, Zenon
<1>2. ASSUME NEW i \in DOMAIN fields PROVE P(i) <=> Q(i)
    <2>1. Each(zeroValue, fields)[i] = zeroValue[fields[i].type]
        BY DEF Each
    <2>2. <<owner, fields[i].name>> \in Places
        BY LayoutIs DEF Places
    <2> QED BY <2>1, <2>2, Zenon DEF NoneIf
<1>3. U <=> \E i \in DOMAIN fields : Q(i)
    <2>1. ToSet(fields) = {fields[i] : i \in DOMAIN fields}
        BY FieldNumbers
    <2> QED BY <2>1, Zenon
<1> HIDE DEF P, Q, r, U
<1>4. r = Error <=> U
    BY <1>1, <1>2, <1>3, Zenon
<1> QED BY <1>4 DEF r, U

\* Whatever type the catalogue has.
LEMMA AllNoneIf == \A t \in Types : NoneIf(t)
<1> DEFINE S == {t \in Types : NoneIf(t)}
<1>1. ASSUME NEW t \in Types, \A u \in Types : Nesting[u] < Nesting[t] => u \in S
      PROVE  t \in S
    <2> SUFFICES ASSUME NEW at \in Places PROVE zeroValue[t][at] = Error <=> unsized[t][at]
        BY DEF NoneIf
    <2>1. CASE t.kind = "array"
        <3>1. zeroValue[t.elem][at] = Error <=> unsized[t.elem][at]
            BY <1>1, <2>1, TypeFacts DEF NoneIf
        <3>2. zeroValue[t][at] = Error <=> at \notin DOMAIN fixedArrays \/ zeroValue[t.elem][at] = Error
            <4>1. zeroValue[t][at] = zeroArray(zeroValue[t.elem][at], at)
                BY <2>1, ZeroAt, Zenon DEF zeroType
            <4> QED BY <4>1, ZeroHas, Zenon DEF zeroArray
        <3>3. unsized[t][at] <=> at \notin DOMAIN fixedArrays \/ unsized[t.elem][at]
            BY <2>1, UnsizedAt, Zenon DEF UnsizedOf
        <3> QED BY <3>1, <3>2, <3>3, Zenon
    <2>2. CASE t.kind = "struct" /\ t.name \in DOMAIN structs
        <3> DEFINE fields == structs[t.name]
        <3>1. t.name \in STRING /\ Layout(fields, Types) /\ \A i \in DOMAIN fields : NoneIf(fields[i].type)
            BY <1>1, <2>2, LayoutsAre, TypeFacts
        <3>2. zeroFields(Each(zeroValue, fields), t.name, fields) = Error
              <=> \E g \in ToSet(fields) : unsized[g.type][<<t.name, g.name>>]
            BY <3>1, NoFields, Zenon
        <3>3. zeroValue[t][at] = Error <=> zeroFields(Each(zeroValue, fields), t.name, fields) = Error
            <4>1. zeroValue[t][at] = zeroStruct(Each(zeroValue, fields), t.name)
                BY <2>2, ZeroAt, Zenon DEF zeroType
            <4> QED BY <4>1, ZeroHas, Zenon DEF zeroStruct
        <3>4. unsized[t][at] <=> \E g \in ToSet(fields) : unsized[g.type][<<t.name, g.name>>]
            BY <2>2, UnsizedAt, Zenon DEF UnsizedOf
        <3> QED BY <3>2, <3>3, <3>4, Zenon
    <2>3. CASE t.kind = "struct" /\ t.name \notin DOMAIN structs
        <3>1. zeroValue[t][at] = Error
            BY <2>3, ZeroAt, Zenon DEF zeroType
        <3>2. UnsizedOf(unsized, t, at)
            BY <2>3 DEF UnsizedOf
        <3> QED BY <3>1, <3>2, UnsizedAt
    <2>4. CASE t.kind \in {"list", "integer", "float", "boolean", "string", "chars"}
        <3>1. ~UnsizedOf(unsized, t, at)
            BY <2>4 DEF UnsizedOf
        <3>2. zeroValue[t][at] # Error
            <4>1. \E v : zeroValue[t][at] = Zero(v)
                BY <2>4, ZeroAt, Zenon DEF zeroType
            <4> QED BY <4>1, ZeroHas, Zenon
        <3> QED BY <3>1, <3>2, UnsizedAt, Zenon
    <2> QED BY <2>1, <2>2, <2>3, <2>4, KindsAre
<1> HIDE DEF S
<1>2. \A t \in Types : t \in S
    BY <1>1, TypeInduction
<1> QED BY <1>2 DEF S

-----------------------------------------------------------------------------
(* What fits its type can be sent, and arrives as it is.                   *)

FitsDef(p, f, t) == [q \in Places \X GoValues |-> FitsOf(f, t, q[1], q[2])]

FitsIs == INSTANCE Ranked WITH Dom <- TypesDom, Rank <- TypesRank, Def <- FitsDef

fits == CHOOSE f : f = [t \in Types |-> FitsDef(0, f, t)]

\* Fits is one function of the types, the places and the values.
LEMMA FitsDefined ==
    /\ fits = [t \in Types |-> FitsDef(0, fits, t)]
    /\ \A t, at, v : Fits(t, at, v) = fits[t][<<at, v>>]
<1>1. FitsIs!Ranks(0)
    BY TypeFacts DEF FitsIs!Ranks, TypesDom, TypesRank
<1>2. FitsIs!Descends(0)
    <2> SUFFICES ASSUME NEW t \in Types, NEW g, NEW h,
                        \A y \in Types : Nesting[y] < Nesting[t] => g[y] = h[y]
                 PROVE  FitsDef(0, g, t) = FitsDef(0, h, t)
        BY DEF FitsIs!Descends, TypesDom, TypesRank
    <2>1. t.kind \in {"array", "list"} => g[t.elem] = h[t.elem]
        BY TypeFacts
    <2>2. t.kind = "struct" /\ t.name \in DOMAIN structs =>
              \A i \in DOMAIN structs[t.name] : g[structs[t.name][i].type] = h[structs[t.name][i].type]
        BY TypeFacts
    <2>3. ASSUME NEW at, NEW w PROVE FitsOf(g, t, at, w) = FitsOf(h, t, at, w)
        BY <2>1, <2>2 DEF FitsOf
    <2> QED BY <2>3, Zenon DEF FitsDef
<1>3. \E f : f = [t \in Types |-> FitsDef(0, f, t)]
    BY <1>1, <1>2, FitsIs!RankedRecursion DEF TypesDom
<1>4. fits = [t \in Types |-> FitsDef(0, fits, t)]
    BY <1>3, Zenon DEF fits
<1>5. \A t, at, v : Fits(t, at, v) = fits[t][<<at, v>>]
    BY Zenon DEF Fits, fits, FitsDef
<1> QED BY <1>4, <1>5, Zenon

\* A value fits if FitsOf says so.
LEMMA FitsAt ==
    ASSUME NEW t \in Types, NEW at \in Places, NEW v \in GoValues
    PROVE  Fits(t, at, v) = FitsOf(fits, t, at, v)
<1> DEFINE q == <<at, v>>
<1>1. q \in Places \X GoValues /\ q[1] = at /\ q[2] = v
    OBVIOUS
<1> HIDE DEF q
<1>2. fits[t] = FitsDef(0, fits, t)
    BY FitsDefined, Zenon
<1>3. FitsDef(0, fits, t)[q] = FitsOf(fits, t, q[1], q[2])
    BY <1>1, Zenon DEF FitsDef
<1>4. Fits(t, at, v) = fits[t][q]
    BY FitsDefined, Zenon DEF q
<1> QED BY <1>1, <1>2, <1>3, <1>4, Zenon

\* The value v of the type t at the place is written, carried and kept.
Sent(t, at, v) == encodeValue[t][<<at, v>>] # Error /\ Carried(t, v) /\ Kept(t, v) = v

\* What fits the type is.
FitsSent(t) == \A at \in Places, v \in GoValues : Fits(t, at, v) => Sent(t, at, v)

\* Pieces without errors can be joined.
LEMMA AllCanJoin ==
    ASSUME NEW n \in Nat, NEW pieces, \A i \in 1 .. n : pieces[i] # Error
    PROVE  AllJoined(n, pieces) # Error
<1> DEFINE F == FirstPieces(n, pieces)
           S == {k \in Nat : k <= n => F[k] # Error}
<1>1. /\ AllJoined(n, pieces) = F[n] /\ F[0] = Written(<<>>)
      /\ \A k \in Nat : k < n => F[k + 1] = Joined(F[k], pieces[k + 1])
    BY JoinedSteps
<1>w. \A bytes : Written(bytes) # Error
    BY DEF Written, Error
<1> HIDE DEF F
<1>2. 0 \in S
    BY <1>1, <1>w
<1>3. ASSUME NEW k \in Nat, k \in S PROVE k + 1 \in S
    <2> SUFFICES ASSUME k + 1 <= n PROVE F[k + 1] # Error
        OBVIOUS
    <2>1. k < n /\ k <= n /\ k + 1 \in 1 .. n
        OBVIOUS
    <2>2. F[k] # Error /\ pieces[k + 1] # Error
        BY <1>3, <2>1
    <2>3. F[k + 1] = Written(F[k].bytes \o pieces[k + 1].bytes)
        BY <1>1, <2>1, <2>2 DEF Joined
    <2> QED BY <1>w, <2>3
<1> HIDE DEF S
<1>4. n \in S
    BY <1>2, <1>3, NatSet
<1> QED BY <1>1, <1>4 DEF S

\* A Go value is what its dynamic type and its content make it.
LEMMA GoFormIs ==
    ASSUME NEW v \in GoValues
    PROVE  /\ v.go \in Ints \cup Floats => v = Num(v.go, v.n)
           /\ v.go = "[]any" => v = Items(v.items)
           /\ v.go = "Values" => v = Values(v.fields)
<1>1. GoValue(v, GoValues)
    BY ValuesAssumption DEF AllGoValues
<1>2. CASE v \in [go : Ints \cup Floats, n : Int]
    BY <1>2 DEF Ints, Floats, Num
<1>3. CASE v \in [go : {"bool"}, b : BOOLEAN]
    BY <1>3 DEF Ints, Floats
<1>4. CASE v \in [go : {"string"}, s : Seq(Seq(Utf16))] /\ Len(Units(v.s)) < Power[4]
    BY <1>4 DEF Ints, Floats
<1>5. CASE v \in [go : {"[]any"}, items : Seq(GoValues)] /\ Len(v.items) < Power[4]
    BY <1>5 DEF Ints, Floats, Items
<1>6. CASE /\ v \in [go : {"Values", "map"}, fields : [DOMAIN v.fields -> GoValues]]
           /\ DOMAIN v.fields \subseteq STRING
    BY <1>6 DEF Ints, Floats, Values
<1> QED BY <1>1, <1>2, <1>3, <1>4, <1>5, <1>6 DEF GoValue

\* The values of the fields in their order are, by their names, what they were.
LEMMA ByNameBack ==
    ASSUME NEW fields, Layout(fields, Types), NEW seen, DOMAIN seen = DOMAIN fields,
           NEW values, values = [f \in DOMAIN values |-> values[f]],
           DOMAIN values = Names(fields, Len(fields)),
           \A i \in DOMAIN fields : seen[i] = values[fields[i].name]
    PROVE  ByName(fields, seen) = values
<1> DEFINE b == ByName(fields, seen)
<1>1. DOMAIN fields = 1 .. Len(fields) /\ Len(fields) \in Nat
    BY LayoutIs
<1>2. b = [f \in {fields[i].name : i \in DOMAIN seen} |->
              seen[CHOOSE i \in DOMAIN seen : fields[i].name = f]]
    BY DEF ByName
<1>3. DOMAIN b = Names(fields, Len(fields)) /\ b = [f \in DOMAIN b |-> b[f]]
    BY <1>1, <1>2 DEF Names
<1>4. ASSUME NEW i \in DOMAIN fields PROVE b[fields[i].name] = seen[i]
    <2>1. fields[i].name \in {fields[j].name : j \in DOMAIN seen}
        OBVIOUS
    <2>2. b[fields[i].name] = seen[CHOOSE j \in DOMAIN seen : fields[j].name = fields[i].name]
        BY <1>2, <2>1, Zenon
    <2> DEFINE c == CHOOSE j \in DOMAIN seen : fields[j].name = fields[i].name
    <2>3. c \in DOMAIN seen /\ fields[c].name = fields[i].name
        BY Zenon
    <2> HIDE DEF c
    <2>4. c = i
        BY <2>3, LayoutIs
    <2> QED BY <2>2, <2>4, Zenon DEF c
<1> HIDE DEF b
<1>5. ASSUME NEW f \in DOMAIN b PROVE b[f] = values[f]
    <2>1. PICK i \in DOMAIN fields : f = fields[i].name
        BY <1>1, <1>3 DEF Names
    <2> QED BY <1>4, <2>1
<1> QED BY <1>3, <1>5 DEF b

\* A number of the width's range does not wrap.
LEMMA InRangeStays ==
    ASSUME NEW n \in Int, NEW width \in Nat, NEW signed \in BOOLEAN,
           IF signed THEN -Power[width] <= 2 * n /\ 2 * n < Power[width]
           ELSE 0 <= n /\ n < Power[width]
    PROVE  Wrapped(n, Integer(width, signed)) = n
<1>1. CASE signed
    <2>1. Signed(n % Power[width], width) = n
        BY <1>1, SignedIs
    <2> QED BY <1>1, <2>1, WrappedIs
<1>2. CASE ~signed
    <2> DEFINE p == Power[width]
    <2>1. p \in Nat /\ p > 0
        BY PowerSteps
    <2>2. n % p = n
        <3> HIDE DEF p
        <3>1. 0 \in Int /\ 0 <= n /\ n < p /\ n = p * 0 + n
            <4>1. 0 <= n /\ n < p
                BY <1>2 DEF p
            <4> QED BY <2>1, <4>1
        <3> QED BY <2>1, <3>1, Remainder
    <2> QED BY <1>2, <2>2, WrappedIs
<1> QED BY <1>1, <1>2

\* The types that nest no other.
LEMMA ScalarSent ==
    ASSUME NEW t \in Types, t.kind \in {"integer", "float", "boolean", "string", "chars"}
    PROVE  FitsSent(t)
<1> SUFFICES ASSUME NEW at \in Places, NEW v \in GoValues, Fits(t, at, v) PROVE Sent(t, at, v)
    BY DEF FitsSent
<1>1. FitsOf(fits, t, at, v)
    BY FitsAt, Zenon
<1>2. v \in GoValues
    OBVIOUS
<1>4. \A bytes : Written(bytes) # Error
    BY DEF Written, Error
<1>5. \/ t \in Scalars \/ t \in [kind : {"array", "list"}, elem : Types]
      \/ t \in [kind : {"struct"}, name : STRING]
    BY TypesAssumption DEF Deeper
<1>6. /\ encodeValue[t][<<at, v>>] = encodeType(encodeValue, t, at, v)
      /\ Kept(t, v) = KeptOf(kept, t, v) /\ (Carried(t, v) <=> CarriedOf(carried, t, v))
    BY <1>2, ValueAt, KeptAt
<1>7. CASE t.kind = "integer"
    <2>1. t.width \in Nat /\ t.signed \in BOOLEAN /\ t = Integer(t.width, t.signed)
        <3>1. t \in [kind : {"integer"}, width : {1, 2, 4, 8}, signed : BOOLEAN]
            BY <1>5, <1>7 DEF Scalars
        <3> QED BY <3>1 DEF Integer
    <2>2. /\ v.go = IF t.signed THEN "int64" ELSE "uint64"
          /\ IF t.signed THEN -Power[t.width] <= 2 * v.n /\ 2 * v.n < Power[t.width]
             ELSE 0 <= v.n /\ v.n < Power[t.width]
        BY <1>1, <1>7, Zenon DEF FitsOf
    <2>3. v.go \in Ints /\ v.go \notin Floats
        BY <2>1, <2>2 DEF Ints, Floats
    <2>4. v.n \in Int /\ v = Num(v.go, v.n)
        <3>1. v.n \in Int
            BY <1>2, <2>3, GoValueIs
        <3>2. v = Num(v.go, v.n)
            BY <1>2, <2>3, GoFormIs
        <3> QED BY <3>1, <3>2
    <2>5. encodeValue[t][<<at, v>>] # Error
        BY <1>4, <1>6, <1>7, <2>3 DEF encodeType, encodeInteger, IntegerSources
    <2>6. Carried(t, v)
        BY <1>6, <1>7 DEF CarriedOf
    <2>7. Wrapped(v.n, Integer(t.width, t.signed)) = v.n
        BY <2>1, <2>2, <2>4, InRangeStays
    <2>8. Whole(v) = v.n
        BY <2>3 DEF Whole
    <2>9. Kept(t, v) = Num(IF t.signed THEN "int64" ELSE "uint64", Wrapped(Whole(v), t))
        BY <1>6, <1>7 DEF KeptOf
    <2>10. Kept(t, v) = v
        BY <2>1, <2>2, <2>4, <2>7, <2>8, <2>9, Zenon
    <2> QED BY <2>5, <2>6, <2>10 DEF Sent
<1>8. CASE t.kind = "float"
    <2>2. /\ v.go = "float64" /\ Halves(v, t.width) = v.n
          /\ -Power[t.width] <= 2 * v.n /\ 2 * v.n < Power[t.width]
        BY <1>1, <1>8, Zenon DEF FitsOf
    <2>3. v.go \in Floats /\ v.go \in FloatSources
        BY <2>2 DEF Floats, FloatSources
    <2>4. v = Num(v.go, v.n)
        BY <1>2, <2>3, GoFormIs
    <2>5. encodeValue[t][<<at, v>>] # Error
        BY <1>4, <1>6, <1>8, <2>3 DEF encodeType, encodeFloat
    <2>7. Carried(t, v)
        BY <1>6, <1>8, <2>2 DEF CarriedOf
    <2>8. Kept(t, v) = Num("float64", Halves(v, t.width))
        BY <1>6, <1>8 DEF KeptOf
    <2>9. Kept(t, v) = v
        BY <2>2, <2>4, <2>8, Zenon
    <2> QED BY <2>5, <2>7, <2>9 DEF Sent
<1>9. CASE t.kind = "boolean"
    <2>1. v.go = "bool"
        BY <1>1, <1>9 DEF FitsOf
    <2>2. encodeValue[t][<<at, v>>] # Error
        BY <1>4, <1>6, <1>9, <2>1 DEF encodeType, encodeBoolean
    <2>3. Carried(t, v) /\ Kept(t, v) = v
        BY <1>6, <1>9 DEF CarriedOf, KeptOf
    <2> QED BY <2>2, <2>3 DEF Sent
<1>10. CASE t.kind \in {"string", "chars"}
    <2>1. /\ v.go = "string"
          /\ t.kind = "string" => v.s \in Seq(Rune)
          /\ t.kind = "chars" => v.s \in Seq(Rune \ {<<0>>})
        BY <1>1, <1>10 DEF FitsOf
    <2>3. encodeValue[t][<<at, v>>] # Error
        BY <1>4, <1>6, <1>10, <2>1 DEF encodeType, encodeString, encodeChars
    <2>5. Carried(t, v) /\ Kept(t, v) = v
        BY <1>6, <1>10, <2>1 DEF CarriedOf, KeptOf
    <2> QED BY <2>3, <2>5 DEF Sent
<1> QED BY <1>7, <1>8, <1>9, <1>10

\* Items are sent if each of them is.
LEMMA ItemsSent ==
    ASSUME NEW t \in Types, t.kind \in {"array", "list"}, NEW at \in Places, NEW v \in GoValues,
           v.go = "[]any", \A i \in DOMAIN v.items : Sent(t.elem, at, v.items[i])
    PROVE  /\ encodeItems(encodeValue[t.elem], at, v.items) # Error
           /\ Carried(t, v) /\ Kept(t, v) = v
<1> DEFINE e == t.elem  items == v.items  n == Len(items)
<1>1. items \in Seq(GoValues) /\ DOMAIN items = 1 .. n /\ n \in Nat
    BY GoValueIs
<1>2. v = Items(items)
    BY GoFormIs
<1>3. Kept(t, v) = KeptOf(kept, t, v) /\ (Carried(t, v) <=> CarriedOf(carried, t, v))
    BY KeptAt
<1> HIDE DEF items, n, e
<1>4. v.items = items /\ t.elem = e
    BY DEF items, e
<1>5. encodeItems(encodeValue[e], at, items) # Error
    <2> DEFINE pieces == [i \in DOMAIN items |-> encodeValue[e][<<at, items[i]>>]]
    <2>1. \A i \in 1 .. n : pieces[i] # Error
        BY <1>1, <1>4 DEF Sent
    <2>2. encodeItems(encodeValue[e], at, items) = AllJoined(n, pieces)
        BY <1>1 DEF encodeItems, n
    <2> HIDE DEF pieces
    <2>3. AllJoined(n, pieces) # Error
        BY <1>1, <2>1, AllCanJoin
    <2> QED BY <2>2, <2>3
<1>6. Carried(t, v)
    <2>1. \A i \in DOMAIN items : carried[e][items[i]]
        BY <1>4, CarriedDefined, Zenon DEF Sent
    <2>2. CarriedOf(carried, t, v) <=> \A i \in DOMAIN v.items : carried[t.elem][v.items[i]]
        BY Zenon DEF CarriedOf
    <2> QED BY <1>3, <1>4, <2>1, <2>2, Zenon
<1>7. Kept(t, v) = v
    <2>1. Kept(t, v) = Items([i \in DOMAIN items |-> kept[e][items[i]]])
        BY <1>3, <1>4 DEF KeptOf
    <2>2. \A i \in DOMAIN items : kept[e][items[i]] = items[i]
        BY <1>4, KeptDefined, Zenon DEF Sent
    <2>3. [i \in DOMAIN items |-> kept[e][items[i]]] = items
        BY <1>1, <2>2
    <2> QED BY <1>2, <2>1, <2>3
<1> QED BY <1>4, <1>5, <1>6, <1>7

\* Arrays and lists, if what is inside is.
LEMMA NestedSent ==
    ASSUME NEW t \in Types, t.kind \in {"array", "list"}, FitsSent(t.elem) PROVE FitsSent(t)
<1> SUFFICES ASSUME NEW at \in Places, NEW v \in GoValues, Fits(t, at, v) PROVE Sent(t, at, v)
    BY DEF FitsSent
<1>1. FitsOf(fits, t, at, v) /\ t.elem \in Types
    BY FitsAt, TypeFacts, Zenon
<1>2. /\ v.go = "[]any" /\ \A i \in DOMAIN v.items : fits[t.elem][<<at, v.items[i]>>]
      /\ t.kind = "array" => at \in DOMAIN fixedArrays /\ Len(v.items) = fixedArrays[at]
    BY <1>1, Zenon DEF FitsOf
<1>3. ASSUME NEW i \in DOMAIN v.items PROVE Sent(t.elem, at, v.items[i])
    <2>1. v.items[i] \in GoValues
        BY <1>2, GoValueIs
    <2>2. Fits(t.elem, at, v.items[i])
        BY <1>2, FitsDefined, Zenon
    <2> QED BY <2>1, <2>2 DEF FitsSent
<1>4. /\ encodeItems(encodeValue[t.elem], at, v.items) # Error
      /\ Carried(t, v) /\ Kept(t, v) = v
    BY <1>2, <1>3, ItemsSent
<1>5. encodeValue[t][<<at, v>>] = encodeType(encodeValue, t, at, v)
    BY ValueAt
<1>6. CASE t.kind = "array"
    <2>1. encodeValue[t][<<at, v>>] = encodeArray(encodeValue[t.elem], at, v)
        BY <1>5, <1>6 DEF encodeType
    <2>2. encodeValue[t][<<at, v>>] = encodeItems(encodeValue[t.elem], at, v.items)
        BY <1>2, <1>6, <2>1 DEF encodeArray
    <2> QED BY <1>4, <2>2 DEF Sent
<1>7. CASE t.kind = "list"
    <2>1. encodeValue[t][<<at, v>>] =
              Joined(Written(LittleEndian(Len(v.items), 4)), encodeItems(encodeValue[t.elem], at, v.items))
        BY <1>2, <1>5, <1>7 DEF encodeType, encodeList
    <2>2. \A bytes : Written(bytes) # Error
        BY DEF Written, Error
    <2>3. encodeValue[t][<<at, v>>] # Error
        BY <1>4, <2>1, <2>2 DEF Joined
    <2> QED BY <1>4, <2>3 DEF Sent
<1> QED BY <1>6, <1>7

\* The values of all fields, by their names, can be sent if those of their types can.
FieldsFit(owner, fields, values) ==
    /\ DOMAIN values = Names(fields, Len(fields))
    /\ \A i \in DOMAIN fields : Fits(fields[i].type, <<owner, fields[i].name>>, values[fields[i].name])

LEMMA FieldsSent ==
    ASSUME NEW owner \in STRING, NEW fields, Layout(fields, Types),
           \A i \in DOMAIN fields : FitsSent(fields[i].type),
           NEW values, \A f \in DOMAIN values : values[f] \in GoValues,
           FieldsFit(owner, fields, values)
    PROVE  /\ encodeFields(Each(encodeValue, fields), owner, fields, values) # Error
           /\ \A i \in DOMAIN fields :
                 LET t == fields[i].type  v == values[fields[i].name]
                 IN  Carried(t, v) /\ Kept(t, v) = v
<1> DEFINE n == Len(fields)
           encoders == Each(encodeValue, fields)
           pieces == [i \in DOMAIN fields |->
                        LET name == fields[i].name
                        IN  IF name \notin DOMAIN values THEN Error
                            ELSE encoders[i][<<<<owner, name>>, values[name]>>]]
<1>1. /\ n \in Nat /\ DOMAIN fields = 1 .. n
      /\ \A i \in DOMAIN fields : fields[i].name \in STRING /\ fields[i].type \in Types
    BY LayoutIs
<1>4. ASSUME NEW i \in DOMAIN fields
      PROVE  /\ fields[i].name \in DOMAIN values
             /\ Sent(fields[i].type, <<owner, fields[i].name>>, values[fields[i].name])
    <2> DEFINE t == fields[i].type  at == <<owner, fields[i].name>>  v == values[fields[i].name]
    <2>1. fields[i].name \in DOMAIN values /\ Fits(t, at, v)
        BY <1>1 DEF Names, FieldsFit
    <2>2. v \in GoValues
        BY <2>1
    <2>3. at \in Places /\ FitsSent(t)
        BY <1>1 DEF Places
    <2> HIDE DEF t, at, v
    <2>4. Sent(t, at, v)
        BY <2>1, <2>2, <2>3 DEF FitsSent
    <2> QED BY <2>1, <2>4 DEF t, at, v
<1>5. ASSUME NEW i \in 1 .. n PROVE pieces[i] # Error
    <2> DEFINE t == fields[i].type  at == <<owner, fields[i].name>>  v == values[fields[i].name]
    <2>1. i \in DOMAIN fields /\ fields[i].name \in DOMAIN values /\ Sent(t, at, v)
        BY <1>1, <1>4
    <2>2. encoders[i] = encodeValue[t]
        BY <2>1 DEF Each
    <2>3. pieces[i] = encodeValue[t][<<at, v>>]
        BY <2>1, <2>2
    <2> HIDE DEF pieces, t, at, v
    <2> QED BY <2>1, <2>3 DEF Sent
<1>6. encodeFields(encoders, owner, fields, values) = AllJoined(n, pieces)
    BY DEF encodeFields
<1>7. AllJoined(n, pieces) # Error
    <2> HIDE DEF pieces, n
    <2> QED BY <1>1, <1>5, AllCanJoin
<1> HIDE DEF pieces, encoders, n
<1>8. encodeFields(encoders, owner, fields, values) # Error
    BY <1>6, <1>7
<1>10. ASSUME NEW i \in DOMAIN fields
       PROVE  /\ Carried(fields[i].type, values[fields[i].name])
              /\ Kept(fields[i].type, values[fields[i].name]) = values[fields[i].name]
    BY <1>4, Zenon DEF Sent
<1> QED BY <1>8, <1>10 DEF encoders

\* A nested type, if its fields are.
LEMMA StructSent ==
    ASSUME NEW t \in Types, t.kind = "struct",
           t.name \in DOMAIN structs =>
              \A i \in DOMAIN structs[t.name] : FitsSent(structs[t.name][i].type)
    PROVE  FitsSent(t)
<1> SUFFICES ASSUME NEW at \in Places, NEW v \in GoValues, Fits(t, at, v) PROVE Sent(t, at, v)
    BY DEF FitsSent
<1> DEFINE fields == structs[t.name]  values == v.fields
<1>1. FitsOf(fits, t, at, v)
    BY FitsAt, Zenon
<1>2. /\ v.go = "Values" /\ t.name \in DOMAIN structs
      /\ DOMAIN v.fields = Names(fields, Len(fields))
      /\ \A i \in DOMAIN fields :
            fits[fields[i].type][<<<<t.name, fields[i].name>>, v.fields[fields[i].name]>>]
    BY <1>1, Zenon DEF FitsOf
<1>3. t.name \in STRING /\ Layout(fields, Types) /\ \A i \in DOMAIN fields : FitsSent(fields[i].type)
    BY <1>2, LayoutsAre
<1>4. values \in [DOMAIN values -> GoValues]
    BY <1>2, GoValueIs
<1>5. v = Values(values)
    BY <1>2, GoFormIs
<1>6. FieldsFit(t.name, fields, values)
    <2>1. \A i \in DOMAIN fields : Fits(fields[i].type, <<t.name, fields[i].name>>, values[fields[i].name])
        BY <1>2, FitsDefined, Zenon
    <2> HIDE DEF fields
    <2> QED BY <1>2, <2>1 DEF FieldsFit
<1> HIDE DEF values
<1>7. v.fields = values /\ \A f \in DOMAIN values : values[f] \in GoValues
    BY <1>4 DEF values
<1>8. values = [f \in DOMAIN values |-> values[f]]
    BY <1>4
<1>9. /\ encodeFields(Each(encodeValue, fields), t.name, fields, values) # Error
      /\ \A i \in DOMAIN fields :
            /\ Carried(fields[i].type, values[fields[i].name])
            /\ Kept(fields[i].type, values[fields[i].name]) = values[fields[i].name]
    <2> HIDE DEF fields
    <2> QED BY <1>3, <1>6, <1>7, FieldsSent
<1>10. /\ encodeValue[t][<<at, v>>] = encodeType(encodeValue, t, at, v)
       /\ Kept(t, v) = KeptOf(kept, t, v) /\ (Carried(t, v) <=> CarriedOf(carried, t, v))
    BY ValueAt, KeptAt
<1>11. encodeValue[t][<<at, v>>] # Error
    <2>1. encodeValue[t][<<at, v>>] = encodeStruct(Each(encodeValue, fields), t.name, v)
        BY <1>2, <1>10 DEF encodeType
    <2>2. encodeValue[t][<<at, v>>] =
              Joined(Written(OpcodePrefix(t.name)),
                     encodeFields(Each(encodeValue, fields), t.name, fields, values))
        BY <1>2, <1>7, <2>1 DEF encodeStruct
    <2>3. \A bytes : Written(bytes) # Error
        BY DEF Written, Error
    <2> HIDE DEF fields
    <2> QED BY <1>9, <2>2, <2>3 DEF Joined
<1>12. Carried(t, v)
    <2>1. CarriedOf(carried, t, v) <=>
              \A i \in DOMAIN fields : carried[fields[i].type][v.fields[fields[i].name]]
        BY <1>2, Zenon DEF CarriedOf
    <2>2. \A i \in DOMAIN fields : carried[fields[i].type][values[fields[i].name]]
        <3> HIDE DEF fields
        <3> QED BY <1>9, CarriedDefined, Zenon
    <2> HIDE DEF fields
    <2> QED BY <1>7, <1>10, <2>1, <2>2, Zenon
<1> DEFINE kepts == [i \in DOMAIN fields |-> kept[fields[i].type][v.fields[fields[i].name]]]
<1>13. Kept(t, v) = Values(ByName(fields, kepts))
    BY <1>2, <1>10, Zenon DEF KeptOf
<1>14. ByName(fields, kepts) = values
    <2>d. DOMAIN values = Names(fields, Len(fields))
        BY <1>2, <1>7
    <2> HIDE DEF fields
    <2>1. DOMAIN fields = 1 .. Len(fields) /\ Len(fields) \in Nat
        BY <1>3, LayoutIs
    <2>2. ASSUME NEW i \in DOMAIN fields PROVE kepts[i] = values[fields[i].name]
        BY <1>7, <1>9, KeptDefined, Zenon
    <2>3. DOMAIN kepts = DOMAIN fields
        OBVIOUS
    <2> HIDE DEF kepts
    <2> QED BY <1>3, <1>8, <2>d, <2>1, <2>2, <2>3, ByNameBack
<1>15. Kept(t, v) = v
    BY <1>5, <1>13, <1>14, Zenon
<1> QED BY <1>11, <1>12, <1>15 DEF Sent

\* Whatever type the catalogue has, what fits it can be sent and arrives as it is.
LEMMA AllSent == \A t \in Types : FitsSent(t)
<1> DEFINE S == {t \in Types : FitsSent(t)}
<1>1. ASSUME NEW t \in Types, \A u \in Types : Nesting[u] < Nesting[t] => u \in S
      PROVE  t \in S
    <2>1. CASE t.kind \in {"array", "list"}
        <3>1. FitsSent(t.elem)
            BY <1>1, <2>1, TypeFacts
        <3> QED BY <2>1, <3>1, NestedSent
    <2>2. CASE t.kind = "struct"
        <3>1. t.name \in DOMAIN structs =>
                  \A i \in DOMAIN structs[t.name] : FitsSent(structs[t.name][i].type)
            BY <1>1, <2>2, TypeFacts
        <3> QED BY <2>2, <3>1, StructSent
    <2>3. CASE t.kind \in {"integer", "float", "boolean", "string", "chars"}
        BY <2>3, ScalarSent
    <2> QED BY <2>1, <2>2, <2>3, KindsAre
<1> HIDE DEF S
<1>2. \A t \in Types : t \in S
    BY <1>1, TypeInduction
<1> QED BY <1>2 DEF S

-----------------------------------------------------------------------------
(* A zero fits its type.                                                   *)

\* The zeroes of the type do.
ZeroFits(t) ==
    \A at \in Places :
        zeroValue[t][at] # Error /\ zeroValue[t][at].value \in GoValues =>
            Fits(t, at, zeroValue[t][at].value)

\* The types that nest no other, and the empty list.
LEMMA ScalarZeroFits ==
    ASSUME NEW t \in Types, t.kind \in {"list", "integer", "float", "boolean", "string", "chars"}
    PROVE  ZeroFits(t)
<1> SUFFICES ASSUME NEW at \in Places, zeroValue[t][at] # Error, zeroValue[t][at].value \in GoValues
             PROVE  Fits(t, at, zeroValue[t][at].value)
    BY DEF ZeroFits
<1> DEFINE v == zeroValue[t][at].value
<1>1. v \in GoValues
    OBVIOUS
<1>2. \A w : Zero(w).value = w
    BY ZeroHas
<1>3. zeroValue[t][at] = zeroType(zeroValue, t, at)
    BY ZeroAt
<1>4. \/ t \in Scalars \/ t \in [kind : {"array", "list"}, elem : Types]
      \/ t \in [kind : {"struct"}, name : STRING]
    BY TypesAssumption DEF Deeper
<1> HIDE DEF v
<1>5. Fits(t, at, v) = FitsOf(fits, t, at, v)
    BY <1>1, FitsAt
<1>6. \A width \in Nat : Power[width] \in Nat /\ Power[width] > 0
    BY PowerSteps
<1>7. CASE t.kind = "integer"
    <2>1. t.width \in Nat /\ t.signed \in BOOLEAN
        <3>1. t \in [kind : {"integer"}, width : {1, 2, 4, 8}, signed : BOOLEAN]
            BY <1>4, <1>7 DEF Scalars
        <3> QED BY <3>1
    <2>2. v = Num(IF t.signed THEN "int64" ELSE "uint64", 0)
        BY <1>2, <1>3, <1>7 DEF v, zeroType
    <2>3. v.go = (IF t.signed THEN "int64" ELSE "uint64") /\ v.n = 0
        BY <2>2 DEF Num
    <2> DEFINE p == Power[t.width]
    <2>4. -p <= 2 * v.n /\ 2 * v.n < p /\ 0 <= v.n /\ v.n < p
        <3>1. p \in Nat /\ p > 0
            BY <1>6, <2>1
        <3> HIDE DEF p
        <3> QED BY <2>3, <3>1
    <2> QED BY <1>5, <1>7, <2>3, <2>4, Zenon DEF FitsOf, v
<1>8. CASE t.kind = "float"
    <2>1. t.width \in Nat
        <3>1. t \in [kind : {"float"}, width : {4, 8}]
            BY <1>4, <1>8 DEF Scalars
        <3> QED BY <3>1
    <2>2. v = Num("float64", 0)
        BY <1>2, <1>3, <1>8 DEF v, zeroType
    <2>3. v.go = "float64" /\ v.go \in Floats /\ v.n = 0
        BY <2>2 DEF Num, Floats
    <2> DEFINE p == Power[t.width]
    <2>4. -p <= 2 * v.n /\ 2 * v.n < p
        <3>1. p \in Nat /\ p > 0
            BY <1>6, <2>1
        <3> HIDE DEF p
        <3> QED BY <2>3, <3>1
    <2>5. Halves(v, t.width) = v.n
        <3>1. FloatStep \in Nat /\ FloatStep > 0
            BY CodecAssumption
        <3>2. ASSUME NEW f \in Nat, f > 0 PROVE (0 \div f) * f = 0
            <4>1. 0 \div f = 0
                BY <3>2
            <4> QED BY <3>2, <4>1
        <3>3. Rounded(0) = 0
            BY <3>1, <3>2 DEF Rounded
        <3> QED BY <2>3, <3>3, Zenon DEF Halves
    <2> QED BY <1>5, <1>8, <2>3, <2>4, <2>5, Zenon DEF FitsOf, v
<1>9. CASE t.kind = "boolean"
    <2>1. v = Bool(FALSE)
        BY <1>2, <1>3, <1>9, Zenon DEF v, zeroType
    <2>2. v.go = "bool"
        BY <2>1 DEF Bool
    <2> QED BY <1>5, <1>9, <2>2 DEF FitsOf, v
<1>10. CASE t.kind \in {"string", "chars"}
    <2>1. v = Text(<<>>)
        BY <1>2, <1>3, <1>10 DEF v, zeroType
    <2>2. v.go = "string" /\ v.s \in Seq(Rune) /\ v.s \in Seq(Rune \ {<<0>>})
        BY <2>1 DEF Text
    <2> QED BY <1>5, <1>10, <2>2 DEF FitsOf, v
<1>11. CASE t.kind = "list"
    <2>1. v = Items(<<>>)
        BY <1>2, <1>3, <1>11, Zenon DEF v, zeroType
    <2>2. v.go = "[]any" /\ DOMAIN v.items = {}
        BY <2>1 DEF Items
    <2> QED BY <1>5, <1>11, <2>2 DEF FitsOf, v
<1> QED BY <1>7, <1>8, <1>9, <1>10, <1>11

\* An array of what fits.
LEMMA ArrayZeroFits ==
    ASSUME NEW t \in Types, t.kind = "array", ZeroFits(t.elem) PROVE ZeroFits(t)
<1> SUFFICES ASSUME NEW at \in Places, zeroValue[t][at] # Error, zeroValue[t][at].value \in GoValues
             PROVE  Fits(t, at, zeroValue[t][at].value)
    BY DEF ZeroFits
<1> DEFINE v == zeroValue[t][at].value  e == t.elem  zero == zeroValue[e][at]  n == fixedArrays[at]
           items == [i \in 1 .. n |-> zero.value]
<1>1. v \in GoValues /\ e \in Types
    BY TypeFacts
<1>2. zeroValue[t][at] = zeroArray(zero, at)
    BY ZeroAt, Zenon DEF zeroType
<1>3. at \in DOMAIN fixedArrays /\ zero # Error /\ zeroValue[t][at] = Zero(Items(items))
    BY <1>2 DEF zeroArray
<1>4. v = Items(items)
    BY <1>3, ZeroHas
<1>5. n \in Nat
    BY <1>3, CatalogAssumption DEF Tables
<1> HIDE DEF v, zero, n, e, items
<1>6. v.go = "[]any" /\ v.items = items
    BY <1>4 DEF Items
<1>7. DOMAIN items = 1 .. n /\ Len(items) = n /\ \A i \in 1 .. n : items[i] = zero.value
    BY <1>5 DEF items
<1>8. items \in Seq(GoValues)
    BY <1>1, <1>6, GoValueIs
<1>9. ASSUME NEW i \in DOMAIN v.items PROVE fits[t.elem][<<at, v.items[i]>>]
    <2>1. v.items[i] = zero.value /\ zero.value \in GoValues
        BY <1>6, <1>7, <1>8
    <2>2. Fits(e, at, zero.value)
        BY <1>3, <2>1 DEF ZeroFits, zero, e
    <2> QED BY <2>1, <2>2, FitsDefined, Zenon DEF e
<1>10. FitsOf(fits, t, at, v)
    <2>1. Len(v.items) = fixedArrays[at]
        BY <1>6, <1>7 DEF n
    <2> QED BY <1>3, <1>6, <1>9, <2>1, Zenon DEF FitsOf
<1> QED BY <1>1, <1>10, FitsAt, Zenon DEF v

\* The zeroes of all fields.
LEMMA FieldZeroesFit ==
    ASSUME NEW owner \in STRING, NEW fields, Layout(fields, Types),
           \A i \in DOMAIN fields : ZeroFits(fields[i].type),
           NEW values, \A f \in DOMAIN values : values[f] \in GoValues,
           zeroFields(Each(zeroValue, fields), owner, fields) # Error,
           values = zeroFields(Each(zeroValue, fields), owner, fields).value
    PROVE  FieldsFit(owner, fields, values) /\ values = [f \in DOMAIN values |-> values[f]]
<1> DEFINE n == Len(fields)  zeros == Each(zeroValue, fields)
           r == zeroFields(zeros, owner, fields)
<1>1. /\ n \in Nat /\ DOMAIN fields = 1 .. n
      /\ \A i \in DOMAIN fields : fields[i].name \in STRING /\ fields[i].type \in Types
    BY LayoutIs
<1>2. /\ values = [f \in DOMAIN values |-> values[f]]
      /\ DOMAIN values = Names(fields, Len(fields))
      /\ \A i \in DOMAIN fields : values[fields[i].name] = zeros[i][<<owner, fields[i].name>>].value
    <2> HIDE DEF zeros, n
    <2>1. r # Error /\ values = r.value
        BY DEF zeros
    <2> QED BY <2>1, ZeroFieldsAre
<1>3. \A i \in DOMAIN fields : zeros[i][<<owner, fields[i].name>>] # Error
    <2>1. \A zs : zeroFields(zs, owner, fields) = Error
              <=> \E i \in DOMAIN fields : zs[i][<<owner, fields[i].name>>] = Error
        BY FieldWithout, Zenon
    <2> QED BY <2>1, Zenon
<1>4. ASSUME NEW i \in DOMAIN fields
      PROVE  Fits(fields[i].type, <<owner, fields[i].name>>, values[fields[i].name])
    <2> DEFINE t == fields[i].type  at == <<owner, fields[i].name>>  v == values[fields[i].name]
    <2>1. fields[i].name \in Names(fields, Len(fields))
        BY <1>1 DEF Names
    <2>2. v \in GoValues
        BY <1>2, <2>1
    <2>3. zeros[i] = zeroValue[t]
        BY DEF Each
    <2>4. v = zeroValue[t][at].value /\ zeroValue[t][at] # Error
        BY <1>2, <1>3, <2>3
    <2>5. at \in Places /\ ZeroFits(t)
        BY <1>1 DEF Places
    <2> HIDE DEF t, at, v
    <2>6. Fits(t, at, v)
        BY <2>2, <2>4, <2>5 DEF ZeroFits
    <2> QED BY <2>6 DEF t, at, v
<1> QED BY <1>2, <1>4 DEF FieldsFit

\* A nested type of zeroes.
LEMMA StructZeroFits ==
    ASSUME NEW t \in Types, t.kind = "struct",
           t.name \in DOMAIN structs =>
              \A i \in DOMAIN structs[t.name] : ZeroFits(structs[t.name][i].type)
    PROVE  ZeroFits(t)
<1> SUFFICES ASSUME NEW at \in Places, zeroValue[t][at] # Error, zeroValue[t][at].value \in GoValues
             PROVE  Fits(t, at, zeroValue[t][at].value)
    BY DEF ZeroFits
<1> DEFINE v == zeroValue[t][at].value  fields == structs[t.name]
           r == zeroFields(Each(zeroValue, fields), t.name, fields)
           values == r.value
<1>1. v \in GoValues
    OBVIOUS
<1>2. t.name \in DOMAIN structs /\ zeroValue[t][at] = zeroStruct(Each(zeroValue, fields), t.name)
    BY ZeroAt, Zenon DEF zeroType
<1>3. t.name \in STRING /\ Layout(fields, Types) /\ \A i \in DOMAIN fields : ZeroFits(fields[i].type)
    BY <1>2, LayoutsAre
<1>4. r # Error /\ zeroValue[t][at] = Zero(Values(values))
    BY <1>2 DEF zeroStruct
<1>5. v = Values(values)
    BY <1>4, ZeroHas
<1> HIDE DEF v
<1>6. v.go = "Values" /\ v.fields = values
    BY <1>5 DEF Values
<1>7. \A f \in DOMAIN values : values[f] \in GoValues
    <2>1. v.fields \in [DOMAIN v.fields -> GoValues]
        BY <1>1, <1>6, GoValueIs
    <2> HIDE DEF values
    <2> QED BY <1>6, <2>1
<1>8. values = r.value
    OBVIOUS
<1> HIDE DEF values
<1>9. FieldsFit(t.name, fields, values)
    <2> HIDE DEF fields
    <2> QED BY <1>3, <1>4, <1>7, <1>8, FieldZeroesFit
<1>10. FitsOf(fits, t, at, v)
    <2>1. DOMAIN values = Names(fields, Len(fields))
        BY <1>9, Zenon DEF FieldsFit
    <2>2. \A i \in DOMAIN fields :
              fits[fields[i].type][<<<<t.name, fields[i].name>>, values[fields[i].name]>>]
        <3> HIDE DEF fields
        <3> QED BY <1>9, FitsDefined, Zenon DEF FieldsFit
    <2> QED BY <1>2, <1>6, <2>1, <2>2, Zenon DEF FitsOf
<1> QED BY <1>1, <1>10, FitsAt, Zenon DEF v

\* Whatever type the catalogue has, its zeroes fit.
LEMMA AllZeroesFit == \A t \in Types : ZeroFits(t)
<1> DEFINE S == {t \in Types : ZeroFits(t)}
<1>1. ASSUME NEW t \in Types, \A u \in Types : Nesting[u] < Nesting[t] => u \in S
      PROVE  t \in S
    <2>1. CASE t.kind = "array"
        <3>1. ZeroFits(t.elem)
            BY <1>1, <2>1, TypeFacts
        <3> QED BY <2>1, <3>1, ArrayZeroFits
    <2>2. CASE t.kind = "struct"
        <3>1. t.name \in DOMAIN structs =>
                  \A i \in DOMAIN structs[t.name] : ZeroFits(structs[t.name][i].type)
            BY <1>1, <2>2, TypeFacts
        <3> QED BY <2>2, <3>1, StructZeroFits
    <2>3. CASE t.kind \in {"list", "integer", "float", "boolean", "string", "chars"}
        BY <2>3, ScalarZeroFits
    <2> QED BY <2>1, <2>2, <2>3, KindsAre
<1> HIDE DEF S
<1>2. \A t \in Types : t \in S
    BY <1>1, TypeInduction
<1> QED BY <1>2 DEF S

\* ZeroValues makes values of a message unless it is unsized, and they fit.
LEMMA ZeroMessage ==
    ASSUME NEW m \in DOMAIN messages
    PROVE  /\ ZeroValues(m) = Error <=> Unsized(m)
           /\ ZeroValues(m) # Error => FieldsFit(m, FieldsOf(m), ZeroValues(m).value)
           /\ ZeroValues(m) = Error => DOMAIN FieldsOf(m) # {}
<1> DEFINE fields == FieldsOf(m)  r == zeroFields(Each(zeroValue, fields), m, fields)
           values == ZeroValues(m).value
<1>1. m \in STRING /\ Layout(fields, Types)
    BY LayoutsAre
<1>2. ZeroValues(m) = r
    BY DEF ZeroValues, FieldsOf
<1>3. \A i \in DOMAIN fields : fields[i].type \in Types
    BY <1>1, LayoutIs
<1>4. ZeroValues(m) = Error <=> Unsized(m)
    <2>1. \A i \in DOMAIN fields : NoneIf(fields[i].type)
        BY <1>3, AllNoneIf
    <2>2. r = Error <=> \E g \in ToSet(fields) : unsized[g.type][<<m, g.name>>]
        <3> HIDE DEF fields
        <3> QED BY <1>1, <2>1, NoFields
    <2> QED BY <1>2, <2>2, UnsizedDefined, Zenon
<1>5. ASSUME ZeroValues(m) # Error PROVE FieldsFit(m, fields, values)
    <2>1. \A i \in DOMAIN fields : ZeroFits(fields[i].type)
        BY <1>3, AllZeroesFit
    <2>2. \A f \in DOMAIN values : values[f] \in GoValues
        <3>1. values \in [DOMAIN values -> GoValues]
            BY <1>5, ValuesAssumption DEF AllGoValues
        <3> HIDE DEF values
        <3> QED BY <3>1
    <2>3. r # Error /\ values = r.value
        BY <1>2, <1>5
    <2> HIDE DEF values, fields
    <2> QED BY <1>1, <2>1, <2>2, <2>3, FieldZeroesFit
<1>6. ASSUME ZeroValues(m) = Error PROVE DOMAIN fields # {}
    <2>1. \A zs : zeroFields(zs, m, fields) = Error
              <=> \E i \in DOMAIN fields : zs[i][<<m, fields[i].name>>] = Error
        BY FieldWithout, Zenon
    <2> QED BY <1>2, <1>6, <2>1, Zenon
<1> QED BY <1>4, <1>5, <1>6

-----------------------------------------------------------------------------
(* The exchange.                                                           *)

\* The body on its way is what Encode has made of the values, or the start of it;
\* what is read is what Decode makes of it.
ExchangeInv ==
    /\ origin = "foreign" => ~cut /\ body \in Seq(Bytes)
    /\ origin # "foreign" =>
          /\ \A f \in DOMAIN given : given[f] \in GoValues
          /\ stage \in {"new", "refused"} => ~cut
          /\ stage \in {"sent", "read"} =>
                /\ message \in DOMAIN messages /\ Encode(message, given) # Error
                /\ IF cut
                   THEN \E n \in 0 .. Len(Encode(message, given).bytes) - 1 :
                           body = SubSeq(Encode(message, given).bytes, 1, n)
                   ELSE body = Encode(message, given).bytes
    /\ stage = "read" => read = Decode(body)

\* ExchangeInv holds at the start.
LEMMA ExchangeStarts == ExchangeInit => ExchangeInv
<1> SUFFICES ASSUME ExchangeInit PROVE ExchangeInv
    OBVIOUS
<1>1. /\ ~cut /\ stage \in {"new", "refused"}
      /\ origin = "foreign" => body \in Seq(Bytes)
    BY BodiesAssumption DEF ExchangeInit
<1>2. ASSUME origin # "foreign" PROVE \A f \in DOMAIN given : given[f] \in GoValues
    <2>1. CASE origin = "values"
        <3>1. PICK s \in Sendings : given = s[2]
            BY <2>1 DEF ExchangeInit
        <3>2. s[2] \in [DOMAIN s[2] -> GoValues]
            BY ValuesAssumption DEF AllGoValues
        <3> QED BY <3>1, <3>2
    <2>2. CASE origin = "zero"
        <3>1. message \in DOMAIN messages
              /\ given = IF ZeroValues(message) = Error THEN <<>> ELSE ZeroValues(message).value
            BY <2>2 DEF ExchangeInit
        <3>2. CASE ZeroValues(message) = Error
            BY <3>1, <3>2
        <3>3. CASE ZeroValues(message) # Error
            <4>1. given \in [DOMAIN given -> GoValues]
                BY <3>1, <3>3, ValuesAssumption DEF AllGoValues
            <4> QED BY <4>1
        <3> QED BY <3>2, <3>3
    <2> QED BY <1>2, <2>1, <2>2 DEF ExchangeInit
<1> QED BY <1>1, <1>2 DEF ExchangeInv

\* Every step keeps it.
LEMMA ExchangeKept == ExchangeInv /\ [ExchangeNext]_exchangeVars => ExchangeInv'
<1> SUFFICES ASSUME ExchangeInv, [ExchangeNext]_exchangeVars PROVE ExchangeInv'
    OBVIOUS
<1>1. CASE SendMessage
    <2>1. CASE origin = "foreign"
        BY <1>1, <2>1 DEF SendMessage, ExchangeInv
    <2>2. CASE origin # "foreign" /\ Encode(message, given) = Error
        BY <1>1, <2>2 DEF SendMessage, ExchangeInv
    <2>3. CASE origin # "foreign" /\ Encode(message, given) # Error
        <3>1. message \in DOMAIN messages
            BY <2>3 DEF Encode
        <3> QED BY <1>1, <2>3, <3>1 DEF SendMessage, ExchangeInv
    <2> QED BY <2>1, <2>2, <2>3
<1>2. CASE CutBody
    <2>1. /\ stage = "sent" /\ ~cut /\ origin # "foreign" /\ cut' = TRUE
          /\ UNCHANGED <<stage, origin, message, given, read>>
        BY <1>2 DEF CutBody
    <2>2. \E n \in 0 .. Len(Encode(message, given).bytes) - 1 :
              body' = SubSeq(Encode(message, given).bytes, 1, n)
        BY <1>2, <2>1 DEF CutBody, ExchangeInv
    <2> QED BY <2>1, <2>2 DEF ExchangeInv
<1>3. CASE RecvMessage
    BY <1>3 DEF RecvMessage, ExchangeInv
<1>4. CASE UNCHANGED exchangeVars
    BY <1>4 DEF exchangeVars, ExchangeInv
<1> QED BY <1>1, <1>2, <1>3, <1>4 DEF ExchangeNext

\* What is on its way is always what was encoded (SendMessage, CutBody).
THEOREM ExchangeHolds == ExchangeSpec => []ExchangeInv
BY ExchangeStarts, ExchangeKept, PTL DEF ExchangeSpec

\* The start of a sequence is a cut of it.
LEMMA StartIsCut ==
    ASSUME NEW bytes \in Seq(Bytes), NEW n \in 0 .. Len(bytes) - 1
    PROVE  SubSeq(bytes, 1, n) \in Seq(Bytes) /\ Cut(SubSeq(bytes, 1, n), bytes)
<1> DEFINE l == Len(bytes)  p == SubSeq(bytes, 1, n)
<1>1. n \in Nat /\ l \in Nat /\ n < l
    OBVIOUS
<1>2. p \in Seq(Bytes) /\ Len(p) = n /\ \A i \in 1 .. n : p[i] = bytes[i]
    <2>1. n <= Len(bytes) /\ 1 <= n + 1 /\ 1 \in Nat /\ (n + 1) - 1 = n
        BY <1>1
    <2>2. /\ SubSeq(bytes, 1, n) \in Seq(Bytes) /\ Len(SubSeq(bytes, 1, n)) = (n + 1) - 1
          /\ \A i \in 1 .. (n + 1) - 1 : SubSeq(bytes, 1, n)[i] = bytes[(1 - 1) + i]
        BY <1>1, <2>1, SubSeqIs
    <2> QED BY <1>1, <2>1, <2>2
<1> HIDE DEF p
<1>3. Begins(p, bytes)
    BY <1>1, <1>2 DEF Begins
<1>4. PICK q \in Seq(Bytes) : Len(q) = l - n /\ p \o q = bytes
    BY <1>2, <1>3, Completed, Zenon
<1>5. q # <<>>
    BY <1>1, <1>4
<1> QED BY <1>2, <1>4, <1>5, Zenon DEF Cut, p

\* What Decode makes of the first fields is what was sent.
LEMMA FirstRead ==
    ASSUME message \in DOMAIN messages, NEW n \in 0 .. Len(FieldsOf(message)), NEW r,
           r.seen = FirstOf(FieldValues(FieldsOf(message), given), n),
           read = Message(message, FieldsOf(message), r)
    PROVE  read.ok /\ read.msg = message /\ read.tail = r.rest /\ FirstAsSent(n)
<1> DEFINE fields == FieldsOf(message)  kepts == FieldValues(fields, given)
<1>1. Layout(fields, Types)
    BY CatalogAssumption DEF Tables, FieldsOf
<1>2. /\ read.ok /\ read.msg = message /\ read.tail = r.rest
      /\ read.values = ByName(fields, FirstOf(kepts, n))
    BY DEF Message
<1>3. \A i \in 1 .. n : kepts[i] = Kept(fields[i].type, given[fields[i].name])
    <2>1. \A i \in 1 .. n : i \in DOMAIN fields
        BY <1>1, LayoutIs
    <2> QED BY <2>1, KeptDefined, Zenon DEF FieldValues
<1> HIDE DEF fields, kepts
<1>4. n \in 0 .. Len(fields)
    BY DEF fields
<1>5. /\ DOMAIN read.values = Names(fields, n)
      /\ \A i \in 1 .. n : read.values[fields[i].name] = kepts[i]
    BY <1>1, <1>2, <1>4, ByNameIs
<1> QED BY <1>2, <1>3, <1>5 DEF FirstAsSent, fields

\* What was encoded is read as it was sent.
LEMMA MessageArrives ==
    ASSUME ExchangeInv, stage = "read", origin # "foreign", AllCarried
    PROVE  MessageRead(message, given)
<1>1. /\ message \in DOMAIN messages /\ Encode(message, given) # Error
      /\ \A f \in DOMAIN given : given[f] \in GoValues
    BY DEF ExchangeInv
<1>2. \A i \in DOMAIN messages[message].fields :
          Carried(messages[message].fields[i].type, given[messages[message].fields[i].name])
    BY DEF AllCarried, FieldsOf
<1> QED BY <1>1, <1>2, MessageTaken

\* However deep its types nest and whatever its values, a message that Encode
\* accepts is decoded to the values that were sent, each number wrapped to its
\* width, and to nothing else (Encode, Decode).
THEOREM MessagesArrive == ExchangeSpec => []RoundTrip
<1>1. ExchangeInv => RoundTrip
    <2> SUFFICES ASSUME ExchangeInv, stage = "read", origin # "foreign", ~cut, AllCarried PROVE ReadAsSent
        BY DEF RoundTrip
    <2> DEFINE fields == FieldsOf(message)  n == Len(fields)
               r == [seen |-> FirstOf(FieldValues(fields, given), n), rest |-> <<>>]
    <2>1. /\ message \in DOMAIN messages /\ body = Encode(message, given).bytes
          /\ read = Decode(body)
        BY DEF ExchangeInv
    <2>2. Decode(Encode(message, given).bytes) = Message(message, fields, r)
        BY MessageArrives, Zenon DEF MessageRead, FieldsOf
    <2>3. r.seen = FirstOf(FieldValues(fields, given), n) /\ r.rest = <<>>
        OBVIOUS
    <2>4. n \in 0 .. Len(fields)
        <3>1. Layout(fields, Types)
            BY <2>1, CatalogAssumption DEF Tables, FieldsOf
        <3>2. n \in Nat
            BY <3>1, LayoutIs
        <3> QED BY <3>2
    <2> HIDE DEF r
    <2>5. read.ok /\ read.msg = message /\ read.tail = <<>> /\ FirstAsSent(n)
        BY <2>1, <2>2, <2>3, <2>4, FirstRead
    <2> QED BY <2>5 DEF ReadAsSent
<1> QED BY <1>1, ExchangeHolds, PTL

\* Wherever a body is cut, the fields that are read are the leading ones, and each
\* is what was sent (Decode).
THEOREM CutsKeepFields == ExchangeSpec => []CutKeepsFields
<1>1. ExchangeInv => CutKeepsFields
    <2> SUFFICES ASSUME ExchangeInv, stage = "read", cut
                 PROVE  IF Len(body) < 4 THEN ~read.ok
                        ELSE AllCarried =>
                                /\ read.ok /\ read.msg = message
                                /\ \E n \in 0 .. Len(FieldsOf(message)) - 1 : FirstAsSent(n)
        BY DEF CutKeepsFields
    <2> DEFINE fields == FieldsOf(message)  all == Encode(message, given).bytes
    <2>1. origin # "foreign" /\ message \in DOMAIN messages /\ read = Decode(body)
          /\ \E n \in 0 .. Len(all) - 1 : body = SubSeq(all, 1, n)
        BY DEF ExchangeInv
    <2>2. CASE Len(body) < 4
        <3>1. read = Error
            BY <2>1, <2>2 DEF Decode
        <3> QED BY <2>2, <3>1 DEF Error
    <2>3. ASSUME ~(Len(body) < 4), AllCarried
          PROVE  /\ read.ok /\ read.msg = message
                 /\ \E n \in 0 .. Len(fields) - 1 : FirstAsSent(n)
        <3>1. /\ all \in Seq(Bytes)
              /\ \A p \in Seq(Bytes) : Cut(p, all) /\ ~(Len(p) < 4) =>
                    \E k \in Nat : \E r :
                       /\ k < Len(fields) /\ r.seen = FirstOf(FieldValues(fields, given), k)
                       /\ Decode(p) = Message(message, fields, r)
            BY <2>1, <2>3, MessageArrives, Zenon DEF MessageRead, FieldsOf
        <3>2. body \in Seq(Bytes) /\ Cut(body, all)
            <4> HIDE DEF all
            <4> QED BY <2>1, <3>1, StartIsCut
        <3>3. PICK k \in Nat : \E r :
                 /\ k < Len(fields) /\ r.seen = FirstOf(FieldValues(fields, given), k)
                 /\ Decode(body) = Message(message, fields, r)
            BY <2>3, <3>1, <3>2
        <3>r. PICK r : /\ k < Len(fields) /\ r.seen = FirstOf(FieldValues(fields, given), k)
                       /\ Decode(body) = Message(message, fields, r)
            BY <3>3
        <3>4. Len(fields) \in Nat
            <4>1. Layout(fields, Types)
                BY <2>1, CatalogAssumption DEF Tables, FieldsOf
            <4> QED BY <4>1, LayoutIs
        <3>5. k \in 0 .. Len(fields) /\ k \in 0 .. Len(fields) - 1
            BY <3>3, <3>4
        <3>6. read.ok /\ read.msg = message /\ FirstAsSent(k)
            BY <2>1, <3>r, <3>5, FirstRead
        <3> QED BY <3>5, <3>6
    <2> QED BY <2>2, <2>3
<1> QED BY <1>1, ExchangeHolds, PTL

\* What Lookup knows is a message.
LEMMA LookupKnown ==
    ASSUME NEW opcode, Lookup(opcode) # Unknown
    PROVE  Lookup(opcode) \in DOMAIN messages
<1>1. opcode \in DOMAIN ByOpcode /\ Lookup(opcode) = ByOpcode[opcode]
    BY DEF Lookup
<1>2. opcode \in {p[1] : p \in Opcodes}
    BY <1>1 DEF ByOpcode
<1>3. PICK p \in Opcodes : p[1] = opcode
    BY <1>2
<1>4. ByOpcode[opcode] = (CHOOSE o \in Opcodes : o[1] = opcode)[2]
    BY <1>2 DEF ByOpcode
<1>5. PICK q : q = CHOOSE o \in Opcodes : o[1] = opcode
    OBVIOUS
<1>6. q \in Opcodes
    BY <1>3, <1>5
<1>7. PICK m \in DOMAIN messages : q = <<messages[m].id, m>>
    BY <1>6 DEF Opcodes
<1>8. Lookup(opcode) = q[2]
    BY <1>1, <1>4, <1>5
<1>9. q[2] = m
    BY <1>7
<1> QED BY <1>7, <1>8, <1>9

\* What is read has come as bytes.
LEMMA BodyIs == ExchangeInv /\ stage = "read" => body \in Seq(Bytes)
<1> SUFFICES ASSUME ExchangeInv, stage = "read", origin # "foreign" PROVE body \in Seq(Bytes)
    BY DEF ExchangeInv
<1> DEFINE all == Encode(message, given).bytes
<1>1. /\ message \in DOMAIN messages /\ Encode(message, given) # Error
      /\ \A f \in DOMAIN given : given[f] \in GoValues
      /\ IF cut THEN \E n \in 0 .. Len(all) - 1 : body = SubSeq(all, 1, n) ELSE body = all
    BY DEF ExchangeInv
<1>2. all \in Seq(Bytes)
    BY <1>1, EncodeWrites
<1> HIDE DEF all
<1> QED BY <1>1, <1>2, StartIsCut

\* What Decode makes of bytes it knows.
LEMMA DecodeExact ==
    ASSUME NEW bytes \in Seq(Bytes), Decode(bytes).ok, Decode(bytes).msg # Unknown
    PROVE  LET r == Decode(bytes)
               fields == FieldsOf(r.msg)
               total(n) == Total(n, [i \in 1 .. n |-> Size(fields[i].type, r.values[fields[i].name])])
           IN  \E n \in 0 .. Len(fields) :
                  /\ DOMAIN r.values = Names(fields, n)
                  /\ total(n) \in Nat /\ Takes(bytes, r.tail, 4 + total(n))
<1> DEFINE msg    == Lookup(Unsigned(SubSeq(bytes, 1, 4)))
           fields == messages[msg].fields
           rest   == SubSeq(bytes, 5, Len(bytes))
           r      == decodeFields(Each(decodeValue, fields), msg, fields, rest)
<1>1. ~(Len(bytes) < 4)
    BY DEF Decode, Error
<1>2. msg # Unknown
    BY <1>1 DEF Decode
<1>3. Decode(bytes) = Message(msg, fields, r)
    BY <1>1, <1>2 DEF Decode
<1>4. msg \in DOMAIN messages
    BY <1>2, LookupKnown
<1>5. msg \in STRING /\ Layout(fields, Types)
    BY <1>4, CatalogAssumption DEF Tables
<1>6. Takes(bytes, rest, 4) /\ rest \in Seq(Bytes)
    <2>1. 4 \in Nat /\ 4 <= Len(bytes) /\ 4 + 1 = 5
        BY <1>1
    <2>2. Takes(bytes, SubSeq(bytes, 4 + 1, Len(bytes)), 4)
        BY <2>1, TakesFirst
    <2>3. Takes(bytes, rest, 4)
        BY <2>1, <2>2
    <2> QED BY <2>3 DEF Takes
<1>7. \A i \in DOMAIN fields : Exact(fields[i].type)
    BY <1>5, LayoutIs, AllExact
<1> HIDE DEF msg, fields, rest
<1>8. Len(r.seen) <= Len(fields) /\ Spent(TypesOf(fields), r.seen, rest, r.rest)
    BY <1>5, <1>6, <1>7, FieldsSpent
<1> HIDE DEF r
<1> DEFINE n == Len(r.seen)
<1>9. (\E V : r.seen \in Seq(V)) /\ Takes(rest, r.rest, Total(n, SizesOf(TypesOf(fields), r.seen)))
    BY <1>8 DEF Spent
<1>10. n \in Nat /\ Len(fields) \in Nat /\ DOMAIN fields = 1 .. Len(fields)
    <2>1. n \in Nat
        BY <1>9
    <2> QED BY <2>1, <1>5, LayoutIs
<1>11. /\ Decode(bytes).msg = msg /\ Decode(bytes).values = ByName(fields, r.seen)
       /\ Decode(bytes).tail = r.rest
    BY <1>3 DEF Message
<1>12. /\ DOMAIN Decode(bytes).values = Names(fields, n)
       /\ \A i \in 1 .. n : Decode(bytes).values[fields[i].name] = r.seen[i]
    BY <1>5, <1>8, <1>9, <1>11, SeenByName
<1> DEFINE sizes == [i \in 1 .. n |-> Size(fields[i].type, Decode(bytes).values[fields[i].name])]
<1>13. Total(n, SizesOf(TypesOf(fields), r.seen)) = Total(n, sizes)
    <2>1. ASSUME NEW i \in 1 .. n PROVE SizesOf(TypesOf(fields), r.seen)[i] = sizes[i]
        <3>1. i \in DOMAIN fields
            BY <1>8, <1>10
        <3>2. TypesOf(fields)[i] = fields[i].type
            BY <3>1 DEF TypesOf
        <3> QED BY <1>12, <3>2 DEF SizesOf
    <2> HIDE DEF sizes, n
    <2> QED BY <1>10, <2>1, TotalSame
<1>14. Total(n, sizes) \in Nat /\ Takes(bytes, r.rest, 4 + Total(n, sizes))
    <2> HIDE DEF sizes, n
    <2> QED BY <1>6, <1>9, <1>13, TakesBoth, TakesFacts
<1>15. n \in 0 .. Len(fields)
    BY <1>8, <1>10
<1>16. FieldsOf(Decode(bytes).msg) = fields
    BY <1>11 DEF FieldsOf, fields
<1> QED BY <1>11, <1>12, <1>14, <1>15, <1>16, Zenon

\* What is behind four bytes and some more.
LEMMA TailIs ==
    ASSUME NEW buf, NEW rest, NEW t \in Nat, Takes(buf, rest, 4 + t)
    PROVE  /\ Len(buf) = 4 + Len(rest) + t
           /\ rest = SubSeq(buf, Len(buf) - Len(rest) + 1, Len(buf))
<1>1. /\ Len(rest) \in Nat /\ Len(buf) = (4 + t) + Len(rest)
      /\ rest = SubSeq(buf, Len(buf) - Len(rest) + 1, Len(buf))
    BY TakesFacts
<1>2. Len(buf) = 4 + Len(rest) + t
    BY <1>1
<1> QED BY <1>1, <1>2

\* Whatever the body is, and whoever has made it, the leading fields and the tail
\* share it out: no byte is lost and none is read twice (Decode).
THEOREM TailsExact == ExchangeSpec => []TailExact
<1>1. ExchangeInv => TailExact
    <2> SUFFICES ASSUME ExchangeInv, stage = "read", read.ok, read.msg # Unknown PROVE TailExact
        BY Zenon DEF TailExact
    <2> DEFINE fields == FieldsOf(read.msg)
               total(n) == Total(n, [i \in 1 .. n |-> Size(fields[i].type, read.values[fields[i].name])])
    <2>1. body \in Seq(Bytes) /\ read = Decode(body)
        BY BodyIs DEF ExchangeInv
    <2>2. PICK n \in 0 .. Len(fields) : /\ DOMAIN read.values = Names(fields, n)
                                       /\ total(n) \in Nat /\ Takes(body, read.tail, 4 + total(n))
        BY <2>1, DecodeExact, Zenon
    <2> HIDE DEF total
    <2>3. PICK t \in Nat : t = total(n)
        BY <2>2
    <2>4. Takes(body, read.tail, 4 + t)
        BY <2>2, <2>3
    <2>5. /\ Len(body) = 4 + Len(read.tail) + t
          /\ read.tail = SubSeq(body, Len(body) - Len(read.tail) + 1, Len(body))
        BY <2>4, TailIs, Zenon
    <2> QED BY <2>2, <2>3, <2>5, Zenon DEF TailExact, total
<1> QED BY <1>1, ExchangeHolds, PTL

\* What is sent is by the names of the fields; what ZeroValues has made of a message
\* is sent, and nothing but the lack of it stops it; and Encode accepts what fits.
SendInv ==
    /\ given = [f \in DOMAIN given |-> given[f]]
    /\ origin = "zero" =>
          /\ message \in DOMAIN messages
          /\ stage = "refused" <=> ZeroValues(message) = Error
          /\ stage # "refused" => given = ZeroValues(message).value
    /\ origin # "foreign" /\ message \in DOMAIN messages /\ AllFit => stage # "refused"

\* What fits a message can be sent, and stays what it is.
LEMMA MessageSent ==
    ASSUME NEW m \in DOMAIN messages, NEW values, \A f \in DOMAIN values : values[f] \in GoValues,
           FieldsFit(m, FieldsOf(m), values)
    PROVE  /\ Encode(m, values) # Error
           /\ \A i \in DOMAIN FieldsOf(m) :
                 LET g == FieldsOf(m)[i]
                 IN  Carried(g.type, values[g.name]) /\ Kept(g.type, values[g.name]) = values[g.name]
<1> DEFINE fields == FieldsOf(m)
<1>1. m \in STRING /\ Layout(fields, Types)
    BY LayoutsAre
<1>2. \A i \in DOMAIN fields : FitsSent(fields[i].type)
    BY <1>1, LayoutIs, AllSent
<1>3. Encode(m, values) =
          Joined(Written(LittleEndian(messages[m].id, 4)),
                 encodeFields(Each(encodeValue, fields), m, fields, values))
    BY DEF Encode, FieldsOf
<1>4. \A bytes : Written(bytes) # Error
    BY DEF Written, Error
<1>f. FieldsFit(m, fields, values)
    OBVIOUS
<1> HIDE DEF fields
<1>5. /\ encodeFields(Each(encodeValue, fields), m, fields, values) # Error
      /\ \A i \in DOMAIN fields :
            LET t == fields[i].type  v == values[fields[i].name]
            IN  Carried(t, v) /\ Kept(t, v) = v
    BY <1>1, <1>2, <1>f, FieldsSent
<1>6. Encode(m, values) # Error
    BY <1>3, <1>4, <1>5 DEF Joined
<1> QED BY <1>5, <1>6, Zenon DEF fields

\* AllFit says it of what is given.
LEMMA GivenFits == AllFit <=> FieldsFit(message, FieldsOf(message), given)
BY Zenon DEF AllFit, FieldsFit

\* SendInv holds at the start.
LEMMA SendStarts == ExchangeInit => SendInv
<1> SUFFICES ASSUME ExchangeInit PROVE SendInv
    OBVIOUS
<1>1. CASE origin = "values"
    <2>1. stage = "new" /\ \E s \in Sendings : message = s[1] /\ given = s[2]
        BY <1>1 DEF ExchangeInit
    <2>2. PICK s \in Sendings : given = s[2]
        BY <2>1
    <2>3. s[2] \in [DOMAIN s[2] -> GoValues]
        BY ValuesAssumption DEF AllGoValues
    <2> QED BY <1>1, <2>1, <2>2, <2>3 DEF SendInv
<1>2. CASE origin = "zero"
    <2>1. /\ message \in DOMAIN messages
          /\ IF ZeroValues(message) = Error THEN stage = "refused" /\ given = <<>>
             ELSE stage = "new" /\ given = ZeroValues(message).value
        BY <1>2 DEF ExchangeInit
    <2>2. CASE ZeroValues(message) = Error
        <3>1. given = <<>> /\ stage = "refused"
            BY <2>1, <2>2
        <3>2. DOMAIN given = {} /\ given = [f \in DOMAIN given |-> given[f]]
            BY <3>1
        <3>3. ~AllFit
            <4> DEFINE fields == FieldsOf(message)
            <4>1. DOMAIN fields # {} /\ DOMAIN fields = 1 .. Len(fields)
                BY <2>1, <2>2, ZeroMessage, LayoutsAre, LayoutIs
            <4> HIDE DEF fields
            <4>2. Names(fields, Len(fields)) # {}
                BY <4>1 DEF Names
            <4> QED BY <3>2, <4>2 DEF AllFit, fields
        <3> QED BY <1>2, <2>1, <2>2, <3>1, <3>2, <3>3 DEF SendInv
    <2>3. CASE ZeroValues(message) # Error
        <3>1. stage = "new" /\ given = ZeroValues(message).value
            BY <2>1, <2>3
        <3>2. given \in [DOMAIN given -> GoValues]
            BY <2>1, <2>3, <3>1, ValuesAssumption DEF AllGoValues
        <3> QED BY <1>2, <2>1, <2>3, <3>1, <3>2 DEF SendInv
    <2> QED BY <2>2, <2>3
<1>3. CASE origin = "foreign"
    <2>1. given = <<>>
        BY <1>3 DEF ExchangeInit
    <2>2. given = [f \in DOMAIN given |-> given[f]]
        BY <2>1
    <2> QED BY <1>3, <2>2 DEF SendInv
<1> QED BY <1>1, <1>2, <1>3 DEF ExchangeInit

\* Every step keeps it: Encode accepts what fits, and so what ZeroValues has made.
LEMMA SendKept == ExchangeInv /\ SendInv /\ [ExchangeNext]_exchangeVars => SendInv'
<1> SUFFICES ASSUME ExchangeInv, SendInv, [ExchangeNext]_exchangeVars PROVE SendInv'
    OBVIOUS
<1>1. UNCHANGED <<origin, message, given>>
    BY DEF ExchangeNext, SendMessage, CutBody, RecvMessage, exchangeVars
<1>2. AllFit' <=> AllFit
    BY <1>1 DEF AllFit
<1>3. ASSUME origin # "foreign", message \in DOMAIN messages, AllFit, stage # "refused"
      PROVE  stage' # "refused"
    <2>1. \A f \in DOMAIN given : given[f] \in GoValues
        BY <1>3 DEF ExchangeInv
    <2>2. Encode(message, given) # Error
        BY <1>3, <2>1, GivenFits, MessageSent
    <2>3. CASE SendMessage
        BY <1>3, <2>2, <2>3 DEF SendMessage
    <2>4. CASE CutBody
        BY <1>3, <2>4 DEF CutBody
    <2>5. CASE RecvMessage
        BY <2>5 DEF RecvMessage
    <2>6. CASE UNCHANGED exchangeVars
        BY <1>3, <2>6 DEF exchangeVars
    <2> QED BY <2>3, <2>4, <2>5, <2>6 DEF ExchangeNext
<1>4. ASSUME origin = "zero"
      PROVE  /\ message \in DOMAIN messages
             /\ stage' = "refused" <=> ZeroValues(message) = Error
             /\ stage' # "refused" => given = ZeroValues(message).value
    <2>1. /\ message \in DOMAIN messages
          /\ stage = "refused" <=> ZeroValues(message) = Error
          /\ stage # "refused" => given = ZeroValues(message).value
        BY <1>4 DEF SendInv
    <2>2. stage # "refused" => AllFit
        BY <2>1, ZeroMessage, GivenFits
    <2>3. stage = "refused" => stage' = "refused"
        BY DEF ExchangeNext, SendMessage, CutBody, RecvMessage, exchangeVars
    <2>4. stage # "refused" => stage' # "refused"
        BY <1>3, <1>4, <2>1, <2>2
    <2> QED BY <2>1, <2>3, <2>4
<1>5. stage = "refused" \/ stage' # "refused" \/ ~(origin # "foreign" /\ message \in DOMAIN messages /\ AllFit)
    BY <1>3
<1> QED BY <1>1, <1>2, <1>4, <1>5 DEF SendInv

\* What is refused does not fit, and what ZeroValues has made is not refused.
LEMMA SendHolds == ExchangeSpec => []SendInv
BY ExchangeHolds, SendStarts, SendKept, PTL DEF ExchangeSpec

\* The values that are read are by their names.
LEMMA DecodedByName ==
    ASSUME NEW bytes, Decode(bytes).ok
    PROVE  LET values == Decode(bytes).values IN values = [f \in DOMAIN values |-> values[f]]
<1> DEFINE msg    == Lookup(Unsigned(SubSeq(bytes, 1, 4)))
           fields == messages[msg].fields
           r      == decodeFields(Each(decodeValue, fields), msg, fields, SubSeq(bytes, 5, Len(bytes)))
<1>1. ~(Len(bytes) < 4)
    BY DEF Decode, Error
<1>2. CASE msg = Unknown
    <2>1. Decode(bytes).values = <<>>
        BY <1>1, <1>2 DEF Decode
    <2> QED BY <2>1
<1>3. CASE msg # Unknown
    <2>1. Decode(bytes).values = ByName(fields, r.seen)
        BY <1>1, <1>3 DEF Decode, Message
    <2> HIDE DEF r, fields
    <2> QED BY <2>1 DEF ByName
<1> QED BY <1>2, <1>3

\* Whatever fits the layouts of a message, however deep they nest, is accepted and
\* reads as it was, to the last value and with nothing behind it (Encode, Decode).
THEOREM FittingsArrive == ExchangeSpec => []FittingArrives
<1>1. ExchangeInv /\ RoundTrip /\ SendInv => FittingArrives
    <2> SUFFICES ASSUME ExchangeInv, RoundTrip, SendInv,
                        origin # "foreign", message \in DOMAIN messages, AllFit
                 PROVE  /\ stage # "refused"
                        /\ stage = "read" /\ ~cut =>
                              read.ok /\ read.msg = message /\ read.values = given /\ read.tail = <<>>
        BY DEF FittingArrives
    <2> DEFINE fields == FieldsOf(message)  n == Len(fields)
    <2>1. stage # "refused"
        BY DEF SendInv
    <2>2. ASSUME stage = "read", ~cut
          PROVE  read.ok /\ read.msg = message /\ read.values = given /\ read.tail = <<>>
        <3>1. \A f \in DOMAIN given : given[f] \in GoValues
            BY DEF ExchangeInv
        <3>2. \A i \in DOMAIN fields :
                  LET g == fields[i]
                  IN  Carried(g.type, given[g.name]) /\ Kept(g.type, given[g.name]) = given[g.name]
            BY <3>1, GivenFits, MessageSent
        <3>3. ReadAsSent
            BY <2>2, <3>2 DEF RoundTrip, AllCarried
        <3>4. DOMAIN fields = 1 .. n /\ n \in Nat
            BY LayoutsAre, LayoutIs
        <3>5. /\ read.ok /\ read.msg = message /\ read.tail = <<>>
              /\ DOMAIN read.values = Names(fields, n)
              /\ \A i \in 1 .. n : read.values[fields[i].name] = given[fields[i].name]
            BY <3>2, <3>3, <3>4 DEF ReadAsSent, FirstAsSent
        <3>6. read.values = [f \in DOMAIN read.values |-> read.values[f]]
            <4>1. read = Decode(body)
                BY <2>2 DEF ExchangeInv
            <4> QED BY <4>1, <3>5, DecodedByName
        <3>7. DOMAIN given = Names(fields, n) /\ given = [f \in DOMAIN given |-> given[f]]
            BY DEF AllFit, SendInv
        <3>8. ASSUME NEW f \in DOMAIN given PROVE read.values[f] = given[f]
            <4>1. PICK i \in 1 .. n : f = fields[i].name
                BY <3>7 DEF Names
            <4> QED BY <3>5, <4>1
        <3>9. read.values = given
            <4> HIDE DEF fields, n
            <4> QED BY <3>5, <3>6, <3>7, <3>8
        <3> QED BY <3>5, <3>9
    <2> QED BY <2>1, <2>2
<1> QED BY <1>1, SendHolds, ExchangeHolds, MessagesArrive, PTL

\* However its types nest, a reply that was started from ZeroValues can be sent as
\* it is, and reads as it was; there are no values for a message exactly if it
\* needs an unknown size or layout (ZeroValues, Encode, Decode).
THEOREM ZeroesAreComplete == ExchangeSpec => []ZeroIsComplete
<1>1. FittingArrives /\ SendInv => ZeroIsComplete
    <2> SUFFICES ASSUME FittingArrives, SendInv, origin = "zero"
                 PROVE  /\ stage = "refused" <=> Unsized(message)
                        /\ stage = "read" /\ ~cut => read.ok /\ read.values = given
        BY DEF ZeroIsComplete
    <2>1. /\ message \in DOMAIN messages
          /\ stage = "refused" <=> ZeroValues(message) = Error
          /\ stage # "refused" => given = ZeroValues(message).value
        BY DEF SendInv
    <2>2. stage = "refused" <=> Unsized(message)
        BY <2>1, ZeroMessage, Zenon
    <2>3. stage # "refused" => AllFit
        BY <2>1, ZeroMessage, GivenFits
    <2>4. ASSUME stage = "read", ~cut PROVE read.ok /\ read.values = given
        BY <2>1, <2>3, <2>4 DEF FittingArrives
    <2> QED BY <2>2, <2>4
<1> QED BY <1>1, FittingsArrive, SendHolds, PTL
=================================================================================

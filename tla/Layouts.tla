------------------------------- MODULE Layouts -------------------------------
(***************************************************************************)
(* internal/protocol: the tables of the catalogue, and the dynamic values  *)
(* that its field layouts ask for.  A type name is modelled by the record  *)
(* it parses to, a Go value by a record that carries its dynamic type.     *)
(***************************************************************************)
EXTENDS Integers, Sequences, SequencesExt

CONSTANTS messages,         \* the catalogue: by name, opcode and fields
          structs,          \* ... field layouts of the nested types
          fixedArrays,      \* ... sizes by <<owner, field>>
          messageFullNames, \* ... messages that occur as nested types
          Types,            \* of the catalogue's fields, and of their elements
          Nesting           \* how deep each of them nests others

-----------------------------------------------------------------------------
(* Types and values.                                                       *)

Integer(width, signed) == [kind |-> "integer", width |-> width, signed |-> signed]
Float(width)           == [kind |-> "float", width |-> width]
Boolean            == [kind |-> "boolean"]
String             == [kind |-> "string"]
Chars              == [kind |-> "chars"]    \* System.Char[]
Array(elem)        == [kind |-> "array", elem |-> elem]
List(elem)         == [kind |-> "list", elem |-> elem]
Struct(name)       == [kind |-> "struct", name |-> name]

SByte  == Integer(1, TRUE)
Byte   == Integer(1, FALSE)
Int16  == Integer(2, TRUE)
UInt16 == Integer(2, FALSE)
Int32  == Integer(4, TRUE)
UInt32 == Integer(4, FALSE)
Int64  == Integer(8, TRUE)
UInt64 == Integer(8, FALSE)
Single == Float(4)
Double == Float(8)

\* The Go numbers of the type switches.  A float is given in half units, so
\* that its conversion to an integer has a fraction to drop.
Ints   == {"int", "int8", "int16", "int32", "int64",
           "uint", "uint8", "uint16", "uint32", "uint64"}
Floats == {"float32", "float64"}

Num(go, n)     == [go |-> go, n |-> n]
Bool(b)        == [go |-> "bool", b |-> b]
Text(s)        == [go |-> "string", s |-> s]    \* a sequence of runes
Items(items)   == [go |-> "[]any", items |-> items]
Values(fields) == [go |-> "Values", fields |-> fields]

-----------------------------------------------------------------------------
(* The catalogue.                                                          *)

Scalars ==
    [kind : {"integer"}, width : {1, 2, 4, 8}, signed : BOOLEAN]
    \cup [kind : {"float"}, width : {4, 8}] \cup [kind : {"boolean", "string", "chars"}]

\* An owner of a field and its name.
Places == STRING \X STRING

Unknown == "unknown"

\* A type that contains another is deeper: zeroValue and decodeValue would not
\* return from a type that contains itself.
Deeper(types, depth, layouts) ==
    /\ types \subseteq Scalars \cup [kind : {"array", "list"}, elem : types]
                      \cup [kind : {"struct"}, name : STRING]
    /\ depth \in [types -> Nat]
    /\ \A t \in types :
          /\ t.kind \in {"array", "list"} => depth[t.elem] < depth[t]
          /\ t.kind = "struct" /\ t.name \in DOMAIN layouts =>
                \A i \in DOMAIN layouts[t.name] : depth[layouts[t.name][i].type] < depth[t]

Layout(fields, types) ==
    /\ fields \in Seq([name : STRING, type : types])
    /\ \A i, j \in DOMAIN fields : fields[i].name = fields[j].name => i = j

ASSUME TypesAssumption == Deeper(Types, Nesting, structs)

Tables(layouts, named, types) ==
    /\ DOMAIN layouts \subseteq STRING /\ \A n \in DOMAIN layouts : Layout(layouts[n], types)
    /\ DOMAIN named \subseteq STRING \ {Unknown}
    /\ \A m \in DOMAIN named :
          named[m].id \in Nat /\ Layout(named[m].fields, types)
    /\ \A m, n \in DOMAIN named : named[m].id = named[n].id => m = n
    /\ messageFullNames \subseteq DOMAIN named \cap DOMAIN layouts
    /\ fixedArrays \in [DOMAIN fixedArrays -> Nat]

ASSUME CatalogAssumption == Tables(structs, messages, Types)

-----------------------------------------------------------------------------
(* ZeroValues: what the handlers start a reply from.                       *)

Error   == [ok |-> FALSE]
Zero(v) == [ok |-> TRUE, value |-> v]

\* What code does for the types of a layout, one by one.
Each(code, fields) == [i \in DOMAIN fields |-> code[fields[i].type]]

\* Mutant: an array is as empty as a list.
zeroArrayEmpty(zero, at) == Zero(Items(<<>>))

zeroArray(zero, at) ==
    IF at \notin DOMAIN fixedArrays \/ zero = Error THEN Error
    ELSE Zero(Items([i \in 1 .. fixedArrays[at] |-> zero.value]))

zeroFields(zeros, owner, fields) ==
    LET zeroes == {<<fields[i].name, zeros[i][<<owner, fields[i].name>>]>> : i \in DOMAIN fields}
    IN  IF \E z \in zeroes : z[2] = Error THEN Error
        ELSE Zero([f \in {z[1] : z \in zeroes} |-> (CHOOSE z \in zeroes : z[1] = f)[2].value])

zeroStruct(zeros, name) ==
    LET zero == zeroFields(zeros, name, structs[name])
    IN  IF zero = Error THEN Error ELSE Zero(Values(zero.value))

\* The type switch, given what zeroValue makes of the types inside.
zeroType(zeroes, type, at) ==
    CASE type.kind = "integer" -> Zero(Num(IF type.signed THEN "int64" ELSE "uint64", 0))
      [] type.kind = "float"   -> Zero(Num("float64", 0))
      [] type.kind = "boolean" -> Zero(Bool(FALSE))
      [] type.kind \in {"string", "chars"} -> Zero(Text(<<>>))
      [] type.kind = "array"   -> zeroArray(zeroes[type.elem][at], at)
      [] type.kind = "list"    -> Zero(Items(<<>>))
      [] type.kind = "struct"  ->
            IF type.name \notin DOMAIN structs THEN Error
            ELSE zeroStruct(Each(zeroes, structs[type.name]), type.name)

zeroValue[type \in Types] == [at \in Places |-> zeroType(zeroValue, type, at)]

ZeroValues(name) ==
    IF name \notin DOMAIN messages THEN Error
    ELSE zeroFields(Each(zeroValue, messages[name].fields), name, messages[name].fields)
=============================================================================

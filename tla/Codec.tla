-------------------------------- MODULE Codec --------------------------------
(***************************************************************************)
(* internal/protocol: the functions that turn the values of a message into *)
(* the bytes of its body and back, driven by the catalogue's layouts.  A   *)
(* reader is modelled by the bytes it has not read yet.  Numbers and texts *)
(* are modelled to the byte, over a byte of Base values.                   *)
(***************************************************************************)
EXTENDS Layouts

CONSTANTS Base,             \* values of a byte (256 in the code)
          HighSurrogates, LowSurrogates, Replacement,  \* of the UTF-16 units
          FloatStep,        \* a Single keeps the multiples of it
          GoValues          \* what Encode may be given, and all that is inside

-----------------------------------------------------------------------------
(* Words.                                                                  *)

Bytes == 0 .. Base - 1

Power[k \in Nat] == IF k = 0 THEN 1 ELSE Base * Power[k - 1]

\* The low bytes of n, two's complement, least significant first.
LittleEndian(n, width) == [i \in 1 .. width |-> (n \div Power[i - 1]) % Base]

Unsigned(bytes) ==
    LET low[k \in 0 .. Len(bytes)] ==
            IF k = 0 THEN 0 ELSE low[k - 1] + bytes[k] * Power[k - 1]
    IN  low[Len(bytes)]

\* Mutant: the least number is read as a positive one.
SignedTop(n, width) == IF 2 * n > Power[width] THEN n - Power[width] ELSE n

Signed(n, width) == IF 2 * n >= Power[width] THEN n - Power[width] ELSE n

\* Conversion of a number of half units towards zero.
Truncated(n) == IF n >= 0 THEN n \div 2 ELSE -((-n) \div 2)

Rounded(n) == (n \div FloatStep) * FloatStep

-----------------------------------------------------------------------------
(* Text: a rune is the one or two units that encode it.                    *)

Surrogates == HighSurrogates \cup LowSurrogates
Utf16      == 0 .. Power[2] - 1
Rune       == {<<u>> : u \in Utf16 \ Surrogates} \cup (HighSurrogates \X LowSurrogates)

Units(runes) == FlattenSeq(runes)

Runes[units \in Seq(Utf16)] ==
    IF units = <<>> THEN <<>>
    ELSE IF units[1] \notin Surrogates
    THEN <<<<units[1]>>>> \o Runes[Tail(units)]
    ELSE IF units[1] \in HighSurrogates /\ Len(units) > 1 /\ units[2] \in LowSurrogates
    THEN <<<<units[1], units[2]>>>> \o Runes[Tail(Tail(units))]
    ELSE <<<<Replacement>>>> \o Runes[Tail(units)]

\* The bytes of the units, two for each.
Wide(units) ==
    [j \in 1 .. 2 * Len(units) |-> LittleEndian(units[(j + 1) \div 2], 2)[2 - (j % 2)]]

\* The units that the first bytes hold.
Unit(bytes, i)    == Unsigned(<<bytes[2 * i - 1], bytes[2 * i]>>)
Narrow(bytes, n)  == [i \in 1 .. n |-> Unit(bytes, i)]

ASSUME CodecAssumption ==
    /\ Base \in Nat /\ Base > 0 /\ Base % 2 = 0
    /\ HighSurrogates \cap LowSurrogates = {}
    /\ Surrogates \subseteq Utf16 \ {0}
    /\ Replacement \in Utf16 \ (Surrogates \cup {0})
    /\ FloatStep \in Nat \ {0}
    /\ \A m \in DOMAIN messages : messages[m].id < Power[4]

\* Counts fit their four bytes.
GoValue(v, values) ==
    \/ v \in [go : Ints \cup Floats, n : Int]
    \/ v \in [go : {"bool"}, b : BOOLEAN]
    \/ v \in [go : {"string"}, s : Seq(Seq(Utf16))] /\ Len(Units(v.s)) < Power[4]
    \/ v \in [go : {"[]any"}, items : Seq(values)] /\ Len(v.items) < Power[4]
    \/ /\ v \in [go : {"Values", "map"}, fields : [DOMAIN v.fields -> values]]
       /\ DOMAIN v.fields \subseteq STRING

-----------------------------------------------------------------------------
(* Encoding: the bytes, or why there are none.                             *)

Written(bytes) == [ok |-> TRUE, bytes |-> bytes]

\* One piece behind the other; an error in either is an error of the whole.
Joined(first, rest) ==
    IF first = Error \/ rest = Error THEN Error ELSE Written(first.bytes \o rest.bytes)

AllJoined(n, pieces) ==
    LET first[i \in 0 .. n] ==
            IF i = 0 THEN Written(<<>>) ELSE Joined(first[i - 1], pieces[i])
    IN  first[n]

\* toInt64 and toUint64 take every number, toFloat64 only some.
IntegerSources == Ints \cup Floats
FloatSources   == Floats \cup {"int", "int32", "int64", "uint32", "uint64"}

\* What an integer field and a float field make of a number.  Go leaves it to the
\* machine what a float outside of the integer's range becomes; here it wraps
\* like an integer, as a negative one does on amd64.
Whole(v)         == IF v.go \in Floats THEN Truncated(v.n) ELSE v.n
Halves(v, width) == LET n == IF v.go \in Floats THEN v.n ELSE 2 * v.n
                    IN  IF width = 4 THEN Rounded(n) ELSE n

encodeInteger(v, width) ==
    IF v.go \notin IntegerSources THEN Error ELSE Written(LittleEndian(Whole(v), width))

encodeFloat(v, width) ==
    IF v.go \notin FloatSources THEN Error ELSE Written(LittleEndian(Halves(v, width), width))

encodeBoolean(v) ==
    IF v.go # "bool" THEN Error ELSE Written(<<IF v.b THEN 1 ELSE 0>>)

\* Mutant: the count is one of runes.
encodeStringOfRunes(v) ==
    IF v.go # "string" THEN Error
    ELSE Written(LittleEndian(Len(v.s), 4) \o Wide(Units(v.s)))

encodeString(v) ==
    IF v.go # "string" THEN Error
    ELSE Written(LittleEndian(Len(Units(v.s)), 4) \o Wide(Units(v.s)))

encodeChars(v) ==
    IF v.go # "string" THEN Error ELSE Written(Wide(Units(v.s)) \o LittleEndian(0, 2))

encodeItems(encode, at, items) ==
    AllJoined(Len(items), [i \in DOMAIN items |-> encode[<<at, items[i]>>]])

encodeArray(encode, at, v) ==
    IF at \in DOMAIN fixedArrays /\ v.go = "[]any" /\ Len(v.items) = fixedArrays[at]
    THEN encodeItems(encode, at, v.items) ELSE Error

encodeList(encode, at, v) ==
    IF v.go # "[]any" THEN Error
    ELSE Joined(Written(LittleEndian(Len(v.items), 4)), encodeItems(encode, at, v.items))

\* Every declared field must be there; others are ignored.
encodeFields(encoders, owner, fields, values) ==
    AllJoined(Len(fields), [i \in DOMAIN fields |->
        LET name == fields[i].name
        IN  IF name \notin DOMAIN values THEN Error
            ELSE encoders[i][<<<<owner, name>>, values[name]>>]])

\* A message used as an element is prefixed with its opcode.
OpcodePrefix(name) ==
    IF name \in messageFullNames THEN LittleEndian(messages[name].id, 4) ELSE <<>>

encodeStruct(encoders, name, v) ==
    IF v.go \notin {"Values", "map"} THEN Error
    ELSE Joined(Written(OpcodePrefix(name)), encodeFields(encoders, name, structs[name], v.fields))

\* The type switch, given what encodeValue does for the types inside.
encodeType(encoders, type, at, v) ==
    CASE type.kind = "integer" -> encodeInteger(v, type.width)
      [] type.kind = "float"   -> encodeFloat(v, type.width)
      [] type.kind = "boolean" -> encodeBoolean(v)
      [] type.kind = "string"  -> encodeString(v)
      [] type.kind = "chars"   -> encodeChars(v)
      [] type.kind = "array"   -> encodeArray(encoders[type.elem], at, v)
      [] type.kind = "list"    -> encodeList(encoders[type.elem], at, v)
      [] type.kind = "struct"  ->
            IF type.name \notin DOMAIN structs THEN Error
            ELSE encodeStruct(Each(encoders, structs[type.name]), type.name, v)

encodeValue[type \in Types] ==
    [p \in Places \X GoValues |-> encodeType(encodeValue, type, p[1], p[2])]

Encode(name, values) ==
    IF name \notin DOMAIN messages THEN Error
    ELSE Joined(Written(LittleEndian(messages[name].id, 4)),
                encodeFields(Each(encodeValue, messages[name].fields), name,
                             messages[name].fields, values))

-----------------------------------------------------------------------------
(* Decoding: the value and the bytes behind it.  An error is errStop.      *)

Read(v, rest) == [ok |-> TRUE, value |-> v, rest |-> rest]

\* The word at the head of buf.
readWord(buf, width) ==
    IF Len(buf) < width THEN Error
    ELSE Read(Unsigned(SubSeq(buf, 1, width)), SubSeq(buf, width + 1, Len(buf)))

decodeInteger(buf, width, signed) ==
    LET word == readWord(buf, width)
    IN  IF word = Error THEN Error
        ELSE IF signed THEN Read(Num("int64", Signed(word.value, width)), word.rest)
        ELSE Read(Num("uint64", word.value), word.rest)

decodeFloat(buf, width) ==
    LET word == readWord(buf, width)
    IN  IF word = Error THEN Error
        ELSE Read(Num("float64", Signed(word.value, width)), word.rest)

decodeBoolean(buf) ==
    LET word == readWord(buf, 1)
    IN  IF word = Error THEN Error ELSE Read(Bool(word.value # 0), word.rest)

decodeString(buf) ==
    LET count == readWord(buf, 4)
    IN  IF count = Error THEN Error
        ELSE IF Len(count.rest) < 2 * count.value THEN Error
        ELSE Read(Text(Runes[Narrow(count.rest, count.value)]),
                  SubSeq(count.rest, 2 * count.value + 1, Len(count.rest)))

\* The first n units are a text, the next one is its end.
Terminated(buf, n) ==
    Read(Text(Runes[Narrow(buf, n)]), SubSeq(buf, 2 * n + 3, Len(buf)))

Zeroes(buf) == {n \in 0 .. (Len(buf) \div 2) - 1 : Unit(buf, n + 1) = 0}
Least(S)    == CHOOSE n \in S : \A k \in S : n <= k

\* Mutant: a text that is cut before its terminator is taken as it is.
decodeCharsCut(buf) ==
    Terminated(buf, IF Zeroes(buf) = {} THEN Len(buf) \div 2 ELSE Least(Zeroes(buf)))

\* Up to the first unit that is zero.
decodeChars(buf) ==
    IF Zeroes(buf) = {} THEN Error ELSE Terminated(buf, Least(Zeroes(buf)))

\* One element more behind those of read.
Appended(read, decode, at) ==
    IF read = Error THEN Error
    ELSE LET next == decode[<<at, read.rest>>]
         IN  IF next = Error THEN Error
             ELSE Read(Items(Append(read.value.items, next.value)), next.rest)

decodeItems(n, decode, at, buf) ==
    LET first[i \in 0 .. n] ==
            IF i = 0 THEN Read(Items(<<>>), buf) ELSE Appended(first[i - 1], decode, at)
    IN  first[n]

decodeArray(decode, at, buf) ==
    IF at \notin DOMAIN fixedArrays THEN Error ELSE decodeItems(fixedArrays[at], decode, at, buf)

decodeList(decode, at, buf) ==
    LET count == readWord(buf, 4)
    IN  IF count = Error THEN Error ELSE decodeItems(count.value, decode, at, count.rest)

\* Mutant: the reader stays where the field that failed left it.
ProceedUnmarked(read, i, decode, at) ==
    IF Len(read.seen) < i - 1 THEN read
    ELSE LET next == decode[<<at, read.rest>>]
         IN  IF next = Error THEN [seen |-> read.seen, rest |-> <<>>]
             ELSE [seen |-> Append(read.seen, next.value), rest |-> next.rest]

\* The i-th field, if all before it were decoded.  The reader goes back to the
\* start of a field that cannot be decoded.
Proceed(read, i, decode, at) ==
    IF Len(read.seen) < i - 1 THEN read
    ELSE LET next == decode[<<at, read.rest>>]
         IN  IF next = Error THEN read
             ELSE [seen |-> Append(read.seen, next.value), rest |-> next.rest]

\* The values of the leading fields that can be decoded, and what is behind them.
decodeFields(decoders, owner, fields, buf) ==
    LET first[i \in 0 .. Len(fields)] ==
            IF i = 0 THEN [seen |-> <<>>, rest |-> buf]
            ELSE Proceed(first[i - 1], i, decoders[i], <<owner, fields[i].name>>)
    IN  first[Len(fields)]

\* What the names of the leading fields are worth.
ByName(fields, seen) ==
    [f \in {fields[i].name : i \in DOMAIN seen} |->
        seen[CHOOSE i \in DOMAIN seen : fields[i].name = f]]

\* A nested type needs all of its fields.
Complete(fields, read) ==
    IF Len(read.seen) < Len(fields) THEN Error
    ELSE Read(Values(ByName(fields, read.seen)), read.rest)

decodeStruct(decoders, name, buf) ==
    LET prefix == Len(OpcodePrefix(name))
    IN  IF Len(buf) < prefix THEN Error
        ELSE Complete(structs[name],
                 decodeFields(decoders, name, structs[name], SubSeq(buf, prefix + 1, Len(buf))))

decodeType(decoders, type, at, buf) ==
    CASE type.kind = "integer" -> decodeInteger(buf, type.width, type.signed)
      [] type.kind = "float"   -> decodeFloat(buf, type.width)
      [] type.kind = "boolean" -> decodeBoolean(buf)
      [] type.kind = "string"  -> decodeString(buf)
      [] type.kind = "chars"   -> decodeChars(buf)
      [] type.kind = "array"   -> decodeArray(decoders[type.elem], at, buf)
      [] type.kind = "list"    -> decodeList(decoders[type.elem], at, buf)
      [] type.kind = "struct"  ->
            IF type.name \notin DOMAIN structs THEN Error
            ELSE decodeStruct(Each(decoders, structs[type.name]), type.name, buf)

decodeValue[type \in Types] ==
    [p \in Places \X Seq(Bytes) |-> decodeType(decodeValue, type, p[1], p[2])]

\* The opcodes and their messages.
Opcodes  == {<<messages[m].id, m>> : m \in DOMAIN messages}
ByOpcode == [id \in {p[1] : p \in Opcodes} |-> (CHOOSE p \in Opcodes : p[1] = id)[2]]

Lookup(opcode) == IF opcode \in DOMAIN ByOpcode THEN ByOpcode[opcode] ELSE Unknown

\* A field that cannot be decoded ends the message: its bytes are the tail.
Message(msg, fields, read) ==
    [ok |-> TRUE, msg |-> msg, values |-> ByName(fields, read.seen), tail |-> read.rest]

Decode(body) ==
    LET msg    == Lookup(Unsigned(SubSeq(body, 1, 4)))
        fields == messages[msg].fields
        rest   == SubSeq(body, 5, Len(body))
    IN  IF Len(body) < 4 THEN Error
        ELSE IF msg = Unknown
        THEN [ok |-> TRUE, msg |-> Unknown, values |-> <<>>, tail |-> rest]
        ELSE Message(msg, fields, decodeFields(Each(decodeValue, fields), msg, fields, rest))
=============================================================================

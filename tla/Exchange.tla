------------------------------- MODULE Exchange -------------------------------
(***************************************************************************)
(* A message from Conn.Send at one end to Conn.Recv at the other, as far   *)
(* as the codec goes: the values are encoded, the body travels, perhaps    *)
(* not all of it, and what arrives is decoded.  A body may also come from  *)
(* a peer whose layouts are not ours.                                      *)
(***************************************************************************)
EXTENDS Codec

CONSTANTS Sendings,     \* pairs of a message and the values to send it with
          ForeignBodies, \* bodies that no Encode of ours has made
          MaxCut        \* bound: longer bodies arrive whole

AllGoValues(values, sendings) ==
    /\ \A v \in values : GoValue(v, values)
    /\ \A s \in sendings : s[1] \in STRING /\ s[2] \in [DOMAIN s[2] -> values]
    /\ \A m \in DOMAIN messages : ZeroValues(m) # Error =>
          ZeroValues(m).value \in [DOMAIN ZeroValues(m).value -> values]

ASSUME ValuesAssumption == AllGoValues(GoValues, Sendings)

ASSUME BodiesAssumption == ForeignBodies \subseteq Seq(Bytes) /\ MaxCut \in Nat

VARIABLES stage,        \* "new", "sent", "refused", "read"
          origin,       \* "values", "zero" (of ZeroValues) or "foreign"
          message, given, \* what is sent
          body,         \* the bytes on their way
          cut,          \* not all of them arrive
          read          \* what Decode returns

exchangeVars == <<stage, origin, message, given, body, cut, read>>

\* A handler that gets no values from ZeroValues has nothing to send.
ExchangeInit ==
    /\ cut = FALSE /\ read = Error
    /\ \/ /\ origin = "values" /\ stage = "new" /\ body = <<>>
          /\ \E s \in Sendings : message = s[1] /\ given = s[2]
       \/ /\ origin = "zero" /\ body = <<>>
          /\ message \in DOMAIN messages
          /\ LET zero == ZeroValues(message)
             IN  IF zero = Error THEN stage = "refused" /\ given = <<>>
                 ELSE stage = "new" /\ given = zero.value
       \/ /\ origin = "foreign" /\ stage = "new"
          /\ message = Unknown /\ given = <<>>
          /\ body \in ForeignBodies

\* Conn.Send, up to the frame.
SendMessage ==
    /\ stage = "new"
    /\ LET encoded == Encode(message, given)
       IN  IF origin = "foreign" THEN stage' = "sent" /\ UNCHANGED body
           ELSE IF encoded = Error THEN stage' = "refused" /\ UNCHANGED body
           ELSE stage' = "sent" /\ body' = encoded.bytes
    /\ UNCHANGED <<origin, message, given, cut, read>>

\* The frame of a peer that ends its messages early.
CutBody ==
    /\ stage = "sent" /\ ~cut /\ origin # "foreign" /\ Len(body) <= MaxCut
    /\ cut' = TRUE
    /\ \E n \in 0 .. Len(body) - 1 : body' = SubSeq(body, 1, n)
    /\ UNCHANGED <<stage, origin, message, given, read>>

\* Conn.Recv, from the frame on.
RecvMessage ==
    /\ stage = "sent"
    /\ stage' = "read"
    /\ read' = Decode(body)
    /\ UNCHANGED <<origin, message, given, body, cut>>

ExchangeNext == SendMessage \/ CutBody \/ RecvMessage

ExchangeSpec == ExchangeInit /\ [][ExchangeNext]_exchangeVars

-----------------------------------------------------------------------------
(* What a receiver must see of a value, without a word about bytes.        *)

\* The number of a type's range that differs from n by whole wraps.
Wrapped(n, type) ==
    LET size == Power[type.width]
    IN  CHOOSE r \in {n % size, (n % size) - size} :
            IF type.signed THEN 0 <= 2 * r + size /\ 2 * r < size ELSE r >= 0

\* What is left of a value that arrives, given what is left of those inside.
KeptOf(kept, t, w) ==
    CASE t.kind = "integer" -> Num(IF t.signed THEN "int64" ELSE "uint64", Wrapped(Whole(w), t))
      [] t.kind = "float"   -> Num("float64", Halves(w, t.width))
      [] t.kind \in {"array", "list"} ->
            Items([i \in DOMAIN w.items |-> kept[t.elem][w.items[i]]])
      [] t.kind = "struct" /\ t.name \in DOMAIN structs ->
            LET fields == structs[t.name]
            IN  Values(ByName(fields,
                    [i \in DOMAIN fields |-> kept[fields[i].type][w.fields[fields[i].name]]]))
      [] OTHER -> w

Kept(type, v) ==
    LET kept[t \in Types] == [w \in GoValues |-> KeptOf(kept, t, w)] IN kept[type][v]

\* The bytes can carry the value: texts are of whole runes, no Char[] holds the
\* unit that ends it, and no number is beyond the floats of this model.
CarriedOf(carried, t, w) ==
    CASE t.kind = "string" -> w.s \in Seq(Rune)
      [] t.kind = "chars"  -> w.s \in Seq(Rune \ {<<0>>})
      [] t.kind = "float"  ->
            LET n == 2 * Halves(w, t.width) IN -Power[t.width] <= n /\ n < Power[t.width]
      [] t.kind \in {"array", "list"} -> \A i \in DOMAIN w.items : carried[t.elem][w.items[i]]
      [] t.kind = "struct" /\ t.name \in DOMAIN structs ->
            \A i \in DOMAIN structs[t.name] :
                LET g == structs[t.name][i] IN carried[g.type][w.fields[g.name]]
      [] OTHER -> TRUE

Carried(type, v) ==
    LET carried[t \in Types] == [w \in GoValues |-> CarriedOf(carried, t, w)]
    IN  carried[type][v]

\* The values inside a value, at most so deep.
Inner(w) ==
    CASE w.go = "[]any"            -> ToSet(w.items)
      [] w.go \in {"Values", "map"} -> {w.fields[f] : f \in DOMAIN w.fields}
      [] OTHER                     -> {}

Inside(v, depth) ==
    LET inside[k \in Nat] ==
            IF k = 0 THEN {v} ELSE inside[k - 1] \cup UNION {Inner(w) : w \in inside[k - 1]}
    IN  inside[depth]

\* The first n sizes together.
Total(n, sizes) ==
    LET sum[k \in Nat] == IF k = 0 THEN 0 ELSE sum[k - 1] + sizes[k] IN sum[n]

\* The bytes that a decoded value has taken, given those of what is inside.
SizeOf(size, t, w) ==
    CASE t.kind \in {"integer", "float"} -> t.width
      [] t.kind = "boolean" -> 1
      [] t.kind = "string"  -> 4 + 2 * Len(Units(w.s))
      [] t.kind = "chars"   -> 2 * Len(Units(w.s)) + 2
      [] t.kind \in {"array", "list"} ->
            (IF t.kind = "list" THEN 4 ELSE 0)
            + Total(Len(w.items), [i \in DOMAIN w.items |-> size[t.elem][w.items[i]]])
      [] t.kind = "struct" /\ t.name \in DOMAIN structs ->
            LET fields == structs[t.name]
            IN  Len(OpcodePrefix(t.name))
                + Total(Len(fields),
                      [i \in DOMAIN fields |-> size[fields[i].type][w.fields[fields[i].name]]])
      [] OTHER -> 0

Size(type, v) ==
    LET values == Inside(v, Nesting[type])
        size[t \in Types] == [w \in values |-> SizeOf(size, t, w)]
    IN  size[type][v]

FieldsOf(m)      == messages[m].fields
Names(fields, n) == {fields[i].name : i \in 1 .. n}

\* The value is one that the type can hold, as Go holds it.
FitsOf(fits, t, at, w) ==
    CASE t.kind = "integer" ->
            /\ w.go = IF t.signed THEN "int64" ELSE "uint64"
            /\ IF t.signed THEN -Power[t.width] <= 2 * w.n /\ 2 * w.n < Power[t.width]
               ELSE 0 <= w.n /\ w.n < Power[t.width]
      [] t.kind = "float"   ->
            /\ w.go = "float64" /\ Halves(w, t.width) = w.n
            /\ -Power[t.width] <= 2 * w.n /\ 2 * w.n < Power[t.width]
      [] t.kind = "boolean" -> w.go = "bool"
      [] t.kind = "string"  -> w.go = "string" /\ w.s \in Seq(Rune)
      [] t.kind = "chars"   -> w.go = "string" /\ w.s \in Seq(Rune \ {<<0>>})
      [] t.kind \in {"array", "list"} ->
            /\ w.go = "[]any" /\ \A i \in DOMAIN w.items : fits[t.elem][<<at, w.items[i]>>]
            /\ t.kind = "array" => at \in DOMAIN fixedArrays /\ Len(w.items) = fixedArrays[at]
      [] t.kind = "struct"  ->
            /\ w.go = "Values" /\ t.name \in DOMAIN structs
            /\ LET fields == structs[t.name]
               IN  /\ DOMAIN w.fields = Names(fields, Len(fields))
                   /\ \A i \in DOMAIN fields :
                         fits[fields[i].type][<<<<t.name, fields[i].name>>, w.fields[fields[i].name]>>]

Fits(type, at, v) ==
    LET fits[t \in Types] == [p \in Places \X GoValues |-> FitsOf(fits, t, p[1], p[2])]
    IN  fits[type][<<at, v>>]

\* A value of the type needs the size of an array that has none, or the fields of
\* a type that has no layout.
UnsizedOf(unsized, t, at) ==
    \/ t.kind = "array" /\ (at \notin DOMAIN fixedArrays \/ unsized[t.elem][at])
    \/ /\ t.kind = "struct"
       /\ t.name \in DOMAIN structs =>
             \E g \in ToSet(structs[t.name]) : unsized[g.type][<<t.name, g.name>>]

Unsized(m) ==
    LET unsized[t \in Types] == [at \in Places |-> UnsizedOf(unsized, t, at)]
    IN  \E g \in ToSet(FieldsOf(m)) : unsized[g.type][<<m, g.name>>]

-----------------------------------------------------------------------------
(* Properties.                                                             *)

\* The first n fields are read, and as they were sent.
FirstAsSent(n) ==
    /\ DOMAIN read.values = Names(FieldsOf(message), n)
    /\ \A i \in 1 .. n :
          LET g == FieldsOf(message)[i]
          IN  read.values[g.name] = Kept(g.type, given[g.name])

\* What is read of a message is what was sent, numbers wrapped to their width,
\* and nothing is left over.
ReadAsSent ==
    /\ read.ok /\ read.msg = message /\ read.tail = <<>>
    /\ FirstAsSent(Len(FieldsOf(message)))

AllCarried ==
    \A i \in DOMAIN FieldsOf(message) :
        LET g == FieldsOf(message)[i] IN Carried(g.type, given[g.name])

AllFit ==
    /\ DOMAIN given = Names(FieldsOf(message), Len(FieldsOf(message)))
    /\ \A i \in DOMAIN FieldsOf(message) :
          LET g == FieldsOf(message)[i] IN Fits(g.type, <<message, g.name>>, given[g.name])

\* A message with whatever numbers and texts reads as it was sent, if no Char[]
\* contains a zero (README, "the codec is tested for encode/decode symmetry";
\* Encode, Decode).
RoundTrip ==
    stage = "read" /\ origin # "foreign" /\ ~cut => (AllCarried => ReadAsSent)

\* However short a body is cut, each field that is read at all is read right,
\* and the fields that are read are the leading ones (Decode, "decoding stops
\* cleanly").
CutKeepsFields ==
    stage = "read" /\ cut =>
        IF Len(body) < 4 THEN ~read.ok
        ELSE AllCarried => /\ read.ok /\ read.msg = message
                           /\ \E n \in 0 .. Len(FieldsOf(message)) - 1 : FirstAsSent(n)

\* No byte of a body is lost and none is read twice: the leading fields and the
\* tail share it out, whatever the body is (Decode, "the unread bytes are returned
\* as tail").
TailExact ==
    stage = "read" /\ read.ok /\ read.msg # Unknown =>
        LET fields == FieldsOf(read.msg)
        IN  /\ read.tail = SubSeq(body, Len(body) - Len(read.tail) + 1, Len(body))
            /\ \E n \in 0 .. Len(fields) :
                  /\ DOMAIN read.values = Names(fields, n)
                  /\ Len(body) = 4 + Len(read.tail)
                        + Total(n, [i \in 1 .. n |-> Size(fields[i].type, read.values[fields[i].name])])

\* Values that the layout can hold are accepted, and read as they were to the last
\* of them: what Decode has made of a message can be sent on, and a handler has
\* only to keep to the layout (README, "the codec is tested for encode/decode
\* symmetry"; Encode, Decode).
FittingArrives ==
    origin # "foreign" /\ message \in DOMAIN messages /\ AllFit =>
        /\ stage # "refused"
        /\ stage = "read" /\ ~cut =>
               read.ok /\ read.msg = message /\ read.values = given /\ read.tail = <<>>

\* A reply that was started from ZeroValues can be sent as it is and reads as
\* it was, whatever types its message nests (zero.go:5-9, "so a reply is always
\* structurally complete for Encode"); only an array of unknown size or a type
\* without a layout leaves a message without values.
ZeroIsComplete ==
    origin = "zero" =>
        /\ stage = "refused" <=> Unsized(message)
        /\ stage = "read" /\ ~cut => read.ok /\ read.values = given
=============================================================================

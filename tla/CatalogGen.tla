------------------------------ MODULE CatalogGen ------------------------------
(***************************************************************************)
(* cmd/gen: from the exported metadata of the client to the catalogue that *)
(* the codec reads.  Each class has its fields and perhaps a base class;   *)
(* the catalogue holds the flattened layouts of the messages and of the    *)
(* nested types that they reach, found by a depth-first walk whose calls   *)
(* are kept on a stack.                                                    *)
(***************************************************************************)
EXTENDS Naturals, Sequences, SequencesExt

CONSTANTS Metadata,        \* the inputs: what the three JSON files hold
          Names,           \* of classes and of primitive types
          NoName,          \* the empty string
          extraBaseFields  \* fields that the dump omits, by class

\* A field's type: how it wraps a name, from the outside in, and that name.
Type  == [wraps : Seq({"array", "list"}), name : Names]
Field == [name : STRING, type : Type]

DumpField == [name : STRING, type : Type, static : BOOLEAN, typed : BOOLEAN]

\* dump: the fields of each class, which may be static or without a type;
\* bases: the base class of some; messages: the declared fields of each.
ASSUME MetadataAssumption ==
    \A md \in Metadata :
        /\ DOMAIN md.dump \subseteq Names
        /\ md.dump \in [DOMAIN md.dump -> Seq(DumpField)]
        /\ DOMAIN md.bases \subseteq Names
        /\ md.bases \in [DOMAIN md.bases -> Names \cup {NoName}]
        /\ md.messages \in Seq([full : Names, fields : Seq(Field)])

ASSUME NamesAssumption ==
    /\ NoName \notin Names
    /\ DOMAIN extraBaseFields \subseteq Names
    /\ extraBaseFields \in [DOMAIN extraBaseFields -> Seq(Field)]

\* No class is its own ancestor: among any classes with a base, one has its
\* base outside.
Acyclic(bases) ==
    \A S \in SUBSET DOMAIN bases : S # {} => \E c \in S : bases[c] \notin S

\* With a cycle chain does not return.
ASSUME BasesAssumption == \A md \in Metadata : Acyclic(md.bases)

VARIABLES phase,          \* "load", "collect", "done"
          metadata,       \* the input of this run
          own, structs,   \* fields by class: its own, and with those it inherits
          resolved,       \* the layouts of the messages so far
          stack,          \* types still to be walked, the innermost call first
          reachable,      \* the nested types found
          catalog         \* what is emitted

genVars == <<phase, metadata, own, structs, resolved, stack, reachable, catalog>>

-----------------------------------------------------------------------------
(* Layouts.                                                                *)

\* The classes of the dump whose fields all have types, without their static
\* fields.  A class without any field has no entry.
loadOwn(dump) ==
    LET typed == {c \in DOMAIN dump :
            dump[c] # <<>> /\ \A i \in DOMAIN dump[c] : dump[c][i].typed}
        serialized(f) ==
            IF f.static THEN <<>> ELSE <<[name |-> f.name, type |-> f.type]>>
    IN  [c \in typed \cup DOMAIN extraBaseFields |->
            IF c \in DOMAIN extraBaseFields THEN extraBaseFields[c]
            ELSE FlattenSeq([i \in DOMAIN dump[c] |-> serialized(dump[c][i])])]

\* The class, its base, and so on to the root.
chain(full, bases) ==
    LET up[c \in Names \cup {NoName}] ==
            IF c \in DOMAIN bases THEN <<c>> \o up[bases[c]]
            ELSE IF c = NoName THEN <<>> ELSE <<c>>
    IN  up[full]

\* Mutant: the fields of a class come before those it inherits.
fieldsOfDerivedFirst(classes, fields) ==
    FlattenSeq([i \in DOMAIN classes |->
        IF classes[i] \in DOMAIN fields THEN fields[classes[i]] ELSE <<>>])

\* Base first.
fieldsOf(classes, fields) ==
    FlattenSeq([i \in DOMAIN classes |->
        LET c == classes[Len(classes) + 1 - i]
        IN  IF c \in DOMAIN fields THEN fields[c] ELSE <<>>])

buildStructs(fields, bases) == [c \in DOMAIN fields |-> fieldsOf(chain(c, bases), fields)]

\* Mutant: the dump's fields of the message itself are taken too.
messageFieldsTwice(m, bases, fields) == fieldsOf(chain(m.full, bases), fields) \o m.fields

messageFields(m, bases, fields) == fieldsOf(Tail(chain(m.full, bases)), fields) \o m.fields

\* One wrapping of this kind less, if it is the outermost.
Without(wrap, wraps) == IF wraps # <<>> /\ Head(wraps) = wrap THEN Tail(wraps) ELSE wraps

\* Mutant: List<> is taken off before [], so List<T>[] keeps its [].
BaseListFirst(type) ==
    IF Without("array", Without("list", type.wraps)) = <<>> THEN type.name ELSE NoName

\* The name inside T, T[], List<T> and List<T>[]; what stays wrapped has none.
Base(type) ==
    IF Without("list", Without("array", type.wraps)) = <<>> THEN type.name ELSE NoName

-----------------------------------------------------------------------------
(* The run.                                                                *)

GenInit ==
    /\ phase = "load" /\ metadata \in Metadata
    /\ own = <<>> /\ structs = <<>>
    /\ resolved = <<>> /\ stack = <<>> /\ reachable = {}
    /\ catalog = [structs |-> {}, messageFullNames |-> {}]

Load ==
    /\ phase = "load"
    /\ phase' = "collect"
    /\ own' = loadOwn(metadata.dump)
    /\ structs' = buildStructs(own', metadata.bases)
    /\ UNCHANGED <<metadata, resolved, stack, reachable, catalog>>

TypesOf(fields) == [i \in DOMAIN fields |-> fields[i].type]

\* The next message, when the walk of the one before has come to its end.
ResolveMessage ==
    /\ phase = "collect" /\ stack = <<>>
    /\ Len(resolved) < Len(metadata.messages)
    /\ LET m    == metadata.messages[Len(resolved) + 1]
           full == messageFields(m, metadata.bases, own)
       IN  /\ resolved' = Append(resolved, [full |-> m.full, fields |-> full])
           /\ stack' = TypesOf(full)
    /\ UNCHANGED <<phase, metadata, own, structs, reachable, catalog>>

\* Mutant: a type that was found before is walked again.
collectReachableAgain ==
    /\ phase = "collect" /\ stack # <<>>
    /\ LET name == Base(Head(stack))
       IN  IF name \in DOMAIN structs
           THEN /\ reachable' = reachable \cup {name}
                /\ stack' = TypesOf(structs[name]) \o Tail(stack)
           ELSE /\ stack' = Tail(stack)
                /\ UNCHANGED reachable
    /\ UNCHANGED <<phase, metadata, own, structs, resolved, catalog>>

collectReachable ==
    /\ phase = "collect" /\ stack # <<>>
    /\ LET name == Base(Head(stack))
       IN  IF name \in DOMAIN structs /\ name \notin reachable
           THEN /\ reachable' = reachable \cup {name}
                /\ stack' = TypesOf(structs[name]) \o Tail(stack)
           ELSE /\ stack' = Tail(stack)
                /\ UNCHANGED reachable
    /\ UNCHANGED <<phase, metadata, own, structs, resolved, catalog>>

\* Mutant: every layout is written.
emitAll ==
    /\ phase = "collect" /\ stack = <<>>
    /\ Len(resolved) = Len(metadata.messages)
    /\ phase' = "done"
    /\ catalog' = [structs |-> DOMAIN structs, messageFullNames |-> {}]
    /\ UNCHANGED <<metadata, own, structs, resolved, stack, reachable>>

\* Mutant: every message counts as a nested type.
emitMessages ==
    /\ phase = "collect" /\ stack = <<>>
    /\ Len(resolved) = Len(metadata.messages)
    /\ phase' = "done"
    /\ catalog' = [structs |-> reachable,
                   messageFullNames |-> {resolved[i].full : i \in DOMAIN resolved}]
    /\ UNCHANGED <<metadata, own, structs, resolved, stack, reachable>>

emit ==
    /\ phase = "collect" /\ stack = <<>>
    /\ Len(resolved) = Len(metadata.messages)
    /\ phase' = "done"
    /\ catalog' = [structs |-> reachable,
                   messageFullNames |->
                       {n \in reachable : \E i \in DOMAIN resolved : resolved[i].full = n}]
    /\ UNCHANGED <<metadata, own, structs, resolved, stack, reachable>>

GenNext == Load \/ ResolveMessage \/ collectReachable \/ emit

\* The program runs to its end by itself.
GenSpec == GenInit /\ [][GenNext]_genVars /\ WF_genVars(GenNext)

-----------------------------------------------------------------------------
(* Properties.                                                             *)

\* The names with a layout at which the codec arrives when it takes a field's
\* type apart: it takes off every wrapping (codec.go, encodeValue, decodeValue),
\* the generator at most two.
Nested(fields) == {n \in DOMAIN structs : \E i \in DOMAIN fields : fields[i].type.name = n}

\* With the messages' layouts, a set of names holds all that it nests.
HoldsNested(S) ==
    /\ \A i \in DOMAIN resolved : Nested(resolved[i].fields) \subseteq S
    /\ \A n \in S : Nested(structs[n]) \subseteq S

\* T, T[], List<T> and List<T>[]: as the fields of the client's catalogue are
\* wrapped (catalog_gen.go).
Wrappings == {<<>>, <<"array">>, <<"list">>, <<"array", "list">>}

\* The layouts to emit have no field that is wrapped otherwise.
WrappedAsClient ==
    LET as(fields) == \A i \in DOMAIN fields : fields[i].type.wraps \in Wrappings
    IN  /\ \A i \in DOMAIN resolved : as(resolved[i].fields)
        /\ \A n \in catalog.structs : as(structs[n])

GenTypeOK ==
    /\ phase \in {"load", "collect", "done"}
    /\ metadata \in Metadata
    /\ Len(resolved) <= Len(metadata.messages)
    /\ reachable \subseteq DOMAIN structs
    /\ catalog.structs \subseteq DOMAIN structs
    /\ catalog.messageFullNames \subseteq catalog.structs

\* The codec finds the layout of every type at which it arrives from the emitted
\* layouts, in whichever order the walk has met them and however they refer to
\* each other (main.go:3-5, collectReachable), if they wrap their types as the
\* client does: a List<T[]> or T[][] would hide its T from the walk, and the
\* codec would stop at it.
GenClosed == phase = "done" /\ WrappedAsClient => HoldsNested(catalog.structs)

\* Nothing is emitted that no message needs: each set that holds what it nests
\* has all of the emitted layouts (main.go:254, "only those reachable from
\* messages").
GenLeast ==
    phase = "done" =>
        \A S \in SUBSET DOMAIN structs : HoldsNested(S) => catalog.structs \subseteq S

\* A derived layout is that of its base, then its own fields: what a reader of
\* the base knows is where it expects it, in nested types and in messages
\* (fieldsOf, messageFields).
BaseFirst ==
    phase = "done" =>
        /\ \A c \in catalog.structs : c \in DOMAIN metadata.bases =>
              LET p == metadata.bases[c]
              IN  p \in DOMAIN structs => structs[c] = structs[p] \o own[c]
        /\ \A i \in DOMAIN resolved :
              LET m == metadata.messages[i]
              IN  m.full \in DOMAIN metadata.bases =>
                      LET p == metadata.bases[m.full]
                      IN  p \in DOMAIN structs => resolved[i].fields = structs[p] \o m.fields

\* A message that is nested in another has the layout that it has on its own,
\* if the dump declares for it what the message list does: the codec writes the
\* opcode and then one of the two (codec.go, encodeValue).
NestedMessageSame ==
    phase = "done" =>
        \A i \in DOMAIN resolved :
            LET m == metadata.messages[i]
            IN  m.full \in catalog.messageFullNames /\ own[m.full] = m.fields =>
                    resolved[i].fields = structs[m.full]

\* The walk ends, whatever types nest themselves or each other.
GenEnds == <>(phase = "done")
=============================================================================

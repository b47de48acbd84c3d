----------------------------- MODULE MCCatalogGen -----------------------------
(* Two messages, one of them nested, and three classes that refer to each other. *)
EXTENDS CatalogGen

T(wraps, name) == [wraps |-> wraps, name |-> name]
Plain(name)    == T(<<>>, name)
One(name, type) == [name |-> name, type |-> type]
Dumped(f)      == [name |-> f.name, type |-> f.type, static |-> FALSE, typed |-> TRUE]

X      == One("x", Plain("Int32"))
Id     == [Dumped(One("__ID__", Plain("Int32"))) EXCEPT !.static = TRUE]
Opaque == [Dumped(X) EXCEPT !.typed = FALSE]

Dumps == [Base : {<<Id, Dumped(X)>>, <<Opaque>>, <<Id>>},
          A    : {<<Dumped(X), Dumped(One("list", T(<<"list">>, "A")))>>,
                  <<Dumped(One("b", T(<<"array", "list">>, "B"))), Dumped(X)>>, <<>>},
          B    : {<<Dumped(X)>>, <<Dumped(One("a", T(<<"array">>, "A"))), Dumped(One("m", Plain("Note")))>>,
                  <<Dumped(One("hidden", T(<<"list", "array">>, "A")))>>},
          Note : {<<Id, Dumped(X)>>, <<Dumped(One("a", Plain("A")))>>}]

Bases == {[Base |-> "none"], [Base |-> "none", A |-> "Base", Note |-> "Base"],
          [Base |-> "State", A |-> "Base", B |-> "A", Note |-> "none"], [A |-> "B", Note |-> "A", Get |-> "Base"]}

Messages == {<<[full |-> "Get", fields |-> <<X, One("a", Plain(c))>>],
               [full |-> "Note", fields |-> note]>> :
                c \in {"A", "B", "Note"}, note \in {<<X>>, <<One("a", Plain("A"))>>, <<>>}}

MCMetadata == [dump : Dumps, bases : Bases, messages : Messages]
MCNames    == {"Int32", "Byte", "Base", "State", "A", "B", "Note", "Get"}
MCExtra    == [State |-> <<One("__state__", Plain("Byte"))>>]
=============================================================================

--------------------------- MODULE CatalogGenProofs ---------------------------
(***************************************************************************)
(* What the generator emits is the least set of layouts that holds all it  *)
(* nests, as long as types are wrapped as the client wraps them: an        *)
(* invariant of the walk, about what has been found and what is still on   *)
(* the stack.  A layout is that of its base, then the class's own fields,  *)
(* however long the chain of bases is.                                     *)
(***************************************************************************)
EXTENDS CatalogGen, Recursion

\* What the walk sees of a layout's nested types: the names that Base gives.
Found(fields) == {n \in DOMAIN structs : \E i \in DOMAIN fields : Base(fields[i].type) = n}

\* The layouts that the walk still has to see.
OnStack == {n \in DOMAIN structs : \E i \in DOMAIN stack : Base(stack[i]) = n}

GenShape ==
    /\ metadata \in Metadata
    /\ phase \in {"load", "collect", "done"}
    /\ phase = "load" => own = <<>> /\ structs = <<>> /\ resolved = <<>> /\ stack = <<>>
    /\ phase # "load" =>
          own = loadOwn(metadata.dump) /\ structs = buildStructs(own, metadata.bases)
    /\ stack \in Seq(Type)
    /\ resolved \in Seq([full : Names, fields : Seq(Field)])
    /\ Len(resolved) <= Len(metadata.messages)
    /\ reachable \subseteq DOMAIN structs

GenEmitted ==
    IF phase = "done"
    THEN /\ stack = <<>>
         /\ catalog.structs = reachable /\ catalog.messageFullNames \subseteq reachable
    ELSE catalog = [structs |-> {}, messageFullNames |-> {}]

\* Nothing that the walk has seen in what was found has been lost.
GenNoneLost ==
    /\ \A i \in DOMAIN resolved : Found(resolved[i].fields) \subseteq reachable \cup OnStack
    /\ \A n \in reachable : Found(structs[n]) \subseteq reachable \cup OnStack

\* Nothing was found that a set which holds what it nests could do without.
GenNoneMore ==
    \A S \in SUBSET DOMAIN structs : HoldsNested(S) => reachable \cup OnStack \subseteq S

GenIInv == GenShape /\ GenEmitted /\ GenNoneLost /\ GenNoneMore

-----------------------------------------------------------------------------

LEMMA ElementOfSeq ==
    ASSUME NEW S, NEW s \in Seq(S), NEW i \in DOMAIN s
    PROVE  s[i] \in S
OBVIOUS

\* The types of a sequence of fields, as a stack holds them.
LEMMA TypesOfFields ==
    ASSUME NEW fields \in Seq(Field)
    PROVE  /\ TypesOf(fields) \in Seq(Type)
           /\ DOMAIN TypesOf(fields) = DOMAIN fields
           /\ \A i \in DOMAIN fields : TypesOf(fields)[i] = fields[i].type
<1>1. \A i \in DOMAIN fields : fields[i] \in Field
  OBVIOUS
<1>2. \A i \in DOMAIN fields : fields[i].type \in Type
  BY <1>1 DEF Field
<1>3. DOMAIN fields = 1 .. Len(fields) /\ Len(fields) \in Nat
  OBVIOUS
<1> QED
  BY <1>2, <1>3 DEF TypesOf

\* Classes and what may stand for the base of one.
Classes == Names \cup {NoName}

\* The function that chain computes: see chain.
Up(bases) ==
    CHOOSE up : up = [c \in Classes |->
        IF c \in DOMAIN bases THEN <<c>> \o up[bases[c]]
        ELSE IF c = NoName THEN <<>> ELSE <<c>>]

LEMMA ChainIsUp == ASSUME NEW c, NEW bases PROVE chain(c, bases) = Up(bases)[c]
BY DEF chain, Up, Classes

\* The recursion over the classes ends, and does as it says (chain).
LEMMA ChainStep ==
    ASSUME NEW md \in Metadata, NEW c \in Classes
    PROVE  /\ chain(c, md.bases) \in Seq(Classes)
           /\ c \in DOMAIN md.bases =>
                 /\ md.bases[c] \in Classes
                 /\ chain(c, md.bases) = <<c>> \o chain(md.bases[c], md.bases)
           /\ c \notin DOMAIN md.bases =>
                 chain(c, md.bases) = IF c = NoName THEN <<>> ELSE <<c>>
<1> DEFINE b == md.bases
           T == Seq(Classes)
           leaf == [d \in Classes |-> IF d = NoName THEN <<>> ELSE <<d>>]
           step == [x \in Classes \X T |-> <<x[1]>> \o x[2]]
           Is(u) == u = [d \in Classes |->
                      IF d \in DOMAIN b THEN <<d>> \o u[b[d]]
                      ELSE IF d = NoName THEN <<>> ELSE <<d>>]
<1>1. DOMAIN b \subseteq Classes /\ \A d \in DOMAIN b : b[d] \in Classes
  <2>1. DOMAIN md.bases \subseteq Names /\ md.bases \in [DOMAIN md.bases -> Classes]
    BY MetadataAssumption DEF Classes
  <2> QED
    BY <2>1 DEF Classes
<1>2. Rooted(b)
  BY BasesAssumption DEF Rooted, Acyclic
<1> HIDE DEF b
<1>3. leaf \in [Classes -> T]
  <2>1. \A d \in Classes : <<d>> \in Seq(Classes) /\ <<>> \in Seq(Classes)
    OBVIOUS
  <2> QED
    BY <2>1
<1>4. step \in [Classes \X T -> T]
  <2>1. \A d \in Classes, q \in Seq(Classes) : <<d>> \o q \in Seq(Classes)
    OBVIOUS
  <2>2. \A x \in Classes \X T : x[1] \in Classes /\ x[2] \in Seq(Classes)
    OBVIOUS
  <2>3. \A x \in Classes \X T : <<x[1]>> \o x[2] \in T
    BY <2>1, <2>2
  <2> QED
    BY <2>3
<1>a. \A d \in Classes : leaf[d] = IF d = NoName THEN <<>> ELSE <<d>>
  OBVIOUS
<1>b. \A d \in Classes, q \in T : step[<<d, q>>] = <<d>> \o q
  OBVIOUS
<1>5. PICK u \in [Classes -> T] : Climbs(u, Classes, b, leaf, step)
  <2> HIDE DEF leaf, step, T
  <2>1. Forest(Classes, T, b, leaf, step)
    BY <1>1, <1>2, <1>3, <1>4 DEF Forest
  <2> QED
    BY <2>1, TreeRecursion, Zenon
<1>6. Is(u)
  <2> HIDE DEF leaf, step
  <2>1. ASSUME NEW d \in Classes
        PROVE  u[d] = IF d \in DOMAIN b THEN <<d>> \o u[b[d]]
                      ELSE IF d = NoName THEN <<>> ELSE <<d>>
    <3>1. CASE d \in DOMAIN b
      <4>1. u[b[d]] \in T
        BY <1>1, <3>1
      <4>2. u[d] = step[<<d, u[b[d]]>>]
        BY <1>5, <3>1 DEF Climbs
      <4>3. step[<<d, u[b[d]]>>] = <<d>> \o u[b[d]]
        BY <1>b, <4>1
      <4> QED
        BY <3>1, <4>2, <4>3
    <3>2. CASE d \notin DOMAIN b
      BY <1>5, <1>a, <3>2 DEF Climbs
    <3> QED
      BY <3>1, <3>2
  <2> QED
    BY <2>1
<1>7. Is(Up(b))
  <2>1. \E v : Is(v)
    BY <1>6
  <2> QED
    BY <2>1, Zenon DEF Up
<1>8. \A d \in Classes : Up(b)[d] = IF d \in DOMAIN b THEN <<d>> \o Up(b)[b[d]]
                                    ELSE IF d = NoName THEN <<>> ELSE <<d>>
  BY <1>7
<1> HIDE DEF Is, leaf, step
<1>9. \A d \in Classes : Up(b)[d] = u[d]
  <2> DEFINE S == {d \in Classes : Up(b)[d] # u[d]}
  <2>1. \A d \in Classes : u[d] = IF d \in DOMAIN b THEN <<d>> \o u[b[d]]
                                  ELSE IF d = NoName THEN <<>> ELSE <<d>>
    BY <1>6 DEF Is
  <2>2. S \subseteq DOMAIN b
    BY <1>8, <2>1
  <2>3. ASSUME NEW d \in S, b[d] \notin S PROVE FALSE
    <3>1. d \in Classes /\ d \in DOMAIN b /\ b[d] \in Classes
      BY <1>1, <2>2
    <3>2. Up(b)[b[d]] = u[b[d]]
      BY <2>3, <3>1
    <3>3. Up(b)[d] = u[d]
      BY <1>8, <2>1, <3>1, <3>2
    <3> QED
      BY <3>3
  <2>4. S = {}
    <3> HIDE DEF S
    <3> QED
      BY <1>2, <2>2, <2>3 DEF Rooted
  <2> QED
    BY <2>4
<1>10. Up(b)[c] \in Seq(Classes)
  BY <1>9
<1> QED
  BY <1>1, <1>8, <1>10, ChainIsUp DEF b

\* What each class adds to a layout, the most derived one last.
OwnOf(classes, fields) ==
    [i \in DOMAIN classes |->
        IF classes[Len(classes) + 1 - i] \in DOMAIN fields
        THEN fields[classes[Len(classes) + 1 - i]] ELSE <<>>]

\* A class at the head of the chain adds its own fields at the end (fieldsOf).
LEMMA FieldsOfStep ==
    ASSUME NEW q \in Seq(Classes), NEW c \in Classes,
           NEW f, f \in [DOMAIN f -> Seq(Field)]
    PROVE  /\ fieldsOf(q, f) \in Seq(Field)
           /\ fieldsOf(<<c>> \o q, f) = fieldsOf(q, f) \o (IF c \in DOMAIN f THEN f[c] ELSE <<>>)
<1> DEFINE e == IF c \in DOMAIN f THEN f[c] ELSE <<>>
           p == <<c>> \o q
           F == Seq(Field)
<1>1. <<>> \in F /\ e \in F /\ \A d \in DOMAIN f : f[d] \in F
  OBVIOUS
<1>2. /\ p \in Seq(Classes) /\ Len(p) = Len(q) + 1 /\ Len(q) \in Nat
      /\ DOMAIN q = 1 .. Len(q) /\ DOMAIN p = 1 .. Len(q) + 1
      /\ p[1] = c /\ \A i \in 1 .. Len(q) : p[i + 1] = q[i]
  OBVIOUS
<1> HIDE DEF p, F, e
<1>3. OwnOf(q, f) \in Seq(F)
  BY <1>1, <1>2 DEF OwnOf
<1>4. OwnOf(p, f) = Append(OwnOf(q, f), e)
  <2>1. OwnOf(p, f) \in Seq(F) /\ Len(OwnOf(p, f)) = Len(q) + 1
        /\ DOMAIN OwnOf(p, f) = 1 .. Len(q) + 1
    BY <1>1, <1>2 DEF OwnOf
  <2>2. Len(OwnOf(q, f)) = Len(q) /\ DOMAIN OwnOf(q, f) = 1 .. Len(q)
    BY <1>1, <1>2 DEF OwnOf
  <2>3. \A i \in 1 .. Len(q) : OwnOf(p, f)[i] = OwnOf(q, f)[i]
    <3> TAKE i \in 1 .. Len(q)
    <3>1. /\ i \in DOMAIN p /\ i \in DOMAIN q
          /\ Len(q) + 1 - i \in 1 .. Len(q) /\ Len(p) + 1 - i = (Len(q) + 1 - i) + 1
      BY <1>2
    <3>2. p[Len(p) + 1 - i] = q[Len(q) + 1 - i]
      BY <1>2, <3>1
    <3> QED
      BY <3>1, <3>2 DEF OwnOf
  <2>4. OwnOf(p, f)[Len(q) + 1] = e
    <3>1. Len(q) + 1 \in DOMAIN p /\ Len(p) + 1 - (Len(q) + 1) = 1
      BY <1>2
    <3> QED
      BY <1>2, <3>1 DEF OwnOf, e
  <2> DEFINE a == OwnOf(p, f)  z == OwnOf(q, f)
  <2> HIDE DEF a, z
  <2>5. \A i \in 1 .. Len(q) + 1 : a[i] = Append(z, e)[i]
    BY <1>1, <1>2, <1>3, <2>2, <2>3, <2>4 DEF a, z
  <2> QED
    BY <1>1, <1>2, <1>3, <2>1, <2>2, <2>5 DEF a, z
<1>5. FlattenSeq(OwnOf(q, f)) \in F
  BY <1>3, FlattenType DEF F
<1>6. FlattenSeq(OwnOf(p, f)) = FlattenSeq(OwnOf(q, f)) \o e
  BY <1>1, <1>3, <1>4, FlattenAppend DEF F
<1>7. \A x : fieldsOf(x, f) = FlattenSeq(OwnOf(x, f))
  BY DEF fieldsOf, OwnOf
<1> QED
  BY <1>5, <1>6, <1>7 DEF p, e, F

\* The classes' own fields are fields of classes (loadOwn).
LEMMA LoadOwnType ==
    ASSUME NEW md \in Metadata
    PROVE  /\ DOMAIN loadOwn(md.dump) \subseteq Names
           /\ loadOwn(md.dump) \in [DOMAIN loadOwn(md.dump) -> Seq(Field)]
<1> DEFINE d == md.dump
           typed == {c \in DOMAIN d : d[c] # <<>> /\ \A i \in DOMAIN d[c] : d[c][i].typed}
           one(f) == IF f.static THEN <<>> ELSE <<[name |-> f.name, type |-> f.type]>>
           of(c) == IF c \in DOMAIN extraBaseFields THEN extraBaseFields[c]
                     ELSE FlattenSeq([i \in DOMAIN d[c] |-> one(d[c][i])])
<1>1. DOMAIN d \subseteq Names /\ \A c \in DOMAIN d : d[c] \in Seq(DumpField)
  BY MetadataAssumption
<1>2. loadOwn(d) = [c \in typed \cup DOMAIN extraBaseFields |-> of(c)]
  BY DEF loadOwn
<1> HIDE DEF d
<1>3. ASSUME NEW f \in DumpField PROVE one(f) \in Seq(Field)
  <2>1. [name |-> f.name, type |-> f.type] \in Field
    BY DEF DumpField, Field
  <2>2. <<[name |-> f.name, type |-> f.type]>> \in Seq(Field) /\ <<>> \in Seq(Field)
    BY <2>1
  <2> QED
    BY <2>2
<1> HIDE DEF one
<1>4. ASSUME NEW c \in DOMAIN d
      PROVE  FlattenSeq([i \in DOMAIN d[c] |-> one(d[c][i])]) \in Seq(Field)
  <2>1. DOMAIN d[c] = 1 .. Len(d[c]) /\ Len(d[c]) \in Nat
        /\ \A i \in DOMAIN d[c] : d[c][i] \in DumpField
    BY <1>1
  <2>2. \A i \in DOMAIN d[c] : one(d[c][i]) \in Seq(Field)
    BY <1>3, <2>1
  <2>3. [i \in DOMAIN d[c] |-> one(d[c][i])] \in Seq(Seq(Field))
    BY <2>1, <2>2
  <2> QED
    BY <2>3, FlattenType
<1>5. \A c \in typed \cup DOMAIN extraBaseFields : of(c) \in Seq(Field)
  <2>1. \A c \in DOMAIN extraBaseFields : extraBaseFields[c] \in Seq(Field)
    BY NamesAssumption
  <2> QED
    BY <1>4, <2>1
<1>6. typed \cup DOMAIN extraBaseFields \subseteq Names
  BY <1>1, NamesAssumption
<1> HIDE DEF of, typed
<1>7. loadOwn(d) \in [DOMAIN loadOwn(d) -> Seq(Field)] /\ DOMAIN loadOwn(d) \subseteq Names
  BY <1>2, <1>5, <1>6
<1> QED
  BY <1>7 DEF d

\* A message of the input has the name of a class and a list of fields.
LEMMA MessageType ==
    ASSUME NEW md \in Metadata, NEW i \in DOMAIN md.messages
    PROVE  md.messages[i].full \in Names /\ md.messages[i].fields \in Seq(Field)
<1> DEFINE S == [full : Names, fields : Seq(Field)]  list == md.messages
<1>1. list \in Seq(S)
  BY MetadataAssumption
<1>2. \A m \in S : m.full \in Names /\ m.fields \in Seq(Field)
  OBVIOUS
<1> HIDE DEF S, list
<1>3. i \in DOMAIN list => list[i] \in S
  BY <1>1, ElementOfSeq
<1> QED
  BY <1>2, <1>3 DEF list

\* The layout of a class is that of its base, then its own fields; what a
\* message inherits is the layout of its base (buildStructs, messageFields).
LEMMA LayoutStep ==
    ASSUME NEW md \in Metadata, NEW mine, mine = loadOwn(md.dump), NEW c \in Names
    PROVE  /\ fieldsOf(chain(c, md.bases), mine) \in Seq(Field)
           /\ fieldsOf(Tail(chain(c, md.bases)), mine) \in Seq(Field)
           /\ c \in DOMAIN mine =>
                 fieldsOf(chain(c, md.bases), mine)
                     = fieldsOf(Tail(chain(c, md.bases)), mine) \o mine[c]
           /\ c \in DOMAIN md.bases =>
                 Tail(chain(c, md.bases)) = chain(md.bases[c], md.bases)
<1>1. c \in Classes /\ c # NoName
  BY NamesAssumption DEF Classes
<1>2. mine \in [DOMAIN mine -> Seq(Field)]
  BY LoadOwnType
<1>3. PICK q \in Seq(Classes) :
         /\ chain(c, md.bases) = <<c>> \o q
         /\ c \in DOMAIN md.bases => q = chain(md.bases[c], md.bases)
  <2>1. CASE c \in DOMAIN md.bases
    <3>1. md.bases[c] \in Classes /\ chain(c, md.bases) = <<c>> \o chain(md.bases[c], md.bases)
      BY <1>1, <2>1, ChainStep
    <3>2. chain(md.bases[c], md.bases) \in Seq(Classes)
      BY <3>1, ChainStep
    <3> QED
      BY <3>1, <3>2
  <2>2. CASE c \notin DOMAIN md.bases
    <3>1. chain(c, md.bases) = <<c>>
      BY <1>1, <2>2, ChainStep
    <3>2. <<>> \in Seq(Classes) /\ <<c>> = <<c>> \o <<>>
      BY <1>1
    <3> QED
      BY <2>2, <3>1, <3>2
  <2> QED
    BY <2>1, <2>2
<1>4. Tail(<<c>> \o q) = q
  BY <1>1
<1>5. /\ fieldsOf(q, mine) \in Seq(Field)
      /\ fieldsOf(<<c>> \o q, mine) = fieldsOf(q, mine) \o (IF c \in DOMAIN mine THEN mine[c] ELSE <<>>)
  BY <1>1, <1>2, FieldsOfStep
<1>6. fieldsOf(<<c>> \o q, mine) \in Seq(Field)
  <2>1. <<c>> \o q \in Seq(Classes)
    BY <1>1
  <2> QED
    BY <1>1, <1>2, <2>1, FieldsOfStep
<1> QED
  BY <1>3, <1>4, <1>5, <1>6

\* The layouts that a run works with are sequences of fields.
LEMMA LayoutsAreFields ==
    ASSUME GenShape, phase = "collect"
    PROVE  /\ \A n \in DOMAIN structs : structs[n] \in Seq(Field)
           /\ \A i \in DOMAIN metadata.messages :
                 /\ messageFields(metadata.messages[i], metadata.bases, own) \in Seq(Field)
                 /\ metadata.messages[i].full \in Names
<1>1. metadata \in Metadata /\ own = loadOwn(metadata.dump)
      /\ structs = buildStructs(own, metadata.bases)
  BY DEF GenShape
<1>2. DOMAIN structs = DOMAIN own /\ DOMAIN own \subseteq Names
  BY <1>1, LoadOwnType DEF buildStructs
<1>3. \A n \in DOMAIN structs : structs[n] \in Seq(Field)
  <2> TAKE n \in DOMAIN structs
  <2>1. structs[n] = fieldsOf(chain(n, metadata.bases), own)
    BY <1>1, <1>2 DEF buildStructs
  <2>2. n \in Names
    BY <1>2
  <2> QED
    BY <1>1, <2>1, <2>2, LayoutStep
<1>4. \A i \in DOMAIN metadata.messages :
         /\ messageFields(metadata.messages[i], metadata.bases, own) \in Seq(Field)
         /\ metadata.messages[i].full \in Names
  <2> TAKE i \in DOMAIN metadata.messages
  <2> DEFINE m == metadata.messages[i]
             inherited == fieldsOf(Tail(chain(m.full, metadata.bases)), own)
  <2>1. m.full \in Names /\ m.fields \in Seq(Field)
    BY <1>1, MessageType
  <2> HIDE DEF m
  <2>2. inherited \in Seq(Field)
    BY <1>1, <2>1, LayoutStep
  <2>3. messageFields(m, metadata.bases, own) = inherited \o m.fields
    BY DEF messageFields
  <2> HIDE DEF inherited
  <2>4. messageFields(m, metadata.bases, own) \in Seq(Field)
    BY <2>1, <2>2, <2>3
  <2> QED
    BY <2>1, <2>4 DEF m
<1> QED
  BY <1>3, <1>4

\* A popped type and what its layout pushes make up the next stack.
LEMMA StackStep ==
    ASSUME NEW s \in Seq(Type), NEW p \in Seq(Type), s # <<>>
    PROVE  /\ p \o Tail(s) \in Seq(Type) /\ Tail(s) \in Seq(Type)
           /\ \A i \in DOMAIN s : s[i] = Head(s) \/ \E j \in DOMAIN Tail(s) : Tail(s)[j] = s[i]
           /\ \A j \in DOMAIN Tail(s) : \E i \in DOMAIN s : s[i] = Tail(s)[j]
           /\ \A i \in DOMAIN p : \E j \in DOMAIN (p \o Tail(s)) : (p \o Tail(s))[j] = p[i]
           /\ \A i \in DOMAIN Tail(s) :
                 \E j \in DOMAIN (p \o Tail(s)) : (p \o Tail(s))[j] = Tail(s)[i]
           /\ \A j \in DOMAIN (p \o Tail(s)) :
                 \/ \E i \in DOMAIN p : p[i] = (p \o Tail(s))[j]
                 \/ \E i \in DOMAIN Tail(s) : Tail(s)[i] = (p \o Tail(s))[j]
           /\ 1 \in DOMAIN s /\ s[1] = Head(s)
<1>1. Tail(s) \in Seq(Type) /\ Len(Tail(s)) = Len(s) - 1 /\ Len(s) \in Nat /\ Len(s) > 0
  OBVIOUS
<1>2. \A i \in DOMAIN s : s[i] = Head(s) \/ \E j \in DOMAIN Tail(s) : Tail(s)[j] = s[i]
  <2> SUFFICES ASSUME NEW i \in DOMAIN s, i # 1
               PROVE  \E j \in DOMAIN Tail(s) : Tail(s)[j] = s[i]
    OBVIOUS
  <2>1. i - 1 \in DOMAIN Tail(s) /\ Tail(s)[i - 1] = s[i]
    BY <1>1
  <2> QED
    BY <2>1
<1>3. \A j \in DOMAIN Tail(s) : \E i \in DOMAIN s : s[i] = Tail(s)[j]
  <2> TAKE j \in DOMAIN Tail(s)
  <2>1. j + 1 \in DOMAIN s /\ s[j + 1] = Tail(s)[j]
    BY <1>1
  <2> QED
    BY <2>1
<1> DEFINE t == Tail(s)  q == p \o t
<1>4. /\ t \in Seq(Type) /\ q \in Seq(Type) /\ Len(q) = Len(p) + Len(t)
      /\ Len(p) \in Nat /\ Len(t) \in Nat
      /\ DOMAIN p = 1 .. Len(p) /\ DOMAIN t = 1 .. Len(t) /\ DOMAIN q = 1 .. Len(q)
      /\ \A i \in 1 .. Len(p) : q[i] = p[i]
      /\ \A i \in 1 .. Len(t) : q[Len(p) + i] = t[i]
  BY <1>1
<1> HIDE DEF t, q
<1>5. \A i \in DOMAIN p : \E j \in DOMAIN q : q[j] = p[i]
  BY <1>4
<1>6. \A i \in DOMAIN t : \E j \in DOMAIN q : q[j] = t[i]
  <2> TAKE i \in DOMAIN t
  <2>1. Len(p) + i \in DOMAIN q /\ q[Len(p) + i] = t[i]
    BY <1>4
  <2> QED
    BY <2>1
<1>7. \A j \in DOMAIN q :
         (\E i \in DOMAIN p : p[i] = q[j]) \/ (\E i \in DOMAIN t : t[i] = q[j])
  <2> TAKE j \in DOMAIN q
  <2>1. CASE j <= Len(p)
    BY <1>4, <2>1
  <2>2. CASE j > Len(p)
    <3>1. j - Len(p) \in DOMAIN t /\ t[j - Len(p)] = q[j]
      BY <1>4, <2>2
    <3> QED
      BY <3>1
  <2> QED
    BY <1>4, <2>1, <2>2
<1>8. 1 \in DOMAIN s /\ s[1] = Head(s)
  BY <1>1
<1> QED
  BY <1>1, <1>2, <1>3, <1>4, <1>5, <1>6, <1>7, <1>8 DEF t, q

\* A name that Base gives is the one inside.
LEMMA FoundIsNested ==
    ASSUME GenShape, NEW fields \in Seq(Field)
    PROVE  Found(fields) \subseteq Nested(fields)
<1>1. DOMAIN structs \subseteq Names
  <2>1. CASE phase = "load"
    BY <2>1 DEF GenShape
  <2>2. CASE phase # "load"
    BY <2>2, LoadOwnType DEF GenShape, buildStructs
  <2> QED
    BY <2>1, <2>2
<1>2. \A type : Base(type) \in {type.name, NoName}
  BY DEF Base
<1> QED
  BY <1>1, <1>2, NamesAssumption DEF Found, Nested

\* Nothing stays wrapped of a type that is wrapped as the client does.
LEMMA BaseOfWrapped == ASSUME NEW type, type.wraps \in Wrappings PROVE Base(type) = type.name
<1>1. /\ Without("array", <<>>) = <<>>
      /\ Without("list", <<>>) = <<>>
      /\ Without("array", <<"list">>) = <<"list">>
      /\ Without("array", <<"array">>) = <<>>
      /\ Without("list", <<"list">>) = <<>>
      /\ Without("array", <<"array", "list">>) = <<"list">>
  BY DEF Without
<1> QED
  BY <1>1 DEF Base, Wrappings

-----------------------------------------------------------------------------
(* The invariant holds at the start and is kept by each action.            *)

LEMMA GenInitInv == GenInit => GenIInv
<1> SUFFICES ASSUME GenInit PROVE GenIInv
  OBVIOUS
<1>1. GenShape
  <2>1. metadata.messages \in Seq([full : Names, fields : Seq(Field)])
    BY MetadataAssumption DEF GenInit
  <2>2. <<>> \in Seq(Type) /\ <<>> \in Seq([full : Names, fields : Seq(Field)])
    OBVIOUS
  <2>3. Len(<<>>) <= Len(metadata.messages)
    BY <2>1
  <2> QED
    BY <2>2, <2>3 DEF GenInit, GenShape
<1>2. GenEmitted
  BY DEF GenInit, GenEmitted
<1>3. GenNoneLost
  BY DEF GenInit, GenNoneLost
<1>4. GenNoneMore
  <2>1. OnStack = {}
    BY DEF GenInit, OnStack
  <2> QED
    BY <2>1 DEF GenInit, GenNoneMore
<1> QED
  BY <1>1, <1>2, <1>3, <1>4 DEF GenIInv

\* Reading the input: nothing is found and nothing is on the stack.
LEMMA LoadInv == GenIInv /\ Load => GenIInv'
<1> SUFFICES ASSUME GenIInv, Load PROVE GenIInv'
  OBVIOUS
<1>1. resolved' = <<>> /\ stack' = <<>> /\ reachable' = {} /\ structs = <<>>
  BY DEF GenIInv, GenShape, Load
<1>2. GenShape'
  <2>1. reachable' \subseteq DOMAIN structs'
    BY <1>1
  <2>2. own' = loadOwn(metadata'.dump) /\ structs' = buildStructs(own', metadata'.bases)
    BY DEF Load
  <2> QED
    BY <1>1, <2>1, <2>2 DEF GenIInv, GenShape, Load
<1>3. GenEmitted'
  BY DEF GenIInv, GenEmitted, Load
<1>4. GenNoneLost'
  BY <1>1 DEF GenNoneLost
<1>5. GenNoneMore'
  <2>1. OnStack' = {}
    BY <1>1 DEF OnStack
  <2> QED
    BY <1>1, <2>1 DEF GenNoneMore
<1> QED
  BY <1>2, <1>3, <1>4, <1>5 DEF GenIInv

\* The fields of the next message are all on the stack.
LEMMA ResolveInv == GenIInv /\ ResolveMessage => GenIInv'
<1> SUFFICES ASSUME GenIInv, ResolveMessage PROVE GenIInv'
  OBVIOUS
<1> DEFINE m    == metadata.messages[Len(resolved) + 1]
           full == messageFields(m, metadata.bases, own)
<1>0. phase = "collect" /\ stack = <<>>
  BY DEF ResolveMessage
<1>1. resolved \in Seq([full : Names, fields : Seq(Field)])
  BY DEF GenIInv, GenShape
<1>2. Len(resolved) + 1 \in DOMAIN metadata.messages
  BY <1>1, MetadataAssumption DEF GenIInv, GenShape, ResolveMessage
<1>3. full \in Seq(Field) /\ m.full \in Names
  BY <1>0, <1>2, LayoutsAreFields DEF GenIInv
<1>4. resolved' = Append(resolved, [full |-> m.full, fields |-> full])
      /\ stack' = TypesOf(full)
  BY DEF ResolveMessage
<1>5. UNCHANGED <<phase, metadata, own, structs, reachable, catalog>>
  BY DEF ResolveMessage
<1> HIDE DEF m, full
<1>6. /\ resolved' \in Seq([full : Names, fields : Seq(Field)])
      /\ Len(resolved') = Len(resolved) + 1
      /\ \A i \in DOMAIN resolved : i \in DOMAIN resolved' /\ resolved'[i] = resolved[i]
      /\ Len(resolved) + 1 \in DOMAIN resolved'
      /\ resolved'[Len(resolved) + 1].fields = full
      /\ \A i \in DOMAIN resolved' : i \in DOMAIN resolved \/ i = Len(resolved) + 1
  BY <1>1, <1>3, <1>4
<1>7. /\ stack' \in Seq(Type) /\ DOMAIN stack' = DOMAIN full
      /\ \A i \in DOMAIN full : stack'[i] = full[i].type
  BY <1>3, <1>4, TypesOfFields
<1>8. OnStack' = Found(full) /\ OnStack = {}
  BY <1>0, <1>5, <1>7 DEF OnStack, Found
<1>9. Found(full) \subseteq Nested(full)
  BY <1>3, FoundIsNested DEF GenIInv
<1>10. GenShape'
  <2>1. Len(resolved') <= Len(metadata'.messages)
    BY <1>1, <1>2, <1>5, <1>6, MetadataAssumption DEF GenIInv, GenShape
  <2> QED
    BY <1>0, <1>5, <1>6, <1>7, <2>1 DEF GenIInv, GenShape
<1>11. GenEmitted'
  BY <1>0, <1>5 DEF GenIInv, GenEmitted
<1>12. GenNoneLost'
  <2>1. \A i \in DOMAIN resolved' :
           Found(resolved'[i].fields) \subseteq reachable \cup Found(full)
    BY <1>6, <1>8 DEF GenIInv, GenNoneLost
  <2>2. \A n \in reachable : Found(structs[n]) \subseteq reachable
    BY <1>8 DEF GenIInv, GenNoneLost
  <2> QED
    BY <1>5, <1>8, <2>1, <2>2 DEF GenNoneLost, Found
<1>13. GenNoneMore'
  <2> SUFFICES ASSUME NEW S \in SUBSET DOMAIN structs, HoldsNested(S)'
               PROVE  (reachable \cup OnStack)' \subseteq S
    BY <1>5 DEF GenNoneMore
  <2>1. \A i \in DOMAIN resolved' : Nested(resolved'[i].fields) \subseteq S
    BY <1>5 DEF HoldsNested, Nested
  <2>2. \A n \in S : Nested(structs[n]) \subseteq S
    BY <1>5 DEF HoldsNested, Nested
  <2>3. HoldsNested(S)
    BY <1>6, <2>1, <2>2 DEF HoldsNested
  <2>4. reachable \subseteq S
    BY <2>3 DEF GenIInv, GenNoneMore
  <2>5. Nested(full) \subseteq S
    BY <1>6, <2>1
  <2> QED
    BY <1>5, <1>8, <1>9, <2>4, <2>5
<1> QED
  BY <1>10, <1>11, <1>12, <1>13 DEF GenIInv

\* A type leaves the stack; what it nests is there instead, if it is new.
LEMMA CollectInv == GenIInv /\ collectReachable => GenIInv'
<1> SUFFICES ASSUME GenIInv, collectReachable PROVE GenIInv'
  OBVIOUS
<1> DEFINE name == Base(Head(stack))
<1>1. phase = "collect" /\ stack # <<>> /\ stack \in Seq(Type)
  BY DEF GenIInv, GenShape, collectReachable
<1>2. UNCHANGED <<phase, metadata, own, structs, resolved, catalog>>
  BY DEF collectReachable
<1>3. \A n \in DOMAIN structs : structs[n] \in Seq(Field)
  BY <1>1, LayoutsAreFields DEF GenIInv
<1>4. \A n \in DOMAIN structs : Found(structs[n]) \subseteq Nested(structs[n])
  BY <1>3, FoundIsNested DEF GenIInv
<1>5. /\ stack' \in Seq(Type)
      /\ reachable \subseteq reachable' /\ reachable' \subseteq DOMAIN structs
      /\ OnStack \subseteq reachable' \cup OnStack'
      /\ \A n \in reachable' : Found(structs[n]) \subseteq reachable' \cup OnStack'
      /\ \A S \in SUBSET DOMAIN structs :
            (reachable \cup OnStack \subseteq S /\ \A n \in S : Nested(structs[n]) \subseteq S)
                => reachable' \cup OnStack' \subseteq S
  <2>1. CASE name \in DOMAIN structs /\ name \notin reachable
    <3>1. reachable' = reachable \cup {name}
          /\ stack' = TypesOf(structs[name]) \o Tail(stack)
      BY <2>1 DEF collectReachable
    <3>2. /\ TypesOf(structs[name]) \in Seq(Type)
          /\ DOMAIN TypesOf(structs[name]) = DOMAIN structs[name]
          /\ \A i \in DOMAIN structs[name] :
                TypesOf(structs[name])[i] = structs[name][i].type
      BY <1>3, <2>1, TypesOfFields
    <3> DEFINE p == TypesOf(structs[name])  t == Tail(stack)  q == p \o t
    <3>3. /\ q \in Seq(Type)
          /\ \A i \in DOMAIN stack : stack[i] = Head(stack) \/ \E j \in DOMAIN t : t[j] = stack[i]
          /\ \A j \in DOMAIN t : \E i \in DOMAIN stack : stack[i] = t[j]
          /\ \A i \in DOMAIN p : \E j \in DOMAIN q : q[j] = p[i]
          /\ \A i \in DOMAIN t : \E j \in DOMAIN q : q[j] = t[i]
          /\ \A j \in DOMAIN q :
                (\E i \in DOMAIN p : p[i] = q[j]) \/ (\E i \in DOMAIN t : t[i] = q[j])
          /\ 1 \in DOMAIN stack /\ stack[1] = Head(stack)
      BY <1>1, <3>2, StackStep
    <3>b. /\ stack' = q
          /\ DOMAIN p = DOMAIN structs[name]
          /\ \A i \in DOMAIN structs[name] : p[i] = structs[name][i].type
      BY <3>1, <3>2
    <3> HIDE DEF p, t, q
    <3>4. \A i \in DOMAIN stack : Base(stack[i]) = name
             \/ \E j \in DOMAIN stack' : stack'[j] = stack[i]
      BY <3>b, <3>3
    <3>5. \A i \in DOMAIN structs[name] :
             \E j \in DOMAIN stack' : stack'[j] = structs[name][i].type
      BY <3>b, <3>3
    <3>6. \A j \in DOMAIN stack' :
             \/ \E i \in DOMAIN structs[name] : stack'[j] = structs[name][i].type
             \/ \E i \in DOMAIN stack : stack'[j] = stack[i]
      BY <3>b, <3>3
    <3>7. OnStack \subseteq {name} \cup OnStack'
      BY <1>2, <3>4 DEF OnStack
    <3>8. Found(structs[name]) \subseteq OnStack'
      BY <1>2, <3>5 DEF OnStack, Found
    <3>9. OnStack' \subseteq Found(structs[name]) \cup OnStack
      BY <1>2, <3>6 DEF OnStack, Found
    <3>10. name \in OnStack
      BY <2>1, <3>3 DEF OnStack
    <3>11. \A n \in reachable : Found(structs[n]) \subseteq reachable \cup OnStack
      BY DEF GenIInv, GenNoneLost
    <3>12. stack' \in Seq(Type)
      BY <3>b, <3>3
    <3> HIDE DEF name
    <3> QED
      BY <1>4, <2>1, <3>1, <3>7, <3>8, <3>9, <3>10, <3>11, <3>12 DEF GenIInv, GenShape
  <2>2. CASE ~(name \in DOMAIN structs /\ name \notin reachable)
    <3>1. reachable' = reachable /\ stack' = Tail(stack)
      BY <2>2 DEF collectReachable
    <3>2. /\ Tail(stack) \in Seq(Type)
          /\ \A i \in DOMAIN stack :
                stack[i] = Head(stack) \/ \E j \in DOMAIN Tail(stack) : Tail(stack)[j] = stack[i]
          /\ \A j \in DOMAIN Tail(stack) : \E i \in DOMAIN stack : stack[i] = Tail(stack)[j]
      <4>1. <<>> \in Seq(Type)
        OBVIOUS
      <4> QED
        BY <1>1, <4>1, StackStep
    <3>3. OnStack \subseteq reachable \cup OnStack'
      BY <1>2, <2>2, <3>1, <3>2 DEF OnStack
    <3>4. OnStack' \subseteq OnStack
      BY <1>2, <3>1, <3>2 DEF OnStack
    <3>5. \A n \in reachable : Found(structs[n]) \subseteq reachable \cup OnStack
      BY DEF GenIInv, GenNoneLost
    <3> QED
      BY <3>1, <3>2, <3>3, <3>4, <3>5 DEF GenIInv, GenShape
  <2> QED
    BY <2>1, <2>2
<1>6. GenShape'
  BY <1>1, <1>2, <1>5 DEF GenIInv, GenShape
<1>7. GenEmitted'
  BY <1>1, <1>2 DEF GenIInv, GenEmitted
<1>8. GenNoneLost'
  <2>1. \A i \in DOMAIN resolved : Found(resolved[i].fields) \subseteq reachable' \cup OnStack'
    BY <1>5 DEF GenIInv, GenNoneLost
  <2> QED
    BY <1>2, <1>5, <2>1 DEF GenNoneLost, Found
<1>9. GenNoneMore'
  <2> SUFFICES ASSUME NEW S \in SUBSET DOMAIN structs, HoldsNested(S)'
               PROVE  (reachable \cup OnStack)' \subseteq S
    BY <1>2 DEF GenNoneMore
  <2>1. HoldsNested(S)
    BY <1>2 DEF HoldsNested, Nested
  <2>2. reachable \cup OnStack \subseteq S
    BY <2>1 DEF GenIInv, GenNoneMore
  <2>3. \A n \in S : Nested(structs[n]) \subseteq S
    BY <2>1 DEF HoldsNested
  <2> QED
    BY <1>5, <2>2, <2>3
<1> QED
  BY <1>6, <1>7, <1>8, <1>9 DEF GenIInv

\* The layouts that were found are written.
LEMMA EmitInv == GenIInv /\ emit => GenIInv'
<1> SUFFICES ASSUME GenIInv, emit PROVE GenIInv'
  OBVIOUS
<1>1. phase = "collect" /\ stack = <<>> /\ phase' = "done"
  BY DEF emit
<1>2. UNCHANGED <<metadata, own, structs, resolved, stack, reachable>>
  BY DEF emit
<1>3. GenShape'
  BY <1>1, <1>2 DEF GenIInv, GenShape
<1>4. GenEmitted'
  BY <1>1, <1>2 DEF emit, GenEmitted
<1>5. GenNoneLost'
  BY <1>2 DEF GenIInv, GenNoneLost, Found, OnStack
<1>6. GenNoneMore'
  BY <1>2 DEF GenIInv, GenNoneMore, HoldsNested, Nested, OnStack
<1> QED
  BY <1>3, <1>4, <1>5, <1>6 DEF GenIInv

LEMMA GenStutter == GenIInv /\ UNCHANGED genVars => GenIInv'
<1> SUFFICES ASSUME GenIInv, UNCHANGED genVars PROVE GenIInv'
  OBVIOUS
<1>1. GenShape'
  BY DEF GenIInv, GenShape, genVars
<1>2. GenEmitted'
  BY DEF GenIInv, GenEmitted, genVars
<1>3. GenNoneLost'
  BY DEF GenIInv, GenNoneLost, Found, OnStack, genVars
<1>4. GenNoneMore'
  BY DEF GenIInv, GenNoneMore, HoldsNested, Nested, OnStack, genVars
<1> QED
  BY <1>1, <1>2, <1>3, <1>4 DEF GenIInv

LEMMA GenAlways == GenSpec => []GenIInv
<1>1. GenIInv /\ [GenNext]_genVars => GenIInv'
  BY LoadInv, ResolveInv, CollectInv, EmitInv, GenStutter DEF GenNext
<1> QED
  BY GenInitInv, <1>1, PTL DEF GenSpec

-----------------------------------------------------------------------------
(* The layouts of the messages, once they are resolved.                    *)

\* Each is the one of the message at its place.
GenResolved ==
    \A i \in DOMAIN resolved :
        /\ i \in DOMAIN metadata.messages
        /\ resolved[i] = [full   |-> metadata.messages[i].full,
                          fields |-> messageFields(metadata.messages[i], metadata.bases, own)]

\* A message is resolved in its turn; nothing changes one that is.
LEMMA ResolvedStep == GenIInv /\ GenResolved /\ [GenNext]_genVars => GenResolved'
<1> SUFFICES ASSUME GenIInv, GenResolved, [GenNext]_genVars PROVE GenResolved'
  OBVIOUS
<1>1. CASE Load
  <2>1. resolved' = <<>>
    BY <1>1 DEF Load, GenIInv, GenShape
  <2> QED
    BY <2>1 DEF GenResolved
<1>2. CASE ResolveMessage
  <2> DEFINE n == Len(resolved) + 1
             r == [full   |-> metadata.messages[n].full,
                   fields |-> messageFields(metadata.messages[n], metadata.bases, own)]
  <2>1. metadata' = metadata /\ own' = own /\ resolved' = Append(resolved, r)
    BY <1>2 DEF ResolveMessage
  <2>2. n \in DOMAIN metadata.messages
    <3>1. metadata.messages \in Seq([full : Names, fields : Seq(Field)])
      BY MetadataAssumption DEF GenIInv, GenShape
    <3>2. Len(resolved) \in Nat /\ Len(resolved) < Len(metadata.messages)
      BY <1>2 DEF GenIInv, GenShape, ResolveMessage
    <3> QED
      BY <3>1, <3>2
  <2>3. resolved \in Seq([full : Names, fields : Seq(Field)])
    BY DEF GenIInv, GenShape
  <2> HIDE DEF r
  <2>4. /\ \A i \in DOMAIN resolved' : i \in DOMAIN resolved \/ i = n
        /\ \A i \in DOMAIN resolved : resolved'[i] = resolved[i]
        /\ resolved'[n] = r
    BY <2>1, <2>3
  <2>5. ASSUME NEW i \in DOMAIN resolved'
        PROVE  /\ i \in DOMAIN metadata.messages
               /\ resolved'[i] =
                    [full   |-> metadata.messages[i].full,
                     fields |-> messageFields(metadata.messages[i], metadata.bases, own)]
    <3> HIDE DEF n
    <3>1. CASE i \in DOMAIN resolved
      BY <2>4, <3>1 DEF GenResolved
    <3>2. CASE i = n
      BY <2>2, <2>4, <3>2 DEF r
    <3> QED
      BY <2>4, <3>1, <3>2
  <2> QED
    BY <2>1, <2>5 DEF GenResolved
<1>3. CASE UNCHANGED <<metadata, own, resolved>>
  BY <1>3 DEF GenResolved
<1> QED
  BY <1>1, <1>2, <1>3 DEF GenNext, collectReachable, emit, genVars

LEMMA ResolvedAlways == GenSpec => [](GenIInv /\ GenResolved)
<1>1. GenInit => GenResolved
  BY DEF GenInit, GenResolved
<1> QED
  BY GenAlways, ResolvedStep, <1>1, PTL DEF GenSpec

\* What a finished run knows of its layouts.
LEMMA LayoutsAtEnd ==
    ASSUME GenIInv, GenResolved, phase = "done"
    PROVE  /\ metadata \in Metadata
           /\ own = loadOwn(metadata.dump)
           /\ DOMAIN structs = DOMAIN own /\ DOMAIN own \subseteq Names
           /\ \A n \in DOMAIN structs : structs[n] = fieldsOf(chain(n, metadata.bases), own)
           /\ catalog.structs \subseteq DOMAIN structs
           /\ \A i \in DOMAIN resolved :
                 /\ metadata.messages[i].full \in Names
                 /\ resolved[i].fields =
                      fieldsOf(Tail(chain(metadata.messages[i].full, metadata.bases)), own)
                          \o metadata.messages[i].fields
<1>1. /\ metadata \in Metadata /\ own = loadOwn(metadata.dump)
      /\ structs = buildStructs(own, metadata.bases)
  BY DEF GenIInv, GenShape
<1>2. DOMAIN structs = DOMAIN own /\ DOMAIN own \subseteq Names
  BY <1>1, LoadOwnType DEF buildStructs
<1>3. \A n \in DOMAIN structs : structs[n] = fieldsOf(chain(n, metadata.bases), own)
  BY <1>1, <1>2 DEF buildStructs
<1>4. catalog.structs \subseteq DOMAIN structs
  BY DEF GenIInv, GenShape, GenEmitted
<1>5. \A i \in DOMAIN resolved :
         /\ metadata.messages[i].full \in Names
         /\ resolved[i].fields =
              fieldsOf(Tail(chain(metadata.messages[i].full, metadata.bases)), own)
                  \o metadata.messages[i].fields
  <2> TAKE i \in DOMAIN resolved
  <2> DEFINE m == metadata.messages[i]
             layout == messageFields(m, metadata.bases, own)
  <2>1. i \in DOMAIN metadata.messages /\ resolved[i] = [full |-> m.full, fields |-> layout]
    BY DEF GenResolved
  <2>2. m.full \in Names
    BY <1>1, <2>1, MessageType
  <2>3. resolved[i].fields = layout
    <3> HIDE DEF layout, m
    <3> QED
      BY <2>1
  <2>4. layout = fieldsOf(Tail(chain(m.full, metadata.bases)), own) \o m.fields
    BY DEF messageFields
  <2> QED
    BY <2>2, <2>3, <2>4, Zenon
<1> QED
  BY <1>1, <1>2, <1>3, <1>4, <1>5

-----------------------------------------------------------------------------

\* The generator's variables have the shapes that the code gives them.
THEOREM GenTypes == GenSpec => []GenTypeOK
<1>1. GenIInv => GenTypeOK
  BY DEF GenIInv, GenShape, GenEmitted, GenTypeOK
<1> QED
  BY GenAlways, <1>1, PTL

\* Every layout at which the codec arrives from an emitted one is emitted, for
\* any metadata with types wrapped as the client's (collectReachable, emit).
THEOREM CatalogClosed == GenSpec => []GenClosed
<1>1. GenIInv => GenClosed
  <2> SUFFICES ASSUME GenIInv, phase = "done", WrappedAsClient
               PROVE  HoldsNested(catalog.structs)
    BY DEF GenClosed
  <2>1. OnStack = {} /\ catalog.structs = reachable
    BY DEF GenIInv, GenEmitted, OnStack
  <2>2. ASSUME NEW fields, \A i \in DOMAIN fields : fields[i].type.wraps \in Wrappings
        PROVE  Nested(fields) \subseteq Found(fields)
    <3>1. \A i \in DOMAIN fields : Base(fields[i].type) = fields[i].type.name
      BY <2>2, BaseOfWrapped
    <3> QED
      BY <3>1 DEF Nested, Found
  <2>3. \A i \in DOMAIN resolved : Nested(resolved[i].fields) \subseteq Found(resolved[i].fields)
    BY <2>2 DEF WrappedAsClient
  <2>4. \A n \in catalog.structs : Nested(structs[n]) \subseteq Found(structs[n])
    BY <2>2 DEF WrappedAsClient
  <2> QED
    BY <2>1, <2>3, <2>4 DEF GenIInv, GenNoneLost, HoldsNested
<1> QED
  BY GenAlways, <1>1, PTL

\* No set that holds the messages' nested types and its own lacks an emitted
\* layout: none is emitted without need (collectReachable, emit).
THEOREM CatalogLeast == GenSpec => []GenLeast
<1>1. GenIInv => GenLeast
  <2>1. GenIInv /\ phase = "done" => catalog.structs = reachable
    BY DEF GenIInv, GenEmitted
  <2> QED
    BY <2>1 DEF GenIInv, GenNoneMore, GenLeast
<1> QED
  BY GenAlways, <1>1, PTL

\* A layout begins with that of the base class and goes on with the class's own
\* fields, through any number of bases (chain, fieldsOf, messageFields).
THEOREM BaseComesFirst == GenSpec => []BaseFirst
<1>1. GenIInv /\ GenResolved => BaseFirst
  <2> SUFFICES ASSUME GenIInv, GenResolved, phase = "done" PROVE BaseFirst
    BY DEF BaseFirst
  <2> DEFINE b == metadata.bases
             L(c) == fieldsOf(chain(c, b), own)
  <2>1. ASSUME NEW c \in catalog.structs, c \in DOMAIN b, b[c] \in DOMAIN structs
        PROVE  structs[c] = structs[b[c]] \o own[c]
    <3>1. c \in Names /\ c \in DOMAIN own /\ c \in DOMAIN structs
      BY LayoutsAtEnd
    <3>2. structs[c] = L(c) /\ structs[b[c]] = L(b[c])
      BY <2>1, <3>1, LayoutsAtEnd
    <3>3. /\ Tail(chain(c, b)) = chain(b[c], b)
          /\ L(c) = fieldsOf(Tail(chain(c, b)), own) \o own[c]
      BY <2>1, <3>1, LayoutsAtEnd, LayoutStep
    <3> QED
      BY <3>2, <3>3
  <2>2. ASSUME NEW i \in DOMAIN resolved,
               metadata.messages[i].full \in DOMAIN b,
               b[metadata.messages[i].full] \in DOMAIN structs
        PROVE  resolved[i].fields = structs[b[metadata.messages[i].full]] \o metadata.messages[i].fields
    <3> DEFINE m == metadata.messages[i]
    <3>1. m.full \in Names
          /\ resolved[i].fields = fieldsOf(Tail(chain(m.full, b)), own) \o m.fields
      BY LayoutsAtEnd
    <3>2. m.full \in DOMAIN b /\ b[m.full] \in DOMAIN structs
      BY <2>2
    <3> HIDE DEF m
    <3>3. structs[b[m.full]] = L(b[m.full])
      BY <3>2, LayoutsAtEnd
    <3>4. Tail(chain(m.full, b)) = chain(b[m.full], b)
      BY <3>1, <3>2, LayoutsAtEnd, LayoutStep
    <3> QED
      BY <3>1, <3>3, <3>4 DEF m
  <2>3. /\ \A c \in catalog.structs : c \in DOMAIN b =>
              (b[c] \in DOMAIN structs => structs[c] = structs[b[c]] \o own[c])
        /\ \A i \in DOMAIN resolved : metadata.messages[i].full \in DOMAIN b =>
              (b[metadata.messages[i].full] \in DOMAIN structs =>
                  resolved[i].fields =
                      structs[b[metadata.messages[i].full]] \o metadata.messages[i].fields)
    BY <2>1, <2>2
  <2> QED
    BY <2>3, Zenon DEF BaseFirst
<1> QED
  BY ResolvedAlways, <1>1, PTL

\* One class, one layout: as a message and inside another (messageFields,
\* buildStructs).
THEOREM NestedAsMessage == GenSpec => []NestedMessageSame
<1>1. GenIInv /\ GenResolved => NestedMessageSame
  <2> SUFFICES ASSUME GenIInv, GenResolved, phase = "done", NEW i \in DOMAIN resolved,
                      metadata.messages[i].full \in catalog.messageFullNames,
                      own[metadata.messages[i].full] = metadata.messages[i].fields
               PROVE  resolved[i].fields = structs[metadata.messages[i].full]
    BY DEF NestedMessageSame
  <2> DEFINE m == metadata.messages[i]
  <2>1. m.full \in DOMAIN structs
    BY DEF GenIInv, GenShape, GenEmitted
  <2>2. own[m.full] = m.fields /\ m.full \in Names
        /\ resolved[i].fields = fieldsOf(Tail(chain(m.full, metadata.bases)), own) \o m.fields
    BY LayoutsAtEnd
  <2> HIDE DEF m
  <2>3. structs[m.full] = fieldsOf(chain(m.full, metadata.bases), own) /\ m.full \in DOMAIN own
    BY <2>1, LayoutsAtEnd
  <2>4. fieldsOf(chain(m.full, metadata.bases), own)
            = fieldsOf(Tail(chain(m.full, metadata.bases)), own) \o own[m.full]
    BY <2>2, <2>3, LayoutsAtEnd, LayoutStep
  <2> QED
    BY <2>2, <2>3, <2>4 DEF m
<1> QED
  BY ResolvedAlways, <1>1, PTL
=============================================================================

------------------------------- MODULE Recursion -------------------------------
(***************************************************************************)
(* Induction and recursion over the natural numbers, stated for sets and   *)
(* functions, and what they say of the operators on sequences that the     *)
(* modules of this project are built from.                                 *)
(***************************************************************************)
EXTENDS Integers, Sequences, SequencesExt, WellFoundedInduction, TLAPS

\* Induction: a set of numbers with 0 and each successor has them all.
LEMMA NatSet ==
    ASSUME NEW S, 0 \in S, \A n \in Nat : n \in S => n + 1 \in S
    PROVE  \A n \in Nat : n \in S
<1> DEFINE R == {ss \in Nat \X Nat : ss[1] < ss[2]}
           T == Nat \ S
<1>1. IsWellFoundedOn(R, Nat)
    BY NatLessThanWellFounded, Zenon DEF OpToRel
<1>2. T \subseteq Nat
    OBVIOUS
<1>3. ASSUME T # {} PROVE FALSE
    <2>1. \E x \in T : \A y \in T : ~(<<y, x>> \in R)
        <3> HIDE DEF R, T
        <3> QED BY <1>1, <1>2, <1>3, WFMin
    <2>2. PICK x \in T : \A y \in T : ~(<<y, x>> \in R)
        BY <2>1
    <2>3. x \in Nat /\ x # 0 /\ x \notin S
        OBVIOUS
    <2>4. x - 1 \in Nat /\ x - 1 < x /\ (x - 1) + 1 = x
        BY <2>3
    <2>5. <<x - 1, x>> \in R
        <3>1. <<x - 1, x>> \in Nat \X Nat /\ <<x - 1, x>>[1] < <<x - 1, x>>[2]
            BY <2>3, <2>4
        <3> QED BY <3>1
    <2>6. x - 1 \in S
        BY <2>2, <2>4, <2>5
    <2> QED BY <2>3, <2>4, <2>6
<1> QED BY <1>3

\* A function is the start of the sequence that step makes of a.
Starts(n, g, a, step) ==
    /\ DOMAIN g = 0 .. n /\ g[0] = a
    /\ \A k \in 0 .. n - 1 : g[k + 1] = step[<<k, g[k]>>]

\* Two starts agree as far as both go.
LEMMA StartsAgree ==
    ASSUME NEW a, NEW step, NEW n \in Nat, NEW m \in Nat, n <= m,
           NEW g, NEW h, Starts(n, g, a, step), Starts(m, h, a, step)
    PROVE  \A k \in 0 .. n : g[k] = h[k]
<1> DEFINE S == {k \in Nat : k <= n => g[k] = h[k]}
<1>1. 0 \in S
    BY DEF Starts
<1>2. ASSUME NEW k \in Nat, k \in S
      PROVE  k + 1 \in S
    <2> SUFFICES ASSUME k + 1 <= n PROVE g[k + 1] = h[k + 1]
        OBVIOUS
    <2>1. k \in 0 .. n - 1 /\ k \in 0 .. m - 1 /\ g[k] = h[k]
        BY <1>2
    <2> QED BY <2>1 DEF Starts
<1>3. \A k \in Nat : k \in S
    <2> HIDE DEF S
    <2> QED BY <1>1, <1>2, NatSet
<1> QED BY <1>3

\* Each start goes on.
LEMMA StartsExist ==
    ASSUME NEW T, NEW a \in T, NEW step \in [Nat \X T -> T]
    PROVE  \A n \in Nat : \E g \in [0 .. n -> T] : Starts(n, g, a, step)
<1> DEFINE S == {n \in Nat : \E g \in [0 .. n -> T] : Starts(n, g, a, step)}
<1>1. 0 \in S
    <2> DEFINE g == [k \in 0 .. 0 |-> a]
    <2>1. g \in [0 .. 0 -> T] /\ Starts(0, g, a, step)
        BY DEF Starts
    <2> QED BY <2>1
<1>2. ASSUME NEW n \in Nat, n \in S
      PROVE  n + 1 \in S
    <2>1. PICK g \in [0 .. n -> T] : Starts(n, g, a, step)
        BY <1>2
    <2> DEFINE h == [k \in 0 .. n + 1 |-> IF k <= n THEN g[k] ELSE step[<<n, g[n]>>]]
    <2>2. g[n] \in T /\ step[<<n, g[n]>>] \in T
        OBVIOUS
    <2>3. h \in [0 .. n + 1 -> T]
        BY <2>2
    <2>4. Starts(n + 1, h, a, step)
        <3>1. \A k \in 0 .. n : h[k] = g[k]
            OBVIOUS
        <3>2. h[n + 1] = step[<<n, g[n]>>]
            OBVIOUS
        <3>3. h[0] = a
            BY <2>1, <3>1 DEF Starts
        <3>4. ASSUME NEW k \in 0 .. n PROVE h[k + 1] = step[<<k, h[k]>>]
            <4>1. CASE k = n
                BY <3>1, <3>2, <4>1
            <4>2. CASE k # n
                <5>1. k \in 0 .. n - 1 /\ k + 1 \in 0 .. n /\ k \in 0 .. n
                    BY <4>2
                <5>2. g[k + 1] = step[<<k, g[k]>>]
                    BY <2>1, <5>1 DEF Starts
                <5> HIDE DEF h
                <5> QED BY <3>1, <5>1, <5>2
            <4> QED BY <4>1, <4>2
        <3>5. DOMAIN h = 0 .. n + 1
            OBVIOUS
        <3> HIDE DEF h
        <3>6. 0 .. (n + 1) - 1 = 0 .. n
            OBVIOUS
        <3> QED BY <3>3, <3>4, <3>5, <3>6 DEF Starts
    <2> QED BY <2>3, <2>4
<1>3. \A n \in Nat : n \in S
    <2> HIDE DEF S
    <2> QED BY <1>1, <1>2, NatSet
<1> QED BY <1>3

\* A function is the sequence that step makes of a.
Goes(g, a, step) == g[0] = a /\ \A n \in Nat : g[n + 1] = step[<<n, g[n]>>]

\* Recursion: every first value and every step make a sequence.
LEMMA NatRecursion ==
    ASSUME NEW T, NEW a \in T, NEW step \in [Nat \X T -> T]
    PROVE  \E g \in [Nat -> T] : Goes(g, a, step)
<1> DEFINE s(n) == CHOOSE g : g \in [0 .. n -> T] /\ Starts(n, g, a, step)
           g == [n \in Nat |-> s(n)[n]]
<1>1. ASSUME NEW n \in Nat
      PROVE  s(n) \in [0 .. n -> T] /\ Starts(n, s(n), a, step)
    <2>1. \E f : f \in [0 .. n -> T] /\ Starts(n, f, a, step)
        BY StartsExist
    <2> QED BY <2>1, Zenon
<1> HIDE DEF s
<1>2. g \in [Nat -> T]
    BY <1>1
<1>3. g[0] = a
    BY <1>1 DEF Starts
<1>4. ASSUME NEW n \in Nat PROVE g[n + 1] = step[<<n, g[n]>>]
    <2>1. Starts(n, s(n), a, step) /\ Starts(n + 1, s(n + 1), a, step)
        BY <1>1
    <2>2. s(n)[n] = s(n + 1)[n]
        BY <2>1, StartsAgree
    <2>3. n \in 0 .. (n + 1) - 1
        OBVIOUS
    <2>4. s(n + 1)[n + 1] = step[<<n, s(n + 1)[n]>>]
        BY <2>1, <2>3 DEF Starts
    <2> QED BY <2>2, <2>4
<1> QED BY <1>2, <1>3, <1>4 DEF Goes

-----------------------------------------------------------------------------
(* FlattenSeq of the community modules, by its two equations.               *)

\* The concatenations of the first sequences of s.
Concats(s) == CHOOSE g : g = [i \in 1 .. Len(s) |-> IF i = 1 THEN s[i] ELSE g[i - 1] \o s[i]]

\* FlattenSeq is the last of them.
LEMMA FlattenIsJoined ==
    ASSUME NEW s
    PROVE  FlattenSeq(s) = IF Len(s) = 0 THEN s ELSE Concats(s)[Len(s)]
BY DEF FlattenSeq, Concats

\* It joins one more sequence with each step.
LEMMA FlattenSteps ==
    ASSUME NEW T, NEW s \in Seq(Seq(T))
    PROVE  \E g \in [Nat -> Seq(T)] :
              /\ g[0] = <<>>
              /\ \A n \in Nat : n < Len(s) => g[n + 1] = g[n] \o s[n + 1]
              /\ FlattenSeq(s) = g[Len(s)]
<1> DEFINE next(n) == IF n < Len(s) THEN s[n + 1] ELSE <<>>
           step == [p \in Nat \X Seq(T) |-> p[2] \o next(p[1])]
<1>0. Len(s) \in Nat /\ DOMAIN s = 1 .. Len(s) /\ \A i \in 1 .. Len(s) : s[i] \in Seq(T)
    OBVIOUS
<1>1. ASSUME NEW n \in Nat PROVE next(n) \in Seq(T)
    BY <1>0
<1>e. <<>> \in Seq(T)
    OBVIOUS
<1>2. step \in [Nat \X Seq(T) -> Seq(T)]
    <2> HIDE DEF next
    <2>1. ASSUME NEW p \in Nat \X Seq(T) PROVE p[2] \o next(p[1]) \in Seq(T)
        <3>1. p[1] \in Nat /\ p[2] \in Seq(T)
            OBVIOUS
        <3>2. next(p[1]) \in Seq(T)
            BY <1>1, <3>1
        <3> QED BY <3>1, <3>2
    <2> QED BY <2>1
<1>3. PICK g \in [Nat -> Seq(T)] : g[0] = <<>> /\ \A n \in Nat : g[n + 1] = step[<<n, g[n]>>]
    <2> DEFINE U == Seq(T)
    <2>1. <<>> \in U /\ step \in [Nat \X U -> U]
        BY <1>2, <1>e
    <2> HIDE DEF step, U
    <2>2. \E g \in [Nat -> U] : Goes(g, <<>>, step)
        BY <2>1, NatRecursion, Zenon
    <2> QED BY <2>2 DEF U, Goes
<1>4. \A n \in Nat : n < Len(s) => g[n + 1] = g[n] \o s[n + 1]
    <2> SUFFICES ASSUME NEW n \in Nat, n < Len(s) PROVE g[n + 1] = g[n] \o s[n + 1]
        OBVIOUS
    <2>1. <<n, g[n]>> \in Nat \X Seq(T) /\ <<n, g[n]>>[1] = n /\ <<n, g[n]>>[2] = g[n]
        OBVIOUS
    <2>2. step[<<n, g[n]>>] = g[n] \o next(n)
        <3> HIDE DEF next
        <3> QED BY <2>1
    <2> QED BY <1>3, <2>2
<1>5. CASE Len(s) = 0
    <2>1. s = <<>> /\ FlattenSeq(s) = s
        BY <1>5, FlattenIsJoined
    <2>2. FlattenSeq(s) = g[Len(s)]
        BY <1>3, <1>5, <2>1
    <2> QED BY <1>3, <1>4, <2>2, Zenon
<1>6. CASE Len(s) # 0
    <2> DEFINE h == [i \in 1 .. Len(s) |-> g[i]]
               Is(f) == f = [i \in 1 .. Len(s) |-> IF i = 1 THEN s[i] ELSE f[i - 1] \o s[i]]
    <2> HIDE DEF step, next
    <2>1. Is(h)
        <3>1. ASSUME NEW i \in 1 .. Len(s)
              PROVE  h[i] = IF i = 1 THEN s[i] ELSE h[i - 1] \o s[i]
            <4>1. i - 1 \in Nat /\ i - 1 < Len(s) /\ (i - 1) + 1 = i /\ s[i] \in Seq(T)
                BY <1>0
            <4>2. g[i] = g[i - 1] \o s[i]
                BY <1>4, <4>1
            <4>3. CASE i = 1
                <5>0. i - 1 = 0
                    BY <4>3
                <5>1. g[1] = g[0] \o s[1] /\ s[1] \in Seq(T)
                    BY <4>1, <4>2, <4>3, <5>0, Zenon
                <5>2. <<>> \o s[1] = s[1]
                    BY <5>1
                <5>3. g[1] = s[1]
                    BY <1>3, <5>1, <5>2
                <5>4. h[i] = g[1] /\ s[i] = s[1]
                    BY <4>3
                <5> QED BY <4>3, <5>3, <5>4
            <4>4. CASE i # 1
                <5>1. i - 1 \in 1 .. Len(s)
                    BY <4>1, <4>4
                <5> QED BY <4>2, <4>4, <5>1
            <4> QED BY <4>3, <4>4
        <3> QED BY <3>1
    <2>2. Is(Concats(s))
        <3>1. \E f : Is(f)
            BY <2>1
        <3> QED BY <3>1, Zenon DEF Concats
    <2> DEFINE S == {n \in Nat : n + 1 <= Len(s) => Concats(s)[n + 1] = g[n + 1]}
    <2>a. \A i \in 1 .. Len(s) : Concats(s)[i] = IF i = 1 THEN s[i] ELSE Concats(s)[i - 1] \o s[i]
        BY <2>2
    <2> HIDE DEF h, Is
    <2>3. 0 \in S
        <3>0. 1 \in 1 .. Len(s) /\ 0 < Len(s)
            <4> DEFINE k == Len(s)
            <4>1. k \in Nat /\ k # 0
                BY <1>0, <1>6
            <4> HIDE DEF k, S
            <4>2. 1 \in 1 .. k /\ 0 < k
                BY <4>1
            <4> QED BY <4>2 DEF k
        <3>1. s[1] \in Seq(T) /\ 1 \in 1 .. Len(s) /\ 0 < Len(s)
            BY <1>0, <3>0
        <3>2. g[0 + 1] = <<>> \o s[0 + 1]
            BY <1>3, <1>4, <3>1
        <3>3. <<>> \o s[1] = s[1]
            BY <3>1
        <3>4. g[1] = s[1] /\ Concats(s)[1] = s[1]
            BY <2>a, <3>1, <3>2, <3>3
        <3>5. 0 + 1 = 1 /\ 0 \in Nat
            OBVIOUS
        <3> QED BY <3>4, <3>5, Zenon
    <2>4. ASSUME NEW n \in Nat, n \in S PROVE n + 1 \in S
        <3> SUFFICES ASSUME (n + 1) + 1 <= Len(s) PROVE Concats(s)[(n + 1) + 1] = g[(n + 1) + 1]
            OBVIOUS
        <3>1. Concats(s)[n + 1] = g[n + 1]
            BY <2>4
        <3>2. n + 1 \in Nat /\ n + 1 < Len(s) /\ (n + 1) + 1 \in 1 .. Len(s)
              /\ (n + 1) + 1 # 1 /\ ((n + 1) + 1) - 1 = n + 1
            BY <1>0
        <3>3. Concats(s)[(n + 1) + 1] = Concats(s)[n + 1] \o s[(n + 1) + 1]
            BY <2>a, <3>2
        <3>4. g[(n + 1) + 1] = g[n + 1] \o s[(n + 1) + 1]
            BY <1>4, <3>2
        <3> QED BY <3>1, <3>3, <3>4
    <2>5. \A n \in Nat : n \in S
        <3> HIDE DEF S
        <3> QED BY <2>3, <2>4, NatSet
    <2>6. Concats(s)[Len(s)] = g[Len(s)]
        <3>1. Len(s) - 1 \in Nat /\ (Len(s) - 1) + 1 = Len(s)
            BY <1>0, <1>6
        <3>2. Len(s) - 1 \in S
            <4> HIDE DEF S
            <4> QED BY <2>5, <3>1
        <3>3. (Len(s) - 1) + 1 <= Len(s) => Concats(s)[(Len(s) - 1) + 1] = g[(Len(s) - 1) + 1]
            BY <3>2
        <3>4. Len(s) <= Len(s)
            BY <1>0
        <3> HIDE DEF S
        <3> QED BY <3>1, <3>3, <3>4
    <2> QED BY <1>3, <1>4, <1>6, <2>6, FlattenIsJoined
<1> QED BY <1>5, <1>6

\* Nothing, flattened, is nothing.
LEMMA FlattenEmpty == FlattenSeq(<<>>) = <<>>
BY FlattenIsJoined

\* A sequence of sequences has a flat sequence.
LEMMA FlattenType ==
    ASSUME NEW T, NEW s \in Seq(Seq(T))
    PROVE  FlattenSeq(s) \in Seq(T)
<1>1. Len(s) \in Nat
    OBVIOUS
<1>2. PICK g \in [Nat -> Seq(T)] : FlattenSeq(s) = g[Len(s)]
    BY FlattenSteps
<1> QED BY <1>1, <1>2

\* One more sequence at the end is joined to what came before.
LEMMA FlattenAppend ==
    ASSUME NEW T, NEW s \in Seq(Seq(T)), NEW e \in Seq(T)
    PROVE  FlattenSeq(Append(s, e)) = FlattenSeq(s) \o e
<1> DEFINE t == Append(s, e)
<1>1. /\ t \in Seq(Seq(T)) /\ Len(t) = Len(s) + 1 /\ Len(s) \in Nat
      /\ t[Len(s) + 1] = e /\ \A i \in 1 .. Len(s) : t[i] = s[i]
    OBVIOUS
<1> HIDE DEF t
<1>2. PICK g \in [Nat -> Seq(T)] :
         /\ g[0] = <<>>
         /\ \A n \in Nat : n < Len(s) => g[n + 1] = g[n] \o s[n + 1]
         /\ FlattenSeq(s) = g[Len(s)]
    BY FlattenSteps
<1>3. PICK h \in [Nat -> Seq(T)] :
         /\ h[0] = <<>>
         /\ \A n \in Nat : n < Len(t) => h[n + 1] = h[n] \o t[n + 1]
         /\ FlattenSeq(t) = h[Len(t)]
    BY <1>1, FlattenSteps
<1> DEFINE S == {n \in Nat : n <= Len(s) => h[n] = g[n]}
<1>4. 0 \in S
    BY <1>2, <1>3
<1>5. ASSUME NEW n \in Nat, n \in S PROVE n + 1 \in S
    <2> SUFFICES ASSUME n + 1 <= Len(s) PROVE h[n + 1] = g[n + 1]
        OBVIOUS
    <2>a. n < Len(s) /\ n <= Len(s) /\ n < Len(t) /\ n + 1 \in 1 .. Len(s)
        <3>1. \A l, m \in Nat : n + 1 <= l /\ m = l + 1 =>
                  n < l /\ n <= l /\ n < m /\ n + 1 \in 1 .. l
            OBVIOUS
        <3>2. Len(s) \in Nat /\ Len(t) \in Nat /\ Len(t) = Len(s) + 1
            BY <1>1
        <3> QED BY <3>1, <3>2, Zenon
    <2>b. h[n] = g[n]
        BY <1>5, <2>a
    <2>1. h[n] = g[n] /\ n < Len(s) /\ n < Len(t) /\ t[n + 1] = s[n + 1]
        BY <1>1, <2>a, <2>b
    <2> QED BY <1>2, <1>3, <2>1
<1>6. \A n \in Nat : n \in S
    <2> HIDE DEF S
    <2> QED BY <1>4, <1>5, NatSet
<1>7. h[Len(s)] = g[Len(s)]
    BY <1>1, <1>6
<1>8. h[Len(s) + 1] = h[Len(s)] \o t[Len(s) + 1]
    <2>1. Len(s) \in Nat /\ Len(s) < Len(t)
        BY <1>1
    <2> QED BY <1>3, <2>1
<1>9. FlattenSeq(t) = FlattenSeq(s) \o e
    BY <1>1, <1>2, <1>3, <1>7, <1>8
<1> QED BY <1>9 DEF t

-----------------------------------------------------------------------------
(* Recursion towards the root of a forest: next leads from an element to the *)
(* one above it, if there is one.                                           *)

\* Among any elements with a next one, one leads outside.
Rooted(next) ==
    \A S \in SUBSET DOMAIN next : S # {} => \E c \in S : next[c] \notin S

\* On C, which next does not leave, u is what leaf and step make of the forest.
Solves(u, C, next, leaf, step) ==
    \A c \in C :
        IF c \in DOMAIN next THEN next[c] \in C /\ u[c] = step[<<c, u[next[c]]>>]
        ELSE u[c] = leaf[c]

\* Two solutions agree where both are defined.
LEMMA SolutionsAgree ==
    ASSUME NEW next, NEW leaf, NEW step,
           Rooted(next),
           NEW B, NEW C, NEW u, NEW v,
           Solves(u, B, next, leaf, step), Solves(v, C, next, leaf, step)
    PROVE  \A c \in B \cap C : u[c] = v[c]
<1> DEFINE S == {c \in B \cap C : u[c] # v[c]}
<1>1. S \subseteq DOMAIN next
    BY DEF Solves
<1>2. ASSUME NEW c \in S, next[c] \notin S PROVE FALSE
    BY <1>1, <1>2 DEF Solves
<1> HIDE DEF S
<1>3. S = {}
    BY <1>1, <1>2 DEF Rooted
<1> QED BY <1>3 DEF S

\* What recursion needs: next leads upwards in D, leaf and step give values.
Forest(D, T, next, leaf, step) ==
    /\ leaf \in [D -> T] /\ step \in [D \X T -> T]
    /\ DOMAIN next \subseteq D /\ \A c \in DOMAIN next : next[c] \in D
    /\ Rooted(next)

\* A pair of a set with c and a solution on it.
Extends(p, c, D, T, next, leaf, step) ==
    /\ p[1] \in SUBSET D /\ p[2] \in [p[1] -> T] /\ c \in p[1]
    /\ Solves(p[2], p[1], next, leaf, step)

\* Every element has a solution that reaches to its root.
LEMMA SolutionsExist ==
    ASSUME NEW D, NEW T, NEW next, NEW leaf, NEW step, Forest(D, T, next, leaf, step)
    PROVE  \A c \in D : \E p : Extends(p, c, D, T, next, leaf, step)
<1>0. /\ leaf \in [D -> T] /\ step \in [D \X T -> T]
      /\ DOMAIN next \subseteq D /\ \A c \in DOMAIN next : next[c] \in D
      /\ \A S \in SUBSET DOMAIN next : S # {} => \E c \in S : next[c] \notin S
    BY DEF Forest, Rooted
<1> DEFINE Solved(c) == \E C \in SUBSET D : \E u \in [C -> T] :
                            c \in C /\ Solves(u, C, next, leaf, step)
           S == {c \in D : ~Solved(c)}
<1>1. ASSUME NEW c \in D, c \notin DOMAIN next PROVE Solved(c)
    <2> DEFINE C == {c}  u == [d \in C |-> leaf[d]]
    <2>1. C \in SUBSET D /\ u \in [C -> T] /\ c \in C
        BY <1>0
    <2>2. Solves(u, C, next, leaf, step)
        BY <1>1 DEF Solves
    <2> QED BY <2>1, <2>2
<1>2. ASSUME NEW c \in DOMAIN next, Solved(next[c]) PROVE Solved(c)
    <2>1. PICK B \in SUBSET D : \E v \in [B -> T] :
              next[c] \in B /\ Solves(v, B, next, leaf, step)
        BY <1>2
    <2>2. PICK v \in [B -> T] : next[c] \in B /\ Solves(v, B, next, leaf, step)
        BY <2>1
    <2> DEFINE C == B \cup {c}
               w == step[<<c, v[next[c]]>>]
               u == [d \in C |-> IF d \in B THEN v[d] ELSE w]
    <2>3. w \in T
        <3>1. <<c, v[next[c]]>> \in D \X T
            BY <1>0, <2>2
        <3> QED BY <1>0, <3>1
    <2>4. C \in SUBSET D /\ c \in C /\ u \in [C -> T]
        <3> HIDE DEF w
        <3> QED BY <1>0, <2>3
    <2>5. Solves(u, C, next, leaf, step)
        <3>1. \A d \in B : u[d] = v[d] /\ (d \in DOMAIN next => next[d] \in B)
            BY <2>2 DEF Solves
        <3>2. c \notin B => u[c] = step[<<c, u[next[c]]>>]
            BY <2>2
        <3>3. B \subseteq C /\ \A d \in C : d \in B \/ d = c
            OBVIOUS
        <3> HIDE DEF u, C, w
        <3> QED BY <2>2, <3>1, <3>2, <3>3 DEF Solves
    <2> HIDE DEF u, C
    <2> QED BY <2>4, <2>5
<1> HIDE DEF Solved
<1>3. ASSUME S # {} PROVE FALSE
    <2>1. S \in SUBSET DOMAIN next
        BY <1>1
    <2>2. PICK c \in S : next[c] \notin S
        BY <1>0, <1>3, <2>1
    <2>3. c \in DOMAIN next /\ Solved(next[c])
        BY <1>0, <2>1, <2>2
    <2> QED BY <1>2, <2>3
<1>4. \A c \in D : Solved(c)
    BY <1>3
<1>5. ASSUME NEW c \in D PROVE \E p : Extends(p, c, D, T, next, leaf, step)
    <2>1. PICK C \in SUBSET D : \E u \in [C -> T] : c \in C /\ Solves(u, C, next, leaf, step)
        BY <1>4 DEF Solved
    <2>2. PICK u \in [C -> T] : c \in C /\ Solves(u, C, next, leaf, step)
        BY <2>1
    <2>3. Extends(<<C, u>>, c, D, T, next, leaf, step)
        BY <2>2 DEF Extends
    <2> QED BY <2>3
<1> QED BY <1>5

\* A function is what leaf and step make of the forest, on all of D.
Climbs(u, D, next, leaf, step) ==
    \A c \in D : u[c] = IF c \in DOMAIN next THEN step[<<c, u[next[c]]>>] ELSE leaf[c]

\* Recursion: there is such a function.
LEMMA TreeRecursion ==
    ASSUME NEW D, NEW T, NEW next, NEW leaf, NEW step, Forest(D, T, next, leaf, step)
    PROVE  \E u \in [D -> T] : Climbs(u, D, next, leaf, step)
<1>0. DOMAIN next \subseteq D /\ Rooted(next) /\ \A c \in DOMAIN next : next[c] \in D
    BY DEF Forest
<1> DEFINE pair(c) == CHOOSE p : Extends(p, c, D, T, next, leaf, step)
           u == [c \in D |-> pair(c)[2][c]]
<1>1. ASSUME NEW c \in D PROVE Extends(pair(c), c, D, T, next, leaf, step)
    <2>1. \E p : Extends(p, c, D, T, next, leaf, step)
        BY SolutionsExist
    <2> QED BY <2>1, Zenon
<1> HIDE DEF pair
<1>2. \A c \in D : pair(c)[2][c] \in T
    BY <1>1 DEF Extends
<1>3. u \in [D -> T]
    BY <1>2
<1>4. ASSUME NEW c \in DOMAIN next PROVE u[c] = step[<<c, u[next[c]]>>]
    <2> DEFINE d == next[c]
               B == pair(c)[1]  v == pair(c)[2]
               C == pair(d)[1]  w == pair(d)[2]
    <2>1. d \in D /\ c \in D
        BY <1>0
    <2>2. /\ Extends(pair(c), c, D, T, next, leaf, step)
          /\ Extends(pair(d), d, D, T, next, leaf, step)
        <3> HIDE DEF d
        <3> QED BY <1>1, <2>1
    <2>3. /\ c \in B /\ d \in B /\ d \in C
          /\ Solves(v, B, next, leaf, step) /\ Solves(w, C, next, leaf, step)
          /\ v[c] = step[<<c, v[d]>>]
        <3>1. c \in B /\ d \in C /\ Solves(v, B, next, leaf, step) /\ Solves(w, C, next, leaf, step)
            BY <2>2 DEF Extends
        <3> HIDE DEF B, C, v, w
        <3> QED BY <3>1 DEF Solves
    <2>4. u[c] = v[c] /\ u[d] = w[d]
        BY <2>1
    <2> HIDE DEF B, C, v, w, u
    <2>5. v[d] = w[d]
        <3>1. \A e \in B \cap C : v[e] = w[e]
            BY <1>0, <2>3, SolutionsAgree
        <3> QED BY <2>3, <3>1
    <2> QED BY <2>3, <2>4, <2>5
<1>5. ASSUME NEW c \in D, c \notin DOMAIN next PROVE u[c] = leaf[c]
    <2>1. c \in pair(c)[1] /\ Solves(pair(c)[2], pair(c)[1], next, leaf, step)
        BY <1>1 DEF Extends
    <2>2. pair(c)[2][c] = leaf[c]
        BY <1>5, <2>1 DEF Solves
    <2> QED BY <2>2
<1> HIDE DEF u
<1> QED BY <1>3, <1>4, <1>5 DEF Climbs

-----------------------------------------------------------------------------
(* Sequences and their beginnings.                                         *)

\* A sequence over a set is one over every larger set.
LEMMA SeqWider ==
    ASSUME NEW S, NEW T, S \subseteq T, NEW s \in Seq(S)
    PROVE  s \in Seq(T)
<1>1. Len(s) \in Nat /\ s \in [1 .. Len(s) -> S]
    OBVIOUS
<1>2. s \in [1 .. Len(s) -> T]
    BY <1>1
<1> QED BY <1>1, <1>2

\* The elements of two sequences, one behind the other.
LEMMA Concat ==
    ASSUME NEW T, NEW s \in Seq(T), NEW t \in Seq(T)
    PROVE  /\ s \o t \in Seq(T)
           /\ Len(s \o t) = Len(s) + Len(t) /\ Len(s) \in Nat /\ Len(t) \in Nat
           /\ \A i \in 1 .. Len(s) : (s \o t)[i] = s[i]
           /\ \A i \in 1 .. Len(t) : (s \o t)[Len(s) + i] = t[i]
OBVIOUS

\* Sequences with the same elements are the same.
LEMMA SameSeq ==
    ASSUME NEW T, NEW s \in Seq(T), NEW t \in Seq(T), Len(s) = Len(t),
           \A i \in 1 .. Len(s) : s[i] = t[i]
    PROVE  s = t
<1>1. s = [i \in 1 .. Len(s) |-> s[i]] /\ t = [i \in 1 .. Len(t) |-> t[i]]
    OBVIOUS
<1> QED BY <1>1

\* The elements of a part of a sequence.
LEMMA SubSeqIs ==
    ASSUME NEW T, NEW s \in Seq(T), NEW m \in Nat, NEW n \in Nat, 1 <= m, m <= n + 1, n <= Len(s)
    PROVE  /\ SubSeq(s, m, n) \in Seq(T)
           /\ Len(SubSeq(s, m, n)) = (n + 1) - m
           /\ \A i \in 1 .. (n + 1) - m : SubSeq(s, m, n)[i] = s[(m - 1) + i]
<1>1. Len(s) \in Nat /\ \A i \in 1 .. Len(s) : s[i] \in T
    OBVIOUS
<1> QED BY <1>1

\* What joins three sequences, either way.
Regroups(T, s, t, u) ==
    \E v \in Seq(T), w \in Seq(T) : v = t \o u /\ w = (s \o t) \o u /\ w = s \o v

\* Concatenation is associative.
LEMMA Regrouped ==
    ASSUME NEW T, NEW s \in Seq(T), NEW t \in Seq(T), NEW u \in Seq(T)
    PROVE  Regroups(T, s, t, u)
<1>1. t \o u \in Seq(T) /\ s \o t \in Seq(T)
    BY Concat
<1>2. (s \o t) \o u \in Seq(T)
    BY <1>1, Concat
<1>3. (s \o t) \o u = s \o (t \o u)
    OBVIOUS
<1> QED BY <1>1, <1>2, <1>3, Zenon DEF Regroups

\* Two sequences behind each other can be taken apart again.
LEMMA Halved ==
    ASSUME NEW T, NEW s \in Seq(T), NEW t \in Seq(T)
    PROVE  /\ SubSeq(s \o t, 1, Len(s)) = s
           /\ SubSeq(s \o t, Len(s) + 1, Len(s \o t)) = t
<1>1. /\ s \o t \in Seq(T)
      /\ Len(s \o t) = Len(s) + Len(t) /\ Len(s) \in Nat /\ Len(t) \in Nat
      /\ \A i \in 1 .. Len(s) : (s \o t)[i] = s[i]
      /\ \A i \in 1 .. Len(t) : (s \o t)[Len(s) + i] = t[i]
    BY Concat
<1> DEFINE k == Len(s)  l == Len(t)  r == s \o t
<1> HIDE DEF k, l, r
<1>2. /\ SubSeq(r, 1, k) \in Seq(T) /\ Len(SubSeq(r, 1, k)) = k
      /\ \A i \in 1 .. k : SubSeq(r, 1, k)[i] = r[i]
    <2>1. k \in Nat /\ k <= Len(r) /\ r \in Seq(T) /\ (k + 1) - 1 = k
        BY <1>1 DEF k, l, r
    <2>2. /\ SubSeq(r, 1, k) \in Seq(T) /\ Len(SubSeq(r, 1, k)) = (k + 1) - 1
          /\ \A i \in 1 .. (k + 1) - 1 : SubSeq(r, 1, k)[i] = r[(1 - 1) + i]
        BY <2>1, SubSeqIs
    <2> QED BY <2>1, <2>2
<1>3. /\ SubSeq(r, k + 1, Len(r)) \in Seq(T) /\ Len(SubSeq(r, k + 1, Len(r))) = l
      /\ \A i \in 1 .. l : SubSeq(r, k + 1, Len(r))[i] = r[k + i]
    <2>1. /\ k \in Nat /\ l \in Nat /\ Len(r) = k + l /\ r \in Seq(T)
          /\ (Len(r) + 1) - (k + 1) = l /\ (k + 1) - 1 = k
        BY <1>1 DEF k, l, r
    <2>2. /\ SubSeq(r, k + 1, Len(r)) \in Seq(T)
          /\ Len(SubSeq(r, k + 1, Len(r))) = (Len(r) + 1) - (k + 1)
          /\ \A i \in 1 .. (Len(r) + 1) - (k + 1) :
                 SubSeq(r, k + 1, Len(r))[i] = r[((k + 1) - 1) + i]
        BY <2>1, SubSeqIs
    <2> QED BY <2>1, <2>2
<1>4. SubSeq(r, 1, k) = s
    BY <1>1, <1>2, SameSeq DEF k, r
<1>5. SubSeq(r, k + 1, Len(r)) = t
    BY <1>1, <1>3, SameSeq DEF k, l, r
<1> QED BY <1>4, <1>5 DEF k, r

Begins(p, s) == Len(p) <= Len(s) /\ \A i \in 1 .. Len(p) : s[i] = p[i]

\* What begins a sequence can be completed to it.
LEMMA Completed ==
    ASSUME NEW T, NEW p \in Seq(T), NEW s \in Seq(T), Begins(p, s)
    PROVE  \E u \in Seq(T) : Len(u) = Len(s) - Len(p) /\ p \o u = s
<1> DEFINE k == Len(p)  l == Len(s)
<1>1. k \in Nat /\ l \in Nat /\ k <= l /\ \A i \in 1 .. k : s[i] = p[i]
    BY DEF Begins
<1>2. PICK u \in Seq(T) : Len(u) = l - k /\ \A i \in 1 .. l - k : u[i] = s[k + i]
    <2>1. k + 1 \in Nat /\ 1 <= k + 1 /\ k + 1 <= l + 1 /\ l <= Len(s)
          /\ (l + 1) - (k + 1) = l - k /\ (k + 1) - 1 = k
        BY <1>1
    <2>2. /\ SubSeq(s, k + 1, l) \in Seq(T) /\ Len(SubSeq(s, k + 1, l)) = (l + 1) - (k + 1)
          /\ \A i \in 1 .. (l + 1) - (k + 1) : SubSeq(s, k + 1, l)[i] = s[((k + 1) - 1) + i]
        BY <1>1, <2>1, SubSeqIs
    <2> HIDE DEF k, l
    <2> QED BY <2>1, <2>2
<1>3. p \o u = s
    <2>1. PICK w : w = p \o u
        OBVIOUS
    <2>2. /\ w \in Seq(T) /\ Len(w) = k + Len(u)
          /\ \A i \in 1 .. k : w[i] = p[i]
          /\ \A i \in 1 .. Len(u) : w[k + i] = u[i]
        BY <2>1, Concat
    <2>3. Len(w) = l
        BY <1>1, <1>2, <2>2
    <2>4. l = Len(s)
        OBVIOUS
    <2> HIDE DEF k, l
    <2>5. ASSUME NEW i \in 1 .. l PROVE w[i] = s[i]
        <3>1. i <= k => i \in 1 .. k
            BY <1>1
        <3>2. i > k => i - k \in 1 .. l - k /\ k + (i - k) = i
            BY <1>1
        <3>3. i <= k \/ i > k
            BY <1>1
        <3> QED BY <1>1, <1>2, <2>2, <3>1, <3>2, <3>3
    <2> QED BY <2>1, <2>2, <2>3, <2>4, <2>5, SameSeq
<1> QED BY <1>2, <1>3

\* p ends in s or in t.
EndsInEither(p, q, s, t, T) ==
    p \o q = s \o t /\ q # <<>> =>
        \/ \E u \in Seq(T) : u # <<>> /\ p \o u = s
        \/ \E u \in Seq(T) : p = s \o u /\ u \o q = t

\* What begins a joined sequence begins the first, or has it and begins the second.
LEMMA Beginning ==
    ASSUME NEW T, NEW p \in Seq(T), NEW q \in Seq(T), NEW s \in Seq(T), NEW t \in Seq(T)
    PROVE  EndsInEither(p, q, s, t, T)
<1>1. ASSUME NEW r, p \o q = r, s \o t = r, q # <<>>
      PROVE  \/ \E u \in Seq(T) : u # <<>> /\ p \o u = s
             \/ \E u \in Seq(T) : p = s \o u /\ u \o q = t
    <2>1. Len(s) \in Nat /\ \A i \in 1 .. Len(s) : r[i] = s[i]
        BY <1>1, Concat
    <2>2. Len(p) \in Nat /\ \A i \in 1 .. Len(p) : r[i] = p[i]
        BY <1>1, Concat
    <2>3. ASSUME Len(p) < Len(s)
          PROVE  \E u \in Seq(T) : u # <<>> /\ p \o u = s
        <3>1. Begins(p, s)
            BY <2>1, <2>2, <2>3 DEF Begins
        <3>2. PICK u \in Seq(T) : Len(u) = Len(s) - Len(p) /\ p \o u = s
            BY <3>1, Completed
        <3>3. u # <<>>
            BY <2>1, <2>2, <2>3, <3>2
        <3> QED BY <3>2, <3>3
    <2>4. ASSUME Len(s) <= Len(p)
          PROVE  \E u \in Seq(T) : p = s \o u /\ u \o q = t
        <3>1. Begins(s, p)
            <4>1. ASSUME NEW i \in 1 .. Len(s) PROVE p[i] = s[i]
                <5>1. i \in 1 .. Len(p)
                    BY <2>1, <2>2, <2>4
                <5> QED BY <2>1, <2>2, <5>1
            <4> QED BY <2>4, <4>1 DEF Begins
        <3>2. PICK u \in Seq(T) : s \o u = p
            BY <3>1, Completed
        <3>3. u \o q \in Seq(T)
            BY Concat
        <3>4. s \o (u \o q) = r
            <4>1. (s \o u) \o q = s \o (u \o q)
                OBVIOUS
            <4> QED BY <1>1, <3>2, <4>1
        <3>5. u \o q = t
            <4>1. /\ SubSeq(s \o t, Len(s) + 1, Len(s \o t)) = t
                  /\ SubSeq(s \o (u \o q), Len(s) + 1, Len(s \o (u \o q))) = u \o q
                BY <3>3, Halved
            <4> QED BY <1>1, <3>4, <4>1
        <3> QED BY <3>2, <3>5
    <2>5. Len(p) < Len(s) \/ Len(s) <= Len(p)
        BY <2>1, <2>2
    <2> QED BY <2>3, <2>4, <2>5, Zenon
<1> QED BY <1>1, Zenon DEF EndsInEither

\* A sequence that is not empty has a last element, and one before it is shorter.
LEMMA LastSplit ==
    ASSUME NEW T, NEW s \in Seq(T), NEW n \in Nat, Len(s) = n + 1
    PROVE  \E v \in Seq(T) : \E x \in T : s = Append(v, x) /\ Len(v) = n
<1> DEFINE t == SubSeq(s, 1, n)  e == s[n + 1]
<1>1. n <= Len(s) /\ 1 <= n + 1 /\ 1 \in Nat /\ (n + 1) - 1 = n
    OBVIOUS
<1>2. t \in Seq(T) /\ Len(t) = n /\ \A i \in 1 .. n : t[i] = s[i]
    <2>1. /\ SubSeq(s, 1, n) \in Seq(T) /\ Len(SubSeq(s, 1, n)) = (n + 1) - 1
          /\ \A i \in 1 .. (n + 1) - 1 : SubSeq(s, 1, n)[i] = s[(1 - 1) + i]
        BY <1>1, SubSeqIs
    <2> QED BY <1>1, <2>1
<1>3. e \in T
    OBVIOUS
<1>4. s = Append(t, e)
    <2> HIDE DEF t
    <2>1. PICK w : w = Append(t, e)
        OBVIOUS
    <2>2. /\ w \in Seq(T) /\ Len(w) = n + 1 /\ w[n + 1] = e
          /\ \A i \in 1 .. n : w[i] = t[i]
        BY <1>2, <1>3, <2>1
    <2>3. \A i \in 1 .. n + 1 : i \in 1 .. n \/ i = n + 1
        OBVIOUS
    <2>4. \A i \in 1 .. n + 1 : w[i] = s[i]
        BY <1>2, <2>2, <2>3
    <2>5. Len(w) = Len(s)
        BY <2>2
    <2>6. w = s
        BY <2>2, <2>4, <2>5, SameSeq
    <2> QED BY <2>1, <2>6
<1> HIDE DEF t, e
<1> QED BY <1>2, <1>3, <1>4

\* One element between two sequences belongs to either.
InEither(s, e, t) == s \o (<<e>> \o t) = Append(s, e) \o t

\* It does.
LEMMA Between ==
    ASSUME NEW T, NEW s \in Seq(T), NEW e \in T, NEW t \in Seq(T)
    PROVE  InEither(s, e, t)
BY DEF InEither

\* The tail of a tail.
LEMMA Tails ==
    ASSUME NEW T, NEW s \in Seq(T)
    PROVE  /\ s # <<>> => Tail(s) \in Seq(T) /\ Len(Tail(s)) < Len(s)
           /\ Len(s) > 1 => Tail(Tail(s)) \in Seq(T) /\ Len(Tail(Tail(s))) < Len(s)
<1>1. ASSUME NEW t \in Seq(T), t # <<>>
      PROVE  Tail(t) \in Seq(T) /\ Len(Tail(t)) = Len(t) - 1
    BY <1>1
<1>2. ASSUME Len(s) > 1 PROVE Tail(Tail(s)) \in Seq(T) /\ Len(Tail(Tail(s))) < Len(s)
    <2>1. Len(s) \in Nat /\ s # <<>>
        BY <1>2
    <2>2. Tail(s) \in Seq(T) /\ Len(Tail(s)) = Len(s) - 1
        BY <1>1, <2>1
    <2>3. Len(Tail(s)) # 0
        BY <1>2, <2>1, <2>2
    <2>4. Tail(s) # <<>>
        <3>1. Len(<<>>) = 0
            OBVIOUS
        <3> QED BY <2>3, <3>1
    <2>5. Tail(Tail(s)) \in Seq(T) /\ Len(Tail(Tail(s))) = Len(Tail(s)) - 1
        BY <1>1, <2>2, <2>4
    <2> QED BY <2>1, <2>2, <2>5
<1> QED BY <1>1, <1>2

\* A sequence in front of the others is flattened in front of them.
LEMMA FlattenFront ==
    ASSUME NEW T, NEW e \in Seq(T), NEW s \in Seq(Seq(T))
    PROVE  FlattenSeq(<<e>> \o s) = e \o FlattenSeq(s)
<1> DEFINE Leads(t) == FlattenSeq(<<e>> \o t) = e \o FlattenSeq(t)
           S == {n \in Nat : \A t \in Seq(Seq(T)) : Len(t) = n => Leads(t)}
<1>1. 0 \in S
    <2>1. ASSUME NEW t \in Seq(Seq(T)), Len(t) = 0
          PROVE  FlattenSeq(<<e>> \o t) = e \o FlattenSeq(t)
        <3>1. t = <<>> /\ <<>> \in Seq(Seq(T)) /\ <<e>> \o t = Append(<<>>, e)
            BY <2>1
        <3>2. FlattenSeq(Append(<<>>, e)) = FlattenSeq(<<>>) \o e
            BY <3>1, FlattenAppend
        <3>3. FlattenSeq(<<>>) = <<>> /\ <<>> \o e = e /\ e \o <<>> = e
            BY FlattenEmpty
        <3> QED BY <3>1, <3>2, <3>3
    <2> QED BY <2>1
<1>2. ASSUME NEW n \in Nat, n \in S PROVE n + 1 \in S
    <2> SUFFICES ASSUME NEW t \in Seq(Seq(T)), Len(t) = n + 1 PROVE Leads(t)
        <3> HIDE DEF Leads
        <3> QED OBVIOUS
    <2>0. \E v \in Seq(Seq(T)) : \E x \in Seq(T) : t = Append(v, x) /\ Len(v) = n
        BY LastSplit
    <2>1. PICK v \in Seq(Seq(T)), x \in Seq(T) : t = Append(v, x) /\ Len(v) = n
        BY <2>0
    <2> DEFINE w == <<e>> \o v  f == FlattenSeq(v)
    <2>2. w \in Seq(Seq(T)) /\ <<e>> \o t = Append(w, x)
        BY <2>1
    <2>3. FlattenSeq(w) = e \o f
        BY <1>2, <2>1
    <2>4. f \in Seq(T)
        BY FlattenType
    <2> HIDE DEF w, f
    <2>5. FlattenSeq(Append(w, x)) = FlattenSeq(w) \o x /\ FlattenSeq(t) = f \o x
        BY <2>1, <2>2, FlattenAppend DEF f
    <2>6. (e \o f) \o x = e \o (f \o x)
        BY <2>4
    <2> QED BY <2>2, <2>3, <2>5, <2>6
<1> HIDE DEF S
<1>3. \A n \in Nat : n \in S
    BY <1>1, <1>2, NatSet
<1>4. Len(s) \in Nat
    OBVIOUS
<1> QED BY <1>3, <1>4 DEF S

\* A set of numbers has a least one.
LEMMA NatLeast ==
    ASSUME NEW S, S \subseteq Nat, S # {}
    PROVE  \E k \in S : \A j \in S : k <= j
<1> DEFINE R == {ss \in Nat \X Nat : ss[1] < ss[2]}
<1>1. IsWellFoundedOn(R, Nat)
    BY NatLessThanWellFounded, Zenon DEF OpToRel
<1>2. \E x \in S : \A y \in S : ~(<<y, x>> \in R)
    <2> HIDE DEF R
    <2> QED BY <1>1, WFMin
<1>3. PICK x \in S : \A y \in S : ~(<<y, x>> \in R)
    BY <1>2
<1>4. ASSUME NEW y \in S PROVE x <= y
    <2>1. x \in Nat /\ y \in Nat
        OBVIOUS
    <2>2. ~(y < x)
        <3>1. <<y, x>> \in Nat \X Nat /\ <<y, x>>[1] = y /\ <<y, x>>[2] = x
            BY <2>1
        <3> QED BY <1>3, <3>1
    <2> QED BY <2>1, <2>2
<1> QED BY <1>4
=============================================================================

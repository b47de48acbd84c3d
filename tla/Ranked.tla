-------------------------------- MODULE Ranked --------------------------------
(***************************************************************************)
(* Recursion on a set whose elements have a rank, such as a type, by how   *)
(* deep it nests, or a sequence, by its length: if what is defined for an  *)
(* element depends only on elements of smaller rank, there is such a       *)
(* function.  The parameter p is what else the definition depends on.      *)
(***************************************************************************)
EXTENDS Recursion

CONSTANTS Dom(_), Rank(_, _), Def(_, _, _)

Ranks(p) == \A x \in Dom(p) : Rank(p, x) \in Nat

\* What is defined for x depends on the elements below it.
Descends(p) ==
    \A x \in Dom(p) : \A g, h :
        (\A y \in Dom(p) : Rank(p, y) < Rank(p, x) => g[y] = h[y])
            => Def(p, g, x) = Def(p, h, x)

\* A function that is right for all ranks below n.
Below(p, n)    == {x \in Dom(p) : Rank(p, x) < n}
Approx(p, n, g) == \A x \in Below(p, n) : g[x] = Def(p, g, x)

\* What holds of an element if it holds of all below it holds of all.
LEMMA RankInduction ==
    ASSUME NEW p, Ranks(p), NEW S,
           \A x \in Dom(p) : (\A y \in Dom(p) : Rank(p, y) < Rank(p, x) => y \in S) => x \in S
    PROVE  \A x \in Dom(p) : x \in S
<1> DEFINE T == {n \in Nat : \A x \in Below(p, n) : x \in S}
<1>1. 0 \in T
    BY DEF Below, Ranks
<1>2. ASSUME NEW n \in Nat, n \in T PROVE n + 1 \in T
    <2>1. ASSUME NEW x \in Below(p, n + 1) PROVE x \in S
        <3>1. x \in Dom(p) /\ \A y \in Dom(p) : Rank(p, y) < Rank(p, x) => y \in Below(p, n)
            BY <2>1 DEF Below, Ranks
        <3> QED BY <3>1, <1>2
    <2> QED BY <2>1
<1> HIDE DEF T
<1>3. \A n \in Nat : n \in T
    BY <1>1, <1>2, NatSet
<1>4. ASSUME NEW x \in Dom(p) PROVE x \in S
    <2>1. Rank(p, x) + 1 \in Nat /\ Rank(p, x) < Rank(p, x) + 1
        BY DEF Ranks
    <2>2. x \in Below(p, Rank(p, x) + 1) /\ Rank(p, x) + 1 \in T
        BY <2>1, <1>3 DEF Below
    <2> QED BY <2>2 DEF T
<1> QED BY <1>4

\* Two such functions agree.
LEMMA ApproxAgree ==
    ASSUME NEW p, Ranks(p), Descends(p), NEW m \in Nat, NEW n \in Nat,
           NEW g, NEW h, Approx(p, m, g), Approx(p, n, h)
    PROVE  \A x \in Below(p, m) \cap Below(p, n) : g[x] = h[x]
<1> DEFINE S == {x \in Dom(p) : x \in Below(p, m) \cap Below(p, n) => g[x] = h[x]}
<1>1. ASSUME NEW x \in Dom(p), \A y \in Dom(p) : Rank(p, y) < Rank(p, x) => y \in S
      PROVE  x \in S
    <2> SUFFICES ASSUME x \in Below(p, m), x \in Below(p, n) PROVE g[x] = h[x]
        OBVIOUS
    <2>1. \A y \in Dom(p) : Rank(p, y) < Rank(p, x) => g[y] = h[y]
        BY <1>1 DEF Below, Ranks
    <2>2. Def(p, g, x) = Def(p, h, x)
        BY <2>1 DEF Descends
    <2> QED BY <2>2 DEF Approx
<1> HIDE DEF S
<1>2. \A x \in Dom(p) : x \in S
    BY <1>1, RankInduction
<1> QED BY <1>2 DEF S, Below

\* There is one for every rank.
LEMMA ApproxExist ==
    ASSUME NEW p, Ranks(p), Descends(p)
    PROVE  \A n \in Nat : \E g : Approx(p, n, g)
<1> DEFINE T == {n \in Nat : \E g : Approx(p, n, g)}
<1>1. 0 \in T
    BY DEF Approx, Below, Ranks
<1>2. ASSUME NEW n \in Nat, n \in T PROVE n + 1 \in T
    <2>1. PICK g : Approx(p, n, g)
        BY <1>2
    <2> DEFINE h == [x \in Dom(p) |-> Def(p, g, x)]
    <2>2. ASSUME NEW x \in Below(p, n + 1) PROVE h[x] = Def(p, h, x)
        <3>1. x \in Dom(p) /\ \A y \in Dom(p) : Rank(p, y) < Rank(p, x) => y \in Below(p, n)
            BY DEF Below, Ranks
        <3>2. \A y \in Below(p, n) : h[y] = g[y]
            BY <2>1 DEF Approx, Below
        <3>3. \A y \in Dom(p) : Rank(p, y) < Rank(p, x) => g[y] = h[y]
            BY <3>1, <3>2
        <3>4. h[x] = Def(p, g, x)
            BY <3>1
        <3> HIDE DEF h
        <3>5. Def(p, g, x) = Def(p, h, x)
            BY <3>1, <3>3 DEF Descends
        <3> QED BY <3>4, <3>5
    <2> HIDE DEF h
    <2>3. Approx(p, n + 1, h)
        BY <2>2 DEF Approx
    <2> QED BY <2>3
<1> HIDE DEF T
<1>3. \A n \in Nat : n \in T
    BY <1>1, <1>2, NatSet
<1> QED BY <1>3 DEF T

\* The recursive definition has the value that it says.
THEOREM RankedRecursion ==
    ASSUME NEW p, Ranks(p), Descends(p)
    PROVE  \E f : f = [x \in Dom(p) |-> Def(p, f, x)]
<1> DEFINE rank(x) == Rank(p, x) + 1
           near(x) == CHOOSE g : Approx(p, rank(x), g)
           f == [x \in Dom(p) |-> near(x)[x]]
<1>1. ASSUME NEW x \in Dom(p)
      PROVE  rank(x) \in Nat /\ x \in Below(p, rank(x)) /\ Approx(p, rank(x), near(x))
    <2>1. rank(x) \in Nat /\ x \in Below(p, rank(x))
        BY DEF Ranks, Below
    <2>2. \E g : Approx(p, rank(x), g)
        BY <2>1, ApproxExist
    <2> QED BY <2>1, <2>2, Zenon
<1> HIDE DEF near
<1>2. ASSUME NEW x \in Dom(p) PROVE f[x] = Def(p, f, x)
    <2>1. ASSUME NEW y \in Dom(p), Rank(p, y) < Rank(p, x) PROVE near(x)[y] = f[y]
        <3>1. y \in Below(p, rank(x)) /\ y \in Below(p, rank(y))
            BY <1>1, <2>1 DEF Below, Ranks
        <3>2. near(x)[y] = near(y)[y]
            BY <3>1, <1>1, ApproxAgree
        <3> QED BY <3>2
    <2> DEFINE g == near(x)
    <2>2. f[x] = g[x] /\ g[x] = Def(p, g, x)
        BY <1>1 DEF Approx
    <2>3. \A y \in Dom(p) : Rank(p, y) < Rank(p, x) => g[y] = f[y]
        BY <2>1
    <2> HIDE DEF g, f
    <2>4. Def(p, g, x) = Def(p, f, x)
        BY <2>3 DEF Descends
    <2> QED BY <2>2, <2>4
<1>3. f = [x \in Dom(p) |-> f[x]]
    OBVIOUS
<1> HIDE DEF f
<1>4. [x \in Dom(p) |-> f[x]] = [x \in Dom(p) |-> Def(p, f, x)]
    BY <1>2
<1> QED BY <1>3, <1>4
=============================================================================

------------------------------ MODULE CodecProofs ------------------------------
(***************************************************************************)
(* What internal/protocol makes of the values of a message and of the      *)
(* bytes of a body, proved for every catalogue, every byte size and every  *)
(* value: what Decode reads of what Encode wrote, and how many of the      *)
(* bytes it takes.                                                         *)
(***************************************************************************)
EXTENDS Exchange, Recursion

-----------------------------------------------------------------------------
(* Powers of the byte.                                                     *)

PowerDom(p)       == Nat
PowerRank(p, k)   == k
PowerDef(p, f, k) == IF k = 0 THEN 1 ELSE Base * f[k - 1]

PowerIs == INSTANCE Ranked WITH Dom <- PowerDom, Rank <- PowerRank, Def <- PowerDef

\* Power has the value that its definition says.
LEMMA PowerDefined == Power = [k \in Nat |-> IF k = 0 THEN 1 ELSE Base * Power[k - 1]]
<1>1. PowerIs!Ranks(0)
    BY DEF PowerIs!Ranks, PowerDom, PowerRank
<1>2. PowerIs!Descends(0)
    <2> SUFFICES ASSUME NEW k \in Nat, NEW g, NEW h,
                        \A y \in Nat : y < k => g[y] = h[y]
                 PROVE  PowerDef(0, g, k) = PowerDef(0, h, k)
        BY DEF PowerIs!Descends, PowerDom, PowerRank
    <2>1. k # 0 => k - 1 \in Nat /\ k - 1 < k
        OBVIOUS
    <2> QED BY <2>1 DEF PowerDef
<1>3. \E f : f = [k \in Nat |-> PowerDef(0, f, k)]
    BY <1>1, <1>2, PowerIs!RankedRecursion DEF PowerDom
<1>4. \E f : f = [k \in Nat |-> IF k = 0 THEN 1 ELSE Base * f[k - 1]]
    BY <1>3 DEF PowerDef
<1> QED BY <1>4, Zenon DEF Power

\* Each power of Base is a positive number, and Base times the one before.
LEMMA PowerSteps ==
    /\ Power[0] = 1
    /\ \A k \in Nat : Power[k + 1] = Base * Power[k]
    /\ \A k \in Nat : Power[k] \in Nat /\ Power[k] > 0
<1>1. Power[0] = 1
    BY PowerDefined
<1>2. ASSUME NEW k \in Nat PROVE Power[k + 1] = Base * Power[k]
    <2>1. k + 1 \in Nat /\ k + 1 # 0 /\ (k + 1) - 1 = k
        OBVIOUS
    <2> QED BY <2>1, PowerDefined
<1>3. \A k \in Nat : Power[k] \in Nat /\ Power[k] > 0
    <2> DEFINE S == {k \in Nat : Power[k] \in Nat /\ Power[k] > 0}
    <2>1. 0 \in S
        BY <1>1
    <2>2. ASSUME NEW k \in Nat, k \in S PROVE k + 1 \in S
        <3>1. ASSUME NEW b \in Nat, NEW q \in Nat, b > 0, q > 0 PROVE b * q \in Nat /\ b * q > 0
            BY <3>1
        <3> QED BY <1>2, <2>2, <3>1, CodecAssumption
    <2> HIDE DEF S
    <2>3. \A k \in Nat : k \in S
        BY <2>1, <2>2, NatSet
    <2> QED BY <2>3 DEF S
<1> QED BY <1>1, <1>2, <1>3

-----------------------------------------------------------------------------
(* Words.                                                                  *)

\* Quotient and remainder of a division by a positive number.
LEMMA Division ==
    ASSUME NEW n \in Int, NEW m \in Nat, m > 0
    PROVE  /\ n \div m \in Int /\ n % m \in Nat /\ n % m < m
           /\ n = m * (n \div m) + (n % m)
OBVIOUS

\* A product with a positive number is divided by it again.
LEMMA Product ==
    ASSUME NEW m \in Int, NEW k \in Int, m > 0
    PROVE  /\ m * k \in Int
           /\ k >= 1 => m * k >= m
           /\ k <= -1 => m * k <= -m
           /\ k = 0 => m * k = 0
<1>1. m * k \in Int
    OBVIOUS
<1>2. ASSUME k >= 1 PROVE m * k >= m
    <2>1. k - 1 >= 0 /\ m * (k - 1) >= 0 /\ m * k = m * (k - 1) + m
        BY <1>2
    <2> QED BY <2>1, <1>1
<1>3. ASSUME k <= -1 PROVE m * k <= -m
    <2>1. -1 - k >= 0 /\ m * (-1 - k) >= 0 /\ m * k = -(m * (-1 - k)) - m
        BY <1>3
    <2> QED BY <2>1, <1>1
<1>4. k = 0 => m * k = 0
    OBVIOUS
<1> QED BY <1>1, <1>2, <1>3, <1>4

\* The remainder is the only one.
LEMMA Remainder ==
    ASSUME NEW n \in Int, NEW m \in Nat, m > 0, NEW k \in Int, NEW r \in Int,
           0 <= r, r < m, n = m * k + r
    PROVE  n % m = r
<1> DEFINE q == n \div m  s == n % m  d == k - q
<1>1. q \in Int /\ s \in Nat /\ s < m /\ n = m * q + s
    BY Division
<1> HIDE DEF q, s
<1>2. d \in Int /\ m * d = m * k - m * q
    BY <1>1
<1>3. m * d = s - r
    <2>1. m * k \in Int /\ m * q \in Int
        BY <1>1
    <2> QED BY <1>1, <1>2, <2>1
<1> HIDE DEF d
<1>4. s - r < m /\ s - r > -m
    BY <1>1
<1>5. d = 0
    BY <1>2, <1>3, <1>4, Product
<1>6. s = r
    BY <1>1, <1>2, <1>3, <1>5, Product
<1> QED BY <1>6 DEF s

\* One digit more.
LEMMA Digit ==
    ASSUME NEW n \in Int, NEW m \in Nat, m > 0, NEW b \in Nat, b > 0
    PROVE  n % (b * m) = (n % m) + ((n \div m) % b) * m
<1> DEFINE q == n \div m  r == n % m  p == q \div b  t == q % b
<1>1. q \in Int /\ r \in Nat /\ r < m /\ n = m * q + r
    BY Division
<1>2. p \in Int /\ t \in Nat /\ t < b /\ q = b * p + t
    BY <1>1, Division
<1> HIDE DEF q, r, p, t
<1>3. b * m \in Nat /\ b * m > 0
    OBVIOUS
<1>4. n = (b * m) * p + (r + t * m)
    <2>1. m * (b * p + t) = (b * m) * p + t * m
        BY <1>2
    <2>2. (b * m) * p \in Int /\ t * m \in Int
        BY <1>2
    <2> QED BY <1>1, <1>2, <2>1, <2>2
<1>5. 0 <= r + t * m /\ r + t * m < b * m /\ r + t * m \in Int
    <2>1. t * m \in Int /\ t * m >= 0 /\ (b - 1 - t) * m >= 0
        BY <1>2
    <2>2. (b - 1 - t) * m = b * m - m - t * m
        BY <1>2
    <2>3. b * m \in Int
        OBVIOUS
    <2> QED BY <1>1, <2>1, <2>2, <2>3
<1>6. n % (b * m) = r + t * m
    <2> DEFINE M == b * m  R == r + t * m
    <2>1. M \in Nat /\ M > 0 /\ R \in Int /\ 0 <= R /\ R < M /\ n = M * p + R
        BY <1>3, <1>4, <1>5
    <2> HIDE DEF M, R
    <2>2. n % M = R
        BY <2>1, <1>2, Remainder
    <2> QED BY <2>2 DEF M, R
<1> QED BY <1>6 DEF q, r, p, t

LowDom(bytes)       == 0 .. Len(bytes)
LowRank(bytes, k)   == k
LowDef(bytes, f, k) == IF k = 0 THEN 0 ELSE f[k - 1] + bytes[k] * Power[k - 1]

LowIs == INSTANCE Ranked WITH Dom <- LowDom, Rank <- LowRank, Def <- LowDef

Low(bytes) == CHOOSE f : f = [k \in 0 .. Len(bytes) |-> LowDef(bytes, f, k)]

\* Unsigned adds one byte with each step.
LEMMA UnsignedSteps ==
    ASSUME NEW bytes \in Seq(Int)
    PROVE  /\ Unsigned(bytes) = Low(bytes)[Len(bytes)]
           /\ Low(bytes)[0] = 0
           /\ \A k \in Nat : k < Len(bytes) =>
                 Low(bytes)[k + 1] = Low(bytes)[k] + bytes[k + 1] * Power[k]
<1>0. Len(bytes) \in Nat
    OBVIOUS
<1>1. LowIs!Ranks(bytes)
    BY DEF LowIs!Ranks, LowDom, LowRank
<1>2. LowIs!Descends(bytes)
    <2> SUFFICES ASSUME NEW k \in 0 .. Len(bytes), NEW g, NEW h,
                        \A y \in 0 .. Len(bytes) : y < k => g[y] = h[y]
                 PROVE  LowDef(bytes, g, k) = LowDef(bytes, h, k)
        BY DEF LowIs!Descends, LowDom, LowRank
    <2>1. k # 0 => k - 1 \in 0 .. Len(bytes) /\ k - 1 < k
        BY <1>0
    <2> QED BY <2>1 DEF LowDef
<1>3. \E f : f = [k \in 0 .. Len(bytes) |-> LowDef(bytes, f, k)]
    BY <1>1, <1>2, LowIs!RankedRecursion DEF LowDom
<1>4. Low(bytes) = [k \in 0 .. Len(bytes) |-> LowDef(bytes, Low(bytes), k)]
    BY <1>3, Zenon DEF Low
<1>5. Unsigned(bytes) = Low(bytes)[Len(bytes)]
    BY Zenon DEF Unsigned, Low, LowDef
<1>6. Low(bytes)[0] = 0
    BY <1>0, <1>4 DEF LowDef
<1>7. ASSUME NEW k \in Nat, k < Len(bytes)
      PROVE  Low(bytes)[k + 1] = Low(bytes)[k] + bytes[k + 1] * Power[k]
    <2>1. k + 1 \in 0 .. Len(bytes) /\ k + 1 # 0 /\ (k + 1) - 1 = k
        BY <1>0, <1>7
    <2>2. Low(bytes)[k + 1] = LowDef(bytes, Low(bytes), k + 1)
        BY <1>4, <2>1, Zenon
    <2> QED BY <2>1, <2>2 DEF LowDef
<1> QED BY <1>5, <1>6, <1>7

\* What a byte is.
LEMMA BytesFacts == Base \in Nat /\ Base > 0 /\ Bytes \subseteq Nat /\ \A b \in Bytes : b < Base
BY CodecAssumption DEF Bytes

\* The bytes of a number: as many as the width asks for.
LEMMA WordWritten ==
    ASSUME NEW n \in Int, NEW width \in Nat
    PROVE  /\ LittleEndian(n, width) \in Seq(Bytes)
           /\ Len(LittleEndian(n, width)) = width
           /\ \A i \in 1 .. width : LittleEndian(n, width)[i] = (n \div Power[i - 1]) % Base
<1>1. ASSUME NEW i \in 1 .. width PROVE (n \div Power[i - 1]) % Base \in Bytes
    <2>1. Power[i - 1] \in Nat /\ Power[i - 1] > 0
        BY PowerSteps
    <2>2. n \div Power[i - 1] \in Int
        BY <2>1, Division
    <2>3. (n \div Power[i - 1]) % Base \in Nat /\ (n \div Power[i - 1]) % Base < Base
        BY <2>2, BytesFacts, Division
    <2> QED BY <2>3, BytesFacts DEF Bytes
<1> QED BY <1>1 DEF LittleEndian

\* What is written of a number is read as the number, modulo the width.
LEMMA WordRead ==
    ASSUME NEW n \in Int, NEW width \in Nat
    PROVE  Unsigned(LittleEndian(n, width)) = n % Power[width]
<1> DEFINE b == LittleEndian(n, width)
           S == {k \in Nat : k <= width => Low(b)[k] = n % Power[k]}
<1>1. /\ b \in Seq(Int) /\ Len(b) = width
      /\ \A i \in 1 .. width : b[i] = (n \div Power[i - 1]) % Base
    <2>1. b \in Seq(Bytes) /\ Bytes \subseteq Int
        BY WordWritten, BytesFacts
    <2> HIDE DEF b
    <2>2. b \in Seq(Int)
        BY <2>1, SeqWider, Zenon
    <2> QED BY <2>2, WordWritten DEF b
<1> HIDE DEF b
<1>2. /\ Unsigned(b) = Low(b)[width] /\ Low(b)[0] = 0
      /\ \A k \in Nat : k < width => Low(b)[k + 1] = Low(b)[k] + b[k + 1] * Power[k]
    BY <1>1, UnsignedSteps, Zenon
<1>3. 0 \in S
    BY <1>2, PowerSteps
<1>4. ASSUME NEW k \in Nat, k \in S PROVE k + 1 \in S
    <2> SUFFICES ASSUME k + 1 <= width PROVE Low(b)[k + 1] = n % Power[k + 1]
        OBVIOUS
    <2>1. Low(b)[k] = n % Power[k] /\ k + 1 \in 1 .. width /\ k < width
        BY <1>4
    <2>2. b[k + 1] = (n \div Power[k]) % Base
        BY <1>1, <2>1
    <2>3. Power[k] \in Nat /\ Power[k] > 0 /\ Power[k + 1] = Base * Power[k]
        BY PowerSteps
    <2>4. n % (Base * Power[k]) = (n % Power[k]) + ((n \div Power[k]) % Base) * Power[k]
        BY <2>3, BytesFacts, Digit
    <2>5. Low(b)[k + 1] = Low(b)[k] + b[k + 1] * Power[k]
        BY <1>2, <2>1
    <2> QED BY <2>1, <2>2, <2>3, <2>4, <2>5
<1> HIDE DEF S
<1>5. width \in S
    BY <1>3, <1>4, NatSet
<1> QED BY <1>2, <1>5 DEF b, S

-----------------------------------------------------------------------------
(* Numbers.                                                                *)

\* A sequence with something behind it is longer.
LEMMA Shorter ==
    ASSUME NEW T, NEW p \in Seq(T), NEW q \in Seq(T), q # <<>>
    PROVE  Len(p \o q) > Len(p) /\ Len(p) \in Nat /\ Len(p \o q) \in Nat
OBVIOUS

\* What is written and what is read is never an error.
LEMMA NoErrors == (\A b : Written(b) # Error) /\ (\A v, rest : Read(v, rest) # Error)
<1>1. ASSUME NEW b PROVE Written(b) # Error
    <2>1. Written(b).ok /\ ~Error.ok
        BY DEF Written, Error
    <2> QED BY <2>1
<1>2. ASSUME NEW v, NEW rest PROVE Read(v, rest) # Error
    <2>1. Read(v, rest).ok /\ ~Error.ok
        BY DEF Read, Error
    <2> QED BY <2>1
<1> QED BY <1>1, <1>2

\* readWord takes the bytes of a word and leaves what is behind them.
LEMMA WordTaken ==
    ASSUME NEW word \in Seq(Bytes), NEW rest \in Seq(Bytes)
    PROVE  readWord(word \o rest, Len(word)) = Read(Unsigned(word), rest)
<1>1. SubSeq(word \o rest, 1, Len(word)) = word
      /\ SubSeq(word \o rest, Len(word) + 1, Len(word \o rest)) = rest
    BY Halved
<1>2. ~(Len(word \o rest) < Len(word))
    BY Concat
<1> QED BY <1>1, <1>2, Zenon DEF readWord

\* A word is read as the number that was written, modulo its width.
LEMMA WordsTaken ==
    ASSUME NEW n \in Int, NEW width \in Nat, NEW rest \in Seq(Bytes)
    PROVE  readWord(LittleEndian(n, width) \o rest, width) = Read(n % Power[width], rest)
<1>1. LittleEndian(n, width) \in Seq(Bytes) /\ Len(LittleEndian(n, width)) = width
    BY WordWritten, Zenon
<1>2. Unsigned(LittleEndian(n, width)) = n % Power[width]
    BY WordRead
<1> QED BY <1>1, <1>2, WordTaken

\* The number that is read is the one of the type's range.
LEMMA WrappedIs ==
    ASSUME NEW n \in Int, NEW width \in Nat, NEW signed \in BOOLEAN
    PROVE  Wrapped(n, Integer(width, signed)) =
               IF signed THEN Signed(n % Power[width], width) ELSE n % Power[width]
<1> DEFINE size == Power[width]  u == n % size
           InRange(r) == IF signed THEN 0 <= 2 * r + size /\ 2 * r < size ELSE r >= 0
           c == CHOOSE r \in {u, u - size} : InRange(r)
<1>1. size \in Nat /\ size > 0
    BY PowerSteps
<1>2. u \in Nat /\ u < size
    BY <1>1, Division
<1>3. Wrapped(n, Integer(width, signed)) = c
    BY DEF Wrapped, Integer
<1>4. Signed(u, width) = IF 2 * u >= size THEN u - size ELSE u
    BY DEF Signed
<1> HIDE DEF u, size
<1>5. CASE signed
    <2>1. 2 * u >= size => InRange(u - size)
        BY <1>1, <1>2, <1>5
    <2>2. ~(2 * u >= size) => InRange(u)
        BY <1>1, <1>2, <1>5
    <2>3. \E r \in {u, u - size} : InRange(r)
        BY <2>1, <2>2
    <2>4. c \in {u, u - size} /\ InRange(c)
        <3> HIDE DEF InRange
        <3> QED BY <2>3, Zenon
    <2> HIDE DEF c
    <2>5. c = IF 2 * u >= size THEN u - size ELSE u
        BY <1>1, <1>2, <1>5, <2>4
    <2> QED BY <1>3, <1>4, <1>5, <2>5 DEF u, size
<1>6. CASE ~signed
    <2>1. InRange(u) /\ ~InRange(u - size)
        BY <1>1, <1>2, <1>6
    <2>2. c \in {u, u - size} /\ InRange(c)
        <3> HIDE DEF InRange
        <3> QED BY <2>1, Zenon
    <2> HIDE DEF c
    <2>3. c = u
        BY <2>1, <2>2
    <2> QED BY <1>3, <1>6, <2>3 DEF u, size
<1> QED BY <1>5, <1>6

\* What a cut body still has of the bytes.
Cut(p, bytes) == \E q \in Seq(Bytes) : q # <<>> /\ p \o q = bytes

\* A cut has fewer bytes.
LEMMA CutIsShorter ==
    ASSUME NEW bytes, NEW p \in Seq(Bytes), Cut(p, bytes)
    PROVE  bytes \in Seq(Bytes) /\ Len(p) < Len(bytes)
BY Shorter, Concat, Zenon DEF Cut

\* Nothing cannot be cut.
LEMMA NothingToCut == \A p \in Seq(Bytes) : ~Cut(p, <<>>)
<1>1. Len(<<>>) = 0
    OBVIOUS
<1>2. ASSUME NEW p \in Seq(Bytes), Cut(p, <<>>) PROVE FALSE
    <2>1. Len(p) < 0 /\ Len(p) \in Nat
        BY <1>1, <1>2, CutIsShorter
    <2> QED BY <2>1
<1> QED BY <1>2

\* A cut in two pieces is in the first or in the second.
LEMMA CutInTwo ==
    ASSUME NEW s \in Seq(Bytes), NEW t \in Seq(Bytes), NEW p \in Seq(Bytes), Cut(p, s \o t)
    PROVE  Cut(p, s) \/ \E u \in Seq(Bytes) : p = s \o u /\ Cut(u, t)
<1>1. PICK q \in Seq(Bytes) : q # <<>> /\ p \o q = s \o t
    BY Zenon DEF Cut
<1>2. \/ \E u \in Seq(Bytes) : u # <<>> /\ p \o u = s
      \/ \E u \in Seq(Bytes) : p = s \o u /\ u \o q = t
    <2>1. EndsInEither(p, q, s, t, Bytes)
        BY Beginning
    <2> QED BY <1>1, <2>1, Zenon DEF EndsInEither
<1> QED BY <1>1, <1>2, Zenon DEF Cut

\* A cut word is not read.
LEMMA CutWord ==
    ASSUME NEW n \in Int, NEW width \in Nat, NEW p \in Seq(Bytes), Cut(p, LittleEndian(n, width))
    PROVE  readWord(p, width) = Error
<1>1. Len(p) < width
    BY WordWritten, CutIsShorter
<1> QED BY <1>1 DEF readWord

\* A number that is written is read in the range of its type.
LEMMA IntegerTaken ==
    ASSUME NEW n \in Int, NEW width \in Nat, NEW signed \in BOOLEAN, NEW rest \in Seq(Bytes)
    PROVE  decodeInteger(LittleEndian(n, width) \o rest, width, signed) =
               Read(Num(IF signed THEN "int64" ELSE "uint64", Wrapped(n, Integer(width, signed))),
                    rest)
<1> DEFINE b == LittleEndian(n, width) \o rest  u == n % Power[width]
<1>1. readWord(b, width) = Read(u, rest)
    BY WordsTaken
<1>2. Read(u, rest) # Error
    BY NoErrors
<1>3. Wrapped(n, Integer(width, signed)) = IF signed THEN Signed(u, width) ELSE u
    BY WrappedIs
<1> HIDE DEF b, u
<1>4. Read(u, rest).value = u /\ Read(u, rest).rest = rest
    BY DEF Read
<1>5. decodeInteger(b, width, signed) =
          IF signed THEN Read(Num("int64", Signed(u, width)), rest) ELSE Read(Num("uint64", u), rest)
    BY <1>1, <1>2, <1>4 DEF decodeInteger
<1> QED BY <1>3, <1>5 DEF b

\* So is a float, if it is one of this model.
LEMMA SignedIs ==
    ASSUME NEW n \in Int, NEW width \in Nat, -Power[width] <= 2 * n, 2 * n < Power[width]
    PROVE  Signed(n % Power[width], width) = n
<1> DEFINE m == Power[width]
<1>1. m \in Nat /\ m > 0 /\ -m <= 2 * n /\ 2 * n < m
    BY PowerSteps
<1> HIDE DEF m
<1>2. CASE n >= 0
    <2>1. 0 \in Int /\ n < m /\ n = m * 0 + n
        BY <1>1, <1>2
    <2>2. n % m = n
        BY <1>1, <1>2, <2>1, Remainder
    <2> QED BY <1>1, <2>2 DEF Signed, m
<1>3. CASE n < 0
    <2>1. -1 \in Int /\ n + m \in Int /\ 0 <= n + m /\ n + m < m /\ n = m * (-1) + (n + m)
        BY <1>1, <1>3
    <2>2. n % m = n + m
        BY <1>1, <2>1, Remainder
    <2> QED BY <1>1, <2>2 DEF Signed, m
<1> QED BY <1>2, <1>3

\* A number within the floats is read as it was written.
LEMMA FloatTaken ==
    ASSUME NEW n \in Int, NEW width \in Nat, NEW rest \in Seq(Bytes),
           -Power[width] <= 2 * n, 2 * n < Power[width]
    PROVE  decodeFloat(LittleEndian(n, width) \o rest, width) = Read(Num("float64", n), rest)
<1> DEFINE b == LittleEndian(n, width) \o rest  u == n % Power[width]
<1>1. readWord(b, width) = Read(u, rest)
    BY WordsTaken
<1>2. Read(u, rest) # Error
    BY NoErrors
<1>3. Signed(u, width) = n
    BY SignedIs
<1> HIDE DEF b, u
<1>4. Read(u, rest).value = u /\ Read(u, rest).rest = rest
    BY DEF Read
<1>5. decodeFloat(b, width) = Read(Num("float64", n), rest)
    BY <1>1, <1>2, <1>3, <1>4 DEF decodeFloat
<1> QED BY <1>5 DEF b

\* The byte of a boolean is the word of its number.
LEMMA BooleanIs ==
    ASSUME NEW n \in {0, 1}
    PROVE  <<n>> = LittleEndian(n, 1) /\ n % Power[1] = n
<1>1. Base \in Nat /\ Base > 1
    BY CodecAssumption
<1>2. Power[0] = 1 /\ Power[1] = Base
    <2>1. Power[0 + 1] = Base * Power[0]
        BY PowerSteps
    <2> QED BY <1>1, <2>1, PowerSteps
<1>3. n % Base = n
    <2>1. 0 \in Int /\ n \in Int /\ 0 <= n /\ n < Base /\ n = Base * 0 + n
        BY <1>1
    <2> QED BY <1>1, <2>1, Remainder
<1>4. (n \div 1) = n
    OBVIOUS
<1>5. /\ LittleEndian(n, 1) \in Seq(Bytes) /\ Len(LittleEndian(n, 1)) = 1
      /\ LittleEndian(n, 1)[1] = (n \div Power[1 - 1]) % Base
    <2>1. n \in Int /\ 1 \in Nat /\ 1 \in 1 .. 1
        OBVIOUS
    <2> QED BY <2>1, WordWritten, Zenon
<1>6. 1 - 1 = 0
    OBVIOUS
<1>7. LittleEndian(n, 1)[1] = n
    BY <1>2, <1>3, <1>4, <1>5, <1>6
<1> QED BY <1>2, <1>3, <1>5, <1>7

\* A boolean is read as it was written.
LEMMA BooleanTaken ==
    ASSUME NEW n \in {0, 1}, NEW rest \in Seq(Bytes)
    PROVE  decodeBoolean(<<n>> \o rest) = Read(Bool(n # 0), rest)
<1>1. readWord(LittleEndian(n, 1) \o rest, 1) = Read(n % Power[1], rest)
    BY WordsTaken
<1>2. readWord(<<n>> \o rest, 1) = Read(n, rest)
    BY <1>1, BooleanIs
<1>3. Read(n, rest) # Error /\ Read(n, rest).value = n /\ Read(n, rest).rest = rest
    BY NoErrors DEF Read
<1> QED BY <1>2, <1>3 DEF decodeBoolean

-----------------------------------------------------------------------------
(* Texts.                                                                  *)

RunesDom(p)         == Seq(Utf16)
RunesRank(p, units) == Len(units)
RunesDef(p, f, units) ==
    IF units = <<>> THEN <<>>
    ELSE IF units[1] \notin Surrogates
    THEN <<<<units[1]>>>> \o f[Tail(units)]
    ELSE IF units[1] \in HighSurrogates /\ Len(units) > 1 /\ units[2] \in LowSurrogates
    THEN <<<<units[1], units[2]>>>> \o f[Tail(Tail(units))]
    ELSE <<<<Replacement>>>> \o f[Tail(units)]

RunesIs == INSTANCE Ranked WITH Dom <- RunesDom, Rank <- RunesRank, Def <- RunesDef

\* Runes has the value that its definition says.
LEMMA RunesDefined == Runes = [units \in Seq(Utf16) |-> RunesDef(0, Runes, units)]
<1>1. RunesIs!Ranks(0)
    BY DEF RunesIs!Ranks, RunesDom, RunesRank
<1>2. RunesIs!Descends(0)
    <2> SUFFICES ASSUME NEW units \in Seq(Utf16), NEW g, NEW h,
                        \A y \in Seq(Utf16) : Len(y) < Len(units) => g[y] = h[y]
                 PROVE  RunesDef(0, g, units) = RunesDef(0, h, units)
        BY DEF RunesIs!Descends, RunesDom, RunesRank
    <2>1. units # <<>> => Tail(units) \in Seq(Utf16) /\ Len(Tail(units)) < Len(units)
        BY Tails
    <2>2. Len(units) > 1 => Tail(Tail(units)) \in Seq(Utf16) /\ Len(Tail(Tail(units))) < Len(units)
        BY Tails
    <2> QED BY <2>1, <2>2, Zenon DEF RunesDef
<1>3. \E f : f = [units \in Seq(Utf16) |-> RunesDef(0, f, units)]
    BY <1>1, <1>2, RunesIs!RankedRecursion DEF RunesDom
<1> QED BY <1>3, Zenon DEF Runes, RunesDef

\* A unit is a number of two bytes.
LEMMA UnitFacts ==
    /\ \A u \in Utf16 : u \in Nat /\ u < Power[2]
    /\ 0 \in Utf16
    /\ HighSurrogates \subseteq Utf16 \ {0} /\ LowSurrogates \subseteq Utf16 \ {0}
<1>1. Power[2] \in Nat /\ Power[2] > 0
    BY PowerSteps
<1> QED BY <1>1, CodecAssumption DEF Utf16, Surrogates

\* A rune is one unit that is no surrogate, or a pair of surrogates.
LEMMA RuneIs ==
    ASSUME NEW r \in Rune
    PROVE  \/ \E u \in Utf16 \ Surrogates : r = <<u>>
           \/ \E h \in HighSurrogates, l \in LowSurrogates : r = <<h, l>>
<1>1. \/ r \in {<<u>> : u \in Utf16 \ Surrogates}
      \/ r \in HighSurrogates \X LowSurrogates
    BY DEF Rune
<1>2. ASSUME r \in {<<u>> : u \in Utf16 \ Surrogates}
      PROVE  \E u \in Utf16 \ Surrogates : r = <<u>>
    BY <1>2, Zenon
<1>3. ASSUME r \in HighSurrogates \X LowSurrogates
      PROVE  \E h \in HighSurrogates, l \in LowSurrogates : r = <<h, l>>
    BY <1>3
<1> QED BY <1>1, <1>2, <1>3

\* The units of a rune are units.
LEMMA RuneUnits ==
    /\ Rune \subseteq Seq(Utf16)
    /\ Rune \ {<<0>>} \subseteq Seq(Utf16 \ {0})
<1>1. ASSUME NEW r \in Rune PROVE r \in Seq(Utf16) /\ (r # <<0>> => r \in Seq(Utf16 \ {0}))
    <2>1. CASE \E u \in Utf16 \ Surrogates : r = <<u>>
        BY <2>1
    <2>2. CASE \E h \in HighSurrogates, l \in LowSurrogates : r = <<h, l>>
        <3>1. PICK h \in HighSurrogates, l \in LowSurrogates : r = <<h, l>>
            BY <2>2
        <3>2. h \in Utf16 \ {0} /\ l \in Utf16 \ {0}
            BY UnitFacts
        <3> QED BY <3>1, <3>2
    <2> QED BY <2>1, <2>2, RuneIs
<1> QED BY <1>1

\* A rune in front of the units is the first of the text.
LEMMA RuneFirst ==
    ASSUME NEW r \in Rune, NEW u \in Seq(Utf16)
    PROVE  Runes[r \o u] = <<r>> \o Runes[u]
<1>1. r \o u \in Seq(Utf16)
    <2>1. r \in Seq(Utf16)
        BY RuneUnits
    <2> QED BY <2>1, Concat
<1>2. Runes[r \o u] = RunesDef(0, Runes, r \o u)
    BY <1>1, RunesDefined
<1>3. CASE \E x \in Utf16 \ Surrogates : r = <<x>>
    <2>1. PICK x \in Utf16 \ Surrogates : r = <<x>>
        BY <1>3
    <2>2. r \o u # <<>> /\ (r \o u)[1] = x /\ Tail(r \o u) = u
        BY <2>1
    <2>3. RunesDef(0, Runes, r \o u) = <<<<x>>>> \o Runes[u]
        BY <2>2, Zenon DEF RunesDef
    <2> QED BY <1>2, <2>1, <2>3, Zenon
<1>4. CASE \E h \in HighSurrogates, l \in LowSurrogates : r = <<h, l>>
    <2>1. PICK h \in HighSurrogates, l \in LowSurrogates : r = <<h, l>>
        BY <1>4
    <2>2. h \in Utf16 /\ l \in Utf16
        BY UnitFacts
    <2>3. /\ r \o u # <<>> /\ (r \o u)[1] = h /\ (r \o u)[2] = l /\ Len(r \o u) > 1
          /\ Tail(Tail(r \o u)) = u
        BY <2>1, <2>2
    <2>4. h \in Surrogates
        BY DEF Surrogates
    <2>5. RunesDef(0, Runes, r \o u) = <<<<h, l>>>> \o Runes[u]
        BY <2>3, <2>4, Zenon DEF RunesDef
    <2> QED BY <1>2, <2>1, <2>5, Zenon
<1> QED BY <1>3, <1>4, RuneIs

\* The units of a text are units, and those of a text without zero have none.
LEMMA UnitsType ==
    /\ \A s \in Seq(Seq(Utf16)) : Units(s) \in Seq(Utf16)
    /\ \A s \in Seq(Rune) : s \in Seq(Seq(Utf16))
    /\ \A s \in Seq(Rune \ {<<0>>}) : s \in Seq(Rune) /\ Units(s) \in Seq(Utf16 \ {0})
<1>1. \A s \in Seq(Seq(Utf16)) : Units(s) \in Seq(Utf16)
    BY FlattenType DEF Units
<1>2. \A s \in Seq(Rune) : s \in Seq(Seq(Utf16))
    BY RuneUnits, SeqWider
<1>3. ASSUME NEW s \in Seq(Rune \ {<< 0 >>}) PROVE s \in Seq(Rune) /\ Units(s) \in Seq(Utf16 \ {0})
    <2>1. s \in Seq(Rune) /\ s \in Seq(Seq(Utf16 \ {0}))
        BY RuneUnits, SeqWider
    <2> QED BY <2>1, FlattenType DEF Units
<1> QED BY <1>1, <1>2, <1>3

\* The runes of a text's units are the text.
LEMMA RunesOfUnits ==
    ASSUME NEW s \in Seq(Rune)
    PROVE  Runes[Units(s)] = s
<1> DEFINE Text16 == Seq(Seq(Utf16))
           Back(t) == \A u \in Seq(Utf16) : Runes[u] \in Text16 => Runes[Units(t) \o u] = t \o Runes[u]
           S == {n \in Nat : \A t \in Seq(Rune) : Len(t) = n => Back(t)}
<1>1. 0 \in S
    <2>1. ASSUME NEW t \in Seq(Rune), Len(t) = 0 PROVE Back(t)
        <3>1. t = <<>> /\ Units(t) = <<>>
            BY <2>1, FlattenEmpty DEF Units
        <3>2. \A u \in Seq(Utf16) : <<>> \o u = u
            OBVIOUS
        <3>3. \A x \in Text16 : <<>> \o x = x
            OBVIOUS
        <3> QED BY <3>1, <3>2, <3>3, Zenon
    <2> QED BY <2>1
<1>2. ASSUME NEW n \in Nat, n \in S PROVE n + 1 \in S
    <2> SUFFICES ASSUME NEW t \in Seq(Rune), Len(t) = n + 1,
                        NEW u \in Seq(Utf16), Runes[u] \in Text16
                 PROVE  Runes[Units(t) \o u] = t \o Runes[u]
        OBVIOUS
    <2>0. \E v \in Seq(Rune) : \E x \in Rune : t = Append(v, x) /\ Len(v) = n
        BY LastSplit, Zenon
    <2>1. PICK v \in Seq(Rune), r \in Rune : t = Append(v, r) /\ Len(v) = n
        BY <2>0, Zenon
    <2>2. v \in Text16 /\ r \in Seq(Utf16) /\ Units(v) \in Seq(Utf16)
        BY UnitsType, RuneUnits
    <2>3. Units(t) = Units(v) \o r
        BY <2>1, <2>2, FlattenAppend, Zenon DEF Units
    <2>4. Units(t) \o u = Units(v) \o (r \o u)
        <3>1. (Units(v) \o r) \o u = Units(v) \o (r \o u)
            BY <2>2
        <3> QED BY <2>3, <3>1
    <2>5. r \o u \in Seq(Utf16) /\ Runes[r \o u] = <<r>> \o Runes[u]
        BY <2>2, RuneFirst, Concat, Zenon
    <2>6. <<r>> \o Runes[u] \in Text16
        BY <2>2
    <2>7. Back(v)
        BY <1>2, <2>1
    <2>8. Runes[Units(v) \o (r \o u)] = v \o (<<r>> \o Runes[u])
        BY <2>5, <2>6, <2>7, Zenon
    <2>9. v \o (<<r>> \o Runes[u]) = t \o Runes[u]
        <3>1. v \in Seq(Seq(Utf16)) /\ r \in Seq(Utf16) /\ Runes[u] \in Seq(Seq(Utf16))
            BY <2>2
        <3>2. InEither(v, r, Runes[u])
            BY <3>1, Between
        <3> QED BY <2>1, <3>2, Zenon DEF InEither
    <2> QED BY <2>4, <2>8, <2>9, Zenon
<1> HIDE DEF S
<1>3. \A n \in Nat : n \in S
    BY <1>1, <1>2, NatSet
<1>4. Back(s)
    <2>1. Len(s) \in Nat
        OBVIOUS
    <2> QED BY <1>3, <2>1 DEF S
<1>5. Runes[<<>>] = <<>>
    <2>1. <<>> \in Seq(Utf16)
        OBVIOUS
    <2> QED BY <2>1, RunesDefined DEF RunesDef
<1>6. <<>> \in Seq(Utf16) /\ <<>> \in Text16 /\ Units(s) \in Seq(Utf16)
    BY UnitsType
<1>7. Runes[Units(s) \o <<>>] = s \o <<>>
    BY <1>4, <1>5, <1>6, Zenon
<1>8. Units(s) \o <<>> = Units(s) /\ s \o <<>> = s
    BY <1>6
<1> QED BY <1>7, <1>8

\* The two bytes of a unit are in their place.
LEMMA WideIs ==
    ASSUME NEW units \in Seq(Utf16)
    PROVE  /\ Wide(units) \in Seq(Bytes) /\ Len(Wide(units)) = 2 * Len(units)
           /\ \A i \in 1 .. Len(units) :
                 /\ Wide(units)[2 * i - 1] = LittleEndian(units[i], 2)[1]
                 /\ Wide(units)[2 * i] = LittleEndian(units[i], 2)[2]
<1> DEFINE n == Len(units)
<1>0. n \in Nat /\ \A i \in 1 .. n : units[i] \in Utf16
    OBVIOUS
<1> HIDE DEF n
<1>1. \A u \in Utf16 : /\ LittleEndian(u, 2)[1] \in Bytes
                       /\ LittleEndian(u, 2)[2] \in Bytes
    <2>1. ASSUME NEW u \in Utf16 PROVE LittleEndian(u, 2)[1] \in Bytes /\ LittleEndian(u, 2)[2] \in Bytes
        <3>1. u \in Int
            BY UnitFacts
        <3>2. LittleEndian(u, 2) \in Seq(Bytes) /\ Len(LittleEndian(u, 2)) = 2
            BY <3>1, WordWritten, Zenon
        <3> QED BY <3>2
    <2> QED BY <2>1
<1>2. ASSUME NEW j \in 1 .. 2 * n
      PROVE  /\ (j + 1) \div 2 \in 1 .. n
             /\ j % 2 \in {0, 1}
    BY <1>0
<1>3. ASSUME NEW j \in 1 .. 2 * n
      PROVE  LittleEndian(units[(j + 1) \div 2], 2)[2 - (j % 2)] \in Bytes
    <2>1. units[(j + 1) \div 2] \in Utf16
        BY <1>0, <1>2
    <2>2. 2 - (j % 2) = 1 \/ 2 - (j % 2) = 2
        BY <1>2
    <2> QED BY <1>1, <2>1, <2>2
<1>4. Wide(units) = [j \in 1 .. 2 * n |-> LittleEndian(units[(j + 1) \div 2], 2)[2 - (j % 2)]]
    BY DEF Wide, n
<1>5. Wide(units) \in Seq(Bytes) /\ Len(Wide(units)) = 2 * n
    <2>1. 2 * n \in Nat
        BY <1>0
    <2> QED BY <1>3, <1>4, <2>1
<1>6. ASSUME NEW i \in 1 .. n
      PROVE  /\ Wide(units)[2 * i - 1] = LittleEndian(units[i], 2)[1]
             /\ Wide(units)[2 * i] = LittleEndian(units[i], 2)[2]
    <2>1. /\ 2 * i - 1 \in 1 .. 2 * n /\ ((2 * i - 1) + 1) \div 2 = i /\ 2 - ((2 * i - 1) % 2) = 1
        BY <1>0
    <2>2. /\ 2 * i \in 1 .. 2 * n /\ (2 * i + 1) \div 2 = i /\ 2 - ((2 * i) % 2) = 2
        BY <1>0
    <2> QED BY <1>4, <2>1, <2>2
<1> QED BY <1>5, <1>6 DEF n

\* Units are read as they were written, whatever comes behind them.
LEMMA UnitRead ==
    ASSUME NEW units \in Seq(Utf16), NEW bytes,
           NEW i \in 1 .. Len(units),
           bytes[2 * i - 1] = Wide(units)[2 * i - 1], bytes[2 * i] = Wide(units)[2 * i]
    PROVE  Unit(bytes, i) = units[i]
<1> DEFINE u == units[i]
<1>1. u \in Nat /\ u < Power[2] /\ u \in Int
    <2>1. u \in Utf16
        OBVIOUS
    <2> QED BY <2>1, UnitFacts
<1>2. bytes[2 * i - 1] = LittleEndian(u, 2)[1] /\ bytes[2 * i] = LittleEndian(u, 2)[2]
    BY WideIs
<1> HIDE DEF u
<1>3. LittleEndian(u, 2) \in Seq(Bytes) /\ Len(LittleEndian(u, 2)) = 2
    BY <1>1, WordWritten, Zenon
<1>4. LittleEndian(u, 2) = <<LittleEndian(u, 2)[1], LittleEndian(u, 2)[2]>>
    BY <1>3
<1>5. Unit(bytes, i) = Unsigned(LittleEndian(u, 2))
    BY <1>2, <1>4 DEF Unit
<1>6. Unsigned(LittleEndian(u, 2)) = u % Power[2]
    BY <1>1, WordRead
<1>7. u % Power[2] = u
    <2>1. Power[2] \in Nat /\ Power[2] > 0
        BY PowerSteps
    <2>2. 0 \in Int /\ 0 <= u /\ u = Power[2] * 0 + u
        BY <1>1, <2>1
    <2> QED BY <1>1, <2>1, <2>2, Remainder
<1> QED BY <1>5, <1>6, <1>7 DEF u

\* Each unit is read as it was written, whatever comes behind the text.
LEMMA UnitsBegin ==
    ASSUME NEW units \in Seq(Utf16), NEW rest \in Seq(Bytes), NEW i \in 1 .. Len(units)
    PROVE  Unit(Wide(units) \o rest, i) = units[i]
<1> DEFINE b == Wide(units) \o rest
<1>1. Wide(units) \in Seq(Bytes) /\ Len(Wide(units)) = 2 * Len(units) /\ Len(units) \in Nat
    BY WideIs
<1>2. 2 * i - 1 \in 1 .. Len(Wide(units)) /\ 2 * i \in 1 .. Len(Wide(units))
    BY <1>1
<1>3. b[2 * i - 1] = Wide(units)[2 * i - 1] /\ b[2 * i] = Wide(units)[2 * i]
    BY <1>1, <1>2, Concat
<1> HIDE DEF b
<1>4. Unit(b, i) = units[i]
    BY <1>3, UnitRead
<1> QED BY <1>4 DEF b

\* So are the first ones together.
LEMMA NarrowWide ==
    ASSUME NEW units \in Seq(Utf16), NEW rest \in Seq(Bytes), NEW n \in Nat, n <= Len(units)
    PROVE  Narrow(Wide(units) \o rest, n) = [i \in 1 .. n |-> units[i]]
<1>1. ASSUME NEW i \in 1 .. n PROVE Unit(Wide(units) \o rest, i) = units[i]
    <2>1. i \in 1 .. Len(units)
        OBVIOUS
    <2> QED BY <2>1, UnitsBegin
<1> QED BY <1>1 DEF Narrow

\* A text of whole runes is read back from its units.
LEMMA TextIs ==
    ASSUME NEW s \in Seq(Rune), NEW rest \in Seq(Bytes)
    PROVE  Runes[Narrow(Wide(Units(s)) \o rest, Len(Units(s)))] = s
<1> DEFINE units == Units(s)
<1>1. units \in Seq(Utf16)
    BY UnitsType
<1>2. Runes[units] = s
    BY RunesOfUnits
<1> HIDE DEF units
<1>3. Len(units) \in Nat /\ units = [i \in 1 .. Len(units) |-> units[i]]
    BY <1>1
<1>4. Narrow(Wide(units) \o rest, Len(units)) = units
    <2> DEFINE n == Len(units)
    <2>1. n \in Nat /\ n <= Len(units)
        BY <1>3
    <2> HIDE DEF n
    <2>2. Narrow(Wide(units) \o rest, n) = [i \in 1 .. n |-> units[i]]
        BY <1>1, <2>1, NarrowWide
    <2> QED BY <1>3, <2>2 DEF n
<1> QED BY <1>2, <1>4 DEF units

\* A text is read as it was written.
LEMMA StringTaken ==
    ASSUME NEW s \in Seq(Rune), Len(Units(s)) < Power[4], NEW rest \in Seq(Bytes)
    PROVE  decodeString(LittleEndian(Len(Units(s)), 4) \o (Wide(Units(s)) \o rest)) =
               Read(Text(s), rest)
<1> DEFINE units == Units(s)  n == Len(units)  wide == Wide(units)
           more == wide \o rest  all == LittleEndian(n, 4) \o more
<1>1. units \in Seq(Utf16) /\ n \in Nat
    BY UnitsType
<1>2. wide \in Seq(Bytes) /\ Len(wide) = 2 * n
    BY <1>1, WideIs
<1>3. /\ more \in Seq(Bytes) /\ Len(more) >= 2 * n
      /\ SubSeq(more, 2 * n + 1, Len(more)) = rest
    <2> HIDE DEF wide, n
    <2> QED BY <1>2, Concat, Halved
<1>4. Runes[Narrow(more, n)] = s
    BY TextIs
<1> HIDE DEF units, n, wide, more
<1>5. n < Power[4] /\ Power[4] \in Nat /\ Power[4] > 0
    BY PowerSteps, Zenon DEF n, units
<1>6. n % Power[4] = n
    <2>1. 0 \in Int /\ 0 <= n /\ n = Power[4] * 0 + n /\ n \in Int
        BY <1>1, <1>5
    <2> QED BY <1>5, <2>1, Remainder, Zenon
<1>7. readWord(all, 4) = Read(n, more)
    BY <1>1, <1>3, <1>6, WordsTaken
<1>8. Read(n, more) # Error /\ Read(n, more).value = n /\ Read(n, more).rest = more
    BY NoErrors DEF Read
<1> HIDE DEF all
<1>9. ~(Len(more) < 2 * n)
    <2>1. Len(more) \in Nat
        BY <1>3
    <2> QED BY <1>1, <1>3, <2>1
<1>10. decodeString(all) = Read(Text(s), rest)
    BY <1>3, <1>4, <1>7, <1>8, <1>9, Zenon DEF decodeString
<1> QED BY <1>10 DEF all, more, wide, n, units

\* A String that is cut is not read.
LEMMA StringCut ==
    ASSUME NEW units \in Seq(Utf16), Len(units) < Power[4], NEW p \in Seq(Bytes),
           Cut(p, LittleEndian(Len(units), 4) \o Wide(units))
    PROVE  decodeString(p) = Error
<1> DEFINE n == Len(units)  word == LittleEndian(n, 4)  wide == Wide(units)
<1>1. n \in Nat /\ word \in Seq(Bytes) /\ wide \in Seq(Bytes) /\ Len(wide) = 2 * n
    BY WordWritten, WideIs
<1>2. Cut(p, word) \/ \E u \in Seq(Bytes) : p = word \o u /\ Cut(u, wide)
    <2> HIDE DEF word, wide
    <2>1. Cut(p, word \o wide)
        BY DEF word, wide
    <2> QED BY <1>1, <2>1, CutInTwo, Zenon
<1>3. CASE Cut(p, word)
    <2>1. readWord(p, 4) = Error
        BY <1>1, <1>3, CutWord
    <2> QED BY <2>1 DEF decodeString
<1>4. ASSUME NEW u \in Seq(Bytes), p = word \o u, Cut(u, wide)
      PROVE  decodeString(p) = Error
    <2>1. Len(u) < 2 * n
        BY <1>1, <1>4, CutIsShorter
    <2>2. n % Power[4] = n
        <3>1. Power[4] \in Nat /\ Power[4] > 0 /\ n < Power[4]
            BY PowerSteps, Zenon
        <3>2. 0 \in Int /\ 0 <= n /\ n = Power[4] * 0 + n /\ n \in Int
            BY <1>1, <3>1
        <3> QED BY <3>1, <3>2, Remainder, Zenon
    <2>3. readWord(p, 4) = Read(n, u)
        <3>1. readWord(word \o u, 4) = Read(n % Power[4], u)
            BY <1>1, WordsTaken
        <3> QED BY <1>4, <2>2, <3>1
    <2>4. Read(n, u) # Error /\ Read(n, u).value = n /\ Read(n, u).rest = u
        BY NoErrors DEF Read
    <2> HIDE DEF n, word, wide
    <2> QED BY <2>1, <2>3, <2>4 DEF decodeString
<1> QED BY <1>2, <1>3, <1>4, Zenon

\* The terminator is one unit more.
LEMMA WideEnd ==
    ASSUME NEW units \in Seq(Utf16)
    PROVE  /\ Append(units, 0) \in Seq(Utf16)
           /\ Wide(units) \o LittleEndian(0, 2) = Wide(Append(units, 0))
<1> DEFINE n == Len(units)  w == Append(units, 0)
           a == Wide(units)  b == LittleEndian(0, 2)  c == Wide(w)
<1>1. /\ n \in Nat /\ w \in Seq(Utf16) /\ Len(w) = n + 1 /\ w[n + 1] = 0
      /\ \A i \in 1 .. n : w[i] = units[i]
    BY UnitFacts
<1>2. /\ a \in Seq(Bytes) /\ Len(a) = 2 * n
      /\ \A i \in 1 .. n : /\ a[2 * i - 1] = LittleEndian(units[i], 2)[1]
                           /\ a[2 * i] = LittleEndian(units[i], 2)[2]
    BY WideIs
<1>3. b \in Seq(Bytes) /\ Len(b) = 2
    <2>1. 0 \in Int /\ 2 \in Nat
        OBVIOUS
    <2> QED BY <2>1, WordWritten, Zenon
<1> HIDE DEF w
<1>4. /\ c \in Seq(Bytes) /\ Len(c) = 2 * (n + 1)
      /\ \A i \in 1 .. n + 1 : /\ c[2 * i - 1] = LittleEndian(w[i], 2)[1]
                               /\ c[2 * i] = LittleEndian(w[i], 2)[2]
    BY <1>1, WideIs, Zenon
<1> HIDE DEF n, a, c
<1>5. /\ a \o b \in Seq(Bytes) /\ Len(a \o b) = 2 * n + 2
      /\ \A i \in 1 .. 2 * n : (a \o b)[i] = a[i]
      /\ (a \o b)[2 * n + 1] = b[1] /\ (a \o b)[2 * n + 2] = b[2]
    <2> HIDE DEF b
    <2>0. PICK x : x = a \o b
        BY Zenon
    <2>1. /\ x \in Seq(Bytes) /\ Len(x) = Len(a) + Len(b)
          /\ \A i \in 1 .. Len(a) : x[i] = a[i]
          /\ \A i \in 1 .. Len(b) : x[Len(a) + i] = b[i]
        <3>1. a \in Seq(Bytes) /\ b \in Seq(Bytes)
            BY <1>2, <1>3
        <3> QED BY <2>0, <3>1, Concat
    <2>2. 1 \in 1 .. 2 /\ 2 \in 1 .. 2
        OBVIOUS
    <2>3. /\ x \in Seq(Bytes) /\ Len(x) = 2 * n + 2
          /\ \A i \in 1 .. 2 * n : x[i] = a[i]
          /\ \A i \in 1 .. 2 : x[2 * n + i] = b[i]
        BY <1>2, <1>3, <2>1
    <2> QED BY <2>0, <2>2, <2>3, Zenon
<1>6. ASSUME NEW j \in 1 .. 2 * n + 2 PROVE c[j] = (a \o b)[j]
    <2> DEFINE i == (j + 1) \div 2
    <2>1. i \in 1 .. n + 1 /\ (j = 2 * i - 1 \/ j = 2 * i)
        BY <1>1
    <2> HIDE DEF i
    <2>2. CASE i = n + 1
        <3>1. c[2 * i - 1] = b[1] /\ c[2 * i] = b[2] /\ 2 * i - 1 = 2 * n + 1 /\ 2 * i = 2 * n + 2
            BY <1>1, <1>4, <2>1, <2>2
        <3> QED BY <1>5, <2>1, <3>1, Zenon
    <2>3. CASE i # n + 1
        <3>1. i \in 1 .. n
            BY <1>1, <2>1, <2>3
        <3>2. 2 * i - 1 \in 1 .. 2 * n /\ 2 * i \in 1 .. 2 * n
            BY <1>1, <3>1
        <3>3. c[2 * i - 1] = a[2 * i - 1] /\ c[2 * i] = a[2 * i]
            BY <1>1, <1>2, <1>4, <2>1, <3>1, Zenon
        <3> QED BY <1>5, <2>1, <3>2, <3>3, Zenon
    <2> QED BY <2>2, <2>3, Zenon
<1>7. a \o b = c
    <2>1. PICK x : x = a \o b
        BY Zenon
    <2>2. x \in Seq(Bytes) /\ Len(x) = 2 * n + 2 /\ \A j \in 1 .. 2 * n + 2 : c[j] = x[j]
        BY <1>5, <1>6, <2>1
    <2>3. 2 * (n + 1) = 2 * n + 2
        BY <1>1
    <2>4. x = c
        BY <1>4, <2>2, <2>3, SameSeq
    <2> QED BY <2>1, <2>4
<1> QED BY <1>1, <1>7 DEF a, b, c, w

\* The first unit that is zero is the terminator.
LEMMA LeastIs ==
    ASSUME NEW S, NEW k \in Nat, S \subseteq Nat, k \in S, \A n \in S : k <= n
    PROVE  S # {} /\ Least(S) = k
<1>1. \E n \in S : \A j \in S : n <= j
    OBVIOUS
<1>2. Least(S) \in S /\ \A j \in S : Least(S) <= j
    BY <1>1, Zenon DEF Least
<1> DEFINE c == Least(S)
<1> HIDE DEF c
<1>3. c \in S /\ c <= k
    BY <1>2 DEF c
<1>4. c = k
    BY <1>3
<1> QED BY <1>4 DEF c

\* A text that ends with a zero is read as it was written.
LEMMA CharsTaken ==
    ASSUME NEW s \in Seq(Rune \ {<< 0 >>}), NEW rest \in Seq(Bytes)
    PROVE  decodeChars((Wide(Units(s)) \o LittleEndian(0, 2)) \o rest) = Read(Text(s), rest)
<1> DEFINE units == Units(s)  k == Len(units)  w == Append(units, 0)
           wide == Wide(w)  buf == wide \o rest
<1>1. units \in Seq(Utf16 \ {0}) /\ units \in Seq(Utf16) /\ Runes[units] = s
    BY UnitsType, RunesOfUnits, Zenon
<1> HIDE DEF units
<1>2. k \in Nat /\ (\A i \in 1 .. k : units[i] # 0) /\ units = [i \in 1 .. k |-> units[i]]
    BY <1>1
<1>3. w \in Seq(Utf16) /\ Wide(units) \o LittleEndian(0, 2) = wide
    BY <1>1, WideEnd
<1>4. Len(w) = k + 1 /\ w[k + 1] = 0 /\ \A i \in 1 .. k : w[i] = units[i]
    BY <1>1
<1> HIDE DEF w, k
<1>5. wide \in Seq(Bytes) /\ Len(wide) = 2 * (k + 1)
    BY <1>3, <1>4, WideIs
<1>6. \A i \in 1 .. k + 1 : Unit(buf, i) = w[i]
    <2>1. \A i \in 1 .. Len(w) : Unit(buf, i) = w[i]
        <3> HIDE DEF wide
        <3> QED BY <1>3, UnitsBegin DEF wide
    <2> QED BY <1>4, <2>1
<1>7. Narrow(buf, k) = units
    <2>1. k <= Len(w)
        BY <1>2, <1>4
    <2>2. Narrow(buf, k) = [i \in 1 .. k |-> w[i]]
        BY <1>2, <1>3, <2>1, NarrowWide
    <2>3. [i \in 1 .. k |-> w[i]] = [i \in 1 .. k |-> units[i]]
        BY <1>4
    <2> QED BY <1>2, <2>2, <2>3
<1> HIDE DEF wide
<1>8. Len(buf) = 2 * (k + 1) + Len(rest) /\ Len(rest) \in Nat /\ SubSeq(buf, 2 * k + 3, Len(buf)) = rest
    <2>1. Len(buf) = Len(wide) + Len(rest) /\ Len(rest) \in Nat
        BY <1>5, Concat, Zenon
    <2>2. SubSeq(buf, Len(wide) + 1, Len(buf)) = rest
        BY <1>5, Halved
    <2>3. Len(wide) + 1 = 2 * k + 3
        BY <1>2, <1>5
    <2> HIDE DEF buf
    <2> QED BY <1>5, <2>1, <2>2, <2>3
<1> HIDE DEF buf
<1>9. Zeroes(buf) # {} /\ Least(Zeroes(buf)) = k
    <2>1. k \in Zeroes(buf)
        <3>1. k \in 0 .. (Len(buf) \div 2) - 1
            BY <1>2, <1>8
        <3>2. Unit(buf, k + 1) = 0
            BY <1>2, <1>4, <1>6
        <3> QED BY <3>1, <3>2 DEF Zeroes
    <2>2. ASSUME NEW n \in Zeroes(buf), n < k PROVE FALSE
        <3>1. n \in Nat /\ Unit(buf, n + 1) = 0
            BY DEF Zeroes
        <3>2. n + 1 \in 1 .. k /\ n + 1 \in 1 .. k + 1
            BY <1>2, <2>2, <3>1
        <3> QED BY <1>2, <1>4, <1>6, <3>1, <3>2
    <2>3. Zeroes(buf) \subseteq Nat
        BY DEF Zeroes
    <2>4. \A n \in Zeroes(buf) : k <= n
        BY <1>2, <2>2, <2>3
    <2> QED BY <1>2, <2>1, <2>3, <2>4, LeastIs
<1>10. decodeChars(buf) = Read(Text(s), rest)
    BY <1>1, <1>7, <1>8, <1>9, Zenon DEF decodeChars, Terminated
<1> QED BY <1>3, <1>10, Zenon DEF buf, units

\* A Char[] that is cut is not read: its terminator is missing.
LEMMA CharsCut ==
    ASSUME NEW units \in Seq(Utf16 \ {0}), NEW p \in Seq(Bytes),
           Cut(p, Wide(units) \o LittleEndian(0, 2))
    PROVE  decodeChars(p) = Error
<1> DEFINE k == Len(units)  w == Append(units, 0)  wide == Wide(w)
<1>1. units \in Seq(Utf16) /\ k \in Nat /\ \A i \in 1 .. k : units[i] # 0
    <2>1. Utf16 \ {0} \subseteq Utf16
        OBVIOUS
    <2>2. units \in Seq(Utf16)
        BY <2>1, SeqWider
    <2> QED BY <2>2
<1>2. w \in Seq(Utf16) /\ Wide(units) \o LittleEndian(0, 2) = wide
    BY <1>1, WideEnd
<1>3. Len(w) = k + 1 /\ \A i \in 1 .. k : w[i] = units[i]
    BY <1>1
<1>4. Cut(p, wide)
    BY <1>2, Zenon
<1> HIDE DEF w, k
<1>5. wide \in Seq(Bytes) /\ Len(wide) = 2 * (k + 1)
    BY <1>2, <1>3, WideIs
<1>6. Len(p) \in Nat /\ Len(p) < 2 * (k + 1)
    BY <1>4, <1>5, CutIsShorter
<1>7. \A j \in 1 .. Len(p) : wide[j] = p[j]
    <2> HIDE DEF wide
    <2>1. PICK q \in Seq(Bytes) : p \o q = wide
        BY <1>4, Zenon DEF Cut
    <2> QED BY <2>1, Concat
<1>8. ASSUME NEW n \in Zeroes(p) PROVE FALSE
    <2>1. n \in Nat /\ n \in 0 .. (Len(p) \div 2) - 1 /\ Unit(p, n + 1) = 0
        BY DEF Zeroes
    <2> DEFINE i == n + 1
    <2>2. i \in 1 .. k /\ i \in 1 .. Len(w) /\ 2 * i - 1 \in 1 .. Len(p) /\ 2 * i \in 1 .. Len(p)
        BY <1>1, <1>3, <1>6, <2>1
    <2> HIDE DEF i
    <2>3. p[2 * i - 1] = wide[2 * i - 1] /\ p[2 * i] = wide[2 * i]
        BY <1>7, <2>2
    <2>4. Unit(p, i) = w[i]
        BY <1>2, <2>2, <2>3, UnitRead, Zenon
    <2>5. w[i] # 0
        BY <1>1, <1>3, <2>2
    <2> QED BY <2>1, <2>4, <2>5 DEF i
<1> QED BY <1>8 DEF decodeChars

-----------------------------------------------------------------------------
(* Types: what nests others is deeper.                                     *)

\* The types of the items and of the fields are types, and less deep.
LEMMA TypeFacts ==
    ASSUME NEW t \in Types
    PROVE  /\ Nesting[t] \in Nat
           /\ t.kind \in {"array", "list"} => t.elem \in Types /\ Nesting[t.elem] < Nesting[t]
           /\ t.kind = "struct" /\ t.name \in DOMAIN structs =>
                 \A i \in DOMAIN structs[t.name] :
                    /\ structs[t.name][i].type \in Types
                    /\ Nesting[structs[t.name][i].type] < Nesting[t]
<1>1. Nesting[t] \in Nat
    BY TypesAssumption DEF Deeper
<1>2. ASSUME t.kind \in {"array", "list"} PROVE t.elem \in Types /\ Nesting[t.elem] < Nesting[t]
    <2>1. \/ t \in [kind : {"array", "list"}, elem : Types]
          \/ t \in Scalars \/ t \in [kind : {"struct"}, name : STRING]
        BY TypesAssumption DEF Deeper
    <2>2. t \notin Scalars
        BY <1>2 DEF Scalars
    <2>3. t \notin [kind : {"struct"}, name : STRING]
        BY <1>2
    <2>4. t.elem \in Types
        BY <2>1, <2>2, <2>3
    <2> QED BY <1>2, <2>4, TypesAssumption DEF Deeper
<1>3. ASSUME t.kind = "struct", t.name \in DOMAIN structs, NEW i \in DOMAIN structs[t.name]
      PROVE  structs[t.name][i].type \in Types /\ Nesting[structs[t.name][i].type] < Nesting[t]
    <2>1. Layout(structs[t.name], Types)
        BY <1>3, CatalogAssumption DEF Tables
    <2>2. structs[t.name] \in Seq([name : STRING, type : Types])
        BY <2>1 DEF Layout
    <2>3. structs[t.name][i] \in [name : STRING, type : Types]
        <3> DEFINE R == [name : STRING, type : Types]  s == structs[t.name]
        <3>1. s \in Seq(R) /\ i \in DOMAIN s
            BY <2>2
        <3> HIDE DEF R, s
        <3>2. s[i] \in R
            BY <3>1
        <3> QED BY <3>2 DEF R, s
    <2> QED BY <1>3, <2>3, TypesAssumption DEF Deeper
<1> QED BY <1>1, <1>2, <1>3

TypesDom(p)     == Types
TypesRank(p, t) == Nesting[t]

\* The steps of the functions on types, for functions f on the types below.
EncodeDef(p, f, t) == [q \in Places \X GoValues |-> encodeType(f, t, q[1], q[2])]
DecodeDef(p, f, t) == [q \in Places \X Seq(Bytes) |-> decodeType(f, t, q[1], q[2])]

EncodeIs == INSTANCE Ranked WITH Dom <- TypesDom, Rank <- TypesRank, Def <- EncodeDef
DecodeIs == INSTANCE Ranked WITH Dom <- TypesDom, Rank <- TypesRank, Def <- DecodeDef

\* Two functions that agree on the types of the fields are the same to a layout.
LEMMA EachSame ==
    ASSUME NEW g, NEW h, NEW fields, \A i \in DOMAIN fields : g[fields[i].type] = h[fields[i].type]
    PROVE  Each(g, fields) = Each(h, fields)
BY DEF Each

\* encodeValue has the value that its definition says.
LEMMA EncodeDefined == encodeValue = [t \in Types |-> EncodeDef(0, encodeValue, t)]
<1>1. EncodeIs!Ranks(0)
    BY TypeFacts DEF EncodeIs!Ranks, TypesDom, TypesRank
<1>2. EncodeIs!Descends(0)
    <2> SUFFICES ASSUME NEW t \in Types, NEW g, NEW h,
                        \A y \in Types : Nesting[y] < Nesting[t] => g[y] = h[y]
                 PROVE  EncodeDef(0, g, t) = EncodeDef(0, h, t)
        BY DEF EncodeIs!Descends, TypesDom, TypesRank
    <2>1. t.kind \in {"array", "list"} => g[t.elem] = h[t.elem]
        BY TypeFacts
    <2>2. t.kind = "struct" /\ t.name \in DOMAIN structs =>
              Each(g, structs[t.name]) = Each(h, structs[t.name])
        BY TypeFacts, EachSame
    <2> QED BY <2>1, <2>2 DEF EncodeDef, encodeType
<1>3. \E f : f = [t \in Types |-> EncodeDef(0, f, t)]
    BY <1>1, <1>2, EncodeIs!RankedRecursion DEF TypesDom
<1> QED BY <1>3, Zenon DEF encodeValue, EncodeDef

\* decodeValue has the value that its definition says.
LEMMA DecodeDefined == decodeValue = [t \in Types |-> DecodeDef(0, decodeValue, t)]
<1>1. DecodeIs!Ranks(0)
    BY TypeFacts DEF DecodeIs!Ranks, TypesDom, TypesRank
<1>2. DecodeIs!Descends(0)
    <2> SUFFICES ASSUME NEW t \in Types, NEW g, NEW h,
                        \A y \in Types : Nesting[y] < Nesting[t] => g[y] = h[y]
                 PROVE  DecodeDef(0, g, t) = DecodeDef(0, h, t)
        BY DEF DecodeIs!Descends, TypesDom, TypesRank
    <2>1. t.kind \in {"array", "list"} => g[t.elem] = h[t.elem]
        BY TypeFacts
    <2>2. t.kind = "struct" /\ t.name \in DOMAIN structs =>
              Each(g, structs[t.name]) = Each(h, structs[t.name])
        BY TypeFacts, EachSame
    <2> QED BY <2>1, <2>2 DEF DecodeDef, decodeType
<1>3. \E f : f = [t \in Types |-> DecodeDef(0, f, t)]
    BY <1>1, <1>2, DecodeIs!RankedRecursion DEF TypesDom
<1> QED BY <1>3, Zenon DEF decodeValue, DecodeDef

\* encodeValue and decodeValue do what the type switch says.
LEMMA ValueAt ==
    ASSUME NEW t \in Types, NEW at \in Places
    PROVE  /\ \A v \in GoValues : encodeValue[t][<<at, v>>] = encodeType(encodeValue, t, at, v)
           /\ \A buf \in Seq(Bytes) : decodeValue[t][<<at, buf>>] = decodeType(decodeValue, t, at, buf)
<1>1. ASSUME NEW v \in GoValues PROVE encodeValue[t][<<at, v>>] = encodeType(encodeValue, t, at, v)
    <2> DEFINE q == <<at, v>>
    <2>1. q \in Places \X GoValues /\ q[1] = at /\ q[2] = v
        OBVIOUS
    <2> HIDE DEF q
    <2>2. encodeValue[t] = EncodeDef(0, encodeValue, t)
        BY EncodeDefined
    <2>3. EncodeDef(0, encodeValue, t)[q] = encodeType(encodeValue, t, q[1], q[2])
        BY <2>1 DEF EncodeDef
    <2> QED BY <2>1, <2>2, <2>3 DEF q
<1>2. ASSUME NEW buf \in Seq(Bytes)
      PROVE  decodeValue[t][<<at, buf>>] = decodeType(decodeValue, t, at, buf)
    <2> DEFINE q == <<at, buf>>
    <2>1. q \in Places \X Seq(Bytes) /\ q[1] = at /\ q[2] = buf
        OBVIOUS
    <2> HIDE DEF q
    <2>2. decodeValue[t] = DecodeDef(0, decodeValue, t)
        BY DecodeDefined
    <2>3. DecodeDef(0, decodeValue, t)[q] = decodeType(decodeValue, t, q[1], q[2])
        BY <2>1 DEF DecodeDef
    <2> QED BY <2>1, <2>2, <2>3 DEF q
<1> QED BY <1>1, <1>2

\* What is kept and what is carried, for functions f on the types below.
KeptDef(p, f, t)    == [w \in GoValues |-> KeptOf(f, t, w)]
CarriedDef(p, f, t) == [w \in GoValues |-> CarriedOf(f, t, w)]

KeptIs    == INSTANCE Ranked WITH Dom <- TypesDom, Rank <- TypesRank, Def <- KeptDef
CarriedIs == INSTANCE Ranked WITH Dom <- TypesDom, Rank <- TypesRank, Def <- CarriedDef

kept    == CHOOSE f : f = [t \in Types |-> KeptDef(0, f, t)]
carried == CHOOSE f : f = [t \in Types |-> CarriedDef(0, f, t)]

\* Kept is one function of the types and the values.
LEMMA KeptDefined ==
    /\ kept = [t \in Types |-> KeptDef(0, kept, t)]
    /\ \A t, v : Kept(t, v) = kept[t][v]
<1>1. KeptIs!Ranks(0)
    BY TypeFacts DEF KeptIs!Ranks, TypesDom, TypesRank
<1>2. KeptIs!Descends(0)
    <2> SUFFICES ASSUME NEW t \in Types, NEW g, NEW h,
                        \A y \in Types : Nesting[y] < Nesting[t] => g[y] = h[y]
                 PROVE  KeptDef(0, g, t) = KeptDef(0, h, t)
        BY DEF KeptIs!Descends, TypesDom, TypesRank
    <2>1. t.kind \in {"array", "list"} => g[t.elem] = h[t.elem]
        BY TypeFacts
    <2>2. t.kind = "struct" /\ t.name \in DOMAIN structs =>
              \A i \in DOMAIN structs[t.name] : g[structs[t.name][i].type] = h[structs[t.name][i].type]
        BY TypeFacts
    <2> QED BY <2>1, <2>2 DEF KeptDef, KeptOf
<1>3. \E f : f = [t \in Types |-> KeptDef(0, f, t)]
    BY <1>1, <1>2, KeptIs!RankedRecursion DEF TypesDom
<1>4. kept = [t \in Types |-> KeptDef(0, kept, t)]
    BY <1>3, Zenon DEF kept
<1>5. \A t, v : Kept(t, v) = kept[t][v]
    BY Zenon DEF Kept, kept, KeptDef
<1> QED BY <1>4, <1>5

\* Carried is one function of the types and the values.
LEMMA CarriedDefined ==
    /\ carried = [t \in Types |-> CarriedDef(0, carried, t)]
    /\ \A t, v : Carried(t, v) = carried[t][v]
<1>1. CarriedIs!Ranks(0)
    BY TypeFacts DEF CarriedIs!Ranks, TypesDom, TypesRank
<1>2. CarriedIs!Descends(0)
    <2> SUFFICES ASSUME NEW t \in Types, NEW g, NEW h,
                        \A y \in Types : Nesting[y] < Nesting[t] => g[y] = h[y]
                 PROVE  CarriedDef(0, g, t) = CarriedDef(0, h, t)
        BY DEF CarriedIs!Descends, TypesDom, TypesRank
    <2>1. t.kind \in {"array", "list"} => g[t.elem] = h[t.elem]
        BY TypeFacts
    <2>2. t.kind = "struct" /\ t.name \in DOMAIN structs =>
              \A i \in DOMAIN structs[t.name] : g[structs[t.name][i].type] = h[structs[t.name][i].type]
        BY TypeFacts
    <2> QED BY <2>1, <2>2 DEF CarriedDef, CarriedOf
<1>3. \E f : f = [t \in Types |-> CarriedDef(0, f, t)]
    BY <1>1, <1>2, CarriedIs!RankedRecursion DEF TypesDom
<1>4. carried = [t \in Types |-> CarriedDef(0, carried, t)]
    BY <1>3, Zenon DEF carried
<1>5. \A t, v : Carried(t, v) = carried[t][v]
    BY Zenon DEF Carried, carried, CarriedDef
<1> QED BY <1>4, <1>5

-----------------------------------------------------------------------------
(* A sequence of pieces.                                                   *)

JoinedDom(p)       == 0 .. p[1]
JoinedRank(p, i)   == i
JoinedDef(p, f, i) == IF i = 0 THEN Written(<<>>) ELSE Joined(f[i - 1], p[2][i])

JoinedIs == INSTANCE Ranked WITH Dom <- JoinedDom, Rank <- JoinedRank, Def <- JoinedDef

\* What AllJoined has of the first i pieces.
FirstPieces(n, pieces) ==
    CHOOSE f : f = [i \in 0 .. n |-> IF i = 0 THEN Written(<<>>) ELSE Joined(f[i - 1], pieces[i])]

\* A sequence of steps that starts with 0, as the functions of the codec make them.
LEMMA Stepwise ==
    ASSUME NEW n \in Nat, NEW i \in 0 .. n, i # 0
    PROVE  i - 1 \in 0 .. n /\ i - 1 < i
OBVIOUS

\* AllJoined joins one piece with each step.
LEMMA JoinedSteps ==
    ASSUME NEW n \in Nat, NEW pieces
    PROVE  /\ AllJoined(n, pieces) = FirstPieces(n, pieces)[n]
           /\ FirstPieces(n, pieces)[0] = Written(<<>>)
           /\ \A k \in Nat : k < n =>
                 FirstPieces(n, pieces)[k + 1] = Joined(FirstPieces(n, pieces)[k], pieces[k + 1])
<1> DEFINE p == <<n, pieces>>
<1>1. JoinedIs!Ranks(p)
    BY DEF JoinedIs!Ranks, JoinedDom, JoinedRank
<1>2. JoinedIs!Descends(p)
    <2> SUFFICES ASSUME NEW i \in 0 .. n, NEW g, NEW h,
                        \A y \in 0 .. n : y < i => g[y] = h[y]
                 PROVE  JoinedDef(p, g, i) = JoinedDef(p, h, i)
        BY DEF JoinedIs!Descends, JoinedDom, JoinedRank
    <2> QED BY Stepwise DEF JoinedDef
<1>3. \E f : f = [i \in 0 .. n |-> JoinedDef(p, f, i)]
    BY <1>1, <1>2, JoinedIs!RankedRecursion DEF JoinedDom
<1> DEFINE F == FirstPieces(n, pieces)
           Is(f) == f = [i \in 0 .. n |->
                            IF i = 0 THEN Written(<<>>) ELSE Joined(f[i - 1], pieces[i])]
<1>4. Is(F)
    <2>1. \E f : Is(f)
        BY <1>3 DEF JoinedDef
    <2> QED BY <2>1, Zenon DEF FirstPieces
<1>5. AllJoined(n, pieces) = F[n]
    BY Zenon DEF AllJoined, FirstPieces
<1> HIDE DEF F
<1>6. F[0] = Written(<<>>)
    <2>1. 0 \in 0 .. n
        OBVIOUS
    <2> QED BY <1>4, <2>1
<1>7. ASSUME NEW k \in Nat, k < n PROVE F[k + 1] = Joined(F[k], pieces[k + 1])
    <2>1. k + 1 \in 0 .. n /\ k + 1 # 0 /\ (k + 1) - 1 = k
        BY <1>7
    <2> QED BY <1>4, <2>1
<1> QED BY <1>5, <1>6, <1>7 DEF F

\* What is joined without an error had none.
LEMMA JoinedIsWritten ==
    ASSUME NEW a, NEW b, Joined(a, b) # Error
    PROVE  /\ a # Error /\ b # Error
           /\ Joined(a, b) = Written(a.bytes \o b.bytes)
           /\ Joined(a, b).bytes = a.bytes \o b.bytes
BY Zenon DEF Joined, Written

\* If all pieces can be joined, so can the first ones.
LEMMA JoinedParts ==
    ASSUME NEW n \in Nat, NEW pieces, AllJoined(n, pieces) # Error
    PROVE  /\ \A k \in 0 .. n : FirstPieces(n, pieces)[k] # Error
           /\ \A k \in 1 .. n : pieces[k] # Error
           /\ FirstPieces(n, pieces)[0].bytes = <<>>
           /\ \A k \in Nat : k < n =>
                 FirstPieces(n, pieces)[k + 1].bytes =
                     FirstPieces(n, pieces)[k].bytes \o pieces[k + 1].bytes
           /\ AllJoined(n, pieces).bytes = FirstPieces(n, pieces)[n].bytes
<1> DEFINE F == FirstPieces(n, pieces)
           S == {j \in Nat : j <= n => F[n - j] # Error}
<1>1. /\ AllJoined(n, pieces) = F[n] /\ F[0] = Written(<<>>)
      /\ \A k \in Nat : k < n => F[k + 1] = Joined(F[k], pieces[k + 1])
    BY JoinedSteps
<1> HIDE DEF F
<1>2. 0 \in S
    <2>1. n - 0 = n
        OBVIOUS
    <2> QED BY <1>1, <2>1
<1>3. ASSUME NEW j \in Nat, j \in S PROVE j + 1 \in S
    <2> SUFFICES ASSUME j + 1 <= n PROVE F[n - (j + 1)] # Error
        OBVIOUS
    <2> DEFINE k == n - (j + 1)
    <2>1. k \in Nat /\ k < n /\ k + 1 = n - j /\ j <= n
        OBVIOUS
    <2> HIDE DEF k
    <2>2. F[k + 1] # Error
        BY <1>3, <2>1
    <2>3. F[k + 1] = Joined(F[k], pieces[k + 1])
        BY <1>1, <2>1
    <2>4. F[k] # Error
        BY <2>2, <2>3, JoinedIsWritten, Zenon
    <2> QED BY <2>4 DEF k
<1> HIDE DEF S
<1>4. \A j \in Nat : j \in S
    BY <1>2, <1>3, NatSet
<1>5. ASSUME NEW k \in 0 .. n PROVE F[k] # Error
    <2> DEFINE j == n - k
    <2>1. j \in Nat /\ j <= n /\ n - j = k
        OBVIOUS
    <2> HIDE DEF j
    <2>2. j \in S
        BY <1>4, <2>1
    <2> QED BY <2>1, <2>2 DEF S
<1>6. ASSUME NEW k \in Nat, k < n
      PROVE  pieces[k + 1] # Error /\ F[k + 1].bytes = F[k].bytes \o pieces[k + 1].bytes
    <2>1. k + 1 \in 0 .. n
        BY <1>6
    <2>2. F[k + 1] # Error /\ F[k + 1] = Joined(F[k], pieces[k + 1])
        BY <1>1, <1>5, <1>6, <2>1
    <2> QED BY <2>2, JoinedIsWritten, Zenon
<1>7. ASSUME NEW k \in 1 .. n PROVE pieces[k] # Error
    <2>1. k - 1 \in Nat /\ k - 1 < n /\ (k - 1) + 1 = k
        OBVIOUS
    <2> QED BY <1>6, <2>1, Zenon
<1>8. F[0].bytes = <<>>
    BY <1>1 DEF Written
<1> QED BY <1>1, <1>5, <1>6, <1>7, <1>8, Zenon DEF F

ItemsDom(p)       == 0 .. p[1]
ItemsRank(p, i)   == i
ItemsDef(p, f, i) == IF i = 0 THEN Read(Items(<<>>), p[4]) ELSE Appended(f[i - 1], p[2], p[3])

ItemsIs == INSTANCE Ranked WITH Dom <- ItemsDom, Rank <- ItemsRank, Def <- ItemsDef

\* What decodeItems has of the first i items.
FirstItems(n, decode, at, buf) ==
    CHOOSE f : f = [i \in 0 .. n |->
        IF i = 0 THEN Read(Items(<<>>), buf) ELSE Appended(f[i - 1], decode, at)]

\* decodeItems decodes one item with each step.
LEMMA ItemsSteps ==
    ASSUME NEW n \in Nat, NEW decode, NEW at, NEW buf
    PROVE  /\ decodeItems(n, decode, at, buf) = FirstItems(n, decode, at, buf)[n]
           /\ FirstItems(n, decode, at, buf)[0] = Read(Items(<<>>), buf)
           /\ \A k \in Nat : k < n =>
                 FirstItems(n, decode, at, buf)[k + 1] =
                     Appended(FirstItems(n, decode, at, buf)[k], decode, at)
<1> DEFINE p == <<n, decode, at, buf>>
<1>1. ItemsIs!Ranks(p)
    BY DEF ItemsIs!Ranks, ItemsDom, ItemsRank
<1>2. ItemsIs!Descends(p)
    <2> SUFFICES ASSUME NEW i \in 0 .. n, NEW g, NEW h,
                        \A y \in 0 .. n : y < i => g[y] = h[y]
                 PROVE  ItemsDef(p, g, i) = ItemsDef(p, h, i)
        BY DEF ItemsIs!Descends, ItemsDom, ItemsRank
    <2> QED BY Stepwise DEF ItemsDef
<1>3. \E f : f = [i \in 0 .. n |-> ItemsDef(p, f, i)]
    BY <1>1, <1>2, ItemsIs!RankedRecursion DEF ItemsDom
<1> DEFINE F == FirstItems(n, decode, at, buf)
           Is(f) == f = [i \in 0 .. n |->
                            IF i = 0 THEN Read(Items(<<>>), buf) ELSE Appended(f[i - 1], decode, at)]
<1>4. Is(F)
    <2>1. \E f : Is(f)
        BY <1>3 DEF ItemsDef
    <2> QED BY <2>1, Zenon DEF FirstItems
<1>5. decodeItems(n, decode, at, buf) = F[n]
    BY Zenon DEF decodeItems, FirstItems
<1> HIDE DEF F
<1>6. F[0] = Read(Items(<<>>), buf)
    <2>1. 0 \in 0 .. n
        OBVIOUS
    <2> QED BY <1>4, <2>1
<1>7. ASSUME NEW k \in Nat, k < n PROVE F[k + 1] = Appended(F[k], decode, at)
    <2>1. k + 1 \in 0 .. n /\ k + 1 # 0 /\ (k + 1) - 1 = k
        BY <1>7
    <2> QED BY <1>4, <2>1
<1> QED BY <1>5, <1>6, <1>7 DEF F

FieldsDom(p)       == 0 .. Len(p[3])
FieldsRank(p, i)   == i
FieldsDef(p, f, i) == IF i = 0 THEN [seen |-> <<>>, rest |-> p[4]]
                      ELSE Proceed(f[i - 1], i, p[1][i], <<p[2], p[3][i].name>>)

FieldsIs == INSTANCE Ranked WITH Dom <- FieldsDom, Rank <- FieldsRank, Def <- FieldsDef

\* What decodeFields has of the first i fields.
FirstFields(decoders, owner, fields, buf) ==
    CHOOSE f : f = [i \in 0 .. Len(fields) |->
        IF i = 0 THEN [seen |-> <<>>, rest |-> buf]
        ELSE Proceed(f[i - 1], i, decoders[i], <<owner, fields[i].name>>)]

\* They are made one by one.
FieldByField(decoders, owner, fields, buf) ==
    LET F == FirstFields(decoders, owner, fields, buf)
    IN  /\ decodeFields(decoders, owner, fields, buf) = F[Len(fields)]
        /\ F[0] = [seen |-> <<>>, rest |-> buf]
        /\ \A k \in Nat : k < Len(fields) =>
              F[k + 1] = Proceed(F[k], k + 1, decoders[k + 1], <<owner, fields[k + 1].name>>)

\* decodeFields decodes one field with each step.
LEMMA FieldsSteps ==
    ASSUME NEW fields, Len(fields) \in Nat, NEW decoders, NEW owner, NEW buf
    PROVE  FieldByField(decoders, owner, fields, buf)
<1> DEFINE p == <<decoders, owner, fields, buf>>  n == Len(fields)
<1>1. FieldsIs!Ranks(p)
    BY DEF FieldsIs!Ranks, FieldsDom, FieldsRank
<1>2. FieldsIs!Descends(p)
    <2> SUFFICES ASSUME NEW i \in 0 .. n, NEW g, NEW h,
                        \A y \in 0 .. n : y < i => g[y] = h[y]
                 PROVE  FieldsDef(p, g, i) = FieldsDef(p, h, i)
        BY DEF FieldsIs!Descends, FieldsDom, FieldsRank
    <2> QED BY Stepwise DEF FieldsDef
<1>3. \E f : f = [i \in 0 .. n |-> FieldsDef(p, f, i)]
    BY <1>1, <1>2, FieldsIs!RankedRecursion DEF FieldsDom
<1> DEFINE F == FirstFields(decoders, owner, fields, buf)
           Is(f) == f = [i \in 0 .. n |->
                            IF i = 0 THEN [seen |-> <<>>, rest |-> buf]
                            ELSE Proceed(f[i - 1], i, decoders[i], <<owner, fields[i].name>>)]
<1>4. Is(F)
    <2>1. \E f : Is(f)
        BY <1>3 DEF FieldsDef
    <2> QED BY <2>1, Zenon DEF FirstFields
<1>5. decodeFields(decoders, owner, fields, buf) = F[n]
    BY Zenon DEF decodeFields, FirstFields
<1> HIDE DEF F
<1>6. F[0] = [seen |-> <<>>, rest |-> buf]
    <2>1. 0 \in 0 .. n
        OBVIOUS
    <2> QED BY <1>4, <2>1
<1>7. ASSUME NEW k \in Nat, k < n
      PROVE  F[k + 1] = Proceed(F[k], k + 1, decoders[k + 1], <<owner, fields[k + 1].name>>)
    <2>1. k + 1 \in 0 .. n /\ k + 1 # 0 /\ (k + 1) - 1 = k
        BY <1>7
    <2> QED BY <1>4, <2>1
<1> QED BY <1>5, <1>6, <1>7 DEF F, FieldByField

-----------------------------------------------------------------------------
(* What is decoded of the pieces that were encoded.                        *)

\* decode takes the bytes for v, whatever is behind them, and needs them all.
Taken(decode, at, bytes, v) ==
    /\ bytes \in Seq(Bytes)
    /\ \A rest \in Seq(Bytes) : decode[<<at, bytes \o rest>>] = Read(v, rest)
    /\ \A p \in Seq(Bytes) : Cut(p, bytes) => decode[<<at, p>>] = Error

\* The first k values of s.
FirstOf(s, k) == [i \in 1 .. k |-> s[i]]

\* The first ones of s grow by one with each step.
FirstOnes(V, n, s) ==
    /\ FirstOf(s, 0) = <<>>
    /\ FirstOf(s, n) = s
    /\ \A k \in Nat : k < n => Append(FirstOf(s, k), s[k + 1]) = FirstOf(s, k + 1)
    /\ \A k \in 0 .. n : FirstOf(s, k) \in Seq(V) /\ Len(FirstOf(s, k)) = k

\* The first values of a function of numbers are sequences, each one longer.
LEMMA FirstMore ==
    ASSUME NEW V, NEW n \in Nat, NEW s \in [1 .. n -> V]
    PROVE  FirstOnes(V, n, s)
<1>1. ASSUME NEW k \in 0 .. n PROVE FirstOf(s, k) \in Seq(V) /\ Len(FirstOf(s, k)) = k
    <2>1. k \in Nat /\ \A i \in 1 .. k : s[i] \in V
        OBVIOUS
    <2> QED BY <2>1 DEF FirstOf
<1>2. FirstOf(s, 0) = <<>>
    <2>1. 0 \in 0 .. n
        OBVIOUS
    <2>2. FirstOf(s, 0) \in Seq(V) /\ Len(FirstOf(s, 0)) = 0
        BY <1>1, <2>1
    <2> QED BY <2>2
<1>3. FirstOf(s, n) = s
    BY DEF FirstOf
<1>4. ASSUME NEW k \in Nat, k < n PROVE Append(FirstOf(s, k), s[k + 1]) = FirstOf(s, k + 1)
    <2> DEFINE a == FirstOf(s, k)  b == FirstOf(s, k + 1)
    <2>1. a \in Seq(V) /\ Len(a) = k /\ b \in Seq(V) /\ Len(b) = k + 1
        <3>1. k \in 0 .. n /\ k + 1 \in 0 .. n
            BY <1>4
        <3> QED BY <1>1, <3>1
    <2>2. (\A i \in 1 .. k : a[i] = s[i]) /\ (\A i \in 1 .. k + 1 : b[i] = s[i])
        BY DEF FirstOf
    <2>3. s[k + 1] \in V /\ k + 1 \in 1 .. k + 1 /\ \A i \in 1 .. k : i \in 1 .. k + 1
        BY <1>4
    <2> HIDE DEF a, b
    <2>4. PICK w : w = Append(a, s[k + 1])
        BY Zenon
    <2>5. /\ w \in Seq(V) /\ Len(w) = k + 1 /\ w[k + 1] = s[k + 1]
          /\ \A i \in 1 .. k : w[i] = a[i]
        BY <2>1, <2>3, <2>4
    <2>6. \A i \in 1 .. k + 1 : w[i] = b[i]
        <3>1. \A i \in 1 .. k + 1 : i \in 1 .. k \/ i = k + 1
            OBVIOUS
        <3> QED BY <2>2, <2>3, <2>5, <3>1
    <2>7. w = b
        BY <2>1, <2>5, <2>6, SameSeq
    <2> QED BY <2>4, <2>7 DEF a, b
<1> QED BY <1>1, <1>2, <1>3, <1>4, Zenon DEF FirstOnes

\* The first k items are those of s, or there are too few bytes for them.
ItemsAre(n, decode, at, bytes, k, s) ==
    /\ bytes \in Seq(Bytes)
    /\ \A rest \in Seq(Bytes) : FirstItems(n, decode, at, bytes \o rest)[k] = Read(Items(s), rest)
    /\ \A p \in Seq(Bytes) : Cut(p, bytes) => FirstItems(n, decode, at, p)[k] = Error

\* One more item is taken behind the first ones.
LEMMA NextItem ==
    ASSUME NEW n \in Nat, NEW decode, NEW at, NEW k \in Nat, k < n,
           NEW a, NEW c, NEW s, NEW v,
           ItemsAre(n, decode, at, a, k, s), Taken(decode, at, c, v)
    PROVE  ItemsAre(n, decode, at, a \o c, k + 1, Append(s, v))
<1>1. a \in Seq(Bytes) /\ c \in Seq(Bytes) /\ a \o c \in Seq(Bytes)
    BY Concat DEF ItemsAre, Taken
<1>2. ASSUME NEW rest \in Seq(Bytes)
      PROVE  FirstItems(n, decode, at, (a \o c) \o rest)[k + 1] = Read(Items(Append(s, v)), rest)
    <2>1. PICK more \in Seq(Bytes), all \in Seq(Bytes) :
             more = c \o rest /\ all = (a \o c) \o rest /\ all = a \o more
        <3>1. Regroups(Bytes, a, c, rest)
            BY <1>1, Regrouped
        <3> QED BY <3>1, Zenon DEF Regroups
    <2>2. FirstItems(n, decode, at, all)[k] = Read(Items(s), more)
        BY <2>1, Zenon DEF ItemsAre
    <2>3. decode[<<at, more>>] = Read(v, rest)
        BY <2>1, Zenon DEF Taken
    <2>4. FirstItems(n, decode, at, all)[k + 1] = Appended(Read(Items(s), more), decode, at)
        BY <2>2, ItemsSteps
    <2>5. Appended(Read(Items(s), more), decode, at) = Read(Items(Append(s, v)), rest)
        <3>1. Read(Items(s), more) # Error /\ Read(v, rest) # Error
            BY NoErrors
        <3>2. /\ Read(Items(s), more).rest = more /\ Read(Items(s), more).value.items = s
              /\ Read(v, rest).value = v /\ Read(v, rest).rest = rest
            BY DEF Read, Items
        <3> QED BY <2>3, <3>1, <3>2 DEF Appended
    <2> QED BY <2>1, <2>4, <2>5
<1>3. ASSUME NEW p \in Seq(Bytes), Cut(p, a \o c)
      PROVE  FirstItems(n, decode, at, p)[k + 1] = Error
    <2>1. FirstItems(n, decode, at, p)[k + 1] = Appended(FirstItems(n, decode, at, p)[k], decode, at)
        BY ItemsSteps
    <2>2. ASSUME Cut(p, a) PROVE Appended(FirstItems(n, decode, at, p)[k], decode, at) = Error
        <3>1. FirstItems(n, decode, at, p)[k] = Error
            BY <2>2 DEF ItemsAre
        <3> QED BY <3>1 DEF Appended
    <2>3. ASSUME NEW u \in Seq(Bytes), p = a \o u, Cut(u, c)
          PROVE  Appended(FirstItems(n, decode, at, p)[k], decode, at) = Error
        <3>1. FirstItems(n, decode, at, p)[k] = Read(Items(s), u)
            BY <2>3 DEF ItemsAre
        <3>2. decode[<<at, u>>] = Error
            BY <2>3 DEF Taken
        <3>3. Read(Items(s), u) # Error /\ Read(Items(s), u).rest = u
            BY NoErrors DEF Read
        <3> QED BY <3>1, <3>2, <3>3 DEF Appended
    <2>4. Cut(p, a) \/ \E u \in Seq(Bytes) : p = a \o u /\ Cut(u, c)
        BY <1>1, <1>3, CutInTwo, Zenon
    <2> QED BY <2>1, <2>2, <2>3, <2>4
<1> QED BY <1>1, <1>2, <1>3 DEF ItemsAre

\* decodeItems takes the bytes for the values, and needs them all.
ItemsRead(n, decode, at, bytes, values) ==
    /\ bytes \in Seq(Bytes)
    /\ \A rest \in Seq(Bytes) : decodeItems(n, decode, at, bytes \o rest) = Read(Items(values), rest)
    /\ \A p \in Seq(Bytes) : Cut(p, bytes) => decodeItems(n, decode, at, p) = Error

\* The items of an array or a list are taken one by one.
LEMMA ItemsTaken ==
    ASSUME NEW n \in Nat, NEW pieces, NEW decode, NEW at,
           NEW V, NEW values \in [1 .. n -> V],
           \A i \in 1 .. n : pieces[i] # Error => Taken(decode, at, pieces[i].bytes, values[i]),
           AllJoined(n, pieces) # Error
    PROVE  ItemsRead(n, decode, at, AllJoined(n, pieces).bytes, values)
<1> DEFINE F == FirstPieces(n, pieces)
           S == {k \in Nat : k <= n => ItemsAre(n, decode, at, F[k].bytes, k, FirstOf(values, k))}
<1>1. /\ \A k \in 1 .. n : pieces[k] # Error
      /\ F[0].bytes = <<>>
      /\ \A k \in Nat : k < n => F[k + 1].bytes = F[k].bytes \o pieces[k + 1].bytes
      /\ AllJoined(n, pieces).bytes = F[n].bytes
    BY JoinedParts, Zenon
<1>2. /\ FirstOf(values, 0) = <<>> /\ FirstOf(values, n) = values
      /\ \A k \in Nat : k < n => Append(FirstOf(values, k), values[k + 1]) = FirstOf(values, k + 1)
    <2>1. FirstOnes(V, n, values)
        BY FirstMore
    <2> QED BY <2>1, Zenon DEF FirstOnes
<1> HIDE DEF F
<1>3. 0 \in S
    <2>1. <<>> \in Seq(Bytes) /\ \A rest \in Seq(Bytes) : <<>> \o rest = rest
        OBVIOUS
    <2>2. \A buf : FirstItems(n, decode, at, buf)[0] = Read(Items(<<>>), buf)
        BY ItemsSteps
    <2>3. ItemsAre(n, decode, at, <<>>, 0, <<>>)
        BY <2>1, <2>2, NothingToCut DEF ItemsAre
    <2> QED BY <1>1, <1>2, <2>3
<1>4. ASSUME NEW k \in Nat, k \in S PROVE k + 1 \in S
    <2> SUFFICES ASSUME k + 1 <= n
                 PROVE  ItemsAre(n, decode, at, F[k + 1].bytes, k + 1, FirstOf(values, k + 1))
        OBVIOUS
    <2>1. k < n /\ k <= n /\ k + 1 \in 1 .. n
        OBVIOUS
    <2>2. ItemsAre(n, decode, at, F[k].bytes, k, FirstOf(values, k))
        BY <1>4, <2>1
    <2>3. Taken(decode, at, pieces[k + 1].bytes, values[k + 1])
        BY <1>1, <2>1
    <2>4. ItemsAre(n, decode, at, F[k].bytes \o pieces[k + 1].bytes, k + 1,
                   Append(FirstOf(values, k), values[k + 1]))
        BY <2>1, <2>2, <2>3, NextItem
    <2> QED BY <1>1, <1>2, <2>1, <2>4, Zenon
<1> HIDE DEF S
<1>5. n \in S
    BY <1>3, <1>4, NatSet
<1>6. ItemsAre(n, decode, at, F[n].bytes, n, values)
    BY <1>2, <1>5 DEF S
<1>7. \A buf : decodeItems(n, decode, at, buf) = FirstItems(n, decode, at, buf)[n]
    BY ItemsSteps
<1> QED BY <1>1, <1>6, <1>7, Zenon DEF ItemsAre, ItemsRead

\* The first k fields have the first k values, or there are bytes only for fewer.
FieldsAre(decoders, owner, fields, bytes, k, values) ==
    /\ bytes \in Seq(Bytes)
    /\ \A rest \in Seq(Bytes) :
          FirstFields(decoders, owner, fields, bytes \o rest)[k] =
              [seen |-> FirstOf(values, k), rest |-> rest]
    /\ \A p \in Seq(Bytes) : Cut(p, bytes) =>
          \E m \in Nat : m < k /\ FirstFields(decoders, owner, fields, p)[k].seen = FirstOf(values, m)

\* One more field is taken behind the first ones.
LEMMA NextField ==
    ASSUME NEW decoders, NEW owner, NEW fields, Len(fields) \in Nat,
           NEW V, NEW values \in [1 .. Len(fields) -> V],
           NEW k \in Nat, k < Len(fields), NEW a, NEW c,
           FieldsAre(decoders, owner, fields, a, k, values),
           Taken(decoders[k + 1], <<owner, fields[k + 1].name>>, c, values[k + 1])
    PROVE  FieldsAre(decoders, owner, fields, a \o c, k + 1, values)
<1> DEFINE F(buf) == FirstFields(decoders, owner, fields, buf)
           decode == decoders[k + 1]  at == <<owner, fields[k + 1].name>>
<1>1. a \in Seq(Bytes) /\ c \in Seq(Bytes) /\ a \o c \in Seq(Bytes)
    BY Concat DEF FieldsAre, Taken
<1>2. \A buf : F(buf)[k + 1] = Proceed(F(buf)[k], k + 1, decode, at)
    <2>1. \A buf : FieldByField(decoders, owner, fields, buf)
        BY FieldsSteps
    <2> QED BY <2>1 DEF FieldByField
<1>3. /\ Append(FirstOf(values, k), values[k + 1]) = FirstOf(values, k + 1)
      /\ \A m \in 0 .. Len(fields) : Len(FirstOf(values, m)) = m
    <2>1. FirstOnes(V, Len(fields), values)
        BY FirstMore
    <2> QED BY <2>1 DEF FirstOnes
<1>4. /\ \A rest \in Seq(Bytes) : F(a \o rest)[k] = [seen |-> FirstOf(values, k), rest |-> rest]
      /\ \A p \in Seq(Bytes) : Cut(p, a) =>
            \E m \in Nat : m < k /\ F(p)[k].seen = FirstOf(values, m)
    BY DEF FieldsAre
<1>5. Taken(decode, at, c, values[k + 1])
    OBVIOUS
<1>6. (k + 1) - 1 = k /\ k \in 0 .. Len(fields)
    OBVIOUS
<1> HIDE DEF F, decode, at
<1>7. ASSUME NEW rest \in Seq(Bytes)
      PROVE  F((a \o c) \o rest)[k + 1] = [seen |-> FirstOf(values, k + 1), rest |-> rest]
    <2>1. PICK more \in Seq(Bytes), all \in Seq(Bytes) :
             more = c \o rest /\ all = (a \o c) \o rest /\ all = a \o more
        <3>1. Regroups(Bytes, a, c, rest)
            BY <1>1, Regrouped
        <3> QED BY <3>1, Zenon DEF Regroups
    <2>2. F(all)[k] = [seen |-> FirstOf(values, k), rest |-> more]
        BY <1>4, <2>1, Zenon
    <2>3. decode[<<at, more>>] = Read(values[k + 1], rest)
        BY <1>5, <2>1, Zenon DEF Taken
    <2>4. Read(values[k + 1], rest) # Error
          /\ Read(values[k + 1], rest).value = values[k + 1]
          /\ Read(values[k + 1], rest).rest = rest
        BY NoErrors DEF Read
    <2> DEFINE r == [seen |-> FirstOf(values, k), rest |-> more]
    <2>5. r.seen = FirstOf(values, k) /\ r.rest = more /\ ~(Len(r.seen) < (k + 1) - 1)
        BY <1>3, <1>6
    <2> HIDE DEF r
    <2>6. Proceed(r, k + 1, decode, at) = [seen |-> FirstOf(values, k + 1), rest |-> rest]
        BY <1>3, <2>3, <2>4, <2>5, Zenon DEF Proceed
    <2>7. F(all)[k + 1] = [seen |-> FirstOf(values, k + 1), rest |-> rest]
        BY <1>2, <2>2, <2>6 DEF r
    <2> QED BY <2>1, <2>7
<1>8. ASSUME NEW p \in Seq(Bytes), Cut(p, a \o c)
      PROVE  \E m \in Nat : m < k + 1 /\ F(p)[k + 1].seen = FirstOf(values, m)
    <2>1. ASSUME Cut(p, a)
          PROVE  \E m \in Nat : m < k + 1 /\ F(p)[k + 1].seen = FirstOf(values, m)
        <3>1. PICK m \in Nat : m < k /\ F(p)[k].seen = FirstOf(values, m)
            BY <1>4, <2>1
        <3>2. Len(F(p)[k].seen) < (k + 1) - 1
            <4>1. m \in 0 .. Len(fields)
                BY <3>1
            <4> QED BY <1>3, <1>6, <3>1, <4>1
        <3>3. F(p)[k + 1] = F(p)[k]
            BY <1>2, <3>2, Zenon DEF Proceed
        <3> QED BY <3>1, <3>3
    <2>2. ASSUME NEW u \in Seq(Bytes), p = a \o u, Cut(u, c)
          PROVE  \E m \in Nat : m < k + 1 /\ F(p)[k + 1].seen = FirstOf(values, m)
        <3> DEFINE r == [seen |-> FirstOf(values, k), rest |-> u]
        <3>1. F(p)[k] = r
            BY <1>4, <2>2
        <3>2. decode[<<at, u>>] = Error
            BY <1>5, <2>2 DEF Taken
        <3>3. r.seen = FirstOf(values, k) /\ r.rest = u /\ ~(Len(r.seen) < (k + 1) - 1)
            BY <1>3, <1>6
        <3> HIDE DEF r
        <3>4. Proceed(r, k + 1, decode, at) = r
            BY <3>2, <3>3 DEF Proceed
        <3>5. F(p)[k + 1].seen = FirstOf(values, k) /\ k < k + 1
            BY <1>2, <3>1, <3>3, <3>4
        <3> QED BY <3>5
    <2>3. Cut(p, a) \/ \E u \in Seq(Bytes) : p = a \o u /\ Cut(u, c)
        BY <1>1, <1>8, CutInTwo, Zenon
    <2> QED BY <2>1, <2>2, <2>3, Zenon
<1> QED BY <1>1, <1>7, <1>8 DEF FieldsAre, F

\* decodeFields takes the bytes for the values, and fewer bytes for the first ones.
FieldsRead(decoders, owner, fields, bytes, values) ==
    /\ bytes \in Seq(Bytes)
    /\ \A rest \in Seq(Bytes) :
          decodeFields(decoders, owner, fields, bytes \o rest) = [seen |-> values, rest |-> rest]
    /\ \A p \in Seq(Bytes) : Cut(p, bytes) =>
          \E m \in Nat : /\ m < Len(fields)
                         /\ decodeFields(decoders, owner, fields, p).seen = FirstOf(values, m)

\* The fields of a message or a nested type are taken one by one.
LEMMA FieldsTaken ==
    ASSUME NEW decoders, NEW owner, NEW fields, Len(fields) \in Nat,
           NEW V, NEW values \in [1 .. Len(fields) -> V], NEW pieces,
           \A i \in 1 .. Len(fields) : pieces[i] # Error =>
              Taken(decoders[i], <<owner, fields[i].name>>, pieces[i].bytes, values[i]),
           AllJoined(Len(fields), pieces) # Error
    PROVE  FieldsRead(decoders, owner, fields, AllJoined(Len(fields), pieces).bytes, values)
<1> DEFINE n == Len(fields)  F == FirstPieces(n, pieces)
           S == {k \in Nat : k <= n => FieldsAre(decoders, owner, fields, F[k].bytes, k, values)}
<1>1. /\ \A k \in 1 .. n : pieces[k] # Error
      /\ F[0].bytes = <<>>
      /\ \A k \in Nat : k < n => F[k + 1].bytes = F[k].bytes \o pieces[k + 1].bytes
      /\ AllJoined(n, pieces).bytes = F[n].bytes
    BY JoinedParts, Zenon
<1>2. FirstOf(values, 0) = <<>> /\ FirstOf(values, n) = values
    <2>1. FirstOnes(V, n, values)
        BY FirstMore
    <2> QED BY <2>1 DEF FirstOnes
<1> HIDE DEF F
<1>3. 0 \in S
    <2>1. <<>> \in Seq(Bytes) /\ \A rest \in Seq(Bytes) : <<>> \o rest = rest
        OBVIOUS
    <2>2. \A buf : FirstFields(decoders, owner, fields, buf)[0] = [seen |-> <<>>, rest |-> buf]
        <3>1. \A buf : FieldByField(decoders, owner, fields, buf)
            BY FieldsSteps
        <3> QED BY <3>1, Zenon DEF FieldByField
    <2>3. FieldsAre(decoders, owner, fields, <<>>, 0, values)
        BY <1>2, <2>1, <2>2, NothingToCut DEF FieldsAre
    <2> QED BY <1>1, <1>2, <2>3
<1>4. ASSUME NEW k \in Nat, k \in S PROVE k + 1 \in S
    <2> SUFFICES ASSUME k + 1 <= n
                 PROVE  FieldsAre(decoders, owner, fields, F[k + 1].bytes, k + 1, values)
        OBVIOUS
    <2>1. k < n /\ k <= n /\ k + 1 \in 1 .. n
        OBVIOUS
    <2>2. FieldsAre(decoders, owner, fields, F[k].bytes, k, values)
        BY <1>4, <2>1
    <2>3. Taken(decoders[k + 1], <<owner, fields[k + 1].name>>, pieces[k + 1].bytes, values[k + 1])
        BY <1>1, <2>1
    <2>4. FieldsAre(decoders, owner, fields, F[k].bytes \o pieces[k + 1].bytes, k + 1, values)
        BY <2>1, <2>2, <2>3, NextField, Zenon
    <2> QED BY <1>1, <1>2, <2>1, <2>4, Zenon
<1> HIDE DEF S
<1>5. n \in S
    BY <1>3, <1>4, NatSet
<1>6. FieldsAre(decoders, owner, fields, F[n].bytes, n, values)
    BY <1>5 DEF S
<1>7. \A buf : decodeFields(decoders, owner, fields, buf) =
                   FirstFields(decoders, owner, fields, buf)[n]
    <2>1. \A buf : FieldByField(decoders, owner, fields, buf)
        BY FieldsSteps
    <2> QED BY <2>1 DEF FieldByField
<1> QED BY <1>1, <1>2, <1>6, <1>7 DEF FieldsAre, FieldsRead

-----------------------------------------------------------------------------
(* The types, one by one.                                                  *)

\* What is encoded of the values of a type is taken for what is kept of them.
Faithful(t) ==
    \A at \in Places, v \in GoValues :
        encodeValue[t][<<at, v>>] # Error /\ Carried(t, v) =>
            Taken(decodeValue[t], at, encodeValue[t][<<at, v>>].bytes, Kept(t, v))

\* What a Go value holds, by its dynamic type.
LEMMA GoValueIs ==
    ASSUME NEW v \in GoValues
    PROVE  /\ v.go \in Ints \cup Floats => v.n \in Int
           /\ v.go = "bool" => v = Bool(v.b) /\ v.b \in BOOLEAN
           /\ v.go = "string" =>
                 v = Text(v.s) /\ v.s \in Seq(Seq(Utf16)) /\ Len(Units(v.s)) < Power[4]
           /\ v.go = "[]any" => v.items \in Seq(GoValues) /\ Len(v.items) < Power[4]
           /\ v.go \in {"Values", "map"} =>
                 DOMAIN v.fields \subseteq STRING /\ v.fields \in [DOMAIN v.fields -> GoValues]
<1>1. GoValue(v, GoValues)
    BY ValuesAssumption DEF AllGoValues
<1>2. CASE v \in [go : Ints \cup Floats, n : Int]
    BY <1>2 DEF Ints, Floats
<1>3. CASE v \in [go : {"bool"}, b : BOOLEAN]
    BY <1>3 DEF Ints, Floats, Bool
<1>4. CASE v \in [go : {"string"}, s : Seq(Seq(Utf16))] /\ Len(Units(v.s)) < Power[4]
    BY <1>4 DEF Ints, Floats, Text
<1>5. CASE v \in [go : {"[]any"}, items : Seq(GoValues)] /\ Len(v.items) < Power[4]
    BY <1>5 DEF Ints, Floats
<1>6. CASE /\ v \in [go : {"Values", "map"}, fields : [DOMAIN v.fields -> GoValues]]
           /\ DOMAIN v.fields \subseteq STRING
    BY <1>6 DEF Ints, Floats
<1> QED BY <1>1, <1>2, <1>3, <1>4, <1>5, <1>6 DEF GoValue

\* What is kept of a value and whether it can be carried, by its type.
LEMMA KeptAt ==
    ASSUME NEW t \in Types, NEW v \in GoValues
    PROVE  Kept(t, v) = KeptOf(kept, t, v) /\ (Carried(t, v) <=> CarriedOf(carried, t, v))
<1>1. Kept(t, v) = KeptOf(kept, t, v)
    <2>1. Kept(t, v) = kept[t][v] /\ kept[t] = KeptDef(0, kept, t)
        BY KeptDefined, Zenon
    <2> QED BY <2>1 DEF KeptDef
<1>2. Carried(t, v) = CarriedOf(carried, t, v)
    <2>1. Carried(t, v) = carried[t][v] /\ carried[t] = CarriedDef(0, carried, t)
        BY CarriedDefined, Zenon
    <2> QED BY <2>1 DEF CarriedDef
<1> QED BY <1>1, <1>2

\* The bytes of a whole are taken if decodeType takes them.
LEMMA TakenByType ==
    ASSUME NEW t \in Types, NEW at \in Places, NEW bytes \in Seq(Bytes), NEW v,
           \A rest \in Seq(Bytes) : decodeType(decodeValue, t, at, bytes \o rest) = Read(v, rest),
           \A p \in Seq(Bytes) : Cut(p, bytes) => decodeType(decodeValue, t, at, p) = Error
    PROVE  Taken(decodeValue[t], at, bytes, v)
<1>1. ASSUME NEW rest \in Seq(Bytes) PROVE decodeValue[t][<<at, bytes \o rest>>] = Read(v, rest)
    <2>1. PICK all \in Seq(Bytes) : all = bytes \o rest
        BY Concat, Zenon
    <2>2. decodeValue[t][<<at, all>>] = decodeType(decodeValue, t, at, all)
        BY ValueAt
    <2> QED BY <2>1, <2>2
<1>2. ASSUME NEW p \in Seq(Bytes), Cut(p, bytes) PROVE decodeValue[t][<<at, p>>] = Error
    BY <1>2, ValueAt
<1> QED BY <1>1, <1>2 DEF Taken

\* What an integer field or a float field makes of a number is a number.
LEMMA WholeIs ==
    ASSUME NEW v, v.n \in Int, NEW width
    PROVE  Whole(v) \in Int /\ Halves(v, width) \in Int
<1>1. FloatStep \in Nat /\ FloatStep > 0
    BY CodecAssumption
<1>2. \A n \in Int : Truncated(n) \in Int
    BY DEF Truncated
<1>3. ASSUME NEW n \in Int PROVE Rounded(n) \in Int
    <2>1. n \div FloatStep \in Int
        BY <1>1, Division
    <2> QED BY <1>1, <2>1 DEF Rounded
<1>4. 2 * v.n \in Int
    OBVIOUS
<1> QED BY <1>2, <1>3, <1>4 DEF Whole, Halves

\* Integers of every width are faithful.
LEMMA IntegerFaithful == ASSUME NEW t \in Types, t.kind = "integer" PROVE Faithful(t)
<1>1. t.width \in Nat /\ t.signed \in BOOLEAN /\ t = Integer(t.width, t.signed)
    <2>1. \/ t \in Scalars \/ t \in [kind : {"array", "list"}, elem : Types]
          \/ t \in [kind : {"struct"}, name : STRING]
        BY TypesAssumption DEF Deeper
    <2>2. t \in [kind : {"integer"}, width : {1, 2, 4, 8}, signed : BOOLEAN]
        BY <2>1 DEF Scalars
    <2> QED BY <2>2 DEF Integer
<1> SUFFICES ASSUME NEW at \in Places, NEW v \in GoValues, encodeValue[t][<<at, v>>] # Error
             PROVE  Taken(decodeValue[t], at, encodeValue[t][<<at, v>>].bytes, Kept(t, v))
    BY DEF Faithful
<1> DEFINE n == Whole(v)  bytes == LittleEndian(n, t.width)
<1>2. encodeValue[t][<<at, v>>] = encodeInteger(v, t.width)
    BY ValueAt DEF encodeType
<1>3. v.go \in Ints \cup Floats /\ encodeValue[t][<<at, v>>] = Written(bytes)
    BY <1>2 DEF encodeInteger, IntegerSources
<1>4. n \in Int
    BY <1>3, GoValueIs, WholeIs
<1> HIDE DEF n
<1>5. bytes \in Seq(Bytes) /\ encodeValue[t][<<at, v>>].bytes = bytes
    <2>1. bytes \in Seq(Bytes)
        BY <1>1, <1>4, WordWritten, Zenon
    <2>2. Written(bytes).bytes = bytes
        BY DEF Written
    <2> QED BY <1>3, <2>1, <2>2
<1>6. Kept(t, v) = Num(IF t.signed THEN "int64" ELSE "uint64", Wrapped(n, t))
    BY KeptAt, Zenon DEF KeptOf, n
<1>7. ASSUME NEW rest \in Seq(Bytes)
      PROVE  decodeType(decodeValue, t, at, bytes \o rest) = Read(Kept(t, v), rest)
    <2>1. decodeType(decodeValue, t, at, bytes \o rest) =
              decodeInteger(bytes \o rest, t.width, t.signed)
        BY DEF decodeType
    <2>2. decodeInteger(bytes \o rest, t.width, t.signed) =
              Read(Num(IF t.signed THEN "int64" ELSE "uint64",
                       Wrapped(n, Integer(t.width, t.signed))), rest)
        BY <1>1, <1>4, IntegerTaken
    <2> QED BY <1>1, <1>6, <2>1, <2>2
<1>8. ASSUME NEW p \in Seq(Bytes), Cut(p, bytes) PROVE decodeType(decodeValue, t, at, p) = Error
    <2>1. readWord(p, t.width) = Error
        BY <1>1, <1>4, <1>8, CutWord
    <2> QED BY <2>1 DEF decodeType, decodeInteger
<1> HIDE DEF bytes
<1> QED BY <1>5, <1>7, <1>8, TakenByType

\* Floats are.
LEMMA FloatFaithful == ASSUME NEW t \in Types, t.kind = "float" PROVE Faithful(t)
<1>1. t.width \in Nat
    <2>1. \/ t \in Scalars \/ t \in [kind : {"array", "list"}, elem : Types]
          \/ t \in [kind : {"struct"}, name : STRING]
        BY TypesAssumption DEF Deeper
    <2>2. t \in [kind : {"float"}, width : {4, 8}]
        BY <2>1 DEF Scalars
    <2> QED BY <2>2
<1> SUFFICES ASSUME NEW at \in Places, NEW v \in GoValues,
                    encodeValue[t][<<at, v>>] # Error, Carried(t, v)
             PROVE  Taken(decodeValue[t], at, encodeValue[t][<<at, v>>].bytes, Kept(t, v))
    BY DEF Faithful
<1> DEFINE n == Halves(v, t.width)  bytes == LittleEndian(n, t.width)
<1>2. encodeValue[t][<<at, v>>] = encodeFloat(v, t.width)
    BY ValueAt DEF encodeType
<1>3. v.go \in Ints \cup Floats /\ encodeValue[t][<<at, v>>] = Written(bytes)
    BY <1>2 DEF encodeFloat, FloatSources, Ints
<1>4. n \in Int
    BY <1>3, GoValueIs, WholeIs
<1>5. -Power[t.width] <= 2 * n /\ 2 * n < Power[t.width]
    BY KeptAt DEF CarriedOf
<1>6. Kept(t, v) = Num("float64", n)
    BY KeptAt, Zenon DEF KeptOf
<1> HIDE DEF n
<1>7. bytes \in Seq(Bytes) /\ encodeValue[t][<<at, v>>].bytes = bytes
    <2>1. bytes \in Seq(Bytes)
        BY <1>1, <1>4, WordWritten, Zenon
    <2>2. Written(bytes).bytes = bytes
        BY DEF Written
    <2> QED BY <1>3, <2>1, <2>2
<1>8. ASSUME NEW rest \in Seq(Bytes)
      PROVE  decodeType(decodeValue, t, at, bytes \o rest) = Read(Kept(t, v), rest)
    <2>1. decodeType(decodeValue, t, at, bytes \o rest) = decodeFloat(bytes \o rest, t.width)
        BY DEF decodeType
    <2>2. decodeFloat(bytes \o rest, t.width) = Read(Num("float64", n), rest)
        BY <1>1, <1>4, <1>5, FloatTaken
    <2> QED BY <1>6, <2>1, <2>2
<1>9. ASSUME NEW p \in Seq(Bytes), Cut(p, bytes) PROVE decodeType(decodeValue, t, at, p) = Error
    <2>1. readWord(p, t.width) = Error
        BY <1>1, <1>4, <1>9, CutWord
    <2> QED BY <2>1 DEF decodeType, decodeFloat
<1> HIDE DEF bytes
<1> QED BY <1>7, <1>8, <1>9, TakenByType

\* Booleans are.
LEMMA BooleanFaithful == ASSUME NEW t \in Types, t.kind = "boolean" PROVE Faithful(t)
<1> SUFFICES ASSUME NEW at \in Places, NEW v \in GoValues, encodeValue[t][<<at, v>>] # Error
             PROVE  Taken(decodeValue[t], at, encodeValue[t][<<at, v>>].bytes, Kept(t, v))
    BY DEF Faithful
<1>1. encodeValue[t][<<at, v>>] = encodeBoolean(v)
    BY ValueAt DEF encodeType
<1>2. PICK n \in {0, 1} : n = (IF v.b THEN 1 ELSE 0)
    OBVIOUS
<1>3. v.go = "bool" /\ encodeValue[t][<<at, v>>] = Written(<<n>>)
    BY <1>1, <1>2 DEF encodeBoolean
<1>4. v = Bool(v.b) /\ v.b \in BOOLEAN
    BY <1>3, GoValueIs
<1>5. Bool(n # 0) = v
    <2>1. CASE v.b = TRUE
        <3>1. (n # 0) = TRUE
            BY <1>2, <2>1
        <3> QED BY <1>4, <2>1, <3>1, Zenon
    <2>2. CASE v.b = FALSE
        <3>1. (n # 0) = FALSE
            BY <1>2, <2>2
        <3> QED BY <1>4, <2>2, <3>1, Zenon
    <2> QED BY <1>4, <2>1, <2>2, Zenon
<1>6. Kept(t, v) = v
    BY KeptAt, Zenon DEF KeptOf
<1>7. <<n>> = LittleEndian(n, 1) /\ 1 \in Nat /\ n \in Int
    BY BooleanIs
<1>8. <<n>> \in Seq(Bytes) /\ encodeValue[t][<<at, v>>].bytes = <<n>>
    <2>1. <<n>> \in Seq(Bytes)
        BY <1>7, WordWritten, Zenon
    <2>2. Written(<<n>>).bytes = <<n>>
        BY DEF Written
    <2> QED BY <1>3, <2>1, <2>2
<1>9. ASSUME NEW rest \in Seq(Bytes)
      PROVE  decodeType(decodeValue, t, at, <<n>> \o rest) = Read(Kept(t, v), rest)
    <2>1. decodeType(decodeValue, t, at, <<n>> \o rest) = decodeBoolean(<<n>> \o rest)
        BY DEF decodeType
    <2>2. decodeBoolean(<<n>> \o rest) = Read(Bool(n # 0), rest)
        BY BooleanTaken
    <2> QED BY <1>5, <1>6, <2>1, <2>2, Zenon
<1>10. ASSUME NEW p \in Seq(Bytes), Cut(p, <<n>>) PROVE decodeType(decodeValue, t, at, p) = Error
    <2>1. Cut(p, LittleEndian(n, 1))
        BY <1>7, <1>10
    <2>2. readWord(p, 1) = Error
        BY <1>7, <2>1, CutWord, Zenon
    <2> QED BY <2>2 DEF decodeType, decodeBoolean
<1> DEFINE bytes == <<n>>
<1>11. /\ bytes \in Seq(Bytes) /\ encodeValue[t][<<at, v>>].bytes = bytes
       /\ \A rest \in Seq(Bytes) :
             decodeType(decodeValue, t, at, bytes \o rest) = Read(Kept(t, v), rest)
       /\ \A p \in Seq(Bytes) : Cut(p, bytes) => decodeType(decodeValue, t, at, p) = Error
    BY <1>8, <1>9, <1>10
<1> HIDE DEF bytes
<1> QED BY <1>11, TakenByType

\* Texts with a count are.
LEMMA StringFaithful == ASSUME NEW t \in Types, t.kind = "string" PROVE Faithful(t)
<1> SUFFICES ASSUME NEW at \in Places, NEW v \in GoValues,
                    encodeValue[t][<<at, v>>] # Error, Carried(t, v)
             PROVE  Taken(decodeValue[t], at, encodeValue[t][<<at, v>>].bytes, Kept(t, v))
    BY DEF Faithful
<1> DEFINE units == Units(v.s)  word == LittleEndian(Len(units), 4)  wide == Wide(units)
           bytes == word \o wide
<1>1. encodeValue[t][<<at, v>>] = encodeString(v)
    BY ValueAt DEF encodeType
<1>2. v.go = "string" /\ encodeValue[t][<<at, v>>] = Written(bytes)
    BY <1>1 DEF encodeString
<1>3. v = Text(v.s) /\ v.s \in Seq(Rune) /\ Len(units) < Power[4] /\ units \in Seq(Utf16)
    BY <1>2, GoValueIs, KeptAt, UnitsType, Zenon DEF CarriedOf
<1>4. Kept(t, v) = v
    BY KeptAt, Zenon DEF KeptOf
<1>5. word \in Seq(Bytes) /\ wide \in Seq(Bytes)
    <2>1. Len(units) \in Int /\ 4 \in Nat
        BY <1>3
    <2> HIDE DEF units
    <2> QED BY <1>3, <2>1, WordWritten, WideIs
<1>6. bytes \in Seq(Bytes) /\ encodeValue[t][<<at, v>>].bytes = bytes
    <2> HIDE DEF word, wide
    <2>1. bytes \in Seq(Bytes)
        BY <1>5, Concat
    <2>2. Written(bytes).bytes = bytes
        BY DEF Written
    <2> QED BY <1>2, <2>1, <2>2
<1>7. ASSUME NEW rest \in Seq(Bytes)
      PROVE  decodeType(decodeValue, t, at, bytes \o rest) = Read(Kept(t, v), rest)
    <2>1. decodeType(decodeValue, t, at, bytes \o rest) = decodeString(bytes \o rest)
        BY DEF decodeType
    <2>2. decodeString(word \o (wide \o rest)) = Read(Text(v.s), rest)
        BY <1>3, StringTaken
    <2>3. bytes \o rest = word \o (wide \o rest)
        <3> HIDE DEF word, wide
        <3>1. Regroups(Bytes, word, wide, rest)
            BY <1>5, Regrouped
        <3> QED BY <3>1, Zenon DEF Regroups
    <2> QED BY <1>3, <1>4, <2>1, <2>2, <2>3, Zenon
<1>8. ASSUME NEW p \in Seq(Bytes), Cut(p, bytes) PROVE decodeType(decodeValue, t, at, p) = Error
    <2>1. decodeString(p) = Error
        <3> HIDE DEF units
        <3> QED BY <1>3, <1>8, StringCut
    <2> QED BY <2>1 DEF decodeType
<1> HIDE DEF bytes
<1> QED BY <1>6, <1>7, <1>8, TakenByType

\* Texts with a terminator are.
LEMMA CharsFaithful == ASSUME NEW t \in Types, t.kind = "chars" PROVE Faithful(t)
<1> SUFFICES ASSUME NEW at \in Places, NEW v \in GoValues,
                    encodeValue[t][<<at, v>>] # Error, Carried(t, v)
             PROVE  Taken(decodeValue[t], at, encodeValue[t][<<at, v>>].bytes, Kept(t, v))
    BY DEF Faithful
<1> DEFINE units == Units(v.s)  end == LittleEndian(0, 2)  wide == Wide(units)
           bytes == wide \o end
<1>1. encodeValue[t][<<at, v>>] = encodeChars(v)
    BY ValueAt DEF encodeType
<1>2. v.go = "string" /\ encodeValue[t][<<at, v>>] = Written(bytes)
    BY <1>1 DEF encodeChars
<1>3. v = Text(v.s) /\ v.s \in Seq(Rune \ {<<0>>}) /\ units \in Seq(Utf16 \ {0})
    BY <1>2, GoValueIs, KeptAt, UnitsType, Zenon DEF CarriedOf
<1>4. Kept(t, v) = v
    BY KeptAt, Zenon DEF KeptOf
<1>5. end \in Seq(Bytes) /\ wide \in Seq(Bytes)
    <2>1. 0 \in Int /\ 2 \in Nat
        OBVIOUS
    <2>2. end \in Seq(Bytes)
        BY <2>1, WordWritten, Zenon
    <2>3. v.s \in Seq(Rune)
        BY <1>3, UnitsType
    <2>4. units \in Seq(Utf16)
        BY <2>3, UnitsType
    <2> HIDE DEF units
    <2> QED BY <2>2, <2>4, WideIs
<1>6. bytes \in Seq(Bytes) /\ encodeValue[t][<<at, v>>].bytes = bytes
    <2> HIDE DEF end, wide
    <2>1. bytes \in Seq(Bytes)
        BY <1>5, Concat
    <2>2. Written(bytes).bytes = bytes
        BY DEF Written
    <2> QED BY <1>2, <2>1, <2>2
<1>7. ASSUME NEW rest \in Seq(Bytes)
      PROVE  decodeType(decodeValue, t, at, bytes \o rest) = Read(Kept(t, v), rest)
    <2>1. decodeType(decodeValue, t, at, bytes \o rest) = decodeChars(bytes \o rest)
        BY DEF decodeType
    <2>2. decodeChars(bytes \o rest) = Read(Text(v.s), rest)
        BY <1>3, CharsTaken
    <2> QED BY <1>3, <1>4, <2>1, <2>2, Zenon
<1>8. ASSUME NEW p \in Seq(Bytes), Cut(p, bytes) PROVE decodeType(decodeValue, t, at, p) = Error
    <2>1. decodeChars(p) = Error
        <3> HIDE DEF units
        <3> QED BY <1>3, <1>8, CharsCut
    <2> QED BY <2>1 DEF decodeType
<1> HIDE DEF bytes
<1> QED BY <1>6, <1>7, <1>8, TakenByType

\* A function of numbers has a range.
LEMMA HasRange ==
    ASSUME NEW n \in Nat, NEW f, f = [i \in 1 .. n |-> f[i]]
    PROVE  \E V : f \in [1 .. n -> V]
<1> DEFINE V == {f[i] : i \in 1 .. n}
<1>1. \A i \in 1 .. n : f[i] \in V
    BY Zenon
<1> HIDE DEF V
<1>2. f \in [1 .. n -> V]
    BY <1>1
<1> QED BY <1>2

\* What is encoded of a sequence of items is taken for what is kept of each.
ItemsFaithful(e, at, items) ==
    ItemsRead(Len(items), decodeValue[e], at, encodeItems(encodeValue[e], at, items).bytes,
              [i \in DOMAIN items |-> kept[e][items[i]]])

\* It is if the type of the items is faithful.
LEMMA ItemsAreTaken ==
    ASSUME NEW e \in Types, Faithful(e), NEW at \in Places, NEW items \in Seq(GoValues),
           \A i \in DOMAIN items : carried[e][items[i]],
           encodeItems(encodeValue[e], at, items) # Error
    PROVE  ItemsFaithful(e, at, items)
<1> DEFINE n == Len(items)  decode == decodeValue[e]
           pieces == [i \in DOMAIN items |-> encodeValue[e][<<at, items[i]>>]]
           values == [i \in DOMAIN items |-> kept[e][items[i]]]
<1>1. n \in Nat /\ DOMAIN items = 1 .. n /\ \A i \in 1 .. n : items[i] \in GoValues
    OBVIOUS
<1>2. encodeItems(encodeValue[e], at, items) = AllJoined(n, pieces)
    BY DEF encodeItems
<1>3. \E V : values \in [1 .. n -> V]
    <2>1. values = [i \in 1 .. n |-> values[i]]
        BY <1>1
    <2> HIDE DEF values, n
    <2> QED BY <1>1, <2>1, HasRange, Zenon
<1>4. ASSUME NEW i \in 1 .. n, pieces[i] # Error
      PROVE  Taken(decode, at, pieces[i].bytes, values[i])
    <2>1. /\ pieces[i] = encodeValue[e][<<at, items[i]>>] /\ values[i] = kept[e][items[i]]
          /\ items[i] \in GoValues
        BY <1>1
    <2>2. Carried(e, items[i]) /\ Kept(e, items[i]) = kept[e][items[i]]
        BY <1>1, CarriedDefined, KeptDefined, Zenon
    <2> HIDE DEF pieces, values
    <2> QED BY <1>4, <2>1, <2>2 DEF Faithful
<1>5. AllJoined(n, pieces) # Error
    BY <1>2
<1> HIDE DEF n, decode, pieces, values
<1>6. PICK V : values \in [1 .. n -> V]
    BY <1>3
<1>7. ItemsRead(n, decode, at, AllJoined(n, pieces).bytes, values)
    BY <1>1, <1>4, <1>5, <1>6, ItemsTaken, Zenon
<1> QED BY <1>2, <1>7, Zenon DEF ItemsFaithful, n, decode, values

\* An array is if its items are.
LEMMA ArrayFaithful ==
    ASSUME NEW t \in Types, t.kind = "array", Faithful(t.elem)
    PROVE  Faithful(t)
<1> SUFFICES ASSUME NEW at \in Places, NEW v \in GoValues,
                    encodeValue[t][<<at, v>>] # Error, Carried(t, v)
             PROVE  Taken(decodeValue[t], at, encodeValue[t][<<at, v>>].bytes, Kept(t, v))
    BY DEF Faithful
<1> DEFINE e == t.elem  items == v.items  encoded == encodeItems(encodeValue[e], at, items)
           values == [i \in DOMAIN items |-> kept[e][items[i]]]
<1>1. encodeValue[t][<<at, v>>] = encodeArray(encodeValue[e], at, v)
    BY ValueAt DEF encodeType
<1>2. /\ at \in DOMAIN fixedArrays /\ v.go = "[]any" /\ Len(items) = fixedArrays[at]
      /\ encodeValue[t][<<at, v>>] = encoded
    BY <1>1 DEF encodeArray
<1>3. e \in Types /\ items \in Seq(GoValues)
    BY <1>2, TypeFacts, GoValueIs
<1>4. Kept(t, v) = Items(values)
    BY KeptAt, Zenon DEF KeptOf
<1>5. \A i \in DOMAIN items : carried[e][items[i]]
    BY KeptAt DEF CarriedOf
<1>6. ItemsFaithful(e, at, items)
    BY <1>2, <1>3, <1>5, ItemsAreTaken
<1> DEFINE bytes == encoded.bytes
<1>7. /\ bytes \in Seq(Bytes)
      /\ \A rest \in Seq(Bytes) :
            decodeItems(Len(items), decodeValue[e], at, bytes \o rest) = Read(Items(values), rest)
      /\ \A p \in Seq(Bytes) :
            Cut(p, bytes) => decodeItems(Len(items), decodeValue[e], at, p) = Error
    BY <1>6, Zenon DEF ItemsFaithful, ItemsRead
<1>8. \A buf : decodeType(decodeValue, t, at, buf) = decodeItems(Len(items), decodeValue[e], at, buf)
    BY <1>2 DEF decodeType, decodeArray
<1> HIDE DEF bytes, values, items, e
<1>9. encodeValue[t][<<at, v>>].bytes = bytes
    BY <1>2 DEF bytes
<1>10. /\ \A rest \in Seq(Bytes) :
             decodeType(decodeValue, t, at, bytes \o rest) = Read(Kept(t, v), rest)
       /\ \A p \in Seq(Bytes) : Cut(p, bytes) => decodeType(decodeValue, t, at, p) = Error
    BY <1>4, <1>7, <1>8
<1> QED BY <1>7, <1>9, <1>10, TakenByType, Zenon

\* A count is read as it was written.
LEMMA CountTaken ==
    ASSUME NEW n \in Nat, n < Power[4]
    PROVE  /\ LittleEndian(n, 4) \in Seq(Bytes)
           /\ \A rest \in Seq(Bytes) : readWord(LittleEndian(n, 4) \o rest, 4) = Read(n, rest)
           /\ \A p \in Seq(Bytes) : Cut(p, LittleEndian(n, 4)) => readWord(p, 4) = Error
<1>1. Power[4] \in Nat /\ Power[4] > 0
    BY PowerSteps
<1>2. n % Power[4] = n
    <2>1. 0 \in Int /\ 0 <= n /\ n = Power[4] * 0 + n /\ n \in Int
        BY <1>1
    <2> QED BY <1>1, <2>1, Remainder
<1>3. n \in Int /\ 4 \in Nat
    OBVIOUS
<1>4. \A rest \in Seq(Bytes) : readWord(LittleEndian(n, 4) \o rest, 4) = Read(n, rest)
    BY <1>2, <1>3, WordsTaken
<1> QED BY <1>3, <1>4, WordWritten, CutWord, Zenon

\* A list is if its items are.
LEMMA ListFaithful ==
    ASSUME NEW t \in Types, t.kind = "list", Faithful(t.elem)
    PROVE  Faithful(t)
<1> SUFFICES ASSUME NEW at \in Places, NEW v \in GoValues,
                    encodeValue[t][<<at, v>>] # Error, Carried(t, v)
             PROVE  Taken(decodeValue[t], at, encodeValue[t][<<at, v>>].bytes, Kept(t, v))
    BY DEF Faithful
<1> DEFINE e == t.elem  items == v.items  n == Len(items)
           word == LittleEndian(n, 4)  encoded == encodeItems(encodeValue[e], at, items)
           values == [i \in DOMAIN items |-> kept[e][items[i]]]
           bytes == word \o encoded.bytes
<1>1. encodeValue[t][<<at, v>>] = encodeList(encodeValue[e], at, v)
    BY ValueAt DEF encodeType
<1>2. v.go = "[]any" /\ encodeValue[t][<<at, v>>] = Joined(Written(word), encoded)
    BY <1>1 DEF encodeList
<1>3. e \in Types /\ items \in Seq(GoValues) /\ n < Power[4] /\ n \in Nat
    BY <1>2, TypeFacts, GoValueIs
<1>4. Kept(t, v) = Items(values)
    BY KeptAt, Zenon DEF KeptOf
<1>5. \A i \in DOMAIN items : carried[e][items[i]]
    BY KeptAt DEF CarriedOf
<1>6. encoded # Error /\ encodeValue[t][<<at, v>>].bytes = bytes
    <2>1. PICK a : a = Written(word)
        OBVIOUS
    <2>2. PICK b : b = encoded
        OBVIOUS
    <2>3. Joined(a, b) # Error /\ encodeValue[t][<<at, v>>] = Joined(a, b) /\ a.bytes = word
        BY <1>2, <2>1, <2>2, Zenon DEF Written
    <2>4. b # Error /\ Joined(a, b).bytes = a.bytes \o b.bytes
        BY <2>3, JoinedIsWritten, Zenon
    <2> QED BY <2>2, <2>3, <2>4, Zenon
<1>7. ItemsRead(n, decodeValue[e], at, encoded.bytes, values)
    <2>1. ItemsFaithful(e, at, items)
        BY <1>3, <1>5, <1>6, ItemsAreTaken
    <2> QED BY <2>1, Zenon DEF ItemsFaithful
<1>8. /\ word \in Seq(Bytes)
      /\ \A rest \in Seq(Bytes) : readWord(word \o rest, 4) = Read(n, rest)
      /\ \A p \in Seq(Bytes) : Cut(p, word) => readWord(p, 4) = Error
    BY <1>3, CountTaken
<1>9. /\ \A rest : Read(n, rest) # Error /\ Read(n, rest).value = n /\ Read(n, rest).rest = rest
      /\ \A buf : decodeType(decodeValue, t, at, buf) = decodeList(decodeValue[e], at, buf)
    BY NoErrors DEF Read, decodeType
<1> DEFINE c == encoded.bytes
<1>10. c \in Seq(Bytes)
    BY <1>7 DEF ItemsRead
<1> HIDE DEF e, n, word, encoded, values, c
<1>11. bytes \in Seq(Bytes) /\ bytes = word \o c
    BY <1>8, <1>10, Concat DEF c
<1> HIDE DEF bytes
<1>12. ASSUME NEW rest \in Seq(Bytes)
       PROVE  decodeType(decodeValue, t, at, bytes \o rest) = Read(Kept(t, v), rest)
    <2>1. PICK more \in Seq(Bytes), all \in Seq(Bytes) :
             more = c \o rest /\ all = (word \o c) \o rest /\ all = word \o more
        <3>1. Regroups(Bytes, word, c, rest)
            BY <1>8, <1>10, Regrouped
        <3> QED BY <3>1, Zenon DEF Regroups
    <2>2. decodeItems(n, decodeValue[e], at, more) = Read(Items(values), rest)
        BY <1>7, <2>1 DEF ItemsRead, c
    <2>3. readWord(all, 4) = Read(n, more)
        BY <1>8, <2>1, Zenon
    <2>4. decodeList(decodeValue[e], at, all) = Read(Items(values), rest)
        BY <1>9, <2>2, <2>3 DEF decodeList
    <2> QED BY <1>4, <1>9, <1>11, <2>1, <2>4
<1>13. ASSUME NEW p \in Seq(Bytes), Cut(p, bytes) PROVE decodeType(decodeValue, t, at, p) = Error
    <2>1. Cut(p, word) \/ \E u \in Seq(Bytes) : p = word \o u /\ Cut(u, c)
        BY <1>8, <1>10, <1>11, <1>13, CutInTwo, Zenon
    <2>2. CASE Cut(p, word)
        <3>1. readWord(p, 4) = Error
            BY <1>8, <2>2
        <3> QED BY <1>9, <3>1 DEF decodeList
    <2>3. ASSUME NEW u \in Seq(Bytes), p = word \o u, Cut(u, c)
          PROVE  decodeList(decodeValue[e], at, p) = Error
        <3>1. decodeItems(n, decodeValue[e], at, u) = Error
            BY <1>7, <2>3 DEF ItemsRead, c
        <3>2. readWord(p, 4) = Read(n, u)
            BY <1>8, <2>3
        <3> QED BY <1>9, <3>1, <3>2 DEF decodeList
    <2> QED BY <1>9, <2>1, <2>2, <2>3
<1> QED BY <1>6, <1>11, <1>12, <1>13, TakenByType, Zenon

\* What is kept of the fields, in their order.
FieldValues(fields, values) ==
    [i \in DOMAIN fields |-> kept[fields[i].type][values[fields[i].name]]]

\* A layout's fields have types of the catalogue, and names of their own.
LEMMA LayoutIs ==
    ASSUME NEW fields, Layout(fields, Types)
    PROVE  /\ Len(fields) \in Nat /\ DOMAIN fields = 1 .. Len(fields)
           /\ \A i \in DOMAIN fields : fields[i].name \in STRING /\ fields[i].type \in Types
           /\ \A i, j \in DOMAIN fields : fields[i].name = fields[j].name => i = j
<1> DEFINE R == [name : STRING, type : Types]
<1>1. fields \in Seq(R)
    BY DEF Layout
<1> HIDE DEF R
<1>2. Len(fields) \in Nat /\ DOMAIN fields = 1 .. Len(fields) /\ \A i \in DOMAIN fields : fields[i] \in R
    BY <1>1
<1>3. \A r \in R : r.name \in STRING /\ r.type \in Types
    BY DEF R
<1> QED BY <1>2, <1>3 DEF Layout

\* What is encoded of the fields is taken for what is kept of each, if their types
\* are faithful.
LEMMA FieldsAreTaken ==
    ASSUME NEW owner \in STRING, NEW fields, Layout(fields, Types),
           \A i \in DOMAIN fields : Faithful(fields[i].type),
           NEW values, \A f \in DOMAIN values : values[f] \in GoValues,
           \A i \in DOMAIN fields : carried[fields[i].type][values[fields[i].name]],
           encodeFields(Each(encodeValue, fields), owner, fields, values) # Error
    PROVE  /\ FieldsRead(Each(decodeValue, fields), owner, fields,
                         encodeFields(Each(encodeValue, fields), owner, fields, values).bytes,
                         FieldValues(fields, values))
           /\ FirstOnes({FieldValues(fields, values)[i] : i \in 1 .. Len(fields)}, Len(fields),
                        FieldValues(fields, values))
<1> DEFINE n == Len(fields)  kepts == FieldValues(fields, values)
           decoders == Each(decodeValue, fields)
           encoders == Each(encodeValue, fields)
           pieces == [i \in DOMAIN fields |->
                        LET name == fields[i].name
                        IN  IF name \notin DOMAIN values THEN Error
                            ELSE encoders[i][<<<<owner, name>>, values[name]>>]]
           V == {kepts[i] : i \in 1 .. n}
<1>1. /\ n \in Nat /\ DOMAIN fields = 1 .. n
      /\ \A i \in 1 .. n : fields[i].name \in STRING /\ fields[i].type \in Types
    BY LayoutIs
<1>2. encodeFields(encoders, owner, fields, values) = AllJoined(n, pieces)
    BY DEF encodeFields
<1>3. kepts \in [1 .. n -> V]
    <2>1. kepts = [i \in 1 .. n |-> kepts[i]]
        BY <1>1 DEF FieldValues
    <2>2. \A i \in 1 .. n : kepts[i] \in V
        BY Zenon
    <2> HIDE DEF V, kepts, n
    <2> QED BY <2>1, <2>2
<1>4. ASSUME NEW i \in 1 .. n, pieces[i] # Error
      PROVE  Taken(decoders[i], <<owner, fields[i].name>>, pieces[i].bytes, kepts[i])
    <2> DEFINE name == fields[i].name  t == fields[i].type  at == <<owner, name>>  v == values[name]
    <2>0. i \in DOMAIN fields /\ name \in STRING /\ t \in Types
        BY <1>1
    <2>1. decoders[i] = decodeValue[t] /\ encoders[i] = encodeValue[t] /\ kepts[i] = kept[t][v]
        BY <2>0 DEF Each, FieldValues
    <2>2. pieces[i] = IF name \notin DOMAIN values THEN Error ELSE encoders[i][<<at, v>>]
        BY <2>0
    <2>3. Faithful(t) /\ carried[t][v] /\ at \in Places
        BY <2>0 DEF Places
    <2> HIDE DEF pieces, kepts, decoders, encoders, name, t, at, v
    <2>4. name \in DOMAIN values /\ pieces[i] = encodeValue[t][<<at, v>>]
        BY <1>4, <2>1, <2>2
    <2>5. v \in GoValues
        BY <2>4 DEF v
    <2>6. Carried(t, v) /\ Kept(t, v) = kepts[i]
        BY <2>1, <2>3, CarriedDefined, KeptDefined, Zenon
    <2>7. Taken(decodeValue[t], at, pieces[i].bytes, kepts[i])
        BY <1>4, <2>3, <2>4, <2>5, <2>6 DEF Faithful
    <2> QED BY <2>1, <2>7 DEF at, name
<1>5. AllJoined(n, pieces) # Error
    BY <1>2
<1> HIDE DEF n, kepts, decoders, encoders, pieces, V
<1>6. FieldsRead(decoders, owner, fields, AllJoined(n, pieces).bytes, kepts)
    <2>1. Len(fields) \in Nat /\ kepts \in [1 .. Len(fields) -> V]
          /\ AllJoined(Len(fields), pieces) # Error
          /\ \A i \in 1 .. Len(fields) : pieces[i] # Error =>
                Taken(decoders[i], <<owner, fields[i].name>>, pieces[i].bytes, kepts[i])
        BY <1>1, <1>3, <1>4, <1>5 DEF n
    <2>2. FieldsRead(decoders, owner, fields, AllJoined(Len(fields), pieces).bytes, kepts)
        BY <2>1, FieldsTaken, Zenon
    <2> QED BY <2>2 DEF n
<1>7. FirstOnes(V, n, kepts)
    BY <1>1, <1>3, FirstMore
<1> QED BY <1>2, <1>6, <1>7, Zenon DEF n, kepts, decoders, encoders, V

\* The opcode of a message, or nothing.
LEMMA PrefixIs == \A name : OpcodePrefix(name) \in Seq(Bytes)
<1> SUFFICES ASSUME NEW name PROVE OpcodePrefix(name) \in Seq(Bytes)
    OBVIOUS
<1>1. CASE name \in messageFullNames
    <2>1. messages[name].id \in Nat
        BY <1>1, CatalogAssumption DEF Tables
    <2>2. messages[name].id < Power[4]
        BY <1>1, CatalogAssumption, CodecAssumption DEF Tables
    <2>3. LittleEndian(messages[name].id, 4) \in Seq(Bytes)
        BY <2>1, <2>2, CountTaken
    <2> QED BY <1>1, <2>3 DEF OpcodePrefix
<1>2. CASE name \notin messageFullNames
    BY <1>2 DEF OpcodePrefix
<1> QED BY <1>1, <1>2

\* What is left behind a prefix.
LEMMA Behind ==
    ASSUME NEW a \in Seq(Bytes), NEW u \in Seq(Bytes), NEW p, p = a \o u
    PROVE  ~(Len(p) < Len(a)) /\ SubSeq(p, Len(a) + 1, Len(p)) = u
<1>1. Len(p) = Len(a) + Len(u) /\ Len(a) \in Nat /\ Len(u) \in Nat
    BY Concat
<1>2. SubSeq(p, Len(a) + 1, Len(p)) = u
    BY Halved
<1> QED BY <1>1, <1>2

\* decodeStruct takes the prefix and the fields, and needs them all.
LEMMA StructTaken ==
    ASSUME NEW name, NEW decoders, NEW c, NEW values, NEW V,
           FieldsRead(decoders, name, structs[name], c, values),
           FirstOnes(V, Len(structs[name]), values), Len(structs[name]) \in Nat
    PROVE  /\ OpcodePrefix(name) \o c \in Seq(Bytes)
           /\ \A rest \in Seq(Bytes) :
                 decodeStruct(decoders, name, (OpcodePrefix(name) \o c) \o rest) =
                     Read(Values(ByName(structs[name], values)), rest)
           /\ \A p \in Seq(Bytes) :
                 Cut(p, OpcodePrefix(name) \o c) => decodeStruct(decoders, name, p) = Error
<1> DEFINE a == OpcodePrefix(name)  fields == structs[name]  n == Len(fields)
<1>1. a \in Seq(Bytes) /\ c \in Seq(Bytes) /\ a \o c \in Seq(Bytes) /\ Len(a) \in Nat
    <2>1. a \in Seq(Bytes) /\ c \in Seq(Bytes)
        BY PrefixIs DEF FieldsRead
    <2> HIDE DEF a
    <2> QED BY <2>1, Concat
<1>2. /\ \A rest \in Seq(Bytes) :
            decodeFields(decoders, name, fields, c \o rest) = [seen |-> values, rest |-> rest]
      /\ \A p \in Seq(Bytes) : Cut(p, c) =>
            \E m \in Nat : m < n /\ decodeFields(decoders, name, fields, p).seen = FirstOf(values, m)
    BY DEF FieldsRead
<1>3. /\ Len(values) = n
      /\ \A m \in Nat : m < n => Len(FirstOf(values, m)) = m
    <2>1. n \in 0 .. n /\ \A m \in Nat : m < n => m \in 0 .. n
        OBVIOUS
    <2>2. FirstOf(values, n) = values /\ \A m \in 0 .. n : Len(FirstOf(values, m)) = m
        BY Zenon DEF FirstOnes
    <2> HIDE DEF n
    <2> QED BY <2>1, <2>2
<1>4. \A buf : decodeStruct(decoders, name, buf) =
          IF Len(buf) < Len(a) THEN Error
          ELSE Complete(fields, decodeFields(decoders, name, fields,
                                             SubSeq(buf, Len(a) + 1, Len(buf))))
    BY DEF decodeStruct
<1> HIDE DEF a, fields
<1>5. ASSUME NEW rest \in Seq(Bytes)
      PROVE  decodeStruct(decoders, name, (a \o c) \o rest) = Read(Values(ByName(fields, values)), rest)
    <2>1. PICK more \in Seq(Bytes), all \in Seq(Bytes) :
             more = c \o rest /\ all = (a \o c) \o rest /\ all = a \o more
        <3>1. Regroups(Bytes, a, c, rest)
            BY <1>1, Regrouped
        <3> QED BY <3>1, Zenon DEF Regroups
    <2>2. ~(Len(all) < Len(a)) /\ SubSeq(all, Len(a) + 1, Len(all)) = more
        BY <1>1, <2>1, Behind
    <2>3. decodeFields(decoders, name, fields, more) = [seen |-> values, rest |-> rest]
        BY <1>2, <2>1
    <2> DEFINE r == [seen |-> values, rest |-> rest]
    <2>4. r.seen = values /\ r.rest = rest /\ ~(Len(values) < Len(fields))
        BY <1>3
    <2> HIDE DEF r
    <2>5. Complete(fields, r) = Read(Values(ByName(fields, values)), rest)
        BY <2>4 DEF Complete
    <2> QED BY <1>4, <2>1, <2>2, <2>3, <2>5, Zenon DEF r
<1>6. ASSUME NEW p \in Seq(Bytes), Cut(p, a \o c)
      PROVE  decodeStruct(decoders, name, p) = Error
    <2>1. Cut(p, a) \/ \E u \in Seq(Bytes) : p = a \o u /\ Cut(u, c)
        BY <1>1, <1>6, CutInTwo, Zenon
    <2>2. CASE Cut(p, a)
        <3>1. Len(p) < Len(a)
            BY <2>2, CutIsShorter
        <3> QED BY <1>4, <3>1
    <2>3. ASSUME NEW u \in Seq(Bytes), p = a \o u, Cut(u, c)
          PROVE  decodeStruct(decoders, name, p) = Error
        <3>1. ~(Len(p) < Len(a)) /\ SubSeq(p, Len(a) + 1, Len(p)) = u
            BY <1>1, <2>3, Behind
        <3>2. PICK m \in Nat : m < n /\ decodeFields(decoders, name, fields, u).seen = FirstOf(values, m)
            BY <1>2, <2>3
        <3>3. Len(decodeFields(decoders, name, fields, u).seen) < Len(fields)
            BY <1>3, <3>2
        <3>4. Complete(fields, decodeFields(decoders, name, fields, u)) = Error
            BY <3>3 DEF Complete
        <3> QED BY <1>4, <3>1, <3>4, Zenon
    <2> QED BY <2>1, <2>2, <2>3, Zenon
<1> QED BY <1>1, <1>5, <1>6 DEF a, fields

\* A nested type is if its fields are.
LEMMA StructFaithful ==
    ASSUME NEW t \in Types, t.kind = "struct",
           t.name \in DOMAIN structs =>
              \A i \in DOMAIN structs[t.name] : Faithful(structs[t.name][i].type)
    PROVE  Faithful(t)
<1> SUFFICES ASSUME NEW at \in Places, NEW v \in GoValues,
                    encodeValue[t][<<at, v>>] # Error, Carried(t, v)
             PROVE  Taken(decodeValue[t], at, encodeValue[t][<<at, v>>].bytes, Kept(t, v))
    BY DEF Faithful
<1> DEFINE name == t.name  fields == structs[name]
           encoders == Each(encodeValue, fields)  decoders == Each(decodeValue, fields)
           prefix == OpcodePrefix(name)
           encoded == encodeFields(encoders, name, fields, v.fields)
           values == FieldValues(fields, v.fields)
           c == encoded.bytes  bytes == prefix \o c
           V == {values[i] : i \in 1 .. Len(fields)}
<1>1. /\ name \in DOMAIN structs
      /\ encodeValue[t][<<at, v>>] = encodeStruct(encoders, name, v)
    BY ValueAt DEF encodeType
<1>2. v.go \in {"Values", "map"} /\ encodeValue[t][<<at, v>>] = Joined(Written(prefix), encoded)
    BY <1>1 DEF encodeStruct
<1>3. name \in STRING /\ Layout(fields, Types) /\ Len(fields) \in Nat
    BY <1>1, CatalogAssumption, LayoutIs DEF Tables
<1>4. \A f \in DOMAIN v.fields : v.fields[f] \in GoValues
    <2>1. v.fields \in [DOMAIN v.fields -> GoValues]
        BY <1>2, GoValueIs
    <2> QED BY <2>1
<1>5. \A i \in DOMAIN fields : carried[fields[i].type][v.fields[fields[i].name]]
    BY <1>1, KeptAt DEF CarriedOf
<1>6. Kept(t, v) = Values(ByName(fields, values))
    BY <1>1, KeptAt, Zenon DEF KeptOf, FieldValues
<1>7. encoded # Error /\ encodeValue[t][<<at, v>>].bytes = bytes
    <2>1. PICK a : a = Written(prefix)
        OBVIOUS
    <2>2. PICK b : b = encoded
        OBVIOUS
    <2>3. Joined(a, b) # Error /\ encodeValue[t][<<at, v>>] = Joined(a, b) /\ a.bytes = prefix
        BY <1>2, <2>1, <2>2, Zenon DEF Written
    <2>4. b # Error /\ Joined(a, b).bytes = a.bytes \o b.bytes
        BY <2>3, JoinedIsWritten, Zenon
    <2> QED BY <2>2, <2>3, <2>4, Zenon
<1>8. FieldsRead(decoders, name, fields, c, values) /\ FirstOnes(V, Len(fields), values)
    <2>1. \A i \in DOMAIN fields : Faithful(fields[i].type)
        BY <1>1
    <2> HIDE DEF name, fields
    <2>2. encodeFields(Each(encodeValue, fields), name, fields, v.fields) # Error
        BY <1>7
    <2> QED BY <1>3, <1>4, <1>5, <2>1, <2>2, FieldsAreTaken, Zenon
<1>9. \A buf : decodeType(decodeValue, t, at, buf) = decodeStruct(decoders, name, buf)
    BY <1>1 DEF decodeType
<1> HIDE DEF decoders, encoded, values, c, V
<1>10. /\ prefix \o c \in Seq(Bytes)
       /\ \A rest \in Seq(Bytes) : decodeStruct(decoders, name, (prefix \o c) \o rest) =
              Read(Values(ByName(structs[name], values)), rest)
       /\ \A p \in Seq(Bytes) : Cut(p, prefix \o c) => decodeStruct(decoders, name, p) = Error
    <2> HIDE DEF name
    <2> QED BY <1>3, <1>8, StructTaken, Zenon
<1> HIDE DEF name, fields, prefix
<1>11. /\ bytes \in Seq(Bytes)
       /\ \A rest \in Seq(Bytes) :
             decodeType(decodeValue, t, at, bytes \o rest) = Read(Kept(t, v), rest)
       /\ \A p \in Seq(Bytes) : Cut(p, bytes) => decodeType(decodeValue, t, at, p) = Error
    BY <1>6, <1>9, <1>10 DEF fields
<1> HIDE DEF bytes
<1> QED BY <1>7, <1>11, TakenByType

\* Whatever type the catalogue has, what is encoded of its values is decoded.
LEMMA AllFaithful == \A t \in Types : Faithful(t)
<1> DEFINE S == {t \in Types : Faithful(t)}
<1>1. ASSUME NEW t \in Types, \A u \in Types : Nesting[u] < Nesting[t] => u \in S
      PROVE  t \in S
    <2>1. CASE t.kind \in {"array", "list"}
        <3>1. Faithful(t.elem)
            BY <1>1, <2>1, TypeFacts
        <3> QED BY <2>1, <3>1, ArrayFaithful, ListFaithful
    <2>2. CASE t.kind = "struct"
        <3>1. t.name \in DOMAIN structs =>
                  \A i \in DOMAIN structs[t.name] : Faithful(structs[t.name][i].type)
            BY <1>1, <2>2, TypeFacts
        <3> QED BY <2>2, <3>1, StructFaithful
    <2>3. CASE t.kind \in {"integer", "float", "boolean", "string", "chars"}
        BY <2>3, IntegerFaithful, FloatFaithful, BooleanFaithful, StringFaithful, CharsFaithful
    <2>4. t.kind \in {"array", "list", "struct", "integer", "float", "boolean", "string", "chars"}
        <3>1. \/ t \in Scalars \/ t \in [kind : {"array", "list"}, elem : Types]
              \/ t \in [kind : {"struct"}, name : STRING]
            BY TypesAssumption DEF Deeper
        <3> QED BY <3>1 DEF Scalars
    <2> QED BY <2>1, <2>2, <2>3, <2>4
<1>2. EncodeIs!Ranks(0)
    BY TypeFacts DEF EncodeIs!Ranks, TypesDom, TypesRank
<1> HIDE DEF S
<1>3. \A x \in TypesDom(0) :
          (\A y \in TypesDom(0) : TypesRank(0, y) < TypesRank(0, x) => y \in S) => x \in S
    BY <1>1 DEF TypesDom, TypesRank
<1>4. \A t \in TypesDom(0) : t \in S
    BY <1>2, <1>3, EncodeIs!RankInduction
<1> QED BY <1>4 DEF S, TypesDom

-----------------------------------------------------------------------------
(* Messages.                                                               *)

\* An opcode is one message's.
LEMMA LookupIs == \A m \in DOMAIN messages : Lookup(messages[m].id) = m
<1> SUFFICES ASSUME NEW m \in DOMAIN messages PROVE Lookup(messages[m].id) = m
    OBVIOUS
<1> DEFINE id == messages[m].id  c == CHOOSE p \in Opcodes : p[1] = id
<1>1. <<id, m>> \in Opcodes
    BY Zenon DEF Opcodes
<1>2. \A p \in Opcodes : \E n \in DOMAIN messages : p = <<messages[n].id, n>>
    BY Zenon DEF Opcodes
<1>3. c \in Opcodes /\ c[1] = id
    <2>1. \E p \in Opcodes : p[1] = id
        BY <1>1
    <2> HIDE DEF id
    <2> QED BY <2>1, Zenon
<1>4. c[2] = m
    <2> HIDE DEF c
    <2>1. PICK n \in DOMAIN messages : c = <<messages[n].id, n>>
        BY <1>2, <1>3
    <2>2. messages[n].id = messages[m].id
        BY <1>3, <2>1
    <2>3. n = m
        BY <2>2, CatalogAssumption DEF Tables
    <2> QED BY <2>1, <2>3
<1>5. id \in {p[1] : p \in Opcodes}
    <2>1. <<id, m>>[1] = id
        OBVIOUS
    <2> HIDE DEF id
    <2> QED BY <1>1, <2>1, Zenon
<1>6. id \in DOMAIN ByOpcode /\ ByOpcode[id] = c[2]
    <2> HIDE DEF id
    <2> QED BY <1>5 DEF ByOpcode
<1> HIDE DEF c
<1> QED BY <1>4, <1>6 DEF Lookup

\* Behind a message's opcode are its fields.
LEMMA MessageIs ==
    ASSUME NEW m \in DOMAIN messages, NEW rest \in Seq(Bytes)
    PROVE  LET fields == messages[m].fields
               bytes  == LittleEndian(messages[m].id, 4) \o rest
           IN  /\ ~(Len(bytes) < 4)
               /\ Decode(bytes) =
                     Message(m, fields, decodeFields(Each(decodeValue, fields), m, fields, rest))
<1> DEFINE id == messages[m].id  word == LittleEndian(id, 4)  all == word \o rest
           fields == messages[m].fields
<1>1. id \in Nat /\ id < Power[4] /\ m # Unknown
    BY CatalogAssumption, CodecAssumption DEF Tables
<1>2. word \in Seq(Bytes) /\ Len(word) = 4 /\ Unsigned(word) = id
    <2> HIDE DEF id
    <2>1. Power[4] \in Nat /\ Power[4] > 0
        BY PowerSteps
    <2>2. 0 \in Int /\ 0 <= id /\ id = Power[4] * 0 + id /\ id \in Int /\ 4 \in Nat
        BY <1>1, <2>1
    <2>3. id % Power[4] = id
        BY <1>1, <2>1, <2>2, Remainder
    <2>4. word \in Seq(Bytes) /\ Len(word) = 4
        BY <2>2, WordWritten, Zenon
    <2>5. Unsigned(word) = id
        BY <2>2, <2>3, WordRead
    <2> QED BY <2>4, <2>5
<1>3. Lookup(id) = m
    BY LookupIs
<1> HIDE DEF id, word
<1>4. SubSeq(all, 1, 4) = word /\ SubSeq(all, 5, Len(all)) = rest /\ ~(Len(all) < 4)
    <2>1. SubSeq(word \o rest, 1, Len(word)) = word
        BY <1>2, Halved, Zenon
    <2>2. ~(Len(all) < Len(word)) /\ SubSeq(all, Len(word) + 1, Len(all)) = rest
        BY <1>2, Behind, Zenon
    <2>3. 4 + 1 = 5
        OBVIOUS
    <2> HIDE DEF all
    <2> QED BY <1>2, <2>1, <2>2, <2>3 DEF all
<1> HIDE DEF all
<1>5. Decode(all) = Message(m, fields, decodeFields(Each(decodeValue, fields), m, fields, rest))
    BY <1>1, <1>2, <1>3, <1>4, Zenon DEF Decode
<1> QED BY <1>4, <1>5 DEF all, word, id

\* The values by name are those of the first fields.
LEMMA ByNameIs ==
    ASSUME NEW fields, Layout(fields, Types), NEW values, NEW k \in 0 .. Len(fields)
    PROVE  /\ DOMAIN ByName(fields, FirstOf(values, k)) = Names(fields, k)
           /\ \A i \in 1 .. k : ByName(fields, FirstOf(values, k))[fields[i].name] = values[i]
<1> DEFINE seen == FirstOf(values, k)
           c(f) == CHOOSE j \in DOMAIN seen : fields[j].name = f
<1>1. DOMAIN seen = 1 .. k /\ \A i \in 1 .. k : seen[i] = values[i]
    BY DEF FirstOf
<1>2. /\ DOMAIN fields = 1 .. Len(fields) /\ Len(fields) \in Nat
      /\ \A i, j \in DOMAIN fields : fields[i].name = fields[j].name => i = j
    BY LayoutIs
<1> HIDE DEF seen
<1>3. {fields[i].name : i \in DOMAIN seen} = Names(fields, k)
    BY <1>1, Zenon DEF Names
<1>4. ByName(fields, seen) = [f \in Names(fields, k) |-> seen[c(f)]]
    BY <1>3, Zenon DEF ByName
<1>5. ASSUME NEW i \in 1 .. k PROVE fields[i].name \in Names(fields, k) /\ c(fields[i].name) = i
    <2> DEFINE f == fields[i].name
    <2>1. f \in Names(fields, k)
        BY Zenon DEF Names
    <2>2. c(f) \in 1 .. k /\ fields[c(f)].name = f
        <3>1. \E j \in DOMAIN seen : fields[j].name = f
            BY <1>1
        <3>2. c(f) \in DOMAIN seen /\ fields[c(f)].name = f
            <4> HIDE DEF f
            <4> QED BY <3>1, Zenon
        <3> QED BY <1>1, <3>2
    <2> HIDE DEF c
    <2>3. c(f) \in DOMAIN fields /\ i \in DOMAIN fields
        BY <1>2, <2>2
    <2> QED BY <1>2, <2>1, <2>2, <2>3
<1> HIDE DEF c
<1>6. ASSUME NEW i \in 1 .. k PROVE ByName(fields, seen)[fields[i].name] = values[i]
    BY <1>1, <1>4, <1>5
<1>7. DOMAIN ByName(fields, seen) = Names(fields, k)
    BY <1>4
<1> QED BY <1>6, <1>7 DEF seen

\* Decode reads what Encode has made of the values, and of fewer bytes the first fields.
MessageRead(m, values) ==
    LET fields == messages[m].fields
        kepts  == FieldValues(fields, values)
        bytes  == Encode(m, values).bytes
    IN  /\ bytes \in Seq(Bytes)
        /\ Decode(bytes) =
              Message(m, fields, [seen |-> FirstOf(kepts, Len(fields)), rest |-> <<>>])
        /\ \A p \in Seq(Bytes) : Cut(p, bytes) /\ ~(Len(p) < 4) =>
              \E k \in Nat : \E r :
                 /\ k < Len(fields) /\ r.seen = FirstOf(kepts, k)
                 /\ Decode(p) = Message(m, fields, r)

\* It does if the bytes can carry the values.
LEMMA MessageTaken ==
    ASSUME NEW m \in DOMAIN messages, NEW values, \A f \in DOMAIN values : values[f] \in GoValues,
           Encode(m, values) # Error,
           \A i \in DOMAIN messages[m].fields :
              Carried(messages[m].fields[i].type, values[messages[m].fields[i].name])
    PROVE  MessageRead(m, values)
<1> DEFINE fields == messages[m].fields  id == messages[m].id  word == LittleEndian(id, 4)
           encoders == Each(encodeValue, fields)  decoders == Each(decodeValue, fields)
           encoded == encodeFields(encoders, m, fields, values)
           kepts == FieldValues(fields, values)
           c == encoded.bytes  bytes == word \o c
           V == {kepts[i] : i \in 1 .. Len(fields)}
<1>1. /\ id \in Nat /\ id < Power[4] /\ m \in STRING
      /\ Layout(fields, Types) /\ Len(fields) \in Nat
    BY CatalogAssumption, CodecAssumption, LayoutIs DEF Tables
<1>2. Encode(m, values) = Joined(Written(word), encoded)
    BY DEF Encode
<1>3. encoded # Error /\ Encode(m, values).bytes = bytes
    <2>1. PICK a : a = Written(word)
        OBVIOUS
    <2>2. PICK b : b = encoded
        OBVIOUS
    <2>3. Joined(a, b) # Error /\ Encode(m, values) = Joined(a, b) /\ a.bytes = word
        BY <1>2, <2>1, <2>2, Zenon DEF Written
    <2>4. b # Error /\ Joined(a, b).bytes = a.bytes \o b.bytes
        BY <2>3, JoinedIsWritten, Zenon
    <2> QED BY <2>2, <2>3, <2>4, Zenon
<1>4. FieldsRead(decoders, m, fields, c, kepts) /\ FirstOnes(V, Len(fields), kepts)
    <2>1. \A i \in DOMAIN fields : Faithful(fields[i].type)
        BY <1>1, LayoutIs, AllFaithful
    <2>2. \A i \in DOMAIN fields : carried[fields[i].type][values[fields[i].name]]
        BY CarriedDefined, Zenon
    <2> HIDE DEF fields
    <2>3. encodeFields(Each(encodeValue, fields), m, fields, values) # Error
        BY <1>3
    <2> QED BY <1>1, <2>1, <2>2, <2>3, FieldsAreTaken, Zenon
<1>5. FirstOf(kepts, Len(fields)) = kepts
    BY <1>4, Zenon DEF FirstOnes
<1>6. \A rest \in Seq(Bytes) :
          /\ ~(Len(word \o rest) < 4)
          /\ Decode(word \o rest) = Message(m, fields, decodeFields(decoders, m, fields, rest))
    BY MessageIs
<1>7. word \in Seq(Bytes) /\ Len(word) = 4
    <2>1. id \in Int /\ 4 \in Nat
        BY <1>1
    <2> HIDE DEF id
    <2> QED BY <2>1, WordWritten, Zenon
<1> HIDE DEF fields, word, decoders, encoded, kepts, c, V
<1>8. c \in Seq(Bytes) /\ bytes \in Seq(Bytes)
    <2>1. c \in Seq(Bytes)
        BY <1>4 DEF FieldsRead
    <2> QED BY <1>7, <2>1, Concat
<1>9. Decode(bytes) = Message(m, fields, [seen |-> kepts, rest |-> <<>>])
    <2>1. <<>> \in Seq(Bytes) /\ c \o <<>> = c
        BY <1>8
    <2>2. decodeFields(decoders, m, fields, c \o <<>>) = [seen |-> kepts, rest |-> <<>>]
        BY <1>4, <2>1, Zenon DEF FieldsRead
    <2>3. decodeFields(decoders, m, fields, c) = [seen |-> kepts, rest |-> <<>>]
        BY <2>1, <2>2
    <2> QED BY <1>6, <1>8, <2>3
<1>10. ASSUME NEW p \in Seq(Bytes), Cut(p, bytes), ~(Len(p) < 4)
       PROVE  \E k \in Nat : \E r :
                 /\ k < Len(fields) /\ r.seen = FirstOf(kepts, k)
                 /\ Decode(p) = Message(m, fields, r)
    <2>1. Cut(p, word) \/ \E u \in Seq(Bytes) : p = word \o u /\ Cut(u, c)
        BY <1>7, <1>8, <1>10, CutInTwo, Zenon
    <2>2. ~Cut(p, word)
        BY <1>7, <1>10, CutIsShorter
    <2>3. PICK u \in Seq(Bytes) : p = word \o u /\ Cut(u, c)
        BY <2>1, <2>2
    <2>4. PICK k \in Nat : k < Len(fields)
                           /\ decodeFields(decoders, m, fields, u).seen = FirstOf(kepts, k)
        BY <1>4, <2>3 DEF FieldsRead
    <2>5. Decode(p) = Message(m, fields, decodeFields(decoders, m, fields, u))
        BY <1>6, <2>3
    <2> QED BY <2>4, <2>5
<1> HIDE DEF bytes
<1> QED BY <1>3, <1>5, <1>8, <1>9, <1>10, Zenon DEF MessageRead, fields, kepts

-----------------------------------------------------------------------------
(* Sizes.                                                                  *)

SumDom(p)       == Nat
SumRank(p, k)   == k
SumDef(p, f, k) == IF k = 0 THEN 0 ELSE f[k - 1] + p[k]

SumIs == INSTANCE Ranked WITH Dom <- SumDom, Rank <- SumRank, Def <- SumDef

Sums(sizes) == CHOOSE f : f = [k \in Nat |-> IF k = 0 THEN 0 ELSE f[k - 1] + sizes[k]]

\* Total adds one size with each step.
LEMMA TotalSteps ==
    ASSUME NEW sizes
    PROVE  Total(0, sizes) = 0 /\ \A k \in Nat : Total(k + 1, sizes) = Total(k, sizes) + sizes[k + 1]
<1>1. SumIs!Ranks(sizes)
    BY DEF SumIs!Ranks, SumDom, SumRank
<1>2. SumIs!Descends(sizes)
    <2> SUFFICES ASSUME NEW k \in Nat, NEW g, NEW h,
                        \A y \in Nat : y < k => g[y] = h[y]
                 PROVE  SumDef(sizes, g, k) = SumDef(sizes, h, k)
        BY DEF SumIs!Descends, SumDom, SumRank
    <2>1. k # 0 => k - 1 \in Nat /\ k - 1 < k
        OBVIOUS
    <2> QED BY <2>1 DEF SumDef
<1>3. \E f : f = [k \in Nat |-> SumDef(sizes, f, k)]
    BY <1>1, <1>2, SumIs!RankedRecursion DEF SumDom
<1>4. Sums(sizes) = [k \in Nat |-> IF k = 0 THEN 0 ELSE Sums(sizes)[k - 1] + sizes[k]]
    <2> DEFINE Is(f) == f = [k \in Nat |-> IF k = 0 THEN 0 ELSE f[k - 1] + sizes[k]]
    <2>1. \E f : Is(f)
        BY <1>3 DEF SumDef
    <2> QED BY <2>1, Zenon DEF Sums
<1>5. \A n : Total(n, sizes) = Sums(sizes)[n]
    BY Zenon DEF Total, Sums
<1>6. Sums(sizes)[0] = 0
    BY <1>4
<1>7. ASSUME NEW k \in Nat PROVE Sums(sizes)[k + 1] = Sums(sizes)[k] + sizes[k + 1]
    <2>1. k + 1 \in Nat /\ k + 1 # 0 /\ (k + 1) - 1 = k
        OBVIOUS
    <2> QED BY <1>4, <2>1
<1> QED BY <1>5, <1>6, <1>7

\* The total of the first n sizes depends on no others.
LEMMA TotalSame ==
    ASSUME NEW n \in Nat, NEW s, NEW t, \A i \in 1 .. n : s[i] = t[i]
    PROVE  Total(n, s) = Total(n, t)
<1> DEFINE S == {k \in Nat : k <= n => Total(k, s) = Total(k, t)}
<1>1. 0 \in S
    BY TotalSteps
<1>2. ASSUME NEW k \in Nat, k \in S PROVE k + 1 \in S
    <2> SUFFICES ASSUME k + 1 <= n PROVE Total(k + 1, s) = Total(k + 1, t)
        OBVIOUS
    <2>1. k + 1 \in 1 .. n /\ k <= n
        OBVIOUS
    <2>2. Total(k, s) = Total(k, t) /\ s[k + 1] = t[k + 1]
        BY <1>2, <2>1
    <2>3. /\ Total(k + 1, s) = Total(k, s) + s[k + 1]
          /\ Total(k + 1, t) = Total(k, t) + t[k + 1]
        BY TotalSteps
    <2> QED BY <2>2, <2>3
<1> HIDE DEF S
<1>3. n \in S
    BY <1>1, <1>2, NatSet
<1> QED BY <1>3 DEF S

InsideDom(p)       == Nat
InsideRank(p, k)   == k
InsideDef(p, f, k) == IF k = 0 THEN {p} ELSE f[k - 1] \cup UNION {Inner(w) : w \in f[k - 1]}

InsideIs == INSTANCE Ranked WITH Dom <- InsideDom, Rank <- InsideRank, Def <- InsideDef

Insides(v) ==
    CHOOSE f : f = [k \in Nat |->
        IF k = 0 THEN {v} ELSE f[k - 1] \cup UNION {Inner(w) : w \in f[k - 1]}]

\* Inside adds what is inside those before with each step.
LEMMA InsideSteps ==
    ASSUME NEW v
    PROVE  /\ Inside(v, 0) = {v}
           /\ \A k \in Nat : Inside(v, k + 1) = Inside(v, k) \cup UNION {Inner(w) : w \in Inside(v, k)}
<1>1. InsideIs!Ranks(v)
    BY DEF InsideIs!Ranks, InsideDom, InsideRank
<1>2. InsideIs!Descends(v)
    <2> SUFFICES ASSUME NEW k \in Nat, NEW g, NEW h,
                        \A y \in Nat : y < k => g[y] = h[y]
                 PROVE  InsideDef(v, g, k) = InsideDef(v, h, k)
        BY DEF InsideIs!Descends, InsideDom, InsideRank
    <2>1. k # 0 => k - 1 \in Nat /\ k - 1 < k
        OBVIOUS
    <2> QED BY <2>1 DEF InsideDef
<1>3. \E f : f = [k \in Nat |-> InsideDef(v, f, k)]
    BY <1>1, <1>2, InsideIs!RankedRecursion DEF InsideDom
<1> DEFINE F == Insides(v)
           Is(f) == f = [k \in Nat |->
                        IF k = 0 THEN {v} ELSE f[k - 1] \cup UNION {Inner(w) : w \in f[k - 1]}]
<1>4. Is(F)
    <2>1. \E f : Is(f)
        BY <1>3 DEF InsideDef
    <2> QED BY <2>1, Zenon DEF Insides
<1>5. \A n : Inside(v, n) = F[n]
    BY Zenon DEF Inside, Insides
<1> HIDE DEF F
<1>6. F[0] = {v}
    BY <1>4
<1>7. ASSUME NEW k \in Nat PROVE F[k + 1] = F[k] \cup UNION {Inner(w) : w \in F[k]}
    <2>1. k + 1 \in Nat /\ k + 1 # 0 /\ (k + 1) - 1 = k
        OBVIOUS
    <2> QED BY <1>4, <2>1
<1> QED BY <1>5, <1>6, <1>7

\* What is inside an inner value is inside the value, one level deeper.
LEMMA InsideInner ==
    ASSUME NEW v, NEW w \in Inner(v), NEW n \in Nat
    PROVE  Inside(w, n) \subseteq Inside(v, n + 1)
<1> DEFINE S == {k \in Nat : Inside(w, k) \subseteq Inside(v, k + 1)}
<1>1. 0 \in S
    <2>1. Inside(v, 0) = {v} /\ Inside(w, 0) = {w}
          /\ Inside(v, 0 + 1) = Inside(v, 0) \cup UNION {Inner(u) : u \in Inside(v, 0)}
        BY InsideSteps
    <2> QED BY <2>1
<1>2. ASSUME NEW k \in Nat, k \in S PROVE k + 1 \in S
    <2> DEFINE A == Inside(w, k)  B == Inside(v, k + 1)
    <2>1. /\ Inside(w, k + 1) = A \cup UNION {Inner(u) : u \in A}
          /\ Inside(v, (k + 1) + 1) = B \cup UNION {Inner(u) : u \in B}
        <3>1. k + 1 \in Nat
            OBVIOUS
        <3> QED BY <3>1, InsideSteps, Zenon
    <2>2. A \subseteq B
        BY <1>2
    <2> HIDE DEF A, B
    <2>3. A \cup UNION {Inner(u) : u \in A} \subseteq B \cup UNION {Inner(u) : u \in B}
        BY <2>2, Zenon
    <2>4. Inside(w, k + 1) \subseteq Inside(v, (k + 1) + 1)
        BY <2>1, <2>3, Zenon
    <2> QED BY <2>4
<1> HIDE DEF S
<1>3. n \in S
    BY <1>1, <1>2, NatSet
<1> QED BY <1>3 DEF S

\* The value itself is inside.
LEMMA InsideItself ==
    ASSUME NEW v, NEW n \in Nat
    PROVE  v \in Inside(v, n)
<1> DEFINE S == {k \in Nat : v \in Inside(v, k)}
<1>1. 0 \in S
    BY InsideSteps
<1>2. ASSUME NEW k \in Nat, k \in S PROVE k + 1 \in S
    BY <1>2, InsideSteps
<1> HIDE DEF S
<1>3. n \in S
    BY <1>1, <1>2, NatSet
<1> QED BY <1>3 DEF S

SizeDef(p, f, t) == [w \in p |-> SizeOf(f, t, w)]

SizeIs == INSTANCE Ranked WITH Dom <- TypesDom, Rank <- TypesRank, Def <- SizeDef

\* The sizes of the values of a set that holds what is inside them, too.
SizesIn(values) == CHOOSE f : f = [t \in Types |-> [w \in values |-> SizeOf(f, t, w)]]

\* They are what SizeOf says.
LEMMA SizesSteps ==
    ASSUME NEW values
    PROVE  /\ \A t \in Types, w \in values : SizesIn(values)[t][w] = SizeOf(SizesIn(values), t, w)
           /\ \A t, v : values = Inside(v, Nesting[t]) => Size(t, v) = SizesIn(values)[t][v]
<1>1. SizeIs!Ranks(values)
    BY TypeFacts DEF SizeIs!Ranks, TypesDom, TypesRank
<1>2. SizeIs!Descends(values)
    <2> SUFFICES ASSUME NEW t \in Types, NEW g, NEW h,
                        \A y \in Types : Nesting[y] < Nesting[t] => g[y] = h[y]
                 PROVE  SizeDef(values, g, t) = SizeDef(values, h, t)
        BY DEF SizeIs!Descends, TypesDom, TypesRank
    <2>1. t.kind \in {"array", "list"} => g[t.elem] = h[t.elem]
        BY TypeFacts
    <2>2. t.kind = "struct" /\ t.name \in DOMAIN structs =>
              \A i \in DOMAIN structs[t.name] : g[structs[t.name][i].type] = h[structs[t.name][i].type]
        BY TypeFacts
    <2>3. ASSUME NEW w PROVE SizeOf(g, t, w) = SizeOf(h, t, w)
        BY <2>1, <2>2 DEF SizeOf
    <2> QED BY <2>3 DEF SizeDef
<1>3. \E f : f = [t \in Types |-> SizeDef(values, f, t)]
    BY <1>1, <1>2, SizeIs!RankedRecursion DEF TypesDom
<1> DEFINE F == SizesIn(values)
           Is(f) == f = [t \in Types |-> [w \in values |-> SizeOf(f, t, w)]]
<1>4. Is(F)
    <2>1. \E f : Is(f)
        BY <1>3 DEF SizeDef
    <2> QED BY <2>1, Zenon DEF SizesIn
<1>5. ASSUME NEW t, NEW v, values = Inside(v, Nesting[t]) PROVE Size(t, v) = F[t][v]
    BY <1>5, Zenon DEF Size, SizesIn
<1> HIDE DEF F
<1>6. \A t \in Types, w \in values : F[t][w] = SizeOf(F, t, w)
    BY <1>4
<1> QED BY <1>5, <1>6, Zenon DEF F

-----------------------------------------------------------------------------
(* What is taken of the bytes.                                             *)

\* A number that is read is one of the width's.
LEMMA UnsignedIn ==
    ASSUME NEW bytes \in Seq(Bytes)
    PROVE  Unsigned(bytes) \in Nat /\ Unsigned(bytes) < Power[Len(bytes)]
<1> DEFINE S == {k \in Nat : k <= Len(bytes) => Low(bytes)[k] \in Nat /\ Low(bytes)[k] < Power[k]}
<1>0. Len(bytes) \in Nat /\ \A i \in 1 .. Len(bytes) : bytes[i] \in Bytes
    OBVIOUS
<1>1. /\ Unsigned(bytes) = Low(bytes)[Len(bytes)] /\ Low(bytes)[0] = 0
      /\ \A k \in Nat : k < Len(bytes) =>
            Low(bytes)[k + 1] = Low(bytes)[k] + bytes[k + 1] * Power[k]
    <2>1. Bytes \subseteq Int
        BY BytesFacts
    <2>2. bytes \in Seq(Int)
        BY <2>1, SeqWider, Zenon
    <2> QED BY <2>2, UnsignedSteps
<1>2. 0 \in S
    BY <1>1, PowerSteps
<1>3. ASSUME NEW k \in Nat, k \in S PROVE k + 1 \in S
    <2> SUFFICES ASSUME k + 1 <= Len(bytes)
                 PROVE  Low(bytes)[k + 1] \in Nat /\ Low(bytes)[k + 1] < Power[k + 1]
        OBVIOUS
    <2> DEFINE low == Low(bytes)[k]  b == bytes[k + 1]  q == Power[k]
    <2>1. k < Len(bytes) /\ k <= Len(bytes) /\ k + 1 \in 1 .. Len(bytes)
        BY <1>0
    <2>2. low \in Nat /\ low < q
        BY <1>3, <2>1
    <2>3. b \in Nat /\ b < Base /\ Base \in Nat
        BY <1>0, <2>1, BytesFacts, Zenon
    <2>4. q \in Nat /\ q > 0 /\ Power[k + 1] = Base * q
        BY PowerSteps, Zenon
    <2>5. Low(bytes)[k + 1] = low + b * q
        BY <1>1, <2>1
    <2> HIDE DEF low, b, q
    <2>6. b * q \in Nat /\ (Base - 1 - b) * q >= 0 /\ Base * q \in Nat
        BY <2>3, <2>4
    <2>7. (Base - 1 - b) * q = Base * q - q - b * q
        BY <2>3, <2>4
    <2>8. low + b * q \in Nat /\ low + b * q < Base * q
        BY <2>2, <2>4, <2>6, <2>7
    <2> QED BY <2>4, <2>5, <2>8
<1> HIDE DEF S
<1>4. Len(bytes) \in S
    BY <1>0, <1>2, <1>3, NatSet
<1> QED BY <1>1, <1>4 DEF S

\* Two bytes are a unit.
LEMMA UnitIs ==
    ASSUME NEW bytes \in Seq(Bytes), NEW i \in Nat, i >= 1, 2 * i <= Len(bytes)
    PROVE  Unit(bytes, i) \in Utf16
<1> DEFINE a == bytes[2 * i - 1]  b == bytes[2 * i]  w == <<a, b>>
<1>1. a \in Bytes /\ b \in Bytes
    <2>1. 2 * i - 1 \in 1 .. Len(bytes) /\ 2 * i \in 1 .. Len(bytes)
        OBVIOUS
    <2> QED BY <2>1
<1> HIDE DEF a, b
<1>2. w \in Seq(Bytes) /\ Len(w) = 2
    BY <1>1
<1> HIDE DEF w
<1>3. Unsigned(w) \in Nat /\ Unsigned(w) < Power[2]
    BY <1>2, UnsignedIn, Zenon
<1>4. Power[2] \in Nat
    BY PowerSteps, Zenon
<1>5. Unsigned(w) \in Utf16
    BY <1>3, <1>4 DEF Utf16
<1> QED BY <1>5 DEF Unit, w, a, b

\* A text has as many units as it was made of.
LEMMA RunesLength ==
    ASSUME NEW units \in Seq(Utf16)
    PROVE  Runes[units] \in Seq(Seq(Utf16)) /\ Len(Units(Runes[units])) = Len(units)
<1> DEFINE Right(u) == Runes[u] \in Seq(Seq(Utf16)) /\ Len(Units(Runes[u])) = Len(u)
           S == {u \in Seq(Utf16) : Right(u)}
<1>1. ASSUME NEW r \in Seq(Utf16), NEW v \in Seq(Utf16), Right(v),
             NEW u \in Seq(Utf16), Runes[u] = <<r>> \o Runes[v], Len(u) = Len(r) + Len(v)
      PROVE  Right(u)
    <2>1. Units(Runes[u]) = r \o Units(Runes[v])
        BY <1>1, FlattenFront, Zenon DEF Units
    <2>2. Units(Runes[v]) \in Seq(Utf16)
        BY <1>1, UnitsType
    <2>3. Len(r \o Units(Runes[v])) = Len(r) + Len(Units(Runes[v]))
        BY <2>2, Concat
    <2>4. <<r>> \o Runes[v] \in Seq(Seq(Utf16))
        BY <1>1
    <2> QED BY <1>1, <2>1, <2>3, <2>4
<1>2. ASSUME NEW u \in Seq(Utf16), \A v \in Seq(Utf16) : Len(v) < Len(u) => v \in S
      PROVE  u \in S
    <2>0. Runes[u] = RunesDef(0, Runes, u)
        BY RunesDefined
    <2>1. CASE u = <<>>
        <3>1. Runes[u] = <<>>
            BY <2>0, <2>1 DEF RunesDef
        <3>2. Units(<<>>) = <<>> /\ <<>> \in Seq(Seq(Utf16))
            BY FlattenEmpty DEF Units
        <3> QED BY <2>1, <3>1, <3>2, Zenon
    <2> DEFINE t == Tail(u)
    <2>2. ASSUME u # <<>>
          PROVE  t \in Seq(Utf16) /\ t \in S /\ Len(u) = 1 + Len(t) /\ u[1] \in Utf16
        <3>1. t \in Seq(Utf16) /\ Len(u) = 1 + Len(t) /\ Len(t) < Len(u) /\ u[1] \in Utf16
            BY <2>2
        <3> QED BY <1>2, <3>1, Zenon
    <2>3. ASSUME u # <<>>, NEW x \in Utf16, Runes[u] = <<<<x>>>> \o Runes[t]
          PROVE  u \in S
        <3>1. <<x>> \in Seq(Utf16) /\ Len(<<x>>) = 1
            OBVIOUS
        <3>2. t \in Seq(Utf16) /\ Right(t) /\ Len(u) = Len(<<x>>) + Len(t)
            BY <2>2, <2>3, <3>1
        <3> HIDE DEF Right, t
        <3>3. Right(u)
            BY <1>1, <2>3, <3>1, <3>2, Zenon
        <3> QED BY <3>3
    <2>4. ASSUME u # <<>>, Len(u) > 1, Runes[u] = <<<<u[1], u[2]>>>> \o Runes[Tail(t)]
          PROVE  u \in S
        <3> DEFINE v == Tail(t)  r == <<u[1], u[2]>>
        <3>0. t \in Seq(Utf16) /\ Len(u) = 1 + Len(t)
            BY <2>2, <2>4
        <3>1. t \in Seq(Utf16) /\ t # <<>> /\ Len(t) = Len(u) - 1
            <4> HIDE DEF t
            <4> QED BY <2>4, <3>0
        <3>2. v \in Seq(Utf16) /\ Len(t) = 1 + Len(v)
            BY <3>1
        <3>3. Len(v) < Len(u) /\ Len(u) = 2 + Len(v)
            BY <3>1, <3>2
        <3>4. r \in Seq(Utf16) /\ Len(r) = 2
            BY <2>4
        <3>5. v \in S
            BY <1>2, <3>2, <3>3, Zenon
        <3>6. Right(v)
            BY <3>5
        <3> HIDE DEF Right, v, r
        <3>7. Right(u)
            BY <1>1, <2>4, <3>2, <3>3, <3>4, <3>6, Zenon DEF v, r
        <3> QED BY <3>7
    <2>5. Replacement \in Utf16
        BY CodecAssumption
    <2>6. CASE u # <<>>
        <3>1. \/ Runes[u] = <<<<u[1]>>>> \o Runes[t]
              \/ Runes[u] = <<<<Replacement>>>> \o Runes[t]
              \/ Len(u) > 1 /\ Runes[u] = <<<<u[1], u[2]>>>> \o Runes[Tail(t)]
            BY <2>0, <2>6, Zenon DEF RunesDef
        <3> HIDE DEF t, S
        <3> QED BY <2>2, <2>3, <2>4, <2>5, <2>6, <3>1, Zenon
    <2> QED BY <2>1, <2>6
<1>3. RunesIs!Ranks(0)
    BY DEF RunesIs!Ranks, RunesDom, RunesRank
<1> HIDE DEF S
<1>4. \A u \in RunesDom(0) :
          (\A v \in RunesDom(0) : RunesRank(0, v) < RunesRank(0, u) => v \in S) => u \in S
    BY <1>2 DEF RunesDom, RunesRank
<1>5. \A u \in RunesDom(0) : u \in S
    BY <1>3, <1>4, RunesIs!RankInduction
<1> QED BY <1>5 DEF S, RunesDom

\* The first n bytes of buf are taken.
Takes(buf, rest, n) ==
    rest \in Seq(Bytes) /\ \E q \in Seq(Bytes) : q \o rest = buf /\ Len(q) = n

\* What is not taken is the end.
LEMMA TakesFacts ==
    ASSUME NEW buf, NEW rest, NEW n, Takes(buf, rest, n)
    PROVE  /\ buf \in Seq(Bytes) /\ rest \in Seq(Bytes) /\ n \in Nat
           /\ Len(rest) \in Nat /\ Len(buf) = n + Len(rest)
           /\ rest = SubSeq(buf, Len(buf) - Len(rest) + 1, Len(buf))
<1>1. PICK q \in Seq(Bytes) : q \o rest = buf /\ Len(q) = n
    BY DEF Takes
<1>2. rest \in Seq(Bytes)
    BY DEF Takes
<1>3. /\ buf \in Seq(Bytes) /\ Len(buf) = Len(q) + Len(rest)
      /\ Len(q) \in Nat /\ Len(rest) \in Nat
    BY <1>1, <1>2, Concat, Zenon
<1>4. SubSeq(q \o rest, Len(q) + 1, Len(q \o rest)) = rest
    BY <1>2, Halved
<1>5. Len(q) + 1 = Len(buf) - Len(rest) + 1
    BY <1>3
<1> QED BY <1>1, <1>2, <1>3, <1>4, <1>5

\* Nothing is taken.
LEMMA TakesNone == \A buf \in Seq(Bytes) : Takes(buf, buf, 0)
<1>1. ASSUME NEW buf \in Seq(Bytes) PROVE Takes(buf, buf, 0)
    <2>1. <<>> \in Seq(Bytes) /\ <<>> \o buf = buf /\ Len(<<>>) = 0
        OBVIOUS
    <2> QED BY <2>1, Zenon DEF Takes
<1> QED BY <1>1

\* The first bytes are taken.
LEMMA TakesFirst ==
    ASSUME NEW buf \in Seq(Bytes), NEW n \in Nat, n <= Len(buf)
    PROVE  Takes(buf, SubSeq(buf, n + 1, Len(buf)), n)
<1> DEFINE l == Len(buf)  p == SubSeq(buf, 1, n)
<1>1. l \in Nat /\ n <= l
    OBVIOUS
<1>2. p \in Seq(Bytes) /\ Len(p) = n /\ \A i \in 1 .. n : p[i] = buf[i]
    <2>1. 1 <= n + 1 /\ 1 \in Nat /\ (n + 1) - 1 = n
        BY <1>1
    <2>2. /\ SubSeq(buf, 1, n) \in Seq(Bytes) /\ Len(SubSeq(buf, 1, n)) = (n + 1) - 1
          /\ \A i \in 1 .. (n + 1) - 1 : SubSeq(buf, 1, n)[i] = buf[(1 - 1) + i]
        BY <1>1, <2>1, SubSeqIs
    <2> QED BY <1>1, <2>1, <2>2
<1> HIDE DEF p
<1>3. Begins(p, buf)
    BY <1>1, <1>2 DEF Begins
<1>4. PICK q \in Seq(Bytes) : p \o q = buf
    BY <1>2, <1>3, Completed
<1>5. SubSeq(p \o q, Len(p) + 1, Len(p \o q)) = q
    BY <1>2, Halved
<1>6. q = SubSeq(buf, n + 1, Len(buf))
    BY <1>2, <1>4, <1>5
<1> QED BY <1>2, <1>4, <1>6, Zenon DEF Takes

\* What is taken after other bytes is taken with them.
LEMMA TakesBoth ==
    ASSUME NEW a, NEW b, NEW c, NEW m, NEW n, Takes(a, b, m), Takes(b, c, n)
    PROVE  Takes(a, c, m + n)
<1>1. PICK p \in Seq(Bytes) : p \o b = a /\ Len(p) = m
    BY Zenon DEF Takes
<1>2. PICK q \in Seq(Bytes) : q \o c = b /\ Len(q) = n
    BY Zenon DEF Takes
<1>3. c \in Seq(Bytes)
    BY DEF Takes
<1>4. (p \o q) \o c = a
    <2>1. (p \o q) \o c = p \o (q \o c)
        BY <1>3
    <2> QED BY <1>1, <1>2, <2>1
<1>5. p \o q \in Seq(Bytes) /\ Len(p \o q) = m + n
    BY <1>1, <1>2, Concat, Zenon
<1> QED BY <1>3, <1>4, <1>5, Zenon DEF Takes

\* A word takes its width.
LEMMA WordTakes ==
    ASSUME NEW buf \in Seq(Bytes), NEW width \in Nat, readWord(buf, width) # Error
    PROVE  /\ Takes(buf, readWord(buf, width).rest, width)
           /\ readWord(buf, width).value \in Nat
<1>1. width <= Len(buf)
    <2>1. ~(Len(buf) < width) /\ Len(buf) \in Nat
        BY DEF readWord
    <2> QED BY <2>1
<1>2. /\ readWord(buf, width).rest = SubSeq(buf, width + 1, Len(buf))
      /\ readWord(buf, width).value = Unsigned(SubSeq(buf, 1, width))
    BY <1>1 DEF readWord, Read
<1>3. SubSeq(buf, 1, width) \in Seq(Bytes)
    <2>1. 1 <= width + 1 /\ 1 \in Nat
        OBVIOUS
    <2> QED BY <1>1, <2>1, SubSeqIs
<1> QED BY <1>1, <1>2, <1>3, TakesFirst, UnsignedIn, Zenon

\* The size of v is the same among more values.
Steady(t, v) ==
    \A values : \A k \in Nat :
        Nesting[t] <= k /\ Inside(v, k) \subseteq values => SizesIn(values)[t][v] = Size(t, v)

\* What decodeValue takes are the bytes of the value.
Exact(t) ==
    \A at \in Places, buf \in Seq(Bytes) :
        LET r == decodeValue[t][<<at, buf>>]
        IN  r # Error => Takes(buf, r.rest, Size(t, r.value)) /\ Steady(t, r.value)

\* A value has the size that SizeOf says, among whatever other values.
LEMMA SizeAt ==
    ASSUME NEW t \in Types, NEW v, NEW n,
           \A values : \A k \in Nat :
               Nesting[t] <= k /\ Inside(v, k) \subseteq values => SizeOf(SizesIn(values), t, v) = n
    PROVE  Size(t, v) = n /\ Steady(t, v)
<1>1. Nesting[t] \in Nat
    BY TypeFacts
<1>2. ASSUME NEW values, NEW k \in Nat, Nesting[t] <= k, Inside(v, k) \subseteq values
      PROVE  SizesIn(values)[t][v] = n
    <2>1. v \in values
        BY <1>2, InsideItself
    <2>2. SizeOf(SizesIn(values), t, v) = n
        BY <1>2
    <2>3. SizesIn(values)[t][v] = SizeOf(SizesIn(values), t, v)
        BY <2>1, SizesSteps
    <2> QED BY <2>2, <2>3
<1>3. Size(t, v) = n
    <2> DEFINE values == Inside(v, Nesting[t])
    <2>1. Size(t, v) = SizesIn(values)[t][v]
        BY SizesSteps
    <2>2. Nesting[t] <= Nesting[t] /\ Inside(v, Nesting[t]) \subseteq values
        BY <1>1
    <2> HIDE DEF values
    <2>3. SizesIn(values)[t][v] = n
        BY <1>1, <1>2, <2>2
    <2> QED BY <2>1, <2>3
<1> QED BY <1>2, <1>3 DEF Steady

\* What is inside an inner value is no bigger a part of the values.
LEMMA InnerSteady ==
    ASSUME NEW t \in Types, NEW e \in Types, Nesting[e] < Nesting[t], NEW v, NEW w \in Inner(v),
           Steady(e, w), NEW values, NEW k \in Nat, Nesting[t] <= k, Inside(v, k) \subseteq values
    PROVE  SizesIn(values)[e][w] = Size(e, w)
<1> DEFINE j == k - 1
<1>1. j \in Nat /\ Nesting[e] <= j /\ j + 1 = k
    <2>1. Nesting[e] \in Nat /\ Nesting[t] \in Nat
        BY TypeFacts
    <2> QED BY <2>1
<1> HIDE DEF j
<1>2. Inside(w, j) \subseteq Inside(v, j + 1)
    BY <1>1, InsideInner
<1>3. Inside(w, j) \subseteq values
    BY <1>1, <1>2
<1> QED BY <1>1, <1>3 DEF Steady

\* A value of a number, a boolean or a text has a size of its own.
LEMMA ExactIf ==
    ASSUME NEW t \in Types,
           \A at \in Places, buf \in Seq(Bytes) :
               LET r == decodeType(decodeValue, t, at, buf)
               IN  r # Error => \E n : /\ Takes(buf, r.rest, n)
                                       /\ \A f : SizeOf(f, t, r.value) = n
    PROVE  Exact(t)
<1> SUFFICES ASSUME NEW at \in Places, NEW buf \in Seq(Bytes), decodeValue[t][<<at, buf>>] # Error
             PROVE  LET r == decodeValue[t][<<at, buf>>]
                    IN  Takes(buf, r.rest, Size(t, r.value)) /\ Steady(t, r.value)
    BY DEF Exact
<1> DEFINE r == decodeValue[t][<<at, buf>>]
<1>1. r = decodeType(decodeValue, t, at, buf)
    BY ValueAt
<1>2. PICK n : Takes(buf, r.rest, n) /\ \A f : SizeOf(f, t, r.value) = n
    BY <1>1
<1> HIDE DEF r
<1>3. Size(t, r.value) = n /\ Steady(t, r.value)
    BY <1>2, SizeAt, Zenon
<1> QED BY <1>2, <1>3 DEF r

-----------------------------------------------------------------------------
(* What decodeValue takes are the bytes of the value.                      *)

\* A number has a width.
LEMMA WidthIs == \A t \in Types : t.kind \in {"integer", "float"} => t.width \in Nat
<1> SUFFICES ASSUME NEW t \in Types, t.kind \in {"integer", "float"} PROVE t.width \in Nat
    OBVIOUS
<1>1. \/ t \in Scalars \/ t \in [kind : {"array", "list"}, elem : Types]
      \/ t \in [kind : {"struct"}, name : STRING]
    BY TypesAssumption DEF Deeper
<1>2. \/ t \in [kind : {"integer"}, width : {1, 2, 4, 8}, signed : BOOLEAN]
      \/ t \in [kind : {"float"}, width : {4, 8}]
    BY <1>1 DEF Scalars
<1>3. t.width \in {1, 2, 4, 8}
    BY <1>2
<1> QED BY <1>3

\* A read is its value and what is behind it.
LEMMA ReadIs == \A v, rest : Read(v, rest).value = v /\ Read(v, rest).rest = rest
BY DEF Read

\* A number takes its width.
LEMMA NumberExact ==
    ASSUME NEW t \in Types, t.kind \in {"integer", "float", "boolean"}
    PROVE  Exact(t)
<1> SUFFICES ASSUME NEW at \in Places, NEW buf \in Seq(Bytes),
                    decodeType(decodeValue, t, at, buf) # Error
             PROVE  LET r == decodeType(decodeValue, t, at, buf)
                    IN  \E n : Takes(buf, r.rest, n) /\ \A f : SizeOf(f, t, r.value) = n
    BY ExactIf
<1> DEFINE r == decodeType(decodeValue, t, at, buf)
           width == IF t.kind = "boolean" THEN 1 ELSE t.width
           word == readWord(buf, width)
<1>1. width \in Nat
    BY WidthIs
<1>2. word # Error /\ r.rest = word.rest
    BY ReadIs DEF decodeType, decodeInteger, decodeFloat, decodeBoolean
<1>3. \A f : SizeOf(f, t, r.value) = width
    BY Zenon DEF SizeOf
<1> HIDE DEF width, r
<1>4. Takes(buf, r.rest, width)
    BY <1>1, <1>2, WordTakes
<1> QED BY <1>3, <1>4 DEF r

\* The first units of the bytes, and as many runes.
LEMMA NarrowIs ==
    ASSUME NEW bytes \in Seq(Bytes), NEW n \in Nat, 2 * n <= Len(bytes)
    PROVE  Len(Units(Runes[Narrow(bytes, n)])) = n
<1>1. ASSUME NEW i \in 1 .. n PROVE Unit(bytes, i) \in Utf16
    <2>1. i \in Nat /\ i >= 1 /\ 2 * i <= Len(bytes)
        OBVIOUS
    <2> QED BY <2>1, UnitIs
<1>2. Narrow(bytes, n) \in Seq(Utf16) /\ Len(Narrow(bytes, n)) = n
    BY <1>1 DEF Narrow
<1> QED BY <1>2, RunesLength

\* A text with a count takes the count and its units.
LEMMA StringExact == ASSUME NEW t \in Types, t.kind = "string" PROVE Exact(t)
<1> SUFFICES ASSUME NEW at \in Places, NEW buf \in Seq(Bytes),
                    decodeType(decodeValue, t, at, buf) # Error
             PROVE  LET r == decodeType(decodeValue, t, at, buf)
                    IN  \E n : Takes(buf, r.rest, n) /\ \A f : SizeOf(f, t, r.value) = n
    BY ExactIf, Zenon
<1> DEFINE r == decodeType(decodeValue, t, at, buf)
           count == readWord(buf, 4)  n == count.value  more == count.rest
           s == Runes[Narrow(more, n)]
<1>1. r = decodeString(buf)
    BY DEF decodeType
<1>2. count # Error
    BY <1>1 DEF decodeString
<1>3. Takes(buf, more, 4) /\ n \in Nat
    <2>1. 4 \in Nat
        OBVIOUS
    <2> QED BY <1>2, <2>1, WordTakes, Zenon
<1>4. more \in Seq(Bytes) /\ Len(more) \in Nat
    <2> HIDE DEF more
    <2> QED BY <1>3, TakesFacts
<1>5. /\ ~(Len(more) < 2 * n)
      /\ r = Read(Text(s), SubSeq(more, 2 * n + 1, Len(more)))
    BY <1>1, <1>2 DEF decodeString
<1>6. r.value = Text(s) /\ r.rest = SubSeq(more, 2 * n + 1, Len(more))
    <2> HIDE DEF r, s, n, more
    <2> QED BY <1>5, ReadIs, Zenon
<1> HIDE DEF r, count, n, more
<1>7. 2 * n \in Nat /\ 2 * n <= Len(more)
    BY <1>3, <1>4, <1>5
<1>8. Len(Units(s)) = n
    BY <1>3, <1>4, <1>7, NarrowIs
<1>9. Takes(more, r.rest, 2 * n)
    BY <1>4, <1>6, <1>7, TakesFirst
<1> HIDE DEF s
<1>10. Takes(buf, r.rest, 4 + 2 * n)
    BY <1>3, <1>9, TakesBoth
<1>11. ASSUME NEW f PROVE SizeOf(f, t, r.value) = 4 + 2 * n
    <2>1. Text(s).s = s
        BY DEF Text
    <2> QED BY <1>6, <1>8, <2>1, Zenon DEF SizeOf
<1> QED BY <1>10, <1>11 DEF r

\* A text with a terminator takes its units and the terminator.
LEMMA CharsExact == ASSUME NEW t \in Types, t.kind = "chars" PROVE Exact(t)
<1> SUFFICES ASSUME NEW at \in Places, NEW buf \in Seq(Bytes),
                    decodeType(decodeValue, t, at, buf) # Error
             PROVE  LET r == decodeType(decodeValue, t, at, buf)
                    IN  \E n : Takes(buf, r.rest, n) /\ \A f : SizeOf(f, t, r.value) = n
    BY ExactIf, Zenon
<1> DEFINE r == decodeType(decodeValue, t, at, buf)
           n == Least(Zeroes(buf))  s == Runes[Narrow(buf, n)]
<1>1. r = decodeChars(buf)
    BY DEF decodeType
<1>2. Zeroes(buf) # {} /\ r = Read(Text(s), SubSeq(buf, 2 * n + 3, Len(buf)))
    BY <1>1 DEF decodeChars, Terminated
<1>3. n \in Zeroes(buf)
    <2>1. Zeroes(buf) \subseteq Nat
        BY DEF Zeroes
    <2>2. \E k \in Zeroes(buf) : \A j \in Zeroes(buf) : k <= j
        BY <1>2, <2>1, NatLeast
    <2> QED BY <2>2, Zenon DEF Least
<1>4. r.value = Text(s) /\ r.rest = SubSeq(buf, 2 * n + 3, Len(buf))
    <2> HIDE DEF r, s, n
    <2> QED BY <1>2, ReadIs, Zenon
<1> HIDE DEF r, n
<1>5. /\ n \in Nat /\ Len(buf) \in Nat /\ 2 * n <= Len(buf)
      /\ 2 * n + 2 \in Nat /\ 2 * n + 2 <= Len(buf) /\ (2 * n + 2) + 1 = 2 * n + 3
    <2>1. n \in 0 .. (Len(buf) \div 2) - 1 /\ Len(buf) \in Nat
        BY <1>3 DEF Zeroes
    <2> QED BY <2>1
<1>6. Len(Units(s)) = n
    BY <1>5, NarrowIs
<1>7. Takes(buf, r.rest, 2 * n + 2)
    <2>1. Takes(buf, SubSeq(buf, (2 * n + 2) + 1, Len(buf)), 2 * n + 2)
        BY <1>5, TakesFirst
    <2> QED BY <1>4, <1>5, <2>1
<1> HIDE DEF s
<1>8. ASSUME NEW f PROVE SizeOf(f, t, r.value) = 2 * n + 2
    <2>1. Text(s).s = s
        BY DEF Text
    <2> QED BY <1>4, <1>6, <2>1, Zenon DEF SizeOf
<1> QED BY <1>7, <1>8 DEF r

\* The first n values of types, one behind the other, are what is taken of buf.
SizesOf(types, seen) == [i \in 1 .. Len(seen) |-> Size(types[i], seen[i])]

Spent(types, seen, buf, rest) ==
    /\ \E V : seen \in Seq(V)
    /\ Takes(buf, rest, Total(Len(seen), SizesOf(types, seen)))
    /\ \A i \in 1 .. Len(seen) : Steady(types[i], seen[i])

\* One value more on a sequence of whatever values.
LEMMA OneMore ==
    ASSUME NEW s, \E V : s \in Seq(V), NEW v
    PROVE  /\ \E V : Append(s, v) \in Seq(V)
           /\ Len(s) \in Nat /\ Len(Append(s, v)) = Len(s) + 1
           /\ DOMAIN s = 1 .. Len(s) /\ Append(s, v)[Len(s) + 1] = v
           /\ \A i \in 1 .. Len(s) : Append(s, v)[i] = s[i]
<1>1. PICK V : s \in Seq(V)
    OBVIOUS
<1> DEFINE W == V \cup {v}
<1>2. V \subseteq W /\ v \in W
    OBVIOUS
<1> HIDE DEF W
<1>3. s \in Seq(W)
    BY <1>1, <1>2, SeqWider
<1>4. Append(s, v) \in Seq(W)
    BY <1>2, <1>3
<1> QED BY <1>2, <1>3, <1>4

\* Nothing is taken for no values.
LEMMA SpentNone ==
    ASSUME NEW types, NEW buf \in Seq(Bytes)
    PROVE  Spent(types, <<>>, buf, buf)
<1>1. \E V : <<>> \in Seq(V)
    <2>1. <<>> \in Seq(Nat)
        OBVIOUS
    <2> QED BY <2>1
<1>2. Len(<<>>) = 0
    OBVIOUS
<1>3. Takes(buf, buf, Total(0, SizesOf(types, <<>>)))
    <2>1. Total(0, SizesOf(types, <<>>)) = 0
        BY TotalSteps
    <2> QED BY <2>1, TakesNone
<1>4. \A i \in 1 .. 0 : Steady(types[i], <<>>[i])
    OBVIOUS
<1> QED BY <1>1, <1>2, <1>3, <1>4 DEF Spent

\* One value more takes its bytes.
LEMMA SpentMore ==
    ASSUME NEW types, NEW seen, NEW buf, NEW rest, Spent(types, seen, buf, rest),
           NEW n, Len(seen) = n,
           NEW t, types[n + 1] = t, Exact(t), NEW at \in Places, decodeValue[t][<<at, rest>>] # Error
    PROVE  LET next == decodeValue[t][<<at, rest>>]
           IN  Spent(types, Append(seen, next.value), buf, next.rest)
<1> DEFINE next == decodeValue[t][<<at, rest>>]  v == next.value  more == Append(seen, v)
           a == SizesOf(types, seen)  b == SizesOf(types, more)
<1>1. /\ \E V : more \in Seq(V)
      /\ n \in Nat /\ Len(more) = n + 1 /\ more[n + 1] = v
      /\ \A i \in 1 .. n : more[i] = seen[i]
    <2>1. \E V : seen \in Seq(V)
        BY DEF Spent
    <2> HIDE DEF next
    <2> QED BY <2>1, OneMore, Zenon
<1>2. Takes(buf, rest, Total(n, a)) /\ \A i \in 1 .. n : Steady(types[i], seen[i])
    BY DEF Spent
<1>3. rest \in Seq(Bytes)
    BY <1>2, TakesFacts
<1>4. Takes(rest, next.rest, Size(t, v)) /\ Steady(t, v)
    BY <1>3 DEF Exact
<1> HIDE DEF next, v, more
<1>5. b[n + 1] = Size(t, v) /\ \A i \in 1 .. n : a[i] = b[i]
    BY <1>1 DEF SizesOf
<1>6. Total(n + 1, b) = Total(n, a) + Size(t, v)
    <2> HIDE DEF a, b
    <2>1. Total(n, a) = Total(n, b)
        BY <1>1, <1>5, TotalSame, Zenon
    <2>2. Total(n + 1, b) = Total(n, b) + b[n + 1]
        BY <1>1, TotalSteps, Zenon
    <2> QED BY <1>5, <2>1, <2>2
<1>7. Takes(buf, next.rest, Total(n + 1, b))
    <2> HIDE DEF a, b
    <2>1. Takes(buf, next.rest, Total(n, a) + Size(t, v))
        BY <1>2, <1>4, TakesBoth
    <2> QED BY <1>6, <2>1
<1>8. ASSUME NEW i \in 1 .. n + 1 PROVE Steady(types[i], more[i])
    <2>1. i \in 1 .. n \/ i = n + 1
        BY <1>1
    <2> QED BY <1>1, <1>2, <1>4, <2>1
<1>9. Spent(types, more, buf, next.rest)
    BY <1>1, <1>7, <1>8 DEF Spent
<1> QED BY <1>9 DEF next, v, more

\* A type for each item.
Alike(e) == [i \in Nat |-> e]

\* Items take their bytes one behind the other.
LEMMA ItemsSpent ==
    ASSUME NEW n \in Nat, NEW e \in Types, Exact(e), NEW at \in Places, NEW buf \in Seq(Bytes),
           decodeItems(n, decodeValue[e], at, buf) # Error
    PROVE  LET r == decodeItems(n, decodeValue[e], at, buf)
           IN  \E items : /\ r.value = Items(items) /\ Len(items) = n
                          /\ Spent(Alike(e), items, buf, r.rest)
<1> DEFINE F == FirstItems(n, decodeValue[e], at, buf)
           Good(k, r) == \E items : /\ r.value = Items(items) /\ Len(items) = k
                                    /\ Spent(Alike(e), items, buf, r.rest)
           S == {k \in Nat : k <= n /\ F[k] # Error => Good(k, F[k])}
<1>1. /\ decodeItems(n, decodeValue[e], at, buf) = F[n]
      /\ F[0] = Read(Items(<<>>), buf)
      /\ \A k \in Nat : k < n => F[k + 1] = Appended(F[k], decodeValue[e], at)
    BY ItemsSteps
<1> HIDE DEF F
<1>2. 0 \in S
    <2>1. F[0].value = Items(<<>>) /\ F[0].rest = buf /\ Len(<<>>) = 0
        BY <1>1, ReadIs
    <2>2. Spent(Alike(e), <<>>, buf, F[0].rest)
        BY <2>1, SpentNone
    <2>3. Good(0, F[0])
        BY <2>1, <2>2
    <2> HIDE DEF Good
    <2> QED BY <2>3
<1>3. ASSUME NEW k \in Nat, k \in S PROVE k + 1 \in S
    <2> SUFFICES ASSUME k + 1 <= n, F[k + 1] # Error PROVE Good(k + 1, F[k + 1])
        <3> HIDE DEF Good
        <3> QED OBVIOUS
    <2>1. k < n /\ k <= n
        OBVIOUS
    <2> DEFINE next == decodeValue[e][<<at, F[k].rest>>]
    <2>2. F[k + 1] = Appended(F[k], decodeValue[e], at)
        BY <1>1, <2>1
    <2>3. /\ F[k] # Error /\ next # Error
          /\ F[k + 1] = Read(Items(Append(F[k].value.items, next.value)), next.rest)
        BY <2>2 DEF Appended
    <2>4. Good(k, F[k])
        <3> HIDE DEF Good
        <3> QED BY <1>3, <2>1, <2>3
    <2>5. PICK items : /\ F[k].value = Items(items) /\ Len(items) = k
                       /\ Spent(Alike(e), items, buf, F[k].rest)
        BY <2>4
    <2>6. F[k].value.items = items
        BY <2>5 DEF Items
    <2>7. Alike(e)[k + 1] = e
        BY DEF Alike
    <2>8. Spent(Alike(e), Append(items, next.value), buf, next.rest)
        BY <2>3, <2>5, <2>7, SpentMore
    <2> HIDE DEF next
    <2>9. Len(Append(items, next.value)) = k + 1
        <3>1. \E V : items \in Seq(V)
            BY <2>5 DEF Spent
        <3> QED BY <2>5, <3>1, OneMore
    <2>10. F[k + 1].value = Items(Append(items, next.value)) /\ F[k + 1].rest = next.rest
        BY <2>3, <2>6, ReadIs
    <2> QED BY <2>8, <2>9, <2>10, Zenon
<1> HIDE DEF S
<1>4. n \in S
    BY <1>2, <1>3, NatSet
<1>5. Good(n, F[n])
    <2> HIDE DEF Good
    <2>1. n <= n /\ F[n] # Error
        BY <1>1
    <2> QED BY <1>4, <2>1 DEF S
<1> QED BY <1>1, <1>5

\* The size of an array and of a list, from those of its items.
LEMMA ItemsSize ==
    ASSUME NEW t \in Types, t.kind \in {"array", "list"}, NEW items, NEW buf, NEW rest,
           Spent(Alike(t.elem), items, buf, rest)
    PROVE  /\ Size(t, Items(items)) = (IF t.kind = "list" THEN 4 ELSE 0)
                                      + Total(Len(items), SizesOf(Alike(t.elem), items))
           /\ Steady(t, Items(items))
<1> DEFINE e == t.elem  v == Items(items)  sizes == SizesOf(Alike(e), items)
           n == (IF t.kind = "list" THEN 4 ELSE 0) + Total(Len(items), sizes)
<1>1. e \in Types /\ Nesting[e] < Nesting[t]
    BY TypeFacts
<1>2. Len(items) \in Nat /\ DOMAIN items = 1 .. Len(items)
    <2>1. \E V : items \in Seq(V)
        BY DEF Spent
    <2> QED BY <2>1, OneMore
<1>3. \A i \in 1 .. Len(items) : Steady(e, items[i]) /\ sizes[i] = Size(e, items[i])
    BY <1>2 DEF Spent, Alike, SizesOf
<1>4. ASSUME NEW i \in 1 .. Len(items) PROVE items[i] \in Inner(v)
    <2>1. v.go = "[]any" /\ v.items = items
        BY DEF Items
    <2> HIDE DEF v
    <2>2. Inner(v) = {items[j] : j \in DOMAIN items}
        BY <2>1 DEF Inner, ToSet
    <2> QED BY <1>2, <2>2
<1>5. ASSUME NEW values, NEW k \in Nat, Nesting[t] <= k, Inside(v, k) \subseteq values
      PROVE  SizeOf(SizesIn(values), t, v) = n
    <2> DEFINE f == SizesIn(values)
    <2>1. \A i \in 1 .. Len(items) : f[e][items[i]] = sizes[i]
        <3> HIDE DEF v, e, sizes
        <3> QED BY <1>1, <1>3, <1>4, <1>5, InnerSteady
    <2> HIDE DEF f
    <2>2. [i \in DOMAIN items |-> f[e][items[i]]] = sizes
        <3>1. sizes = [i \in 1 .. Len(items) |-> sizes[i]]
            BY DEF SizesOf
        <3> HIDE DEF sizes
        <3> QED BY <1>2, <2>1, <3>1
    <2>3. v.items = items
        BY DEF Items
    <2> HIDE DEF v, sizes
    <2>4. SizeOf(f, t, v) = (IF t.kind = "list" THEN 4 ELSE 0) + Total(Len(items), sizes)
        BY <2>2, <2>3, Zenon DEF SizeOf
    <2> QED BY <2>4 DEF f
<1> HIDE DEF n, v
<1>6. Size(t, v) = n /\ Steady(t, v)
    BY <1>5, SizeAt, Zenon
<1> QED BY <1>6 DEF n, v

\* An array takes the bytes of its items.
LEMMA ArrayExact ==
    ASSUME NEW t \in Types, t.kind = "array", Exact(t.elem)
    PROVE  Exact(t)
<1> SUFFICES ASSUME NEW at \in Places, NEW buf \in Seq(Bytes), decodeValue[t][<<at, buf>>] # Error
             PROVE  LET r == decodeValue[t][<<at, buf>>]
                    IN  Takes(buf, r.rest, Size(t, r.value)) /\ Steady(t, r.value)
    BY DEF Exact
<1> DEFINE r == decodeValue[t][<<at, buf>>]  e == t.elem  n == fixedArrays[at]
<1>1. r = decodeArray(decodeValue[e], at, buf)
    BY ValueAt DEF decodeType
<1>2. at \in DOMAIN fixedArrays /\ r = decodeItems(n, decodeValue[e], at, buf)
    BY <1>1 DEF decodeArray
<1>3. e \in Types /\ n \in Nat
    BY <1>2, TypeFacts, CatalogAssumption DEF Tables
<1> HIDE DEF r, n
<1>4. PICK items : r.value = Items(items) /\ Len(items) = n /\ Spent(Alike(e), items, buf, r.rest)
    <2> HIDE DEF e
    <2>1. decodeItems(n, decodeValue[e], at, buf) # Error /\ Exact(e)
        BY <1>2 DEF r, e
    <2> QED BY <1>2, <1>3, <2>1, ItemsSpent
<1>5. Size(t, r.value) = 0 + Total(Len(items), SizesOf(Alike(e), items)) /\ Steady(t, r.value)
    BY <1>4, ItemsSize, Zenon
<1>6. Takes(buf, r.rest, Total(Len(items), SizesOf(Alike(e), items)))
    BY <1>4 DEF Spent
<1>7. 0 + Total(Len(items), SizesOf(Alike(e), items)) = Total(Len(items), SizesOf(Alike(e), items))
    BY <1>6, TakesFacts
<1> QED BY <1>5, <1>6, <1>7 DEF r

\* A list takes the bytes of its count and its items.
LEMMA ListExact ==
    ASSUME NEW t \in Types, t.kind = "list", Exact(t.elem)
    PROVE  Exact(t)
<1> SUFFICES ASSUME NEW at \in Places, NEW buf \in Seq(Bytes), decodeValue[t][<<at, buf>>] # Error
             PROVE  LET r == decodeValue[t][<<at, buf>>]
                    IN  Takes(buf, r.rest, Size(t, r.value)) /\ Steady(t, r.value)
    BY DEF Exact
<1> DEFINE r == decodeValue[t][<<at, buf>>]  e == t.elem
           count == readWord(buf, 4)  n == count.value  more == count.rest
<1>1. r = decodeList(decodeValue[e], at, buf)
    BY ValueAt DEF decodeType
<1>2. count # Error /\ r = decodeItems(n, decodeValue[e], at, more)
    BY <1>1 DEF decodeList
<1>3. e \in Types /\ n \in Nat /\ Takes(buf, more, 4)
    <2>1. 4 \in Nat
        OBVIOUS
    <2>2. n \in Nat /\ Takes(buf, more, 4)
        BY <1>2, <2>1, WordTakes, Zenon
    <2> QED BY <2>2, TypeFacts
<1> HIDE DEF r, count, n, more
<1>4. PICK items : r.value = Items(items) /\ Len(items) = n /\ Spent(Alike(e), items, more, r.rest)
    <2> HIDE DEF e
    <2>1. decodeItems(n, decodeValue[e], at, more) # Error /\ Exact(e)
        BY <1>2 DEF r, e
    <2>2. more \in Seq(Bytes)
        BY <1>3, TakesFacts
    <2> QED BY <1>2, <1>3, <2>1, <2>2, ItemsSpent
<1>5. Size(t, r.value) = 4 + Total(Len(items), SizesOf(Alike(e), items)) /\ Steady(t, r.value)
    BY <1>4, ItemsSize, Zenon
<1>6. Takes(more, r.rest, Total(Len(items), SizesOf(Alike(e), items)))
    BY <1>4 DEF Spent
<1>7. Takes(buf, r.rest, 4 + Total(Len(items), SizesOf(Alike(e), items)))
    BY <1>3, <1>6, TakesBoth
<1> QED BY <1>5, <1>7 DEF r

\* A type for each field.
TypesOf(fields) == [i \in DOMAIN fields |-> fields[i].type]

\* The fields that are decoded take their bytes one behind the other.
LEMMA FieldsSpent ==
    ASSUME NEW owner \in STRING, NEW fields, Layout(fields, Types),
           \A i \in DOMAIN fields : Exact(fields[i].type), NEW buf \in Seq(Bytes)
    PROVE  LET r == decodeFields(Each(decodeValue, fields), owner, fields, buf)
           IN  Len(r.seen) <= Len(fields) /\ Spent(TypesOf(fields), r.seen, buf, r.rest)
<1> DEFINE n == Len(fields)  decoders == Each(decodeValue, fields)
           F == FirstFields(decoders, owner, fields, buf)
           Good(k, r) == Len(r.seen) <= k /\ Spent(TypesOf(fields), r.seen, buf, r.rest)
           S == {k \in Nat : k <= n => Good(k, F[k])}
<1>1. /\ n \in Nat /\ DOMAIN fields = 1 .. n
      /\ \A i \in 1 .. n : fields[i].name \in STRING /\ fields[i].type \in Types
    BY LayoutIs
<1>2. /\ decodeFields(decoders, owner, fields, buf) = F[n]
      /\ F[0] = [seen |-> <<>>, rest |-> buf]
      /\ \A k \in Nat : k < n =>
            F[k + 1] = Proceed(F[k], k + 1, decoders[k + 1], <<owner, fields[k + 1].name>>)
    <2>1. FieldByField(decoders, owner, fields, buf)
        BY <1>1, FieldsSteps
    <2> QED BY <2>1 DEF FieldByField
<1> HIDE DEF F
<1>3. 0 \in S
    <2>1. F[0].seen = <<>> /\ F[0].rest = buf /\ Len(<<>>) <= 0
        BY <1>2
    <2>2. Spent(TypesOf(fields), F[0].seen, buf, F[0].rest)
        BY <2>1, SpentNone
    <2>3. Good(0, F[0])
        BY <2>1, <2>2
    <2> HIDE DEF Good
    <2> QED BY <2>3
<1>4. ASSUME NEW k \in Nat, k \in S PROVE k + 1 \in S
    <2> SUFFICES ASSUME k + 1 <= n PROVE Good(k + 1, F[k + 1])
        <3> HIDE DEF Good
        <3> QED OBVIOUS
    <2> DEFINE t == fields[k + 1].type  at == <<owner, fields[k + 1].name>>  f == F[k]
               next == decodeValue[t][<<at, f.rest>>]
    <2>1. k < n /\ k <= n /\ k + 1 \in DOMAIN fields
        BY <1>1
    <2>2. decoders[k + 1] = decodeValue[t] /\ at \in Places /\ Exact(t) /\ TypesOf(fields)[k + 1] = t
        BY <1>1, <2>1 DEF Each, Places, TypesOf
    <2>3. F[k + 1] = Proceed(f, k + 1, decodeValue[t], at)
        BY <1>2, <2>1, <2>2
    <2>4. Good(k, f)
        <3> HIDE DEF Good
        <3> QED BY <1>4, <2>1
    <2>5. Len(f.seen) \in Nat /\ (k + 1) - 1 = k
        <3>1. \E V : f.seen \in Seq(V)
            BY <2>4 DEF Spent
        <3> QED BY <3>1, OneMore
    <2> HIDE DEF decoders, f, t, at
    <2>6. CASE F[k + 1] = f
        BY <2>4, <2>5, <2>6
    <2>7. CASE F[k + 1] # f
        <3>1. ~(Len(f.seen) < k) /\ next # Error
              /\ F[k + 1] = [seen |-> Append(f.seen, next.value), rest |-> next.rest]
            BY <2>3, <2>5, <2>7 DEF Proceed
        <3>2. Len(f.seen) = k
            BY <2>4, <2>5, <3>1
        <3>3. Spent(TypesOf(fields), Append(f.seen, next.value), buf, next.rest)
            BY <2>2, <2>4, <3>1, <3>2, SpentMore, Zenon
        <3> HIDE DEF next
        <3>4. Len(Append(f.seen, next.value)) = k + 1
            <4>1. \E V : f.seen \in Seq(V)
                BY <2>4 DEF Spent
            <4> QED BY <3>2, <4>1, OneMore
        <3>5. F[k + 1].seen = Append(f.seen, next.value) /\ F[k + 1].rest = next.rest
            BY <3>1
        <3> QED BY <3>3, <3>4, <3>5
    <2> QED BY <2>6, <2>7
<1> HIDE DEF S
<1>5. n \in S
    BY <1>1, <1>3, <1>4, NatSet
<1>6. Good(n, F[n])
    <2> HIDE DEF Good
    <2>1. n <= n
        BY <1>1
    <2> QED BY <1>5, <2>1 DEF S
<1> QED BY <1>2, <1>6

\* The values of the fields by their names.
LEMMA SeenByName ==
    ASSUME NEW fields, Layout(fields, Types), NEW seen, \E V : seen \in Seq(V),
           Len(seen) <= Len(fields)
    PROVE  /\ DOMAIN ByName(fields, seen) = Names(fields, Len(seen))
           /\ \A i \in 1 .. Len(seen) : ByName(fields, seen)[fields[i].name] = seen[i]
<1> DEFINE n == Len(seen)
<1>1. n \in Nat /\ seen = [i \in 1 .. n |-> seen[i]]
    <2>1. PICK V : seen \in Seq(V)
        OBVIOUS
    <2> QED BY <2>1
<1> HIDE DEF n
<1>2. seen = FirstOf(seen, n)
    BY <1>1 DEF FirstOf
<1>3. n \in 0 .. Len(fields)
    BY <1>1, LayoutIs DEF n
<1>4. /\ DOMAIN ByName(fields, FirstOf(seen, n)) = Names(fields, n)
      /\ \A i \in 1 .. n : ByName(fields, FirstOf(seen, n))[fields[i].name] = seen[i]
    BY <1>3, ByNameIs
<1> QED BY <1>2, <1>4 DEF n

\* The size of a nested type, from those of its fields.
LEMMA StructSize ==
    ASSUME NEW t \in Types, t.kind = "struct", t.name \in DOMAIN structs,
           NEW fields, fields = structs[t.name],
           NEW seen, NEW buf, NEW rest, Spent(TypesOf(fields), seen, buf, rest), Len(seen) = Len(fields)
    PROVE  LET v == Values(ByName(fields, seen))
           IN  /\ Size(t, v) = Len(OpcodePrefix(t.name)) + Total(Len(seen), SizesOf(TypesOf(fields), seen))
               /\ Steady(t, v)
<1> DEFINE named == ByName(fields, seen)  v == Values(named)
           sizes == SizesOf(TypesOf(fields), seen)
           n == Len(OpcodePrefix(t.name)) + Total(Len(seen), sizes)
<1>1. /\ Layout(fields, Types) /\ Len(fields) \in Nat /\ DOMAIN fields = 1 .. Len(fields)
      /\ \A i \in 1 .. Len(fields) : fields[i].type \in Types /\ Nesting[fields[i].type] < Nesting[t]
    <2>1. Layout(fields, Types)
        BY CatalogAssumption DEF Tables
    <2>2. Len(fields) \in Nat /\ DOMAIN fields = 1 .. Len(fields)
        BY <2>1, LayoutIs
    <2> QED BY <2>1, <2>2, TypeFacts
<1>2. /\ DOMAIN named = Names(fields, Len(fields))
      /\ \A i \in 1 .. Len(fields) : named[fields[i].name] = seen[i]
    <2>1. \E V : seen \in Seq(V)
        BY DEF Spent
    <2>2. Len(seen) <= Len(fields)
        BY <1>1
    <2> QED BY <1>1, <2>1, <2>2, SeenByName
<1> HIDE DEF named
<1>3. \A i \in 1 .. Len(fields) : /\ Steady(fields[i].type, seen[i])
                                  /\ sizes[i] = Size(fields[i].type, seen[i])
    BY <1>1, Zenon DEF Spent, TypesOf, SizesOf
<1>4. ASSUME NEW i \in 1 .. Len(fields) PROVE seen[i] \in Inner(v)
    <2>1. v.go = "Values" /\ v.fields = named
        BY DEF Values
    <2> HIDE DEF v
    <2>2. Inner(v) = {named[f] : f \in DOMAIN named}
        BY <2>1 DEF Inner
    <2>3. fields[i].name \in DOMAIN named
        BY <1>2, Zenon DEF Names
    <2> QED BY <1>2, <2>2, <2>3
<1>5. ASSUME NEW values, NEW k \in Nat, Nesting[t] <= k, Inside(v, k) \subseteq values
      PROVE  SizeOf(SizesIn(values), t, v) = n
    <2> DEFINE f == SizesIn(values)
    <2>1. \A i \in 1 .. Len(fields) : f[fields[i].type][seen[i]] = sizes[i]
        <3> HIDE DEF v, sizes
        <3> QED BY <1>1, <1>3, <1>4, <1>5, InnerSteady
    <2> HIDE DEF f
    <2>2. [i \in DOMAIN fields |-> f[fields[i].type][named[fields[i].name]]] = sizes
        <3>1. sizes = [i \in 1 .. Len(fields) |-> sizes[i]]
            BY DEF SizesOf
        <3> HIDE DEF sizes
        <3> QED BY <1>1, <1>2, <2>1, <3>1, Zenon
    <2>3. v.fields = named
        BY DEF Values
    <2> HIDE DEF v, sizes
    <2>4. SizeOf(f, t, v) = Len(OpcodePrefix(t.name)) + Total(Len(fields), sizes)
        BY <2>2, <2>3 DEF SizeOf
    <2> QED BY <2>4 DEF f
<1> HIDE DEF n, v
<1>6. Size(t, v) = n /\ Steady(t, v)
    BY <1>5, SizeAt, Zenon
<1> QED BY <1>6 DEF n, v, named

\* A nested type takes the bytes of its prefix and its fields.
LEMMA StructExact ==
    ASSUME NEW t \in Types, t.kind = "struct",
           t.name \in DOMAIN structs =>
              \A i \in DOMAIN structs[t.name] : Exact(structs[t.name][i].type)
    PROVE  Exact(t)
<1> SUFFICES ASSUME NEW at \in Places, NEW buf \in Seq(Bytes), decodeValue[t][<<at, buf>>] # Error
             PROVE  LET r == decodeValue[t][<<at, buf>>]
                    IN  Takes(buf, r.rest, Size(t, r.value)) /\ Steady(t, r.value)
    BY DEF Exact
<1> DEFINE r == decodeValue[t][<<at, buf>>]  name == t.name  fields == structs[name]
           n == Len(OpcodePrefix(name))  more == SubSeq(buf, n + 1, Len(buf))
           f == decodeFields(Each(decodeValue, fields), name, fields, more)
<1>1. name \in DOMAIN structs /\ r = decodeStruct(Each(decodeValue, fields), name, buf)
    BY ValueAt DEF decodeType
<1>2. ~(Len(buf) < n) /\ r = Complete(fields, f)
    BY <1>1 DEF decodeStruct
<1>3. n \in Nat /\ n <= Len(buf) /\ name \in STRING /\ Layout(fields, Types) /\ Len(fields) \in Nat
    <2>1. OpcodePrefix(name) \in Seq(Bytes)
        BY PrefixIs
    <2>2. n \in Nat /\ Len(buf) \in Nat
        BY <2>1
    <2>3. name \in STRING /\ Layout(fields, Types)
        BY <1>1, CatalogAssumption DEF Tables
    <2>4. Len(fields) \in Nat
        BY <2>3, LayoutIs
    <2> HIDE DEF n
    <2> QED BY <1>2, <2>2, <2>3, <2>4
<1> HIDE DEF r, n, more
<1>4. Takes(buf, more, n) /\ more \in Seq(Bytes)
    <2>1. Takes(buf, more, n)
        BY <1>3, TakesFirst DEF more
    <2> QED BY <2>1, TakesFacts
<1>5. Len(f.seen) <= Len(fields) /\ Spent(TypesOf(fields), f.seen, more, f.rest)
    <2>1. \A i \in DOMAIN fields : Exact(fields[i].type)
        BY <1>1
    <2> HIDE DEF fields, name
    <2> QED BY <1>3, <1>4, <2>1, FieldsSpent
<1>6. Len(f.seen) \in Nat
    <2>1. \E V : f.seen \in Seq(V)
        BY <1>5 DEF Spent
    <2> HIDE DEF f
    <2> QED BY <2>1, OneMore
<1> DEFINE seen == f.seen  v == Values(ByName(fields, seen))
<1>7. Len(seen) = Len(fields) /\ r.value = v /\ r.rest = f.rest
    <2>1. r # Error
        BY DEF r
    <2> HIDE DEF f
    <2>2. ~(Len(f.seen) < Len(fields)) /\ r = Read(v, f.rest)
        BY <1>2, <2>1 DEF Complete
    <2> QED BY <1>3, <1>5, <1>6, <2>2, ReadIs
<1> HIDE DEF f, seen
<1>8. /\ Size(t, v) = n + Total(Len(seen), SizesOf(TypesOf(fields), seen))
      /\ Steady(t, v)
    <2>1. Spent(TypesOf(fields), seen, more, f.rest)
        BY <1>5 DEF seen
    <2> QED BY <1>1, <1>7, <2>1, StructSize, Zenon DEF n
<1>9. Takes(more, r.rest, Total(Len(seen), SizesOf(TypesOf(fields), seen)))
    BY <1>5, <1>7 DEF Spent, seen
<1>10. Takes(buf, r.rest, n + Total(Len(seen), SizesOf(TypesOf(fields), seen)))
    BY <1>4, <1>9, TakesBoth
<1> HIDE DEF v
<1> QED BY <1>7, <1>8, <1>10 DEF r

\* Whatever type the catalogue has, what decodeValue takes are the bytes of the value.
LEMMA AllExact == \A t \in Types : Exact(t)
<1> DEFINE S == {t \in Types : Exact(t)}
<1>1. ASSUME NEW t \in Types, \A u \in Types : Nesting[u] < Nesting[t] => u \in S
      PROVE  t \in S
    <2>1. CASE t.kind \in {"array", "list"}
        <3>1. Exact(t.elem)
            BY <1>1, <2>1, TypeFacts
        <3> QED BY <2>1, <3>1, ArrayExact, ListExact
    <2>2. CASE t.kind = "struct"
        <3>1. t.name \in DOMAIN structs =>
                  \A i \in DOMAIN structs[t.name] : Exact(structs[t.name][i].type)
            BY <1>1, <2>2, TypeFacts
        <3> QED BY <2>2, <3>1, StructExact
    <2>3. CASE t.kind \in {"integer", "float", "boolean", "string", "chars"}
        BY <2>3, NumberExact, StringExact, CharsExact
    <2>4. t.kind \in {"array", "list", "struct", "integer", "float", "boolean", "string", "chars"}
        <3>1. \/ t \in Scalars \/ t \in [kind : {"array", "list"}, elem : Types]
              \/ t \in [kind : {"struct"}, name : STRING]
            BY TypesAssumption DEF Deeper
        <3> QED BY <3>1 DEF Scalars
    <2> QED BY <2>1, <2>2, <2>3, <2>4
<1>2. DecodeIs!Ranks(0)
    BY TypeFacts DEF DecodeIs!Ranks, TypesDom, TypesRank
<1> HIDE DEF S
<1>3. \A x \in TypesDom(0) :
          (\A y \in TypesDom(0) : TypesRank(0, y) < TypesRank(0, x) => y \in S) => x \in S
    BY <1>1 DEF TypesDom, TypesRank
<1>4. \A t \in TypesDom(0) : t \in S
    BY <1>2, <1>3, DecodeIs!RankInduction
<1> QED BY <1>4 DEF S, TypesDom

================================================================================

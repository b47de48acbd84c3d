--------------------------- MODULE TransportProofs ---------------------------
(***************************************************************************)
(* Proofs about the module Transport, for every set of messages, every     *)
(* size of them, also of those that no frame can hold, every block and     *)
(* every length field.                                                     *)
(*                                                                         *)
(* The invariant of both directions is a chain: the frames in flight carry *)
(* the messages that follow the ones received, and each starts where the   *)
(* whole blocks of the one before it end; the first one starts at the      *)
(* block count of the receiver, and the next one will start at that of the *)
(* sender.  The handshake frame stands in front of the chain of its        *)
(* direction until the client has it.                                      *)
(*                                                                         *)
(* The last part is about the modules Rabbit and Ciphers, for every size   *)
(* of a word and all increments below the largest word: one turn of the    *)
(* loop keeps the sum of its word and the carry, and eight turns keep that *)
(* of the number they make up.  From there to any number of blocks is an   *)
(* induction (module Recursion).                                           *)
(***************************************************************************)
EXTENDS Ciphers, Recursion

-----------------------------------------------------------------------------
(* Blocks and ciphers.                                                     *)

\* The keystream that a body takes up, in bytes.
Span(size) == Blocks(size) * BlockSize

\* The whole blocks of a body are at least as long as the body (crypt).
LEMMA SpanCovers ==
    ASSUME NEW size \in Nat
    PROVE  Blocks(size) \in Nat /\ Span(size) \in Nat /\ size <= Span(size)
<1>1. BlockSize \in Nat /\ BlockSize > 0
    BY TransportAssumption
<1>2. Blocks(size) \in Nat
    BY <1>1, SMT DEF Blocks
<1>3. Span(size) \in Nat
    BY <1>1, <1>2, SMT DEF Span
<1>4. size <= Span(size)
    BY <1>1, SMT DEF Span, Blocks
<1> QED BY <1>2, <1>3, <1>4

\* Counts of blocks add up (Rabbit.Keystream).
LEMMA BlocksAdd ==
    ASSUME NEW made \in Nat, NEW size \in Nat
    PROVE  /\ made * BlockSize \in Nat
           /\ (made + Blocks(size)) * BlockSize = made * BlockSize + Span(size)
<1>1. BlockSize \in Nat
    BY TransportAssumption
<1>2. Blocks(size) \in Nat
    BY SpanCovers
<1> QED BY <1>1, <1>2, SMT DEF Span

Fresh == {c \in Cipher : c.spare = 0}

\* A cipher without spare bytes has none after a body either, and has made the
\* whole blocks of it (crypt).
LEMMA CryptMakesBlocks ==
    ASSUME NEW c \in Fresh, NEW size \in Nat
    PROVE  /\ crypt(c, size) = [made |-> c.made + Blocks(size), spare |-> 0]
           /\ crypt(c, size) \in Fresh
           /\ Offset(c) = c.made * BlockSize /\ Offset(c) \in Nat
           /\ Offset(crypt(c, size)) = Offset(c) + Span(size)
<1> DEFINE blocks == Blocks(size)
           made   == (blocks * BlockSize + BlockSize - 1) \div BlockSize
<1>1. BlockSize \in Nat /\ BlockSize > 0
    BY TransportAssumption
<1>2. blocks \in Nat
    BY SpanCovers
<1>3. c.made \in Nat /\ c.spare = 0
    BY DEF Fresh, Cipher
<1>4. made = blocks /\ blocks * BlockSize \in Nat
    BY <1>1, <1>2, SMT
<1>5. blocks * BlockSize <= 0 => blocks = 0
    BY <1>1, <1>2, SMT
<1>6. crypt(c, size) = Keystream(c, blocks * BlockSize)
    BY DEF crypt, Blocks
<1> HIDE DEF blocks
<1>7. Keystream(c, blocks * BlockSize) = [made |-> c.made + blocks, spare |-> 0]
    <2> DEFINE n == blocks * BlockSize
    <2> HIDE DEF n
    <2>1. n \in Nat /\ (n + BlockSize - 1) \div BlockSize = blocks /\ (n <= 0 => blocks = 0)
        BY <1>4, <1>5 DEF n
    <2>2. Keystream(c, n) = [made |-> c.made + blocks, spare |-> blocks * BlockSize - n]
        <3>1. c.spare + blocks * BlockSize - n = blocks * BlockSize - n /\ n - c.spare = n
            BY <1>1, <1>2, <1>3, <2>1, <1>4
        <3>2. CASE n <= 0
            BY <2>1, <3>1, <3>2 DEF Keystream
        <3>3. CASE ~(n <= 0)
            BY <2>1, <3>1, <3>3 DEF Keystream
        <3> QED BY <3>2, <3>3
    <2>3. blocks * BlockSize - n = 0
        BY <2>1 DEF n
    <2> QED BY <2>2, <2>3 DEF n
<1>8. crypt(c, size) = [made |-> c.made + blocks, spare |-> 0]
    BY <1>6, <1>7
<1>9. crypt(c, size) \in Fresh
    BY <1>2, <1>3, <1>8 DEF Fresh, Cipher
<1>10. /\ c.made * BlockSize \in Nat
       /\ (c.made + blocks) * BlockSize = c.made * BlockSize + Span(size)
    BY <1>3, BlocksAdd DEF blocks
<1>11. /\ Offset(c) = c.made * BlockSize
       /\ Offset(crypt(c, size)) = (c.made + blocks) * BlockSize
    BY <1>3, <1>8, <1>10, SpanCovers DEF Offset
<1> QED BY <1>8, <1>9, <1>10, <1>11 DEF blocks

-----------------------------------------------------------------------------
(* Frames.                                                                 *)

\* A frame whose length field says what it holds, if it can.
WellFramed(f) ==
    /\ f \in Frame
    /\ Fits(f.msg) => f.length = SizeOf[f.msg] + HeaderSize

\* The offset behind a frame.
End(f) == f.offset + Span(SizeOf[f.msg])

\* The length of a frame is the right one unless it wraps (writeFrame).
LEMMA FramesFit ==
    ASSUME NEW m \in Messages \cup {Hello}, NEW offset \in Nat \cup {Plain},
           NEW whole \in BOOLEAN
    PROVE  LET f == FrameOf(m, offset, whole)
           IN  /\ WellFramed(f)
               /\ f.msg = m /\ f.offset = offset /\ f.whole = whole
<1>1. SizeOf[m] \in Nat /\ LengthLimit \in Nat /\ LengthLimit > 0
    <2>1. SizeOf[m] \in Nat /\ SizeOf[Hello] \in Nat /\ LengthLimit \in Nat
          /\ SizeOf[Hello] + 2 < LengthLimit
        BY TransportAssumption DEF Fits, HeaderSize
    <2> QED BY <2>1
<1> DEFINE length == (SizeOf[m] + 2) % LengthLimit
<1>2. Fits(m) => length = SizeOf[m] + 2
    <2>1. ASSUME Fits(m) PROVE SizeOf[m] + 2 < LengthLimit
        BY <2>1 DEF Fits, HeaderSize
    <2> QED BY <1>1, <2>1, SMT
<1>3. length \in 0 .. LengthLimit - 1
    BY <1>1, SMT
<1> HIDE DEF length
<1>4. FrameOf(m, offset, whole) =
          [msg |-> m, length |-> length, offset |-> offset, whole |-> whole]
    BY DEF FrameOf, HeaderSize, length
<1>5. FrameOf(m, offset, whole) \in Frame
    BY <1>3, <1>4 DEF Frame
<1> QED BY <1>2, <1>4, <1>5 DEF WellFramed, HeaderSize

\* A well framed body that fits is read as itself at its own offset (Recv).
LEMMA ReadAtOffset ==
    ASSUME NEW f, WellFramed(f)
    PROVE  /\ f.msg \in Messages \cup {Hello} /\ SizeOf[f.msg] \in Nat
           /\ Fits(f.msg) => /\ Reading(f, f.offset) = f.msg
                             /\ f.length - HeaderSize = SizeOf[f.msg]
<1>1. f.msg \in Messages \cup {Hello}
    BY DEF WellFramed, Frame
<1>2. SizeOf[f.msg] \in Nat
    BY <1>1, TransportAssumption
<1>3. ASSUME Fits(f.msg)
      PROVE  Reading(f, f.offset) = f.msg /\ f.length - HeaderSize = SizeOf[f.msg]
    <2>1. f.length = SizeOf[f.msg] + 2
        BY <1>3 DEF WellFramed, HeaderSize
    <2>2. f.length - 2 = SizeOf[f.msg]
        BY <1>2, <2>1
    <2> QED BY <2>1, <2>2 DEF Reading, HeaderSize
<1> QED BY <1>1, <1>2, <1>3

-----------------------------------------------------------------------------
(* Chains.                                                                 *)

\* The frames behind the first skip ones carry the messages of sent behind the
\* first got ones, and each starts where the one before it ends.
Chain(frames, skip, sent, got, start) ==
    \A i \in DOMAIN frames : i > skip =>
        /\ WellFramed(frames[i]) /\ frames[i].msg \in Messages
        /\ frames[i].whole =>
              got + i - skip <= Len(sent) /\ sent[got + i - skip] = frames[i].msg
        /\ frames[i].offset = IF i = skip + 1 THEN start ELSE End(frames[i - 1])
        /\ frames[i].offset \in Nat

\* Where the next frame has to start.
NextStart(frames, skip, start) ==
    IF Len(frames) <= skip THEN start ELSE End(frames[Len(frames)])

\* The last frame carries the last message.
Full(frames, skip, sent, got) == got + Len(frames) - skip = Len(sent)

AllWhole(frames) == \A i \in DOMAIN frames : frames[i].whole
LastCut(frames)  == \A i \in DOMAIN frames : ~frames[i].whole => i = Len(frames)

\* The next frame starts at a natural offset.
LEMMA StartIsNat ==
    ASSUME NEW frames \in Seq(Frame), NEW skip \in Nat, NEW sent, NEW got,
           NEW start \in Nat, Chain(frames, skip, sent, got, start)
    PROVE  NextStart(frames, skip, start) \in Nat
<1>1. CASE Len(frames) <= skip
    BY <1>1 DEF NextStart
<1>2. CASE Len(frames) > skip
    <2> DEFINE f == frames[Len(frames)]
    <2>1. f.offset \in Nat /\ WellFramed(f)
        BY <1>2 DEF Chain
    <2>2. Span(SizeOf[f.msg]) \in Nat
        BY <2>1, ReadAtOffset, SpanCovers
    <2>3. f.offset + Span(SizeOf[f.msg]) \in Nat
        BY <2>1, <2>2
    <2> QED BY <1>2, <2>3 DEF NextStart, End
<1> QED BY <1>1, <1>2

\* The frames are followed by f.
Longer(more, frames, f) ==
    /\ more \in Seq(Frame) /\ Len(more) = Len(frames) + 1 /\ Len(frames) \in Nat
    /\ DOMAIN more = 1 .. Len(frames) + 1 /\ DOMAIN frames = 1 .. Len(frames)
    /\ more[Len(frames) + 1] = f
    /\ \A i \in 1 .. Len(frames) : more[i] = frames[i]

\* The messages told are those sent, and behind them that of a whole frame.
Tells(told, sent, f) ==
    /\ Len(sent) \in Nat /\ Len(sent) <= Len(told)
    /\ \A i \in 1 .. Len(sent) : told[i] = sent[i]
    /\ f.whole => Len(told) = Len(sent) + 1 /\ told[Len(sent) + 1] = f.msg

\* A frame behind a full chain carries the next message, or is cut and carries
\* none (Send, PeerSend).
LEMMA ChainGrows ==
    ASSUME NEW frames \in Seq(Frame), NEW skip \in Nat, NEW sent \in Seq(Messages),
           NEW got \in Nat, NEW start \in Nat, NEW f,
           Chain(frames, skip, sent, got, start), Full(frames, skip, sent, got),
           skip <= Len(frames),
           WellFramed(f), f.msg \in Messages, f.offset = NextStart(frames, skip, start),
           NEW more, Longer(more, frames, f),
           NEW told, Tells(told, sent, f)
    PROVE  /\ more \in Seq(Frame)
           /\ Chain(more, skip, told, got, start)
           /\ f.whole => Full(more, skip, told, got)
           /\ NextStart(more, skip, start)
                 = NextStart(frames, skip, start) + Span(SizeOf[f.msg])
<1> DEFINE behind == NextStart(frames, skip, start)
<1>1. behind \in Nat
    BY StartIsNat
<1>2. f.offset = behind
    OBVIOUS
<1>3. /\ more \in Seq(Frame) /\ Len(more) = Len(frames) + 1 /\ Len(frames) \in Nat
      /\ DOMAIN more = 1 .. Len(frames) + 1 /\ DOMAIN frames = 1 .. Len(frames)
      /\ more[Len(frames) + 1] = f
      /\ \A i \in 1 .. Len(frames) : more[i] = frames[i]
    BY DEF Longer
<1>4. /\ Len(sent) \in Nat /\ Len(sent) <= Len(told)
      /\ \A i \in 1 .. Len(sent) : told[i] = sent[i]
      /\ f.whole => Len(told) = Len(sent) + 1 /\ told[Len(sent) + 1] = f.msg
    BY DEF Tells
<1> DEFINE Link(i) ==
        /\ WellFramed(more[i]) /\ more[i].msg \in Messages
        /\ more[i].whole =>
              got + i - skip <= Len(told) /\ told[got + i - skip] = more[i].msg
        /\ more[i].offset = IF i = skip + 1 THEN start ELSE End(more[i - 1])
        /\ more[i].offset \in Nat
<1>5. ASSUME NEW i \in DOMAIN more, i > skip, i <= Len(frames)
      PROVE  Link(i)
    <2>1. more[i] = frames[i] /\ i \in DOMAIN frames
        BY <1>3, <1>5
    <2>2. i # skip + 1 => more[i - 1] = frames[i - 1]
        BY <1>3, <1>5
    <2>3. /\ WellFramed(frames[i]) /\ frames[i].msg \in Messages
          /\ frames[i].whole =>
                got + i - skip <= Len(sent) /\ sent[got + i - skip] = frames[i].msg
          /\ frames[i].offset = IF i = skip + 1 THEN start ELSE End(frames[i - 1])
          /\ frames[i].offset \in Nat
        BY <2>1, <1>5 DEF Chain
    <2>4. frames[i].whole => told[got + i - skip] = sent[got + i - skip]
        BY <2>3, <1>4, <1>5, <1>3
    <2>5. frames[i].whole => got + i - skip <= Len(told)
        BY <2>3, <1>4, <1>5, <1>3
    <2> QED BY <2>1, <2>2, <2>3, <2>4, <2>5
<1>6. ASSUME NEW i \in DOMAIN more, i > skip, i = Len(frames) + 1
      PROVE  Link(i)
    <2>1. more[i] = f
        BY <1>3, <1>6
    <2>2. got + i - skip = Len(sent) + 1
        <3>1. Len(sent) \in Nat /\ Len(frames) \in Nat
            OBVIOUS
        <3> QED BY <3>1, <1>6 DEF Full
    <2>3. behind = IF i = skip + 1 THEN start ELSE End(more[i - 1])
        <3>1. CASE i = skip + 1
            <4>1. Len(frames) <= skip
                BY <1>3, <1>6, <3>1
            <4> QED BY <3>1, <4>1, Zenon DEF NextStart
        <3>2. CASE i # skip + 1
            <4>1. i - 1 = Len(frames) /\ ~(Len(frames) <= skip) /\ Len(frames) \in 1 .. Len(frames)
                BY <1>3, <1>6, <3>2
            <4>2. more[i - 1] = frames[Len(frames)]
                BY <1>3, <4>1
            <4> QED BY <3>2, <4>1, <4>2 DEF NextStart
        <3> QED BY <3>1, <3>2
    <2>4. f.whole => got + i - skip <= Len(told) /\ told[got + i - skip] = f.msg
        BY <1>4, <2>2
    <2> HIDE DEF behind
    <2> QED BY <1>1, <1>2, <2>1, <2>3, <2>4
<1>7. Chain(more, skip, told, got, start)
    <2> HIDE DEF Link
    <2>1. ASSUME NEW i \in DOMAIN more, i > skip PROVE Link(i)
        <3>1. i <= Len(frames) \/ i = Len(frames) + 1
            BY <1>3
        <3>2. CASE i <= Len(frames)
            BY <2>1, <3>2, <1>5
        <3>3. CASE i = Len(frames) + 1
            BY <2>1, <3>3, <1>6
        <3> QED BY <3>1, <3>2, <3>3
    <2> QED BY <2>1 DEF Chain, Link
<1>8. ASSUME f.whole PROVE Full(more, skip, told, got)
    <2>1. /\ Len(more) = Len(frames) + 1 /\ Len(frames) \in Nat
          /\ Len(told) = Len(sent) + 1 /\ Len(sent) \in Nat
        BY <1>3, <1>4, <1>8
    <2> QED BY <2>1 DEF Full
<1>9. NextStart(more, skip, start) = behind + Span(SizeOf[f.msg])
    <2>1. NextStart(more, skip, start) = End(f)
        BY <1>3 DEF NextStart
    <2> QED BY <2>1 DEF End
<1> QED BY <1>3, <1>7, <1>8, <1>9

\* Taking the first frame leaves the chain behind it (Recv, PeerRecv).
LEMMA ChainShrinks ==
    ASSUME NEW frames \in Seq(Frame), frames # <<>>, NEW sent \in Seq(Messages),
           NEW got \in Nat, NEW start \in Nat, Chain(frames, 0, sent, got, start)
    PROVE  LET f == Head(frames)
           IN  /\ WellFramed(f) /\ f.msg \in Messages /\ f.offset = start
               /\ f.whole => got + 1 <= Len(sent) /\ sent[got + 1] = f.msg
               /\ Chain(Tail(frames), 0, sent, got + 1, start + Span(SizeOf[f.msg]))
               /\ NextStart(Tail(frames), 0, start + Span(SizeOf[f.msg]))
                     = NextStart(frames, 0, start)
               /\ Full(frames, 0, sent, got) => Full(Tail(frames), 0, sent, got + 1)
<1> DEFINE f == Head(frames)
           rest == Tail(frames)
           behind == start + Span(SizeOf[f.msg])
<1>1. /\ f = frames[1] /\ 1 \in DOMAIN frames
      /\ rest \in Seq(Frame) /\ Len(frames) \in Nat /\ Len(rest) = Len(frames) - 1
      /\ DOMAIN rest = 1 .. Len(frames) - 1 /\ DOMAIN frames = 1 .. Len(frames)
      /\ \A i \in DOMAIN rest : i + 1 \in DOMAIN frames /\ rest[i] = frames[i + 1]
    OBVIOUS
<1>2. /\ WellFramed(f) /\ f.msg \in Messages /\ f.offset = start
      /\ f.whole => got + 1 <= Len(sent) /\ sent[got + 1] = f.msg
    <2>1. /\ WellFramed(frames[1]) /\ frames[1].msg \in Messages
          /\ frames[1].whole => got + 1 - 0 <= Len(sent) /\ sent[got + 1 - 0] = frames[1].msg
          /\ frames[1].offset = start
        BY <1>1 DEF Chain
    <2>2. got + 1 - 0 = got + 1
        OBVIOUS
    <2> QED BY <1>1, <2>1, <2>2
<1>3. End(f) = behind /\ behind \in Nat
    <2>1. Span(SizeOf[f.msg]) \in Nat
        BY <1>2, ReadAtOffset, SpanCovers
    <2> QED BY <1>2, <2>1 DEF End
<1> HIDE DEF f, behind
<1>4. ASSUME NEW i \in DOMAIN rest
      PROVE  /\ WellFramed(rest[i]) /\ rest[i].msg \in Messages
             /\ rest[i].whole =>
                   got + 1 + i - 0 <= Len(sent) /\ sent[got + 1 + i - 0] = rest[i].msg
             /\ rest[i].offset = IF i = 0 + 1 THEN behind ELSE End(rest[i - 1])
             /\ rest[i].offset \in Nat
    <2> DEFINE j == i + 1
    <2>1. j \in DOMAIN frames /\ j > 0 /\ j # 0 + 1 /\ rest[i] = frames[j] /\ i \in Nat
        BY <1>1
    <2>2. got + j - 0 = got + 1 + i - 0
        BY <2>1
    <2>3. /\ WellFramed(frames[j]) /\ frames[j].msg \in Messages
          /\ frames[j].whole =>
                got + j - 0 <= Len(sent) /\ sent[got + j - 0] = frames[j].msg
          /\ frames[j].offset = End(frames[j - 1])
          /\ frames[j].offset \in Nat
        <3> HIDE DEF j
        <3> QED BY <2>1 DEF Chain
    <2>4. frames[j - 1] = IF i = 0 + 1 THEN f ELSE rest[i - 1]
        BY <1>1, <2>1
    <2> HIDE DEF j
    <2>5. CASE i = 0 + 1
        BY <2>1, <2>2, <2>3, <2>4, <2>5, <1>3
    <2>6. CASE i # 0 + 1
        BY <2>1, <2>2, <2>3, <2>4, <2>6, <1>3
    <2> QED BY <2>5, <2>6
<1>5. Chain(rest, 0, sent, got + 1, behind)
    BY <1>4 DEF Chain
<1>6. NextStart(rest, 0, behind) = NextStart(frames, 0, start)
    <2>1. CASE Len(frames) = 1
        <3>1. Len(rest) <= 0 /\ ~(Len(frames) <= 0)
            <4> HIDE DEF rest
            <4>1. Len(rest) = Len(frames) - 1
                BY <1>1
            <4> QED BY <2>1, <4>1
        <3>2. frames[Len(frames)] = f
            BY <1>1, <2>1, Zenon
        <3> QED BY <3>1, <3>2, <1>3, Zenon DEF NextStart
    <2>2. CASE Len(frames) # 1
        <3>1. ~(Len(frames) <= 0) /\ ~(Len(rest) <= 0) /\ Len(rest) \in DOMAIN rest
              /\ Len(rest) + 1 = Len(frames)
            BY <1>1, <2>2
        <3>2. rest[Len(rest)] = frames[Len(frames)]
            BY <1>1, <3>1
        <3> QED BY <3>1, <3>2 DEF NextStart
    <2> QED BY <2>1, <2>2
<1>7. Full(frames, 0, sent, got) => Full(rest, 0, sent, got + 1)
    BY <1>1 DEF Full
<1> QED BY <1>2, <1>5, <1>6, <1>7 DEF f, behind

\* What stood in front of a chain is gone, the chain is the same (PeerRecv).
LEMMA ChainUncovered ==
    ASSUME NEW frames \in Seq(Frame), frames # <<>>, NEW sent \in Seq(Messages),
           NEW got \in Nat, NEW start \in Nat, Chain(frames, 1, sent, got, start)
    PROVE  /\ Chain(Tail(frames), 0, sent, got, start)
           /\ NextStart(Tail(frames), 0, start) = NextStart(frames, 1, start)
           /\ Full(frames, 1, sent, got) => Full(Tail(frames), 0, sent, got)
<1> DEFINE rest == Tail(frames)
<1>1. /\ rest \in Seq(Frame) /\ Len(frames) \in Nat /\ Len(rest) = Len(frames) - 1
      /\ DOMAIN rest = 1 .. Len(frames) - 1 /\ DOMAIN frames = 1 .. Len(frames)
      /\ \A i \in DOMAIN rest : i + 1 \in DOMAIN frames /\ rest[i] = frames[i + 1]
    OBVIOUS
<1>2. ASSUME NEW i \in DOMAIN rest
      PROVE  /\ WellFramed(rest[i]) /\ rest[i].msg \in Messages
             /\ rest[i].whole =>
                   got + i - 0 <= Len(sent) /\ sent[got + i - 0] = rest[i].msg
             /\ rest[i].offset = IF i = 0 + 1 THEN start ELSE End(rest[i - 1])
             /\ rest[i].offset \in Nat
    <2> DEFINE j == i + 1
    <2>1. j \in DOMAIN frames /\ j > 1 /\ rest[i] = frames[j] /\ i \in Nat
        BY <1>1
    <2>2. got + j - 1 = got + i - 0 /\ (j = 1 + 1 <=> i = 0 + 1)
        BY <2>1
    <2>3. /\ WellFramed(frames[j]) /\ frames[j].msg \in Messages
          /\ frames[j].whole =>
                got + j - 1 <= Len(sent) /\ sent[got + j - 1] = frames[j].msg
          /\ frames[j].offset = IF j = 1 + 1 THEN start ELSE End(frames[j - 1])
          /\ frames[j].offset \in Nat
        <3> HIDE DEF j
        <3> QED BY <2>1 DEF Chain
    <2>4. i # 0 + 1 => frames[j - 1] = rest[i - 1]
        BY <1>1, <2>1
    <2> HIDE DEF j
    <2> QED BY <2>1, <2>2, <2>3, <2>4
<1>3. Chain(rest, 0, sent, got, start)
    BY <1>2 DEF Chain
<1>4. NextStart(rest, 0, start) = NextStart(frames, 1, start)
    <2>1. CASE Len(frames) <= 1
        BY <1>1, <2>1 DEF NextStart
    <2>2. CASE ~(Len(frames) <= 1)
        <3>1. ~(Len(rest) <= 0) /\ Len(rest) \in DOMAIN rest /\ Len(rest) + 1 = Len(frames)
            BY <1>1, <2>2
        <3>2. rest[Len(rest)] = frames[Len(frames)]
            BY <1>1, <3>1
        <3> QED BY <2>2, <3>1, <3>2 DEF NextStart
    <2> QED BY <2>1, <2>2
<1>5. Full(frames, 1, sent, got) => Full(rest, 0, sent, got)
    BY <1>1 DEF Full
<1> QED BY <1>3, <1>4, <1>5

\* A stream that ends early holds the first frames, the last one perhaps cut.
Cut(frames, n, part) ==
    \/ part = SubSeq(frames, 1, n)
    \/ n > 0 /\ part = [SubSeq(frames, 1, n) EXCEPT ![n].whole = FALSE]

\* What arrives of a stream that breaks is its first frames, the last of them
\* whole or cut, and no later one (net.Conn).
LEMMA CutParts ==
    ASSUME NEW frames \in Seq(Frame), NEW n \in 0 .. Len(frames), NEW part,
           Cut(frames, n, part)
    PROVE  /\ part \in Seq(Frame) /\ Len(part) = n /\ DOMAIN part \subseteq DOMAIN frames
           /\ \A i \in DOMAIN part :
                 /\ part[i].msg = frames[i].msg /\ part[i].length = frames[i].length
                 /\ part[i].offset = frames[i].offset
                 /\ part[i].whole => frames[i].whole
<1> DEFINE first == SubSeq(frames, 1, n)
<1>1. /\ first \in Seq(Frame) /\ Len(first) = n /\ n \in Nat
      /\ DOMAIN first = 1 .. n /\ DOMAIN first \subseteq DOMAIN frames
      /\ \A i \in 1 .. n : first[i] = frames[i] /\ first[i] \in Frame
    OBVIOUS
<1>2. CASE part = first
    BY <1>1, <1>2
<1>3. CASE n > 0 /\ part = [first EXCEPT ![n].whole = FALSE]
    <2> DEFINE last == [first[n] EXCEPT !.whole = FALSE]
    <2>1. n \in 1 .. n
        BY <1>1, <1>3
    <2>2. first[n] \in Frame
        BY <1>1, <2>1
    <2>3. /\ last \in Frame /\ last.msg = first[n].msg /\ last.length = first[n].length
          /\ last.offset = first[n].offset /\ last.whole = FALSE
        BY <2>2 DEF Frame
    <2> HIDE DEF last
    <2>4. part = [first EXCEPT ![n] = last]
        BY <1>3 DEF last
    <2> HIDE DEF first
    <2>5. /\ part \in Seq(Frame) /\ Len(part) = n /\ DOMAIN part = 1 .. n
          /\ part[n] = last /\ \A i \in 1 .. n : i # n => part[i] = first[i]
        BY <1>1, <2>1, <2>3, <2>4
    <2>6. ASSUME NEW i \in 1 .. n
          PROVE  /\ part[i].msg = frames[i].msg /\ part[i].length = frames[i].length
                 /\ part[i].offset = frames[i].offset
                 /\ part[i].whole => frames[i].whole
        <3>1. CASE i = n
            BY <1>1, <2>1, <2>3, <2>5, <3>1
        <3>2. CASE i # n
            BY <1>1, <2>5, <3>2
        <3> QED BY <3>1, <3>2
    <2> QED BY <1>1, <2>5, <2>6
<1> QED BY <1>2, <1>3 DEF Cut

\* What is left of the stream is a chain (PeerEnd).
LEMMA ChainEnds ==
    ASSUME NEW frames \in Seq(Frame), NEW n \in 0 .. Len(frames), NEW part,
           Cut(frames, n, part), NEW sent, NEW got \in Nat, NEW start,
           Chain(frames, 0, sent, got, start)
    PROVE  Chain(part, 0, sent, got, start)
<1>1. ASSUME NEW i \in DOMAIN part, i > 0
      PROVE  /\ WellFramed(part[i]) /\ part[i].msg \in Messages
             /\ part[i].whole =>
                   got + i - 0 <= Len(sent) /\ sent[got + i - 0] = part[i].msg
             /\ part[i].offset = IF i = 0 + 1 THEN start ELSE End(part[i - 1])
             /\ part[i].offset \in Nat
    <2>1. /\ part \in Seq(Frame) /\ part[i] \in Frame /\ i \in DOMAIN frames /\ i \in Nat
          /\ part[i].msg = frames[i].msg /\ part[i].length = frames[i].length
          /\ part[i].offset = frames[i].offset
          /\ part[i].whole => frames[i].whole
        BY CutParts
    <2>2. /\ WellFramed(frames[i]) /\ frames[i].msg \in Messages
          /\ frames[i].whole =>
                got + i - 0 <= Len(sent) /\ sent[got + i - 0] = frames[i].msg
          /\ frames[i].offset = IF i = 0 + 1 THEN start ELSE End(frames[i - 1])
          /\ frames[i].offset \in Nat
        BY <1>1, <2>1 DEF Chain
    <2>3. i # 0 + 1 => End(part[i - 1]) = End(frames[i - 1])
        <3>1. i # 0 + 1 => i - 1 \in DOMAIN part
            BY <1>1, <2>1
        <3> QED BY <3>1, CutParts DEF End
    <2>4. WellFramed(part[i])
        BY <2>1, <2>2 DEF WellFramed
    <2> QED BY <2>1, <2>2, <2>3, <2>4
<1> QED BY <1>1 DEF Chain

-----------------------------------------------------------------------------
(* The messages in front of the first that does not fit its frame.         *)

IsClear(n, sent) ==
    /\ n \in 0 .. Len(sent)
    /\ \A i \in 1 .. n : Fits(sent[i])
    /\ n < Len(sent) => ~Fits(sent[n + 1])

\* There is such a number, and only one.
LEMMA ClearIs ==
    ASSUME NEW sent \in Seq(Messages)
    PROVE  /\ IsClear(Clear(sent), sent)
           /\ \A n : IsClear(n, sent) => n = Clear(sent)
<1> DEFINE S == {k \in Nat : k <= Len(sent) =>
                    \/ \A i \in 1 .. k : Fits(sent[i])
                    \/ \E n \in Nat : IsClear(n, sent)}
<1>1. Len(sent) \in Nat
    OBVIOUS
<1>2. 0 \in S
    OBVIOUS
<1>3. ASSUME NEW k \in Nat, k \in S PROVE k + 1 \in S
    <2> SUFFICES ASSUME k + 1 <= Len(sent), ~\E n \in Nat : IsClear(n, sent)
                 PROVE  \A i \in 1 .. k + 1 : Fits(sent[i])
        OBVIOUS
    <2>1. k <= Len(sent) /\ k < Len(sent) /\ k \in 0 .. Len(sent)
        BY <1>1
    <2>2. \A i \in 1 .. k : Fits(sent[i])
        BY <1>3, <2>1
    <2>3. Fits(sent[k + 1])
        <3>1. ~IsClear(k, sent)
            OBVIOUS
        <3> QED BY <2>1, <2>2, <3>1 DEF IsClear
    <2>4. \A i \in 1 .. k + 1 : i \in 1 .. k \/ i = k + 1
        OBVIOUS
    <2> QED BY <2>2, <2>3, <2>4
<1>4. \A k \in Nat : k \in S
    <2> HIDE DEF S
    <2> QED BY <1>2, <1>3, NatSet
<1>5. \E n \in 0 .. Len(sent) : IsClear(n, sent)
    <2>1. Len(sent) \in S
        BY <1>1, <1>4
    <2>2. CASE \A i \in 1 .. Len(sent) : Fits(sent[i])
        <3>1. Len(sent) \in 0 .. Len(sent) /\ ~(Len(sent) < Len(sent))
            BY <1>1
        <3>2. IsClear(Len(sent), sent)
            BY <2>2, <3>1 DEF IsClear
        <3> QED BY <3>1, <3>2
    <2>3. CASE \E n \in Nat : IsClear(n, sent)
        BY <2>3 DEF IsClear
    <2> QED BY <1>1, <2>1, <2>2, <2>3
<1>6. IsClear(Clear(sent), sent)
    BY <1>5 DEF Clear, IsClear
<1>7. ASSUME NEW n, NEW k, IsClear(n, sent), IsClear(k, sent), n < k PROVE FALSE
    <2>1. n \in Nat /\ k \in Nat /\ k <= Len(sent) /\ n < Len(sent) /\ n + 1 \in 1 .. k
        BY <1>1, <1>7 DEF IsClear
    <2> QED BY <1>7, <2>1 DEF IsClear
<1>8. \A n : IsClear(n, sent) => n = Clear(sent)
    <2> DEFINE c == Clear(sent)
    <2> HIDE DEF c
    <2>1. IsClear(c, sent)
        BY <1>6 DEF c
    <2>2. ASSUME NEW n, IsClear(n, sent) PROVE n = c
        <3>1. n \in Nat /\ c \in Nat
            BY <1>1, <2>1, <2>2 DEF IsClear
        <3>2. ~(n < c) /\ ~(c < n)
            BY <1>7, <2>1, <2>2
        <3> QED BY <3>1, <3>2
    <2> QED BY <2>2 DEF c
<1> QED BY <1>6, <1>8

\* It grows by a message that fits behind none that does not.
LEMMA ClearGrows ==
    ASSUME NEW sent \in Seq(Messages), NEW m \in Messages
    PROVE  Clear(Append(sent, m)) =
              IF Clear(sent) = Len(sent) /\ Fits(m) THEN Len(sent) + 1 ELSE Clear(sent)
<1> DEFINE c    == Clear(sent)
           more == Append(sent, m)
<1>1. /\ more \in Seq(Messages) /\ Len(sent) \in Nat /\ Len(more) = Len(sent) + 1
      /\ more[Len(sent) + 1] = m /\ \A i \in 1 .. Len(sent) : more[i] = sent[i]
    OBVIOUS
<1>2. IsClear(c, sent)
    BY ClearIs
<1>3. \A n : IsClear(n, more) => n = Clear(more)
    BY <1>1, ClearIs
<1> HIDE DEF c, more
<1>4. c \in Nat /\ c <= Len(sent)
    BY <1>1, <1>2 DEF IsClear
<1>5. CASE c = Len(sent) /\ Fits(m)
    <2>1. \A i \in 1 .. Len(sent) + 1 : Fits(more[i])
        <3>1. \A i \in 1 .. Len(sent) + 1 : i \in 1 .. Len(sent) \/ i = Len(sent) + 1
            BY <1>1
        <3>2. \A i \in 1 .. Len(sent) : Fits(more[i])
            BY <1>1, <1>2, <1>5 DEF IsClear
        <3>3. Fits(more[Len(sent) + 1])
            BY <1>1, <1>5, Zenon
        <3> QED BY <3>1, <3>2, <3>3
    <2>2. IsClear(Len(sent) + 1, more)
        <3>1. Len(sent) + 1 \in 0 .. Len(more) /\ ~(Len(sent) + 1 < Len(more))
            BY <1>1
        <3> QED BY <2>1, <3>1 DEF IsClear
    <2> QED BY <1>3, <1>5, <2>2 DEF c, more
<1>6. CASE ~(c = Len(sent) /\ Fits(m))
    <2>1. c \in 0 .. Len(more)
        BY <1>1, <1>4
    <2>2. ASSUME NEW i \in 1 .. c PROVE Fits(more[i])
        <3>1. i \in 1 .. Len(sent)
            BY <1>1, <1>4
        <3> QED BY <1>1, <1>2, <3>1 DEF IsClear
    <2>3. ~Fits(more[c + 1])
        <3>1. CASE c = Len(sent)
            BY <1>1, <1>6, <3>1, Zenon
        <3>2. CASE c # Len(sent)
            <4>1. c < Len(sent) /\ c + 1 \in 1 .. Len(sent)
                BY <1>1, <1>4, <3>2
            <4> QED BY <1>1, <1>2, <4>1 DEF IsClear
        <3> QED BY <3>1, <3>2
    <2>4. IsClear(c, more)
        BY <2>1, <2>2, <2>3 DEF IsClear
    <2>5. Clear(more) = c
        BY <1>3, <2>4
    <2> QED BY <1>6, <2>5, Zenon DEF c, more
<1> QED BY <1>5, <1>6

\* What the first messages of a sequence are when it grows.
LEMMA FirstOf ==
    ASSUME NEW T, NEW s \in Seq(T), NEW x \in T, NEW n \in Nat
    PROVE  /\ Len(s) <= n => First(s, n) = s
           /\ n <= Len(s) => First(Append(s, x), n) = First(s, n)
<1>1. Len(s) \in Nat /\ Len(Append(s, x)) = Len(s) + 1
    OBVIOUS
<1>2. ASSUME Len(s) <= n PROVE First(s, n) = s
    <2>1. First(s, n) = SubSeq(s, 1, Len(s))
        <3>1. CASE Len(s) < n
            BY <3>1 DEF First
        <3>2. CASE ~(Len(s) < n)
            BY <1>1, <1>2, <3>2 DEF First
        <3> QED BY <3>1, <3>2
    <2>2. SubSeq(s, 1, Len(s)) = s
        OBVIOUS
    <2> QED BY <2>1, <2>2
<1>3. ASSUME n <= Len(s) PROVE First(Append(s, x), n) = First(s, n)
    <2>1. ~(Len(s) < n) /\ ~(Len(Append(s, x)) < n)
        BY <1>1, <1>3
    <2>2. SubSeq(Append(s, x), 1, n) = SubSeq(s, 1, n)
        BY <1>1, <1>3
    <2> QED BY <2>1, <2>2, Zenon DEF First
<1> QED BY <1>2, <1>3

\* A message behind the others is the next one of the pipe, or none of it (Send).
LEMMA PipeTakes ==
    ASSUME NEW sent \in Seq(Messages), NEW m \in Messages,
           NEW got \in Seq(Messages \cup {Garbage}), Len(got) <= Len(sent)
    PROVE  LET more == Append(sent, m)
           IN  /\ \/ First(more, Clear(more)) = Append(First(sent, Clear(sent)), m)
                  \/ First(more, Clear(more)) = First(sent, Clear(sent))
               /\ First(got, Clear(more)) = First(got, Clear(sent))
               /\ Clear(sent) < Len(got) => Clear(more) < Len(got)
<1> DEFINE more == Append(sent, m)
<1>1. /\ Len(sent) \in Nat /\ Len(got) \in Nat /\ Len(more) = Len(sent) + 1
      /\ more \in Seq(Messages) /\ m \in Messages \cup {Garbage}
    OBVIOUS
<1>2. Clear(sent) \in Nat /\ Clear(sent) <= Len(sent)
    BY <1>1, ClearIs DEF IsClear
<1>3. CASE Clear(sent) = Len(sent) /\ Fits(m)
    <2>1. Clear(more) = Len(sent) + 1
        BY <1>3, ClearGrows
    <2> HIDE DEF more
    <2>2. First(more, Len(sent) + 1) = more
        BY <1>1, FirstOf
    <2>3. First(sent, Clear(sent)) = sent
        BY <1>1, <1>2, <1>3, FirstOf
    <2>4. First(got, Clear(more)) = got /\ First(got, Clear(sent)) = got
        <3>1. Len(got) <= Clear(more) /\ Len(got) <= Clear(sent)
              /\ Clear(more) \in Nat
            BY <1>1, <1>3, <2>1
        <3> QED BY <1>1, <1>2, <3>1, FirstOf
    <2>5. ~(Clear(sent) < Len(got))
        BY <1>1, <1>3
    <2> QED BY <2>1, <2>2, <2>3, <2>4, <2>5 DEF more
<1>4. CASE ~(Clear(sent) = Len(sent) /\ Fits(m))
    <2>1. Clear(more) = Clear(sent)
        BY <1>4, ClearGrows
    <2>2. First(more, Clear(sent)) = First(sent, Clear(sent))
        BY <1>2, FirstOf
    <2> QED BY <2>1, <2>2
<1> QED BY <1>3, <1>4

\* What is read behind the rest is the next one of the pipe, or none of it
\* (external: PeerRecv).
LEMMA PipeGives ==
    ASSUME NEW sent \in Seq(Messages), NEW got \in Seq(Messages \cup {Garbage}),
           NEW x \in Messages \cup {Garbage}, Len(got) + 1 <= Len(sent),
           Len(got) < Clear(sent) => x = sent[Len(got) + 1]
    PROVE  LET c == Clear(sent)
           IN  \/ /\ Len(First(got, c)) < Len(First(sent, c))
                  /\ First(Append(got, x), c)
                        = Append(First(got, c), First(sent, c)[Len(First(got, c)) + 1])
               \/ First(Append(got, x), c) = First(got, c)
<1> DEFINE c == Clear(sent)
           more == Append(got, x)
<1>1. /\ Len(sent) \in Nat /\ Len(got) \in Nat /\ Len(more) = Len(got) + 1
      /\ more \in Seq(Messages \cup {Garbage})
    OBVIOUS
<1>2. c \in Nat /\ c <= Len(sent)
    BY <1>1, ClearIs DEF IsClear
<1> HIDE DEF c
<1>3. CASE Len(got) < c
    <2>1. First(got, c) = got
        BY <1>1, <1>2, <1>3, FirstOf
    <2>2. First(more, c) = more
        <3> HIDE DEF more
        <3>1. Len(more) <= c
            BY <1>1, <1>2, <1>3
        <3> QED BY <1>1, <1>2, <3>1, FirstOf
    <2>3. Len(First(sent, c)) = c /\ First(sent, c)[Len(got) + 1] = sent[Len(got) + 1]
        <3>1. First(sent, c) = SubSeq(sent, 1, c)
            BY <1>1, <1>2 DEF First
        <3>2. Len(got) + 1 \in 1 .. c
            BY <1>1, <1>2, <1>3
        <3> QED BY <1>1, <1>2, <3>1, <3>2
    <2>4. x = sent[Len(got) + 1]
        BY <1>3 DEF c
    <2> QED BY <1>3, <2>1, <2>2, <2>3, <2>4 DEF c
<1>4. CASE ~(Len(got) < c)
    <2>1. c <= Len(got)
        BY <1>1, <1>2, <1>4
    <2>2. First(more, c) = First(got, c)
        BY <1>2, <2>1, FirstOf
    <2> QED BY <2>2 DEF c
<1> QED BY <1>3, <1>4

-----------------------------------------------------------------------------
(* The invariant.                                                          *)

Peer == [open : BOOLEAN, keyed : BOOLEAN, lost : BOOLEAN, rx : Nat, tx : Nat]

\* The types, without spare bytes and, in what the server reads, without garbage.
Types ==
    /\ server \in {"handshake", "ready", "failed", "closed"}
    /\ c2s \in Fresh /\ s2c \in Fresh
    /\ peer \in Peer
    /\ up \in Seq(Frame) /\ down \in Seq(Frame)
    /\ sentUp \in Seq(Messages) /\ sentDown \in Seq(Messages)
    /\ gotUp \in Seq(Messages) /\ gotDown \in Seq(Messages \cup {Garbage})

\* Before the client has its keys, it has sent nothing, and at most the
\* handshake frame is in front of it; before that frame, there is nothing.
Handshaking ==
    /\ ~peer.keyed =>
          /\ peer.rx = 0 /\ peer.tx = 0 /\ c2s.made = 0 /\ ~peer.lost
          /\ up = <<>> /\ sentUp = <<>> /\ gotUp = <<>> /\ gotDown = <<>>
          /\ down # <<>> =>
                WellFramed(down[1]) /\ down[1].msg = Hello /\ down[1].offset = Plain
    /\ server = "handshake" =>
          ~peer.keyed /\ down = <<>> /\ sentDown = <<>> /\ s2c.made = 0

\* The frames that are not of the chain.
Skip == IF peer.keyed THEN 0 ELSE 1
Rx   == peer.rx * BlockSize
Tx   == peer.tx * BlockSize

DownChain ==
    /\ Chain(down, Skip, sentDown, Len(gotDown), Rx)
    /\ \A i \in DOMAIN down : i > Skip => End(down[i]) <= Offset(s2c)
    /\ LastCut(down)
    /\ peer.lost => Clear(sentDown) < Len(gotDown)
    /\ server = "ready" =>
          /\ AllWhole(down) /\ Skip <= Len(down)
          /\ Full(down, Skip, sentDown, Len(gotDown))
          /\ NextStart(down, Skip, Rx) = Offset(s2c)

\* The server reads until its first failure only, and the client's frames hold
\* their messages.
UpChain ==
    server \in {"handshake", "ready"} =>
        /\ \A i \in DOMAIN up : Fits(up[i].msg)
        /\ Chain(up, 0, sentUp, Len(gotUp), Offset(c2s))
        /\ peer.open => Full(up, 0, sentUp, Len(gotUp))
                         /\ NextStart(up, 0, Offset(c2s)) = Tx

TransportInv == Types /\ Handshaking /\ DownChain /\ UpChain

\* The invariant holds when the socket is accepted.
LEMMA InitHolds == TransportInit => TransportInv
<1> SUFFICES ASSUME TransportInit PROVE TransportInv
    OBVIOUS
<1>1. BlockSize \in Nat
    BY TransportAssumption
<1>2. NewRabbit \in Fresh /\ NewRabbit.made = 0 /\ 0 * BlockSize = 0
    BY <1>1, SMT DEF NewRabbit, Fresh, Cipher
<1>3. Types
    BY <1>2 DEF TransportInit, Types, Peer
<1>4. Handshaking
    BY <1>2 DEF TransportInit, Handshaking
<1>5. Offset(c2s) = 0 /\ Offset(s2c) = 0
    BY <1>1, <1>2, CryptMakesBlocks DEF TransportInit
<1>6. DownChain
    BY DEF TransportInit, DownChain, Chain, LastCut
<1>7. UpChain
    BY <1>2, <1>5 DEF TransportInit, UpChain, Chain, Full, NextStart, Tx
<1> QED BY <1>3, <1>4, <1>6, <1>7 DEF TransportInv

\* What the step does to the messages of each direction, as a pipe sees it.
DownSent == First(sentDown, Clear(sentDown))
DownGot  == First(gotDown, Clear(sentDown))
DownStep == Down!Put \/ Down!Get \/ UNCHANGED <<DownSent, DownGot>>
UpStep   == Up!Put \/ Up!Get \/ UNCHANGED <<sentUp, gotUp>>

\* Both ends key their ciphers at the first block (Handshake).
LEMMA HandshakeStep ==
    ASSUME TransportInv, Handshake
    PROVE  TransportInv' /\ DownStep /\ UpStep
<1> USE DEF TransportInv
<1>1. /\ server = "handshake" /\ server' \in {"ready", "failed"}
      /\ ~peer.keyed /\ peer.rx = 0 /\ s2c.made = 0
      /\ down = <<>> /\ sentDown = <<>> /\ gotDown = <<>>
      /\ UNCHANGED <<c2s, s2c, peer, up, sentUp, gotUp, sentDown, gotDown>>
    BY DEF Handshake, writeFrame, Handshaking
<1>2. PICK w \in BOOLEAN :
         /\ down' = <<>> \/ down' = <<FrameOf(Hello, Plain, w)>>
         /\ server' = "ready" => w /\ down' = <<FrameOf(Hello, Plain, w)>>
    <2>1. \A x : Append(down, x) = <<x>>
        BY <1>1
    <2>2. CASE server' = "ready"
        <3>1. down' = Append(down, FrameOf(Hello, Plain, TRUE))
            BY <2>2, Zenon DEF Handshake, writeFrame
        <3> QED BY <2>1, <3>1, Zenon
    <2>3. CASE server' # "ready"
        <3>1. down' = down \/ down' = Append(down, FrameOf(Hello, Plain, FALSE))
            BY <2>3, Zenon DEF Handshake, writeFrame
        <3> QED BY <1>1, <2>1, <2>3, <3>1, Zenon
    <2> QED BY <2>2, <2>3
<1> DEFINE f == FrameOf(Hello, Plain, w)
<1>3. /\ WellFramed(f) /\ f \in Frame
      /\ f.msg = Hello /\ f.offset = Plain /\ f.whole = w
    <2>1. WellFramed(f) /\ f.msg = Hello /\ f.offset = Plain /\ f.whole = w
        <3>1. Hello \in Messages \cup {Hello} /\ Plain \in Nat \cup {Plain}
            OBVIOUS
        <3> QED BY <3>1, FramesFit, Zenon
    <2> QED BY <2>1 DEF WellFramed
<1> HIDE DEF f
<1>4. down' = <<>> \/ down' = <<f>>
    BY <1>2 DEF f
<1>5. server' = "ready" => down' = <<f>> /\ w
    BY <1>2 DEF f
<1>6. Types'
    <2>1. <<>> \in Seq(Frame) /\ <<f>> \in Seq(Frame)
        BY <1>3
    <2>2. down' \in Seq(Frame)
        BY <1>4, <2>1, Zenon
    <2> QED BY <1>1, <2>2 DEF Types
<1>7. Handshaking'
    BY <1>1, <1>3, <1>4 DEF Handshaking
<1>8. Offset(s2c) = 0 /\ Rx = 0
    <2>1. s2c \in Fresh /\ BlockSize \in Nat
        BY TransportAssumption DEF Types
    <2>2. Offset(s2c) = s2c.made * BlockSize
        BY <2>1, CryptMakesBlocks
    <2> QED BY <1>1, <2>1, <2>2, SMT DEF Rx
<1>9. DownChain'
    <2>1. Skip' = 1 /\ Rx' = Rx /\ Offset(s2c)' = Offset(s2c) /\ sentDown' = <<>> /\ gotDown' = <<>>
        BY <1>1 DEF Skip, Rx, Offset
    <2>2. \A i \in DOMAIN down' : ~(i > 1) /\ i = Len(down')
        <3>1. CASE down' = <<>>
            BY <3>1
        <3>2. CASE down' = <<f>>
            <4>1. Len(down') = 1 /\ DOMAIN down' = {1}
                BY <3>2
            <4> QED BY <4>1
        <3> QED BY <1>4, <3>1, <3>2
    <2>3. Chain(down', Skip', sentDown', Len(gotDown'), Rx')
        BY <2>1, <2>2 DEF Chain
    <2>4. \A i \in DOMAIN down' : i > Skip' => End(down'[i]) <= Offset(s2c)'
        BY <2>1, <2>2
    <2>5. LastCut(down')
        BY <1>4, <2>2 DEF LastCut
    <2>6. ASSUME server' = "ready"
          PROVE  /\ AllWhole(down') /\ Skip' <= Len(down')
                 /\ Full(down', Skip', sentDown', Len(gotDown'))
                 /\ NextStart(down', Skip', Rx') = Offset(s2c)'
        <3>1. down' = <<f>> /\ f.whole /\ Len(down') = 1
            BY <2>6, <1>3, <1>5
        <3>2. AllWhole(down')
            BY <3>1 DEF AllWhole
        <3>3. Full(down', Skip', sentDown', Len(gotDown'))
            BY <2>1, <3>1 DEF Full
        <3>4. NextStart(down', Skip', Rx') = Offset(s2c)'
            BY <1>8, <2>1, <3>1 DEF NextStart
        <3> QED BY <2>1, <3>1, <3>2, <3>3, <3>4
    <2>7. ~peer'.lost
        BY <1>1 DEF Handshaking
    <2> QED BY <2>3, <2>4, <2>5, <2>6, <2>7 DEF DownChain
<1>10. UpChain'
    BY <1>1 DEF UpChain, Chain, Full, NextStart, Tx, Offset
<1>11. DownStep /\ UpStep
    BY <1>1 DEF DownStep, DownSent, DownGot, UpStep
<1> QED BY <1>6, <1>7, <1>9, <1>10, <1>11

\* A message of the server lengthens the chain down, or ends it (Conn.Send).
LEMMA SendStep ==
    ASSUME TransportInv, NEW m \in Messages, Send(m)
    PROVE  TransportInv' /\ DownStep /\ UpStep
<1> USE DEF TransportInv
<1> DEFINE start == Offset(s2c)
           whole == server' = "ready"
           f     == FrameOf(m, start, whole)
<1>1. /\ server = "ready" /\ server' \in {"ready", "failed"}
      /\ UNCHANGED <<c2s, peer, up, sentUp, gotUp, gotDown>>
    BY DEF Send, writeFrame
<1>2. /\ s2c' = crypt(s2c, SizeOf[m]) \/ (~whole /\ s2c' = s2c)
      /\ sentDown' = IF whole THEN Append(sentDown, m) ELSE sentDown
      /\ \/ down' = Append(down, f) /\ s2c' = crypt(s2c, SizeOf[m])
         \/ down' = down /\ ~whole
    <2>1. CASE whole
        <3>1. down' = Append(down, FrameOf(m, start, TRUE))
              /\ s2c' = crypt(s2c, SizeOf[m]) /\ sentDown' = Append(sentDown, m)
            BY <2>1, Zenon DEF Send, writeFrame
        <3>2. f = FrameOf(m, start, TRUE)
            BY <2>1
        <3> QED BY <2>1, <3>1, <3>2, Zenon
    <2>2. CASE ~whole
        <3>1. f = FrameOf(m, start, FALSE)
            BY <2>2
        <3>2. \/ /\ down' = down \/ down' = Append(down, FrameOf(m, start, FALSE))
                 /\ s2c' = crypt(s2c, SizeOf[m]) /\ sentDown' = sentDown
              \/ down' = down /\ s2c' = s2c /\ sentDown' = sentDown
            BY <2>2, Zenon DEF Send, writeFrame
        <3> QED BY <2>2, <3>1, <3>2, Zenon
    <2> QED BY <2>1, <2>2
<1>3. /\ s2c \in Fresh /\ SizeOf[m] \in Nat /\ start \in Nat /\ Span(SizeOf[m]) \in Nat
      /\ crypt(s2c, SizeOf[m]) \in Fresh
      /\ Offset(crypt(s2c, SizeOf[m])) = start + Span(SizeOf[m])
    <2>1. s2c \in Fresh /\ SizeOf[m] \in Nat
        BY TransportAssumption DEF Types
    <2> QED BY <2>1, CryptMakesBlocks, SpanCovers
<1>4. /\ Chain(down, Skip, sentDown, Len(gotDown), Rx)
      /\ \A i \in DOMAIN down : i > Skip => End(down[i]) <= start
      /\ AllWhole(down) /\ Skip <= Len(down)
      /\ Full(down, Skip, sentDown, Len(gotDown))
      /\ NextStart(down, Skip, Rx) = start
    BY <1>1 DEF DownChain
<1>5. /\ Skip \in Nat /\ Skip <= 1 /\ Rx \in Nat /\ Len(gotDown) \in Nat
      /\ down \in Seq(Frame) /\ sentDown \in Seq(Messages)
      /\ gotDown \in Seq(Messages \cup {Garbage}) /\ peer.rx \in Nat
    <2>1. peer.rx \in Nat /\ peer.rx * BlockSize \in Nat
        BY BlocksAdd DEF Types, Peer
    <2> QED BY <2>1 DEF Types, Skip, Rx
<1>6. UNCHANGED <<Skip, Rx>> /\ (Offset(s2c))' = Offset(s2c')
    BY <1>1 DEF Skip, Rx, Offset
<1>7. WellFramed(f) /\ f \in Frame /\ f.msg = m /\ f.offset = start /\ f.whole = whole
    <2>1. m \in Messages \cup {Hello} /\ start \in Nat \cup {Plain} /\ whole \in BOOLEAN
        BY <1>3
    <2> HIDE DEF start, whole
    <2>2. WellFramed(f) /\ f.msg = m /\ f.offset = start /\ f.whole = whole
        BY <2>1, FramesFit, Zenon
    <2> QED BY <2>2 DEF WellFramed
<1> DEFINE more == Append(down, f)
           told == IF whole THEN Append(sentDown, m) ELSE sentDown
<1>8. /\ more \in Seq(Frame)
      /\ Chain(more, Skip, told, Len(gotDown), Rx)
      /\ whole => Full(more, Skip, told, Len(gotDown))
      /\ NextStart(more, Skip, Rx) = start + Span(SizeOf[m])
    <2>1. Tells(told, sentDown, f)
        <3>1. CASE whole
            <4>1. told = Append(sentDown, m) /\ Append(sentDown, m) \in Seq(Messages)
                BY <1>5, <3>1
            <4> HIDE DEF whole, f, told
            <4> QED BY <1>5, <1>7, <4>1 DEF Tells
        <3>2. CASE ~whole
            <4>1. told = sentDown
                BY <3>2
            <4> HIDE DEF whole, f, told
            <4> QED BY <1>5, <1>7, <3>2, <4>1 DEF Tells
        <3> QED BY <3>1, <3>2
    <2>2. Longer(more, down, f)
        <3> HIDE DEF f
        <3> QED BY <1>5, <1>7 DEF Longer
    <2> HIDE DEF start, whole, f, more, told
    <2>3. /\ more \in Seq(Frame)
          /\ Chain(more, Skip, told, Len(gotDown), Rx)
          /\ f.whole => Full(more, Skip, told, Len(gotDown))
          /\ NextStart(more, Skip, Rx) = NextStart(down, Skip, Rx) + Span(SizeOf[f.msg])
        BY <1>4, <1>5, <1>7, <2>1, <2>2, ChainGrows
    <2> QED BY <1>4, <1>7, <2>3
<1> HIDE DEF start, whole, f, more, told
<1>9. /\ sentDown' = told /\ told \in Seq(Messages)
      /\ ~whole => told = sentDown
      /\ whole => told = Append(sentDown, m) /\ down' = more
    BY <1>2, <1>5 DEF told, more
<1>10. \/ down' = more /\ s2c' = crypt(s2c, SizeOf[m])
       \/ down' = down /\ ~whole
    BY <1>2 DEF more
<1>11. /\ s2c' \in Fresh /\ start <= Offset(s2c')
       /\ s2c' = crypt(s2c, SizeOf[m]) => Offset(s2c') = start + Span(SizeOf[m])
    <2>1. CASE s2c' = crypt(s2c, SizeOf[m])
        <3>1. s2c' \in Fresh /\ Offset(s2c') = start + Span(SizeOf[m])
            BY <1>3, <2>1
        <3> QED BY <1>3, <3>1
    <2>2. CASE s2c' = s2c
        <3>1. Offset(s2c') = start
            BY <2>2 DEF start
        <3>2. s2c' = crypt(s2c, SizeOf[m]) => Offset(s2c') = start + Span(SizeOf[m])
            BY <1>3
        <3> QED BY <1>3, <2>2, <3>1, <3>2
    <2> QED BY <1>2, <2>1, <2>2
<1>12. /\ Len(down) \in Nat /\ DOMAIN down = 1 .. Len(down)
       /\ Len(more) = Len(down) + 1 /\ DOMAIN more = 1 .. Len(down) + 1
       /\ more[Len(down) + 1] = f /\ \A i \in 1 .. Len(down) : more[i] = down[i]
    BY <1>5, <1>7 DEF more
\* The pipe takes the message or does not have it.
<1>19. whole => /\ \/ First(told, Clear(told)) = Append(First(sentDown, Clear(sentDown)), m)
                   \/ First(told, Clear(told)) = First(sentDown, Clear(sentDown))
                /\ First(gotDown, Clear(told)) = First(gotDown, Clear(sentDown))
                /\ Clear(sentDown) < Len(gotDown) => Clear(told) < Len(gotDown)
    <2>1. Len(gotDown) <= Len(sentDown)
        <3>1. Len(gotDown) + Len(down) - Skip = Len(sentDown) /\ Skip <= Len(down)
              /\ Len(sentDown) \in Nat
            BY <1>4, <1>5 DEF Full
        <3> QED BY <1>5, <1>12, <3>1
    <2>2. whole => told = Append(sentDown, m)
        BY <1>9
    <2> QED BY <1>5, <2>1, <2>2, PipeTakes, Zenon
<1>13. Types'
    BY <1>1, <1>5, <1>8, <1>9, <1>10, <1>11 DEF Types
<1>14. Handshaking'
    <2>1. ASSUME ~peer.keyed PROVE down' # <<>> => down'[1] = down[1] /\ down # <<>>
        <3>1. 1 <= Len(down)
            BY <1>4, <2>1 DEF Skip
        <3>2. down # <<>> /\ more[1] = down[1]
            BY <3>1, <1>5, <1>12
        <3> QED BY <3>2, <1>10
    <2> QED BY <1>1, <2>1 DEF Handshaking
<1>15. DownChain'
    <2>1. Chain(down', Skip, sentDown', Len(gotDown), Rx)
        BY <1>4, <1>8, <1>9, <1>10
    <2>2. \A i \in DOMAIN down' : i > Skip => End(down'[i]) <= Offset(s2c')
        <3>1. ASSUME NEW i \in DOMAIN down, i > Skip PROVE End(down[i]) <= Offset(s2c')
            <4>1. WellFramed(down[i]) /\ down[i].offset \in Nat
                BY <1>4, <3>1 DEF Chain
            <4>2. End(down[i]) \in Nat
                <5>1. Span(SizeOf[down[i].msg]) \in Nat
                    BY <4>1, ReadAtOffset, SpanCovers
                <5> QED BY <4>1, <5>1 DEF End
            <4>3. Offset(s2c') \in Nat
                BY <1>11, CryptMakesBlocks, <1>3
            <4> QED BY <1>3, <1>4, <1>11, <3>1, <4>2, <4>3
        <3>2. ASSUME down' = more, NEW i \in DOMAIN more, i > Skip
              PROVE  End(more[i]) <= Offset(s2c')
            <4>1. CASE i <= Len(down)
                BY <1>12, <3>1, <3>2, <4>1
            <4>2. CASE i > Len(down)
                <5>1. i = Len(down) + 1
                    BY <1>12, <4>2
                <5>2. End(more[i]) = start + Span(SizeOf[m])
                    BY <5>1, <1>7, <1>12 DEF End
                <5>3. s2c' = crypt(s2c, SizeOf[m])
                    <6>1. more # down
                        <7>1. Len(down) + 1 \in DOMAIN more /\ Len(down) + 1 \notin DOMAIN down
                            BY <1>12
                        <7> QED BY <7>1
                    <6> QED BY <1>10, <3>2, <6>1
                <5> QED BY <1>3, <1>11, <5>2, <5>3
            <4> QED BY <1>12, <4>1, <4>2
        <3> QED BY <1>10, <3>1, <3>2
    <2>3. LastCut(down')
        BY <1>4, <1>10, <1>12 DEF LastCut, AllWhole
    <2>4. ASSUME whole
          PROVE  /\ AllWhole(down') /\ Skip <= Len(down')
                 /\ Full(down', Skip, sentDown', Len(gotDown))
                 /\ NextStart(down', Skip, Rx) = Offset(s2c')
        <3>1. down' = more /\ s2c' = crypt(s2c, SizeOf[m])
            BY <2>4, <1>10
        <3>2. AllWhole(more)
            <4>1. ASSUME NEW i \in DOMAIN more PROVE more[i].whole
                <5>1. CASE i \in 1 .. Len(down)
                    BY <1>4, <1>12, <5>1 DEF AllWhole
                <5>2. CASE i = Len(down) + 1
                    BY <2>4, <1>7, <1>12, <5>2, Zenon
                <5> QED BY <1>12, <5>1, <5>2
            <4> QED BY <4>1 DEF AllWhole
        <3>3. Skip <= Len(more)
            BY <1>4, <1>5, <1>12
        <3> QED BY <2>4, <3>1, <3>2, <3>3, <1>8, <1>9, <1>11
    <2>5. server' = "ready" => whole
        BY DEF whole
    <2>6. peer.lost => Clear(sentDown') < Len(gotDown)
        <3>1. peer.lost => Clear(sentDown) < Len(gotDown)
            BY DEF DownChain
        <3> QED BY <1>9, <1>19, <3>1
    <2> QED BY <1>1, <1>6, <2>1, <2>2, <2>3, <2>4, <2>5, <2>6 DEF DownChain
<1>16. UpChain'
    <2>1. server' \in {"handshake", "ready"} => server \in {"handshake", "ready"}
        BY <1>1
    <2> QED BY <1>1, <2>1 DEF UpChain, Tx, Offset
<1>17. DownStep
    <2>1. CASE whole
        <3>1. /\ DownSent' = Append(DownSent, m) \/ DownSent' = DownSent
              /\ DownGot' = DownGot
            BY <1>1, <1>9, <1>19, <2>1 DEF DownSent, DownGot
        <3> QED BY <3>1 DEF DownStep, Down!Put, DownSent, DownGot
    <2>2. CASE ~whole
        BY <1>1, <1>9, <2>2 DEF DownStep, DownSent, DownGot
    <2> QED BY <2>1, <2>2
<1>18. UpStep
    BY <1>1 DEF UpStep
<1> QED BY <1>13, <1>14, <1>15, <1>16, <1>17, <1>18

\* The frames behind the first one stay as they are.
LEMMA TailKeeps ==
    ASSUME NEW frames \in Seq(Frame), frames # <<>>
    PROVE  /\ Tail(frames) \in Seq(Frame)
           /\ \A i \in DOMAIN Tail(frames) :
                 i + 1 \in DOMAIN frames /\ Tail(frames)[i] = frames[i + 1]
           /\ LastCut(frames) => LastCut(Tail(frames))
           /\ AllWhole(frames) => AllWhole(Tail(frames))
<1> DEFINE rest == Tail(frames)
<1>1. /\ rest \in Seq(Frame) /\ Len(frames) \in Nat /\ Len(rest) = Len(frames) - 1
      /\ DOMAIN rest = 1 .. Len(frames) - 1 /\ DOMAIN frames = 1 .. Len(frames)
      /\ \A i \in DOMAIN rest : i + 1 \in DOMAIN frames /\ rest[i] = frames[i + 1]
    OBVIOUS
<1> HIDE DEF rest
<1>2. ASSUME LastCut(frames) PROVE LastCut(rest)
    BY <1>1, <1>2 DEF LastCut
<1>3. ASSUME AllWhole(frames) PROVE AllWhole(rest)
    BY <1>1, <1>3 DEF AllWhole
<1> QED BY <1>1, <1>2, <1>3 DEF rest

\* The server takes the first frame of the chain up (Conn.Recv).
LEMMA RecvStep ==
    ASSUME TransportInv, Recv
    PROVE  TransportInv' /\ DownStep /\ UpStep
<1> USE DEF TransportInv
<1> DEFINE f     == Head(up)
           start == Offset(c2s)
           behind  == start + Span(SizeOf[f.msg])
<1>1. /\ server = "ready" /\ up # <<>> /\ f.whole /\ up' = Tail(up)
      /\ UNCHANGED <<s2c, peer, down, sentUp, sentDown, gotDown>>
    BY DEF Recv
<1>2. /\ up \in Seq(Frame) /\ sentUp \in Seq(Messages) /\ gotUp \in Seq(Messages)
      /\ c2s \in Fresh /\ Len(gotUp) \in Nat
    BY DEF Types
<1>3. start \in Nat
    BY <1>2, TransportAssumption, CryptMakesBlocks
<1>4. /\ \A i \in DOMAIN up : Fits(up[i].msg)
      /\ Chain(up, 0, sentUp, Len(gotUp), start)
      /\ peer.open => Full(up, 0, sentUp, Len(gotUp)) /\ NextStart(up, 0, start) = Tx
    BY <1>1 DEF UpChain
<1> HIDE DEF start
<1>5. /\ WellFramed(f) /\ f.msg \in Messages /\ f.offset = start
      /\ Len(gotUp) + 1 <= Len(sentUp) /\ sentUp[Len(gotUp) + 1] = f.msg
      /\ Chain(Tail(up), 0, sentUp, Len(gotUp) + 1, behind)
      /\ NextStart(Tail(up), 0, behind) = NextStart(up, 0, start)
      /\ Full(up, 0, sentUp, Len(gotUp)) => Full(Tail(up), 0, sentUp, Len(gotUp) + 1)
    BY <1>1, <1>2, <1>3, <1>4, ChainShrinks
<1>6. /\ Reading(f, start) = f.msg
      /\ f.length - HeaderSize = SizeOf[f.msg] /\ SizeOf[f.msg] \in Nat
    <2>1. f = up[1] /\ 1 \in DOMAIN up
        BY <1>1, <1>2
    <2>2. Fits(f.msg)
        BY <1>4, <2>1
    <2> QED BY <1>5, <2>2, ReadAtOffset
<1>7. /\ c2s' = crypt(c2s, SizeOf[f.msg])
      /\ \/ server' = "failed" /\ gotUp' = gotUp
         \/ server' = server /\ gotUp' = Append(gotUp, f.msg)
    <2>1. ~(f.length - HeaderSize < 0)
        BY <1>6
    <2>2. c2s' = crypt(c2s, SizeOf[f.msg])
        BY <1>6, <2>1 DEF Recv
    <2>3. CASE SizeOf[f.msg] < OpcodeSize
        <3>1. server' = "failed" /\ gotUp' = gotUp
            BY <1>6, <2>1, <2>3 DEF Recv
        <3> QED BY <2>2, <3>1
    <2>4. CASE ~(SizeOf[f.msg] < OpcodeSize)
        <3>1. server' = server /\ gotUp' = Append(gotUp, Reading(f, start))
            BY <1>6, <2>1, <2>4 DEF Recv, start
        <3> QED BY <2>2, <3>1, <1>6
    <2> QED BY <2>3, <2>4
<1>8. c2s' \in Fresh /\ Offset(c2s') = behind
    BY <1>2, <1>6, <1>7, CryptMakesBlocks DEF start
<1> HIDE DEF f, behind
<1>9. peer.keyed
    BY <1>1 DEF Handshaking
<1>10. Types'
    <2>1. up' \in Seq(Frame)
        BY <1>1, <1>2
    <2>3. gotUp' \in Seq(Messages)
        <3>1. Append(gotUp, f.msg) \in Seq(Messages)
            BY <1>2, <1>5
        <3> QED BY <1>2, <1>7, <3>1
    <2>2. server' \in {"ready", "failed"}
        BY <1>1, <1>7
    <2> QED BY <1>1, <1>8, <2>1, <2>2, <2>3 DEF Types
<1>11. Handshaking'
    BY <1>1, <1>7, <1>9 DEF Handshaking
<1>12. DownChain'
    BY <1>1, <1>7 DEF DownChain, Skip, Rx, Offset
<1>13. UpChain'
    <2>1. ASSUME server' \in {"handshake", "ready"}
          PROVE  /\ \A i \in DOMAIN up' : Fits(up'[i].msg)
                 /\ Chain(up', 0, sentUp', Len(gotUp'), Offset(c2s'))
                 /\ peer.open => Full(up', 0, sentUp', Len(gotUp'))
                                 /\ NextStart(up', 0, Offset(c2s')) = Tx
        <3>1. gotUp' = Append(gotUp, f.msg)
            BY <1>7, <2>1
        <3>2. Len(gotUp') = Len(gotUp) + 1
            BY <1>2, <1>5, <3>1
        <3>3. \A i \in DOMAIN up' : Fits(up'[i].msg)
            BY <1>1, <1>2, <1>4, TailKeeps
        <3> QED BY <1>1, <1>4, <1>5, <1>8, <3>2, <3>3
    <2>2. Tx' = Tx /\ peer' = peer /\ (Offset(c2s))' = Offset(c2s')
        BY <1>1 DEF Tx, Offset
    <2> QED BY <2>1, <2>2 DEF UpChain
<1>14. UpStep
    <2>1. CASE gotUp' = gotUp
        BY <1>1, <2>1 DEF UpStep
    <2>2. CASE gotUp' = Append(gotUp, f.msg)
        <3>1. Len(gotUp) < Len(sentUp)
            BY <1>2, <1>5
        <3> QED BY <1>1, <1>5, <2>2, <3>1 DEF UpStep, Up!Get
    <2> QED BY <1>7, <2>1, <2>2
<1>15. DownStep
    BY <1>1 DEF DownStep, DownSent, DownGot
<1> QED BY <1>10, <1>11, <1>12, <1>13, <1>14, <1>15

\* The ends of the server touch nothing in flight.
LEMMA StopStep ==
    ASSUME TransportInv, RecvEnd \/ Close
    PROVE  TransportInv' /\ DownStep /\ UpStep
<1> USE DEF TransportInv
<1>1. /\ server' \in {"failed", "closed"}
      /\ UNCHANGED <<c2s, s2c, peer, up, down, sentUp, gotUp, sentDown, gotDown>>
    BY DEF RecvEnd, Close
<1>2. Types'
    BY <1>1 DEF Types
<1>3. Handshaking'
    BY <1>1 DEF Handshaking
<1>4. DownChain'
    BY <1>1 DEF DownChain, Skip, Rx, Offset
<1>5. UpChain'
    BY <1>1 DEF UpChain
<1>6. DownStep /\ UpStep
    BY <1>1 DEF DownStep, DownSent, DownGot, UpStep
<1> QED BY <1>2, <1>3, <1>4, <1>5, <1>6

\* A client that has counted blocks is one (external).
LEMMA PeerCounts ==
    ASSUME NEW p \in Peer, NEW n \in Nat, NEW lost \in BOOLEAN
    PROVE  /\ [p EXCEPT !.rx = @ + n, !.lost = lost] \in Peer
           /\ [p EXCEPT !.tx = @ + n] \in Peer
<1>1. p.rx + n \in Nat /\ p.tx + n \in Nat
    BY DEF Peer
<1>2. \A k \in Nat : /\ [p EXCEPT !.rx = k, !.lost = lost] \in Peer
                      /\ [p EXCEPT !.tx = k] \in Peer
    BY DEF Peer
<1> QED BY <1>1, <1>2

\* The client takes the first frame of the chain down (external).
LEMMA PeerRecvStep ==
    ASSUME TransportInv, PeerRecv
    PROVE  TransportInv' /\ DownStep /\ UpStep
<1> USE DEF TransportInv
<1> DEFINE f    == Head(down)
           behind == Rx + Span(SizeOf[f.msg])
<1>1. /\ down # <<>> /\ f.whole /\ down' = Tail(down)
      /\ UNCHANGED <<server, c2s, s2c, up, sentUp, gotUp, sentDown>>
    BY DEF PeerRecv
<1>2. /\ down \in Seq(Frame) /\ sentDown \in Seq(Messages)
      /\ gotDown \in Seq(Messages \cup {Garbage})
      /\ Len(gotDown) \in Nat /\ f = down[1]
      /\ peer \in Peer
      /\ Rx \in Nat
    <2>1. peer.rx * BlockSize \in Nat
        BY BlocksAdd DEF Types, Peer
    <2> QED BY <1>1, <2>1 DEF Types, Rx
<1>3. server # "handshake"
    BY <1>1 DEF Handshaking
<1>4. /\ Tail(down) \in Seq(Frame)
      /\ \A i \in DOMAIN Tail(down) :
            i + 1 \in DOMAIN down /\ Tail(down)[i] = down[i + 1]
      /\ LastCut(Tail(down))
      /\ AllWhole(down) => AllWhole(Tail(down))
    BY <1>1, <1>2, TailKeeps DEF DownChain
\* What the frame is depends on whether the client has its keys.
<1>5. /\ peer' \in Peer
      /\ peer'.keyed /\ peer'.open = peer.open /\ peer'.tx = peer.tx
      /\ gotDown' \in Seq(Messages \cup {Garbage})
      /\ peer'.lost => Clear(sentDown) < Len(gotDown')
      /\ Chain(Tail(down), 0, sentDown, Len(gotDown'), Rx')
      /\ NextStart(Tail(down), 0, Rx') = NextStart(down, Skip, Rx)
      /\ Full(down, Skip, sentDown, Len(gotDown)) =>
            Full(Tail(down), 0, sentDown, Len(gotDown'))
      /\ DownStep
    <2>1. CASE peer.keyed
        <3>1. Skip = 0 /\ Chain(down, 0, sentDown, Len(gotDown), Rx)
            BY <2>1 DEF Skip, DownChain
        <3>2. /\ WellFramed(f) /\ f.msg \in Messages /\ f.offset = Rx
              /\ Len(gotDown) + 1 <= Len(sentDown) /\ sentDown[Len(gotDown) + 1] = f.msg
              /\ Chain(Tail(down), 0, sentDown, Len(gotDown) + 1, behind)
              /\ NextStart(Tail(down), 0, behind) = NextStart(down, 0, Rx)
              /\ Full(down, 0, sentDown, Len(gotDown)) =>
                    Full(Tail(down), 0, sentDown, Len(gotDown) + 1)
            BY <1>1, <1>2, <3>1, ChainShrinks
        <3>3. /\ SizeOf[f.msg] \in Nat
              /\ Fits(f.msg) => Reading(f, Rx) = f.msg
              /\ Reading(f, Rx) \in Messages \cup {Garbage}
            BY <3>2, ReadAtOffset DEF Reading
        <3> DEFINE x == IF peer.lost THEN Garbage ELSE Reading(f, Rx)
        <3>4. /\ gotDown' = Append(gotDown, x)
              /\ peer' = [peer EXCEPT !.rx = @ + Blocks(SizeOf[f.msg]),
                                     !.lost = @ \/ ~Fits(f.msg)]
            BY <2>1 DEF PeerRecv, Rx
        <3>5. Blocks(SizeOf[f.msg]) \in Nat
            BY <3>3, SpanCovers
        <3>6. /\ peer' \in Peer /\ peer'.rx = peer.rx + Blocks(SizeOf[f.msg])
              /\ peer'.keyed /\ peer'.open = peer.open /\ peer'.tx = peer.tx
              /\ peer'.lost = (peer.lost \/ ~Fits(f.msg))
            <4> DEFINE n == Blocks(SizeOf[f.msg])  lost == peer.lost \/ ~Fits(f.msg)
            <4>1. lost \in BOOLEAN /\ n \in Nat /\ peer \in Peer
                BY <1>2, <3>5 DEF Fits, Peer
            <4>2. peer' = [peer EXCEPT !.rx = @ + n, !.lost = lost]
                BY <3>4
            <4> HIDE DEF n, lost
            <4>3. peer' \in Peer
                BY <4>1, <4>2, PeerCounts, Zenon
            <4>4. /\ peer'.rx = peer.rx + n /\ peer'.tx = peer.tx
                  /\ peer'.open = peer.open /\ peer'.keyed = peer.keyed
                BY <4>1, <4>2 DEF Peer
            <4>5. peer'.lost = lost
                BY <4>1, <4>2 DEF Peer
            <4> QED BY <2>1, <4>3, <4>4, <4>5, Zenon DEF n, lost
        <3>7. Rx' = behind
            <4>1. peer.rx \in Nat
                BY <1>2 DEF Peer
            <4>2. (peer.rx + Blocks(SizeOf[f.msg])) * BlockSize
                    = peer.rx * BlockSize + Span(SizeOf[f.msg])
                BY <4>1, <3>3, BlocksAdd
            <4> QED BY <3>6, <4>2 DEF Rx
        <3> HIDE DEF f, behind
        <3>8. /\ x \in Messages \cup {Garbage} /\ gotDown' \in Seq(Messages \cup {Garbage})
              /\ Len(gotDown') = Len(gotDown) + 1
            <4>1. x \in Messages \cup {Garbage}
                BY <3>3
            <4> HIDE DEF x
            <4> QED BY <1>2, <3>4, <4>1
\* The message fits if it is in front of the first that does not.
        <3>9. /\ Clear(sentDown) \in Nat
              /\ Len(gotDown) < Clear(sentDown) => Fits(f.msg)
              /\ ~Fits(f.msg) => Clear(sentDown) < Len(gotDown) + 1
            <4>1. IsClear(Clear(sentDown), sentDown) /\ Len(sentDown) \in Nat
                BY <1>2, ClearIs
            <4>2. Clear(sentDown) \in Nat
                BY <4>1 DEF IsClear
            <4>3. ASSUME Len(gotDown) + 1 <= Clear(sentDown) PROVE Fits(f.msg)
                <5>1. Len(gotDown) + 1 \in 1 .. Clear(sentDown)
                    BY <1>2, <4>2, <4>3
                <5> QED BY <3>2, <4>1, <5>1 DEF IsClear
            <4> QED BY <1>2, <4>2, <4>3
        <3>10. peer'.lost => Clear(sentDown) < Len(gotDown')
            <4>1. peer.lost => Clear(sentDown) < Len(gotDown)
                BY DEF DownChain
            <4>2. Clear(sentDown) < Len(gotDown) => Clear(sentDown) < Len(gotDown')
                BY <1>2, <3>8, <3>9
            <4>3. ~Fits(f.msg) => Clear(sentDown) < Len(gotDown')
                BY <3>8, <3>9
            <4> QED BY <3>6, <4>1, <4>2, <4>3, Zenon
        <3>11. DownStep
            <4>1. Len(gotDown) < Clear(sentDown) => x = sentDown[Len(gotDown) + 1]
                <5>1. peer.lost => Clear(sentDown) < Len(gotDown)
                    BY DEF DownChain
                <5> QED BY <1>2, <3>2, <3>3, <3>9, <5>1
            <4> DEFINE c == Clear(sentDown)
            <4>2. \/ /\ Len(First(gotDown, c)) < Len(First(sentDown, c))
                     /\ First(Append(gotDown, x), c)
                           = Append(First(gotDown, c),
                                    First(sentDown, c)[Len(First(gotDown, c)) + 1])
                  \/ First(Append(gotDown, x), c) = First(gotDown, c)
                <5> HIDE DEF x
                <5> QED BY <1>2, <3>2, <3>8, <4>1, PipeGives
            <4> HIDE DEF x
            <4>3. /\ DownSent' = DownSent /\ DownGot' = First(Append(gotDown, x), c)
                  /\ DownSent = First(sentDown, c) /\ DownGot = First(gotDown, c)
                BY <1>1, <3>4 DEF DownSent, DownGot
            <4> HIDE DEF c
            <4>4. \/ /\ Len(DownGot) < Len(DownSent) /\ DownSent' = DownSent
                     /\ DownGot' = Append(DownGot, DownSent[Len(DownGot) + 1])
                  \/ UNCHANGED <<DownSent, DownGot>>
                BY <4>2, <4>3
            <4> QED BY <4>4 DEF DownStep, Down!Get, DownSent, DownGot
        <3> QED BY <3>1, <3>2, <3>6, <3>7, <3>8, <3>10, <3>11
    <2>2. CASE ~peer.keyed
        <3>1. /\ Skip = 1 /\ Chain(down, 1, sentDown, Len(gotDown), Rx)
              /\ WellFramed(f) /\ f.msg = Hello /\ f.offset = Plain
            BY <1>1, <1>2, <2>2 DEF Skip, DownChain, Handshaking
        <3>2. Reading(f, Plain) = Hello
            BY <3>1, ReadAtOffset, TransportAssumption
        <3>3. gotDown' = gotDown /\ peer' = [peer EXCEPT !.keyed = TRUE]
            BY <2>2, <3>2 DEF PeerRecv
        <3>4. /\ peer' \in Peer
              /\ peer'.keyed /\ peer'.open = peer.open /\ peer'.tx = peer.tx
              /\ peer'.rx = peer.rx /\ ~peer'.lost
            <4>1. peer' \in Peer
                BY <1>2, <3>3 DEF Peer
            <4>2. /\ peer'.open = peer.open /\ peer'.tx = peer.tx /\ peer'.rx = peer.rx
                  /\ peer'.lost = peer.lost
                BY <1>2, <3>3 DEF Peer
            <4>3. peer'.keyed /\ ~peer.lost
                BY <1>2, <2>2, <3>3 DEF Peer, Handshaking
            <4> QED BY <4>1, <4>2, <4>3, Zenon
        <3>5. Rx' = Rx
            BY <3>4 DEF Rx
        <3>6. /\ Chain(Tail(down), 0, sentDown, Len(gotDown), Rx)
              /\ NextStart(Tail(down), 0, Rx) = NextStart(down, 1, Rx)
              /\ Full(down, 1, sentDown, Len(gotDown)) =>
                    Full(Tail(down), 0, sentDown, Len(gotDown))
            BY <1>1, <1>2, <3>1, ChainUncovered
        <3>7. DownStep
            BY <1>1, <3>3 DEF DownStep, DownSent, DownGot
        <3> QED BY <1>2, <3>1, <3>3, <3>4, <3>5, <3>6, <3>7
    <2> QED BY <2>1, <2>2
<1>6. Types'
    BY <1>1, <1>4, <1>5 DEF Types
<1>7. Handshaking'
    BY <1>1, <1>3, <1>5 DEF Handshaking
<1>8. DownChain'
    <2>1. Skip' = 0 /\ (Offset(s2c))' = Offset(s2c)
        BY <1>1, <1>5 DEF Skip, Offset
    <2>2. ASSUME NEW i \in DOMAIN Tail(down), i > 0
          PROVE  End(Tail(down)[i]) <= Offset(s2c)
        <3>1. i + 1 \in DOMAIN down /\ Tail(down)[i] = down[i + 1]
            BY <1>4
        <3>2. i + 1 > Skip
            BY <1>4, <2>2 DEF Skip
        <3> QED BY <3>1, <3>2 DEF DownChain
    <2>3. ASSUME server = "ready"
          PROVE  /\ AllWhole(Tail(down)) /\ 0 <= Len(Tail(down))
                 /\ Full(Tail(down), 0, sentDown, Len(gotDown'))
                 /\ NextStart(Tail(down), 0, Rx') = Offset(s2c)
        <3>1. /\ AllWhole(down) /\ Full(down, Skip, sentDown, Len(gotDown))
              /\ NextStart(down, Skip, Rx) = Offset(s2c)
            BY <2>3 DEF DownChain
        <3>2. 0 <= Len(Tail(down))
            BY <1>4
        <3> QED BY <1>4, <1>5, <3>1, <3>2
    <2> QED BY <1>1, <1>4, <1>5, <2>1, <2>2, <2>3 DEF DownChain
<1>9. UpChain'
    BY <1>1, <1>5 DEF UpChain, Tx, Offset
<1>10. UpStep
    BY <1>1 DEF UpStep
<1> QED BY <1>5, <1>6, <1>7, <1>8, <1>9, <1>10

\* A message of the client lengthens the chain up, or ends it (external).
LEMMA PeerSendStep ==
    ASSUME TransportInv, NEW m \in Messages, PeerSend(m)
    PROVE  TransportInv' /\ DownStep /\ UpStep
<1> USE DEF TransportInv
<1> DEFINE f     == FrameOf(m, Tx, TRUE)
           start == Offset(c2s)
<1>1. /\ peer.open /\ peer.keyed /\ Fits(m)
      /\ up' = Append(up, f) /\ sentUp' = Append(sentUp, m)
      /\ peer' = [peer EXCEPT !.tx = @ + Blocks(SizeOf[m])]
      /\ UNCHANGED <<server, c2s, s2c, down, gotUp, sentDown, gotDown>>
    BY DEF PeerSend, Tx
<1>2. /\ up \in Seq(Frame) /\ sentUp \in Seq(Messages) /\ gotUp \in Seq(Messages)
      /\ Len(gotUp) \in Nat /\ c2s \in Fresh
      /\ peer \in Peer
      /\ SizeOf[m] \in Nat /\ Tx \in Nat
    <2>1. peer.tx * BlockSize \in Nat
        BY BlocksAdd DEF Types, Peer
    <2> QED BY <2>1, TransportAssumption DEF Types, Tx
<1>3. WellFramed(f) /\ f \in Frame /\ f.msg = m /\ f.offset = Tx /\ f.whole
    <2>1. m \in Messages \cup {Hello} /\ Tx \in Nat \cup {Plain} /\ TRUE \in BOOLEAN
        BY <1>2
    <2>2. WellFramed(f) /\ f.msg = m /\ f.offset = Tx /\ f.whole = TRUE
        BY <2>1, FramesFit, Zenon
    <2> QED BY <2>2 DEF WellFramed
<1> HIDE DEF f
<1>4. /\ peer' \in Peer /\ peer'.lost = peer.lost
      /\ peer'.keyed /\ peer'.open /\ peer'.rx = peer.rx
      /\ Tx' = Tx + Span(SizeOf[m])
    <2>1. Blocks(SizeOf[m]) \in Nat
        BY <1>2, SpanCovers
    <2>2. /\ peer'.tx = peer.tx + Blocks(SizeOf[m])
          /\ peer'.keyed = peer.keyed /\ peer'.open = peer.open
          /\ peer'.rx = peer.rx /\ peer'.lost = peer.lost
        BY <1>1, <1>2, <2>1 DEF Peer
    <2>7. peer' \in Peer
        <3>1. FALSE \in BOOLEAN
            OBVIOUS
        <3> QED BY <1>1, <1>2, <2>1, <3>1, PeerCounts, Zenon
    <2>3. peer.tx \in Nat
        BY <1>2 DEF Peer
    <2>4. (peer.tx + Blocks(SizeOf[m])) * BlockSize = peer.tx * BlockSize + Span(SizeOf[m])
        BY <1>2, <2>3, BlocksAdd
    <2>5. peer'.keyed /\ peer'.open
        BY <1>1, <2>2, Zenon
    <2>6. Tx' = Tx + Span(SizeOf[m])
        BY <2>2, <2>4 DEF Tx
    <2> QED BY <2>2, <2>5, <2>6, <2>7, Zenon
<1>5. up' \in Seq(Frame) /\ sentUp' \in Seq(Messages)
    BY <1>1, <1>2, <1>3
<1>6. Types'
    BY <1>1, <1>4, <1>5 DEF Types
<1>7. Handshaking'
    BY <1>1, <1>4 DEF Handshaking
<1>8. DownChain'
    <2>1. Skip' = Skip /\ Rx' = Rx /\ (Offset(s2c))' = Offset(s2c)
        BY <1>1, <1>4 DEF Skip, Rx, Offset
    <2> QED BY <1>1, <2>1 DEF DownChain
<1>9. UpChain'
    <2> SUFFICES ASSUME server \in {"handshake", "ready"}
                 PROVE  /\ \A i \in DOMAIN up' : Fits(up'[i].msg)
                        /\ Chain(up', 0, sentUp', Len(gotUp), start)
                        /\ Full(up', 0, sentUp', Len(gotUp))
                        /\ NextStart(up', 0, start) = Tx'
        BY <1>1 DEF UpChain, Offset
    <2>1. /\ \A i \in DOMAIN up : Fits(up[i].msg)
          /\ Chain(up, 0, sentUp, Len(gotUp), start)
          /\ Full(up, 0, sentUp, Len(gotUp)) /\ NextStart(up, 0, start) = Tx
        BY <1>1 DEF UpChain
    <2>2. start \in Nat
        BY <1>2, CryptMakesBlocks
    <2> HIDE DEF start
    <2>3. Longer(up', up, f)
        BY <1>1, <1>2, <1>3, <1>5 DEF Longer
    <2>4. Tells(sentUp', sentUp, f)
        BY <1>1, <1>2, <1>3, <1>5 DEF Tells
    <2>5. 0 \in Nat /\ 0 <= Len(up)
        BY <1>2
    <2>6. /\ Chain(up', 0, sentUp', Len(gotUp), start)
          /\ f.whole => Full(up', 0, sentUp', Len(gotUp))
          /\ NextStart(up', 0, start) = NextStart(up, 0, start) + Span(SizeOf[f.msg])
        BY <1>2, <1>3, <2>1, <2>2, <2>3, <2>4, <2>5, ChainGrows
    <2>7. \A i \in DOMAIN up' : Fits(up'[i].msg)
        <3>1. \A i \in DOMAIN up' : (i \in DOMAIN up /\ up'[i] = up[i]) \/ up'[i] = f
            BY <2>3 DEF Longer
        <3> QED BY <1>1, <1>3, <2>1, <3>1
    <2> QED BY <1>3, <1>4, <2>1, <2>6, <2>7
<1>10. UpStep
    BY <1>1 DEF UpStep, Up!Put
<1>11. DownStep
    BY <1>1 DEF DownStep, DownSent, DownGot
<1> QED BY <1>6, <1>7, <1>8, <1>9, <1>10, <1>11

\* A client that goes away leaves a chain behind (external).
LEMMA PeerEndStep ==
    ASSUME TransportInv, PeerEnd
    PROVE  TransportInv' /\ DownStep /\ UpStep
<1> USE DEF TransportInv
<1>1. PICK n \in 0 .. Len(up) : Cut(up, n, up')
    BY DEF PeerEnd, Cut
<1>2. /\ peer' = [peer EXCEPT !.open = FALSE]
      /\ UNCHANGED <<server, c2s, s2c, down, sentUp, gotUp, sentDown, gotDown>>
    BY DEF PeerEnd
<1>3. /\ up \in Seq(Frame) /\ Len(gotUp) \in Nat
      /\ peer \in Peer
    BY DEF Types
<1>4. /\ peer' \in Peer /\ peer'.lost = peer.lost
      /\ peer'.keyed = peer.keyed /\ peer'.rx = peer.rx /\ peer'.tx = peer.tx
    BY <1>2, <1>3 DEF Peer
<1>5. ~peer'.open
    BY <1>2, <1>3 DEF Peer
<1>6. up' \in Seq(Frame) /\ (up = <<>> => up' = <<>>)
    <2>1. up' \in Seq(Frame) /\ Len(up') = n
        BY <1>1, <1>3, CutParts
    <2>2. ASSUME up = <<>> PROVE up' = <<>>
        <3>1. n = 0
            BY <1>1, <2>2
        <3> QED BY <2>1, <3>1
    <2> QED BY <2>1, <2>2
<1>7. Types'
    BY <1>2, <1>4, <1>6 DEF Types
<1>8. Handshaking'
    BY <1>2, <1>4, <1>6 DEF Handshaking
<1>9. DownChain'
    <2>1. Skip' = Skip /\ Rx' = Rx /\ (Offset(s2c))' = Offset(s2c)
        BY <1>2, <1>4 DEF Skip, Rx, Offset
    <2> QED BY <1>2, <2>1 DEF DownChain
<1>10. UpChain'
    <2>1. ASSUME server \in {"handshake", "ready"}
          PROVE  /\ \A i \in DOMAIN up' : Fits(up'[i].msg)
                 /\ Chain(up', 0, sentUp, Len(gotUp), Offset(c2s))
        <3>1. /\ \A i \in DOMAIN up : Fits(up[i].msg)
              /\ Chain(up, 0, sentUp, Len(gotUp), Offset(c2s))
            BY <2>1 DEF UpChain
        <3>2. \A i \in DOMAIN up' : i \in DOMAIN up /\ up'[i].msg = up[i].msg
            BY <1>1, <1>3, CutParts
        <3>3. Chain(up', 0, sentUp, Len(gotUp), Offset(c2s))
            BY <1>1, <1>3, <3>1, ChainEnds
        <3> QED BY <3>1, <3>2, <3>3
    <2> QED BY <1>2, <1>5, <2>1 DEF UpChain, Offset
<1>11. DownStep /\ UpStep
    BY <1>2 DEF DownStep, DownSent, DownGot, UpStep
<1> QED BY <1>7, <1>8, <1>9, <1>10, <1>11

-----------------------------------------------------------------------------
(* The theorems.                                                           *)

\* Every step keeps the invariant, and is a step of both pipes or a stutter.
LEMMA StepHolds ==
    ASSUME TransportInv, [TransportNext]_vars
    PROVE  TransportInv' /\ DownStep /\ UpStep
<1>1. CASE Handshake
    BY <1>1, HandshakeStep
<1>2. CASE Recv
    BY <1>2, RecvStep
<1>3. CASE RecvEnd \/ Close
    BY <1>3, StopStep
<1>4. CASE \E m \in Messages : Send(m)
    BY <1>4, SendStep
<1>5. CASE \E m \in Messages : PeerSend(m)
    BY <1>5, PeerSendStep
<1>6. CASE PeerRecv
    BY <1>6, PeerRecvStep
<1>7. CASE PeerEnd
    BY <1>7, PeerEndStep
<1>8. CASE UNCHANGED vars
    <2>1. TransportInv'
        BY <1>8 DEF vars, TransportInv, Types, Handshaking, DownChain, UpChain,
                    Skip, Rx, Tx, Offset
    <2>2. DownStep /\ UpStep
        BY <1>8 DEF vars, DownStep, DownSent, DownGot, UpStep
    <2> QED BY <2>1, <2>2
<1> QED BY <1>1, <1>2, <1>3, <1>4, <1>5, <1>6, <1>7, <1>8 DEF TransportNext

\* The frames in flight are a chain: each starts in the keystream where the one
\* before it ended, the first where the reader is, and the last ends where the
\* writer is, unless it was cut (Conn.Send, Conn.Recv).
THEOREM TransportInvariant == TransportSpec => []TransportInv
<1>1. TransportInit => TransportInv
    BY InitHolds
<1>2. TransportInv /\ [TransportNext]_vars => TransportInv'
    BY StepHolds
<1> QED BY <1>1, <1>2, PTL DEF TransportSpec

\* The types of the state: the ciphers never owe bytes, and no frame's length
\* field is out of its range (Rabbit.Keystream, writeFrame).
THEOREM TransportTypes == TransportSpec => []TransportTypeOK
<1>1. TransportInv => TransportTypeOK
    <2> SUFFICES ASSUME TransportInv PROVE TransportTypeOK
        OBVIOUS
    <2>1. c2s \in Cipher /\ s2c \in Cipher
        BY DEF TransportInv, Types, Fresh
    <2>2. Seq(Messages) \subseteq Seq(Messages \cup {Garbage})
        OBVIOUS
    <2> QED BY <2>1, <2>2 DEF TransportInv, Types, Peer, TransportTypeOK
<1> QED BY <1>1, TransportInvariant, PTL

\* No byte of the server's keystream encrypts two frames (Rabbit.Keystream,
\* Conn.Send), whatever the sizes of the messages.
THEOREM KeystreamIsUsedOnce == TransportSpec => []KeystreamUsedOnce
<1>1. TransportInv => KeystreamUsedOnce
    <2> SUFFICES ASSUME TransportInv, NEW i \in DOMAIN down, down[i].offset # Plain
                 PROVE  /\ down[i].offset + SizeOf[down[i].msg] <= Offset(s2c)
                        /\ i < Len(down) =>
                              down[i].offset + SizeOf[down[i].msg] <= down[i + 1].offset
        BY DEF KeystreamUsedOnce
    <2> DEFINE f == down[i]
    <2>1. Types /\ Handshaking /\ DownChain
        BY DEF TransportInv
    <2>2. down \in Seq(Frame) /\ i \in 1 .. Len(down) /\ Len(down) \in Nat /\ Skip \in {0, 1}
        BY <2>1 DEF Types, Skip
    <2>3. i > Skip
        <3>1. ASSUME i = 1, Skip = 1 PROVE FALSE
            BY <2>1, <2>2, <3>1 DEF Handshaking, Skip
        <3> QED BY <2>2, <3>1
    <2>4. WellFramed(f) /\ f.offset \in Nat
        BY <2>1, <2>3 DEF DownChain, Chain
    <2>5. SizeOf[f.msg] \in Nat /\ Span(SizeOf[f.msg]) \in Nat
          /\ SizeOf[f.msg] <= Span(SizeOf[f.msg])
        BY <2>4, ReadAtOffset, SpanCovers
    <2>6. f.offset + SizeOf[f.msg] <= End(f) /\ End(f) \in Nat
        BY <2>4, <2>5 DEF End
    <2>7. End(f) <= Offset(s2c) /\ Offset(s2c) \in Nat
        <3>1. s2c \in Fresh
            BY <2>1 DEF Types
        <3>2. Offset(s2c) \in Nat
            BY <3>1, CryptMakesBlocks
        <3> QED BY <2>1, <2>3, <3>2 DEF DownChain
    <2>8. ASSUME i < Len(down) PROVE down[i + 1].offset = End(f)
        <3>1. i + 1 \in DOMAIN down /\ i + 1 > Skip /\ i + 1 # Skip + 1 /\ (i + 1) - 1 = i
            BY <2>2, <2>3, <2>8
        <3>2. down[i + 1].offset = End(down[(i + 1) - 1])
            BY <2>1, <3>1 DEF DownChain, Chain
        <3> QED BY <3>1, <3>2
    <2> HIDE DEF f
    <2>9. f.offset + SizeOf[f.msg] <= Offset(s2c)
        BY <2>4, <2>5, <2>6, <2>7
    <2> QED BY <2>6, <2>8, <2>9 DEF f
<1> QED BY <1>1, TransportInvariant, PTL

\* Nothing is written behind a frame that was cut (Conn.writeFrame, Serve).
THEOREM NothingBehindCut == TransportSpec => []CutIsLast
<1>1. TransportInv => CutIsLast
    BY DEF TransportInv, DownChain, LastCut, CutIsLast
<1> QED BY <1>1, TransportInvariant, PTL

\* A connection implements a pipe of messages in each direction, whatever the
\* messages, the block and the length field: the client's, which fit their
\* frames, all come through up to the first failure, and of the server's, which
\* need not, those in front of the first that does not (session.go:137-148).
THEOREM TransportIsPipe == TransportSpec => PipeSpec
<1>1. TransportInit => Up!Init /\ Down!Init
    <2> SUFFICES ASSUME TransportInit PROVE Up!Init /\ Down!Init
        OBVIOUS
    <2>1. sentDown = <<>> /\ gotDown = <<>> /\ sentUp = <<>> /\ gotUp = <<>>
        BY DEF TransportInit
    <2>2. First(<<>>, Clear(<<>>)) = <<>>
        <3>1. <<>> \in Seq(Messages) /\ Len(<<>>) = 0
            OBVIOUS
        <3>2. IsClear(0, <<>>)
            BY DEF IsClear
        <3>3. Clear(<<>>) = 0
            BY <3>1, <3>2, ClearIs
        <3> QED BY <3>1, <3>3 DEF First
    <2> QED BY <2>1, <2>2 DEF Up!Init, Down!Init
<1>2. TransportInv /\ [TransportNext]_vars =>
         /\ [Up!Put \/ Up!Get]_<<sentUp, gotUp>>
         /\ [Down!Put \/ Down!Get]_<<First(sentDown, Clear(sentDown)),
                                     First(gotDown, Clear(sentDown))>>
    BY StepHolds DEF UpStep, DownStep, DownSent, DownGot
<1> QED BY <1>1, <1>2, TransportInvariant, PTL DEF TransportSpec, PipeSpec, Up!Spec, Down!Spec

-----------------------------------------------------------------------------
(* The counters of the cipher.                                             *)

\* The eight words count as one: a block adds the increments and the carry of
\* the last block to them, and no carry is lost or made up on the way, though
\* the comparison would miss one if an increment were the largest word
\* (rabbit.go:80-86, Rabbit.next).
CounterAdds ==
    \A s \in Counters :
        Value(next(s).c, next(s).b) = Value(s.c, 0) + Value(rabbitA, 0) + s.b

-----------------------------------------------------------------------------

\* The comparison finds the carry of one addition (Rabbit.next).
LEMMA CarryFound ==
    ASSUME NEW W \in Nat \ {0}, NEW c \in Nat, NEW a \in Nat, NEW b \in {0, 1},
           c < W, a < W - 1
    PROVE  LET t == (c + a + b) % W
               d == IF t < c THEN 1 ELSE 0
           IN  t \in Nat /\ t < W /\ t + d * W = c + a + b
<1> DEFINE t == (c + a + b) % W
<1>1. CASE c + a + b < W
  <2>1. t = c + a + b
    BY <1>1
  <2> QED BY <1>1, <2>1
<1>2. CASE c + a + b >= W
  <2>1. c + a + b - W \in Nat /\ c + a + b - W < W
    BY <1>2
  <2>2. t = c + a + b - W
    BY <1>2, <2>1
  <2>3. t < c
    BY <2>2
  <2> QED BY <2>1, <2>2, <2>3
<1> QED BY <1>1, <1>2

\* One turn replaces its own word, by what keeps the sum.
LEMMA TurnAdds ==
    ASSUME NEW s \in Counters, NEW j \in Limbs
    PROVE  /\ Advance(s, j) \in Counters
           /\ \A i \in Limbs \ {j} : Advance(s, j).c[i] = s.c[i]
           /\ Advance(s, j).c[j] + Advance(s, j).b * Word = s.c[j] + rabbitA[j] + s.b
<1> DEFINE d == IF WordSum(s, j) < s.c[j] THEN 1 ELSE 0
<1>1. Word \in Nat \ {0} /\ rabbitA[j] \in Nat /\ rabbitA[j] < Word - 1
  BY RabbitAssumption
<1>2. s.c \in [Limbs -> 0 .. Word - 1] /\ s.b \in {0, 1}
  BY DEF Counters
<1>3. s.c[j] \in Nat /\ s.c[j] < Word
  BY <1>1, <1>2
<1>4. WordSum(s, j) \in Nat /\ WordSum(s, j) < Word /\ WordSum(s, j) + d * Word = s.c[j] + rabbitA[j] + s.b
  BY <1>1, <1>2, <1>3, CarryFound DEF WordSum
<1>5. Advance(s, j) = [c |-> [s.c EXCEPT ![j] = WordSum(s, j)], b |-> d]
  BY Zenon DEF Advance
<1> HIDE DEF d
<1>6. d \in {0, 1}
  BY DEF d
<1>7. WordSum(s, j) \in 0 .. Word - 1
  BY <1>1, <1>4
<1>8. [s.c EXCEPT ![j] = WordSum(s, j)] \in [Limbs -> 0 .. Word - 1]
  BY <1>2, <1>7
<1>9. /\ [s.c EXCEPT ![j] = WordSum(s, j)][j] = WordSum(s, j)
      /\ \A i \in Limbs \ {j} : [s.c EXCEPT ![j] = WordSum(s, j)][i] = s.c[i]
  BY <1>2
<1>10. Advance(s, j).c = [s.c EXCEPT ![j] = WordSum(s, j)] /\ Advance(s, j).b = d
  BY <1>5
<1> QED BY <1>4, <1>5, <1>6, <1>8, <1>9, <1>10 DEF Counters

\* One turn at a word f, and the number F that the words behind it make up.
Turned(f, c, a, b, d) ==
    f \in Nat /\ c \in Nat /\ a \in Nat /\ b \in Nat /\ d \in Nat /\ f + d * Word = c + a + b
Total(F, C, A, d) ==
    F \in Nat /\ C \in Nat /\ A \in Nat /\ d \in Nat /\ F = C + A + d

\* A word goes in front of those whose total is known.
LEMMA WordInFront ==
    ASSUME NEW f, NEW c, NEW a, NEW b, NEW d, Turned(f, c, a, b, d),
           NEW F, NEW C, NEW A, Total(F, C, A, d)
    PROVE  Total(f + Word * F, c + Word * C, a + Word * A, b)
<1>1. Word \in Nat
  BY RabbitAssumption
<1>2. Word * F = Word * C + Word * A + Word * d
  BY <1>1 DEF Total
<1>3. Word * F \in Nat /\ Word * C \in Nat /\ Word * A \in Nat /\ Word * d \in Nat
      /\ d * Word = Word * d
  BY <1>1 DEF Total
<1> QED BY <1>2, <1>3 DEF Total, Turned

\* For every word and all increments below the largest word (Rabbit.next).
THEOREM BlockAdds == CounterAdds
<1> SUFFICES ASSUME NEW s \in Counters
             PROVE  Value(next(s).c, next(s).b) = Value(s.c, 0) + Value(rabbitA, 0) + s.b
  BY DEF CounterAdds
<1> DEFINE s1 == Advance(s, 0)
           s2 == Advance(s1, 1)
           s3 == Advance(s2, 2)
           s4 == Advance(s3, 3)
           s5 == Advance(s4, 4)
           s6 == Advance(s5, 5)
           s7 == Advance(s6, 6)
           s8 == Advance(s7, 7)
<1>1. next(s) = s8
  BY DEF next
<1> HIDE DEF s1, s2, s3, s4, s5, s6, s7, s8
<1>2. 0 \in Limbs /\ 1 \in Limbs /\ 2 \in Limbs /\ 3 \in Limbs
      /\ 4 \in Limbs /\ 5 \in Limbs /\ 6 \in Limbs /\ 7 \in Limbs
  BY DEF Limbs
\* Each turn, and the words of s8.
<1>3. /\ s1 \in Counters /\ s1.c[0] + s1.b * Word = s.c[0] + rabbitA[0] + s.b
      /\ \A i \in Limbs \ {0} : s1.c[i] = s.c[i]
  BY <1>2, TurnAdds DEF s1
<1>4. /\ s2 \in Counters /\ s2.c[1] + s2.b * Word = s1.c[1] + rabbitA[1] + s1.b
      /\ \A i \in Limbs \ {1} : s2.c[i] = s1.c[i]
  BY <1>2, <1>3, TurnAdds DEF s2
<1>5. /\ s3 \in Counters /\ s3.c[2] + s3.b * Word = s2.c[2] + rabbitA[2] + s2.b
      /\ \A i \in Limbs \ {2} : s3.c[i] = s2.c[i]
  BY <1>2, <1>4, TurnAdds DEF s3
<1>6. /\ s4 \in Counters /\ s4.c[3] + s4.b * Word = s3.c[3] + rabbitA[3] + s3.b
      /\ \A i \in Limbs \ {3} : s4.c[i] = s3.c[i]
  BY <1>2, <1>5, TurnAdds DEF s4
<1>7. /\ s5 \in Counters /\ s5.c[4] + s5.b * Word = s4.c[4] + rabbitA[4] + s4.b
      /\ \A i \in Limbs \ {4} : s5.c[i] = s4.c[i]
  BY <1>2, <1>6, TurnAdds DEF s5
<1>8. /\ s6 \in Counters /\ s6.c[5] + s6.b * Word = s5.c[5] + rabbitA[5] + s5.b
      /\ \A i \in Limbs \ {5} : s6.c[i] = s5.c[i]
  BY <1>2, <1>7, TurnAdds DEF s6
<1>9. /\ s7 \in Counters /\ s7.c[6] + s7.b * Word = s6.c[6] + rabbitA[6] + s6.b
      /\ \A i \in Limbs \ {6} : s7.c[i] = s6.c[i]
  BY <1>2, <1>8, TurnAdds DEF s7
<1>10. /\ s8 \in Counters /\ s8.c[7] + s8.b * Word = s7.c[7] + rabbitA[7] + s7.b
       /\ \A i \in Limbs \ {7} : s8.c[i] = s7.c[i]
  BY <1>2, <1>9, TurnAdds DEF s8
\* Before its turn a word is that of s, behind it that of s8.
<1>11. /\ s1.c[1] = s.c[1] /\ s2.c[2] = s.c[2] /\ s3.c[3] = s.c[3] /\ s4.c[4] = s.c[4]
       /\ s5.c[5] = s.c[5] /\ s6.c[6] = s.c[6] /\ s7.c[7] = s.c[7]
  BY <1>3, <1>4, <1>5, <1>6, <1>7, <1>8, <1>9, <1>10 DEF Limbs
<1>12. /\ s8.c[0] = s1.c[0] /\ s8.c[1] = s2.c[1] /\ s8.c[2] = s3.c[2] /\ s8.c[3] = s4.c[3]
       /\ s8.c[4] = s5.c[4] /\ s8.c[5] = s6.c[5] /\ s8.c[6] = s7.c[6]
  BY <1>3, <1>4, <1>5, <1>6, <1>7, <1>8, <1>9, <1>10 DEF Limbs
<1>13. ASSUME NEW u \in Counters
       PROVE  u.b \in Nat /\ \A j \in Limbs : u.c[j] \in Nat
  BY RabbitAssumption DEF Counters
<1>14. Word \in Nat /\ \A j \in Limbs : rabbitA[j] \in Nat
  BY RabbitAssumption
\* The sums of the words from the last one to the first.
<1> DEFINE F7 == s8.c[7] + Word * s8.b   C7 == s.c[7] + Word * 0   A7 == rabbitA[7] + Word * 0
           F6 == s8.c[6] + Word * F7     C6 == s.c[6] + Word * C7  A6 == rabbitA[6] + Word * A7
           F5 == s8.c[5] + Word * F6     C5 == s.c[5] + Word * C6  A5 == rabbitA[5] + Word * A6
           F4 == s8.c[4] + Word * F5     C4 == s.c[4] + Word * C5  A4 == rabbitA[4] + Word * A5
           F3 == s8.c[3] + Word * F4     C3 == s.c[3] + Word * C4  A3 == rabbitA[3] + Word * A4
           F2 == s8.c[2] + Word * F3     C2 == s.c[2] + Word * C3  A2 == rabbitA[2] + Word * A3
           F1 == s8.c[1] + Word * F2     C1 == s.c[1] + Word * C2  A1 == rabbitA[1] + Word * A2
           F0 == s8.c[0] + Word * F1     C0 == s.c[0] + Word * C1  A0 == rabbitA[0] + Word * A1
<1>15. Value(s8.c, s8.b) = F0 /\ Value(s.c, 0) = C0 /\ Value(rabbitA, 0) = A0
  BY DEF Value
<1> HIDE DEF F0, C0, A0, F1, C1, A1, F2, C2, A2, F3, C3, A3, F4, C4, A4, F5, C5, A5, F6, C6, A6, F7, C7, A7
<1>16. Total(F7, C7, A7, s7.b)
  <2>1. s8.c[7] \in Nat /\ s.c[7] \in Nat /\ rabbitA[7] \in Nat
        /\ s7.b \in Nat /\ s8.b \in Nat
    BY <1>2, <1>10, <1>13, <1>14, <1>9
  <2>2. Turned(s8.c[7], s.c[7], rabbitA[7], s7.b, s8.b)
    BY <1>10, <1>11, <1>12, <2>1 DEF Turned
  <2>3. Total(s8.b, 0, 0, s8.b)
    BY <2>1 DEF Total
  <2> QED BY Zenon, <2>2, <2>3, WordInFront DEF F7, C7, A7
<1>17. Total(F6, C6, A6, s6.b)
  <2>1. s8.c[6] \in Nat /\ s.c[6] \in Nat /\ rabbitA[6] \in Nat
        /\ s6.b \in Nat /\ s7.b \in Nat
    BY <1>2, <1>10, <1>13, <1>14, <1>8, <1>9
  <2>2. Turned(s8.c[6], s.c[6], rabbitA[6], s6.b, s7.b)
    BY <1>9, <1>11, <1>12, <2>1 DEF Turned
  <2> QED BY Zenon, <2>2, <1>16, WordInFront DEF F6, C6, A6
<1>18. Total(F5, C5, A5, s5.b)
  <2>1. s8.c[5] \in Nat /\ s.c[5] \in Nat /\ rabbitA[5] \in Nat
        /\ s5.b \in Nat /\ s6.b \in Nat
    BY <1>2, <1>10, <1>13, <1>14, <1>7, <1>8
  <2>2. Turned(s8.c[5], s.c[5], rabbitA[5], s5.b, s6.b)
    BY <1>8, <1>11, <1>12, <2>1 DEF Turned
  <2> QED BY Zenon, <2>2, <1>17, WordInFront DEF F5, C5, A5
<1>19. Total(F4, C4, A4, s4.b)
  <2>1. s8.c[4] \in Nat /\ s.c[4] \in Nat /\ rabbitA[4] \in Nat
        /\ s4.b \in Nat /\ s5.b \in Nat
    BY <1>2, <1>10, <1>13, <1>14, <1>6, <1>7
  <2>2. Turned(s8.c[4], s.c[4], rabbitA[4], s4.b, s5.b)
    BY <1>7, <1>11, <1>12, <2>1 DEF Turned
  <2> QED BY Zenon, <2>2, <1>18, WordInFront DEF F4, C4, A4
<1>20. Total(F3, C3, A3, s3.b)
  <2>1. s8.c[3] \in Nat /\ s.c[3] \in Nat /\ rabbitA[3] \in Nat
        /\ s3.b \in Nat /\ s4.b \in Nat
    BY <1>2, <1>10, <1>13, <1>14, <1>5, <1>6
  <2>2. Turned(s8.c[3], s.c[3], rabbitA[3], s3.b, s4.b)
    BY <1>6, <1>11, <1>12, <2>1 DEF Turned
  <2> QED BY Zenon, <2>2, <1>19, WordInFront DEF F3, C3, A3
<1>21. Total(F2, C2, A2, s2.b)
  <2>1. s8.c[2] \in Nat /\ s.c[2] \in Nat /\ rabbitA[2] \in Nat
        /\ s2.b \in Nat /\ s3.b \in Nat
    BY <1>2, <1>10, <1>13, <1>14, <1>4, <1>5
  <2>2. Turned(s8.c[2], s.c[2], rabbitA[2], s2.b, s3.b)
    BY <1>5, <1>11, <1>12, <2>1 DEF Turned
  <2> QED BY Zenon, <2>2, <1>20, WordInFront DEF F2, C2, A2
<1>22. Total(F1, C1, A1, s1.b)
  <2>1. s8.c[1] \in Nat /\ s.c[1] \in Nat /\ rabbitA[1] \in Nat
        /\ s1.b \in Nat /\ s2.b \in Nat
    BY <1>2, <1>10, <1>13, <1>14, <1>3, <1>4
  <2>2. Turned(s8.c[1], s.c[1], rabbitA[1], s1.b, s2.b)
    BY <1>4, <1>11, <1>12, <2>1 DEF Turned
  <2> QED BY Zenon, <2>2, <1>21, WordInFront DEF F1, C1, A1
<1>23. Total(F0, C0, A0, s.b)
  <2>1. s8.c[0] \in Nat /\ s.c[0] \in Nat /\ rabbitA[0] \in Nat
        /\ s.b \in Nat /\ s1.b \in Nat
    BY <1>2, <1>10, <1>13, <1>14, <1>3
  <2>2. Turned(s8.c[0], s.c[0], rabbitA[0], s.b, s1.b)
    BY <1>3, <1>11, <1>12, <2>1 DEF Turned
  <2> QED BY Zenon, <2>2, <1>22, WordInFront DEF F0, C0, A0
<1> QED BY <1>1, <1>15, <1>23 DEF Total

-----------------------------------------------------------------------------
(* Any number of blocks.                                                   *)

\* A block leaves counters (Rabbit.next).
LEMMA NextCounters == ASSUME NEW s \in Counters PROVE next(s) \in Counters
<1>1. 0 \in Limbs /\ 1 \in Limbs /\ 2 \in Limbs /\ 3 \in Limbs
      /\ 4 \in Limbs /\ 5 \in Limbs /\ 6 \in Limbs /\ 7 \in Limbs
  BY DEF Limbs
<1>2. \A u \in Counters, j \in Limbs : Advance(u, j) \in Counters
  BY TurnAdds
<1> QED BY <1>1, <1>2 DEF next

\* The function behind After: see there.
Blocked(s) == CHOOSE after : after = [k \in Nat |-> IF k = 0 THEN s ELSE next(after[k - 1])]

LEMMA AfterIsBlocked == ASSUME NEW s, NEW n PROVE After(s, n) = Blocked(s)[n]
BY DEF After, Blocked

\* It makes one more block with each step (Rabbit.Keystream).
LEMMA AfterStep ==
    ASSUME NEW s \in Counters
    PROVE  After(s, 0) = s /\ \A n \in Nat : After(s, n + 1) = next(After(s, n))
<1> DEFINE step == [x \in Nat \X Counters |-> next(x[2])]
           Is(f) == f = [k \in Nat |-> IF k = 0 THEN s ELSE next(f[k - 1])]
<1>1. step \in [Nat \X Counters -> Counters]
  BY NextCounters
<1>2. \A n \in Nat, c \in Counters : step[<<n, c>>] = next(c)
  OBVIOUS
<1> HIDE DEF step
<1>3. PICK g \in [Nat -> Counters] : Goes(g, s, step)
  BY <1>1, NatRecursion, Zenon
<1>4. Is(g)
  <2>1. ASSUME NEW k \in Nat PROVE g[k] = IF k = 0 THEN s ELSE next(g[k - 1])
    <3>1. CASE k = 0
      BY <1>3, <3>1 DEF Goes
    <3>2. CASE k # 0
      <4>1. k - 1 \in Nat /\ (k - 1) + 1 = k
        BY <3>2
      <4>2. g[(k - 1) + 1] = step[<<k - 1, g[k - 1]>>] /\ g[k - 1] \in Counters
        BY <1>3, <4>1 DEF Goes
      <4>3. g[k] = next(g[k - 1])
        BY <1>2, <4>1, <4>2
      <4> QED BY <3>2, <4>3
    <3> QED BY <3>1, <3>2
  <2> QED BY <2>1
<1>5. Is(Blocked(s))
  <2>1. \E f : Is(f)
    BY <1>4
  <2> QED BY <2>1, Zenon DEF Blocked
<1>6. \A n \in Nat : Blocked(s)[n] = IF n = 0 THEN s ELSE next(Blocked(s)[n - 1])
  BY <1>5
<1> HIDE DEF Is
<1>7. \A n \in Nat : n + 1 \in Nat /\ n + 1 # 0 /\ (n + 1) - 1 = n
  OBVIOUS
<1>8. Blocked(s)[0] = s /\ \A n \in Nat : Blocked(s)[n + 1] = next(Blocked(s)[n])
  BY <1>6, <1>7
<1> QED BY <1>8, AfterIsBlocked

\* Counters stay counters.
LEMMA AfterCounters ==
    ASSUME NEW s \in Counters
    PROVE  \A n \in Nat : After(s, n) \in Counters
<1> DEFINE S == {n \in Nat : After(s, n) \in Counters}
<1>1. 0 \in S
  BY AfterStep
<1>2. \A n \in Nat : n \in S => n + 1 \in S
  <2>1. \A n \in Nat : n + 1 \in Nat
    OBVIOUS
  <2> QED BY <2>1, AfterStep, NextCounters
<1>3. \A n \in Nat : n \in S
  <2> HIDE DEF S
  <2> QED BY <1>1, <1>2, NatSet
<1> QED BY <1>3

\* Eight words count up to this.
Top == Word * (Word * (Word * (Word * (Word * (Word * (Word * Word))))))

\* A carry counts as much as all that eight words can.
LEMMA CarryCounts ==
    ASSUME NEW s \in Counters
    PROVE  /\ Value(s.c, 0) \in Nat
           /\ Value(s.c, s.b) = Value(s.c, 0) + Top * s.b
<1>1. Word \in Nat
  BY RabbitAssumption
<1>2. s.b \in {0, 1} /\ \A j \in Limbs : s.c[j] \in Nat
  BY RabbitAssumption DEF Counters
<1>3. s.c[0] \in Nat /\ s.c[1] \in Nat /\ s.c[2] \in Nat /\ s.c[3] \in Nat
      /\ s.c[4] \in Nat /\ s.c[5] \in Nat /\ s.c[6] \in Nat /\ s.c[7] \in Nat
  BY <1>2 DEF Limbs
<1> DEFINE W1 == Word       W2 == Word * W1  W3 == Word * W2  W4 == Word * W3
           W5 == Word * W4  W6 == Word * W5  W7 == Word * W6  W8 == Word * W7
           F7 == s.c[7] + Word * s.b  G7 == s.c[7] + Word * 0
           F6 == s.c[6] + Word * F7   G6 == s.c[6] + Word * G7
           F5 == s.c[5] + Word * F6   G5 == s.c[5] + Word * G6
           F4 == s.c[4] + Word * F5   G4 == s.c[4] + Word * G5
           F3 == s.c[3] + Word * F4   G3 == s.c[3] + Word * G4
           F2 == s.c[2] + Word * F3   G2 == s.c[2] + Word * G3
           F1 == s.c[1] + Word * F2   G1 == s.c[1] + Word * G2
           F0 == s.c[0] + Word * F1   G0 == s.c[0] + Word * G1
           Holds(F, G, W) == F \in Nat /\ G \in Nat /\ W \in Nat /\ F = G + W * s.b
<1>5. Value(s.c, s.b) = F0 /\ Value(s.c, 0) = G0 /\ Top = W8
  BY DEF Value, Top
<1>7. Holds(F7, G7, W1)
  BY <1>1, <1>2, <1>3
<1> HIDE DEF W1, W2, W3, W4, W5, W6, W7, W8, F0, F1, F2, F3, F4, F5, F6, F7,
             G0, G1, G2, G3, G4, G5, G6, G7
\* A word goes in front of a number that has the carry and one that has not.
<1>6. ASSUME NEW f, NEW F, NEW G, NEW W, f \in Nat, Holds(F, G, W)
      PROVE  Holds(f + Word * F, f + Word * G, Word * W)
  <2>1. F \in Nat /\ G \in Nat /\ W \in Nat /\ F = G + W * s.b /\ f \in Nat
    BY <1>6
  <2>2. f + Word * F \in Nat /\ f + Word * G \in Nat /\ Word * W \in Nat
        /\ f + Word * F = (f + Word * G) + (Word * W) * s.b
    <3>1. CASE s.b = 0
      BY <1>1, <2>1, <3>1
    <3>2. CASE s.b = 1
      <4>1. Word * F = Word * G + Word * W
        BY <1>1, <2>1, <3>2
      <4>2. Word * F \in Nat /\ Word * G \in Nat /\ Word * W \in Nat
        BY <1>1, <2>1
      <4> QED BY <2>1, <3>2, <4>1, <4>2
    <3> QED BY <1>2, <3>1, <3>2
  <2> QED BY <2>2
<1> HIDE DEF Holds
<1>8. Holds(F6, G6, W2)
  BY <1>3, <1>6, <1>7, Zenon DEF F6, G6, W2
<1>9. Holds(F5, G5, W3)
  BY <1>3, <1>6, <1>8, Zenon DEF F5, G5, W3
<1>10. Holds(F4, G4, W4)
  BY <1>3, <1>6, <1>9, Zenon DEF F4, G4, W4
<1>11. Holds(F3, G3, W5)
  BY <1>3, <1>6, <1>10, Zenon DEF F3, G3, W5
<1>12. Holds(F2, G2, W6)
  BY <1>3, <1>6, <1>11, Zenon DEF F2, G2, W6
<1>13. Holds(F1, G1, W7)
  BY <1>3, <1>6, <1>12, Zenon DEF F1, G1, W7
<1>14. Holds(F0, G0, W8)
  BY <1>3, <1>6, <1>13, Zenon DEF F0, G0, W8
<1> QED BY <1>5, <1>14 DEF Holds

\* The increments of all words are a number, and there are at least two words
\* to a word's place: the carry comes round at one less than eight words count to.
LEMMA AroundIsTop ==
    Value(rabbitA, 0) \in Nat /\ Around \in Nat \ {0} /\ Top = Around + 1
<1>1. Word \in Nat /\ Word > 1 /\ \A j \in Limbs : rabbitA[j] \in Nat /\ rabbitA[j] < Word - 1
  <2>1. Word \in Nat /\ \A j \in Limbs : rabbitA[j] \in Nat /\ rabbitA[j] < Word - 1
    BY RabbitAssumption
  <2>2. 0 \in Limbs
    BY DEF Limbs
  <2> QED BY <2>1, <2>2
<1>2. Value(rabbitA, 0) \in Nat
  <2>1. [c |-> rabbitA, b |-> 0] \in Counters
    <3>1. \A j \in Limbs : rabbitA[j] \in 0 .. Word - 1
      BY <1>1
    <3>2. rabbitA \in [Limbs -> 0 .. Word - 1]
      BY <3>1, RabbitAssumption
    <3> QED BY <3>2 DEF Counters
  <2>2. [c |-> rabbitA, b |-> 0].c = rabbitA
    OBVIOUS
  <2> QED BY <2>1, <2>2, CarryCounts
<1>3. ASSUME NEW P, NEW N, NEW P2, NEW N2, P \in Nat, N \in Nat, P = N - 1, N > 1,
             P2 = (Word - 1) + Word * P, N2 = Word * N
      PROVE  P2 \in Nat /\ N2 \in Nat /\ P2 = N2 - 1 /\ N2 > 1
  <2>1. Word * P = Word * N - Word
    BY <1>1, <1>3
  <2>2. Word * N \in Nat /\ Word * N > 1
    BY <1>1, <1>3
  <2> QED BY <1>1, <1>3, <2>1, <2>2
<1> DEFINE m == Word - 1
           P7 == m + Word * 0
           P6 == m + Word * P7  P5 == m + Word * P6  P4 == m + Word * P5
           P3 == m + Word * P4  P2 == m + Word * P3  P1 == m + Word * P2
           P0 == m + Word * P1
           W1 == Word       W2 == Word * W1  W3 == Word * W2  W4 == Word * W3
           W5 == Word * W4  W6 == Word * W5  W7 == Word * W6  W8 == Word * W7
           Less(P, N) == P \in Nat /\ N \in Nat /\ P = N - 1 /\ N > 1
<1>4. Around = P0 /\ Top = W8
  BY DEF Around, Value, Top, Limbs
<1>5. P6 = m + Word * P7 /\ P5 = m + Word * P6 /\ P4 = m + Word * P5 /\ P3 = m + Word * P4
      /\ P2 = m + Word * P3 /\ P1 = m + Word * P2 /\ P0 = m + Word * P1
  OBVIOUS
<1>6. W2 = Word * W1 /\ W3 = Word * W2 /\ W4 = Word * W3
      /\ W5 = Word * W4 /\ W6 = Word * W5 /\ W7 = Word * W6 /\ W8 = Word * W7
  OBVIOUS
<1>7. Less(P7, W1)
  BY <1>1
<1> HIDE DEF P0, P1, P2, P3, P4, P5, P6, P7, W1, W2, W3, W4, W5, W6, W7, W8
<1>8. ASSUME NEW P, NEW N, NEW Q, NEW M, Less(P, N), Q = m + Word * P, M = Word * N
      PROVE  Less(Q, M)
  BY <1>3, <1>8
<1> HIDE DEF Less, m
<1>9. Less(P6, W2)
  BY <1>5, <1>6, <1>7, <1>8, Zenon
<1>10. Less(P5, W3)
  BY <1>5, <1>6, <1>9, <1>8, Zenon
<1>11. Less(P4, W4)
  BY <1>5, <1>6, <1>10, <1>8, Zenon
<1>12. Less(P3, W5)
  BY <1>5, <1>6, <1>11, <1>8, Zenon
<1>13. Less(P2, W6)
  BY <1>5, <1>6, <1>12, <1>8, Zenon
<1>14. Less(P1, W7)
  BY <1>5, <1>6, <1>13, <1>8, Zenon
<1>15. Less(P0, W8)
  BY <1>5, <1>6, <1>14, <1>8, Zenon
<1> QED BY <1>2, <1>4, <1>15 DEF Less

\* What is left over, whatever number of whole turns there were.
LEMMA LeftOver ==
    ASSUME NEW M \in Nat \ {0}, NEW q \in Nat, NEW r \in Nat
    PROVE  (M * q + r) % M = r % M
<1> DEFINE p == r \div M  t == r % M
<1>1. p \in Nat /\ t \in Nat /\ t < M /\ r = M * p + t
  BY SMT
<1> HIDE DEF p, t
<1>2. M * q + r = M * (q + p) + t /\ q + p \in Nat
  BY <1>1, SMT
<1>3. \A k \in Nat : (M * k + t) % M = t
  BY <1>1, SMT
<1>4. (M * q + r) % M = t
  BY <1>2, <1>3
<1> QED BY <1>4 DEF t

\* What is added in two parts may be taken around between them.
LEMMA AroundTwice ==
    ASSUME NEW M \in Nat \ {0}, NEW x \in Nat, NEW y \in Nat
    PROVE  ((x % M) + y) % M = (x + y) % M /\ (x + M) % M = x % M /\ x % M \in Nat
<1> DEFINE q == x \div M  r == x % M
<1>1. q \in Nat /\ r \in Nat /\ x = M * q + r
  BY SMT
<1> HIDE DEF q, r
<1>2. (M * q + (r + y)) % M = (r + y) % M
  <2>1. r + y \in Nat
    BY <1>1
  <2> QED BY <1>1, <2>1, LeftOver
<1>3. M * q + (r + y) = x + y
  BY <1>1
<1>4. (M * 1 + x) % M = x % M
  BY LeftOver
<1>5. M * 1 + x = x + M
  OBVIOUS
<1> QED BY <1>1, <1>2, <1>3, <1>4, <1>5 DEF r

\* One block moves the counters by the increments (Rabbit.next).
LEMMA BlockTurns ==
    ASSUME NEW s \in Counters
    PROVE  /\ Turns(s) \in Nat
           /\ Turns(next(s)) = (Turns(s) + Value(rabbitA, 0)) % Around
<1> DEFINE x == Value(s.c, 0) + s.b
           y == Value(next(s).c, 0) + next(s).b
           V == Value(rabbitA, 0)
<1>1. Around \in Nat \ {0} /\ Top = Around + 1 /\ V \in Nat
  BY AroundIsTop
<1>2. next(s) \in Counters
  BY NextCounters
<1>3. s.b \in {0, 1} /\ next(s).b \in {0, 1}
  BY <1>2 DEF Counters
<1>4. Value(s.c, 0) \in Nat /\ Value(next(s).c, 0) \in Nat
      /\ Value(next(s).c, next(s).b) = Value(next(s).c, 0) + Top * next(s).b
  BY <1>2, CarryCounts
<1>5. Value(next(s).c, next(s).b) = Value(s.c, 0) + V + s.b
  BY BlockAdds DEF CounterAdds
<1>6. x \in Nat /\ y \in Nat
  BY <1>3, <1>4
<1>7. x + V = y \/ x + V = y + Around
  <2>1. CASE next(s).b = 0
    BY <1>1, <1>3, <1>4, <1>5, <2>1
  <2>2. CASE next(s).b = 1
    BY <1>1, <1>3, <1>4, <1>5, <2>2
  <2> QED BY <1>3, <2>1, <2>2
<1>8. Turns(s) = x % Around /\ Turns(next(s)) = y % Around
  BY DEF Turns
<1> HIDE DEF x, y, V
<1>9. y % Around = (x + V) % Around
  BY <1>1, <1>6, <1>7, AroundTwice
<1>10. ((x % Around) + V) % Around = (x + V) % Around /\ x % Around \in Nat
  BY <1>1, <1>6, AroundTwice
<1> QED BY <1>8, <1>9, <1>10 DEF V

\* Any number of blocks moves them by as many increments (Rabbit.Keystream).
LEMMA BlocksTurn ==
    ASSUME NEW s \in Counters
    PROVE  \A n \in Nat : Turns(After(s, n)) = (Turns(s) + n * Value(rabbitA, 0)) % Around
<1> DEFINE V == Value(rabbitA, 0)
           S == {n \in Nat : Turns(After(s, n)) = (Turns(s) + n * V) % Around}
<1>1. Around \in Nat \ {0} /\ V \in Nat
  BY AroundIsTop
<1>2. \A u \in Counters : Turns(u) \in Nat /\ Turns(next(u)) = (Turns(u) + V) % Around
  BY BlockTurns
<1> HIDE DEF V
<1>3. 0 \in S
  <2>1. After(s, 0) = s /\ Turns(s) + 0 * V = Turns(s)
    BY <1>1, <1>2, AfterStep
  <2>2. Turns(s) = (Value(s.c, 0) + s.b) % Around /\ Value(s.c, 0) + s.b \in Nat
    <3>1. s.b \in {0, 1}
      BY DEF Counters
    <3> QED BY <3>1, CarryCounts DEF Turns
  <2>3. Turns(s) % Around = Turns(s)
    BY <1>1, <2>2
  <2> QED BY <2>1, <2>3
<1>4. ASSUME NEW n \in Nat, n \in S PROVE n + 1 \in S
  <2>1. After(s, n) \in Counters /\ After(s, n + 1) = next(After(s, n))
    BY AfterCounters, AfterStep
  <2> DEFINE x == Turns(s) + n * V
  <2>2. Turns(After(s, n)) = x % Around
    BY <1>4
  <2>3. Turns(s) \in Nat /\ n * V \in Nat
    BY <1>1, <1>2
  <2>4. x \in Nat
    BY <2>3
  <2>5. Turns(s) + (n + 1) * V = x + V
    <3>1. (n + 1) * V = n * V + V
      BY <1>1
    <3> QED BY <1>1, <2>3, <3>1
  <2> HIDE DEF x, S
  <2>6. Turns(After(s, n + 1)) = ((x % Around) + V) % Around
    BY <1>2, <2>1, <2>2
  <2>7. Turns(After(s, n + 1)) = (x + V) % Around
    BY <1>1, <2>4, <2>6, AroundTwice
  <2> QED BY <2>5, <2>7 DEF S
<1>5. \A n \in Nat : n \in S
  <2> HIDE DEF S
  <2> QED BY <1>3, <1>4, NatSet
<1> QED BY <1>5 DEF V

\* For every key and any number of blocks, whatever the bodies that took them
\* up: the counters behind the sending cipher have moved by that many
\* increments, and no carry is lost (Rabbit.next, Rabbit.Keystream).
THEOREM CountersNeverSlip == TransportSpec => []CountersInStep
<1>1. TransportTypeOK => CountersInStep
  <2>1. TransportTypeOK => s2c.made \in Nat
    BY DEF TransportTypeOK, Cipher
  <2> QED BY <2>1, BlocksTurn, CiphersAssumption DEF CountersInStep
<1> QED BY TransportTypes, <1>1, PTL
=============================================================================

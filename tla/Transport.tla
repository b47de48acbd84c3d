------------------------------ MODULE Transport ------------------------------
(***************************************************************************)
(* internal/transport: one connection, from the plaintext handshake on.    *)
(* Each direction is a byte stream cut into frames by a 16-bit length, and *)
(* each body is XORed with the next whole blocks of a keystream that both  *)
(* ends advance on their own.  A byte stream is modelled as the sequence   *)
(* of its frames, of which the last may be cut short, and a ciphertext as  *)
(* its plaintext with the keystream offset it was encrypted at.            *)
(***************************************************************************)
EXTENDS Integers, Sequences

CONSTANTS Messages,     \* message bodies
          Hello,        \* S2C_CheckConnection
          SizeOf,       \* length in bytes of each body
          Garbage,      \* what a wrongly framed or decrypted body decodes to
          BlockSize,    \* bytes of a keystream block (16 in the code)
          OpcodeSize,   \* shortest body that Decode accepts (4 in the code)
          LengthLimit,  \* values of the length field (2^16 in the code)
          MaxSends      \* bound of the messages of each direction

HeaderSize == 2

\* A frame's length field can hold the length.
Fits(m) == SizeOf[m] + HeaderSize < LengthLimit

ASSUME TransportAssumption ==
    /\ Hello \notin Messages /\ Garbage \notin Messages
    /\ SizeOf \in [Messages \cup {Hello} -> Nat]
    /\ Fits(Hello)
    /\ BlockSize \in Nat \ {0}
    /\ OpcodeSize \in Nat /\ LengthLimit \in Nat /\ MaxSends \in Nat

VARIABLES server,       \* the Conn, as the goroutine that owns it uses it
          c2s, s2c,     \* its ciphers: blocks made, and bytes of them to spare
          peer,         \* the client's end, with its own count of blocks
          up, down,     \* the frames in flight
          sentUp, gotUp, sentDown, gotDown   \* ghosts: messages sent, received

vars == <<server, c2s, s2c, peer, up, down, sentUp, gotUp, sentDown, gotDown>>

Plain == -1             \* in place of an offset: not encrypted

Frame  == [msg : Messages \cup {Hello}, length : 0 .. LengthLimit - 1,
           offset : Nat \cup {Plain}, whole : BOOLEAN]
Cipher == [made : Nat, spare : Nat]

TransportTypeOK ==
    /\ server \in {"handshake", "ready", "failed", "closed"}
    /\ c2s \in Cipher /\ s2c \in Cipher
    /\ peer \in [open : BOOLEAN, keyed : BOOLEAN, lost : BOOLEAN, rx : Nat, tx : Nat]
    /\ up \in Seq(Frame) /\ down \in Seq(Frame)
    /\ sentUp \in Seq(Messages) /\ sentDown \in Seq(Messages)
    /\ gotUp \in Seq(Messages \cup {Garbage})
    /\ gotDown \in Seq(Messages \cup {Garbage})

\* NewRabbit leaves no spare bytes.
NewRabbit == [made |-> 0, spare |-> 0]

TransportInit ==
    /\ server = "handshake"
    /\ c2s = NewRabbit /\ s2c = NewRabbit
    /\ peer = [open |-> TRUE, keyed |-> FALSE, lost |-> FALSE, rx |-> 0, tx |-> 0]
    /\ up = <<>> /\ down = <<>>
    /\ sentUp = <<>> /\ gotUp = <<>> /\ sentDown = <<>> /\ gotDown = <<>>

-----------------------------------------------------------------------------
(* The cipher and the frames.                                              *)

\* Offset of the next keystream byte.
Offset(cipher) == cipher.made * BlockSize - cipher.spare

\* Mutant: the bytes returned stay in the buffer.
KeystreamKept(cipher, n) ==
    LET lack  == n - cipher.spare
        blocks == IF lack <= 0 THEN 0 ELSE (lack + BlockSize - 1) \div BlockSize
    IN  [made |-> cipher.made + blocks, spare |-> cipher.spare + blocks * BlockSize]

\* Mutant: at most one block is made.
KeystreamOneBlock(cipher, n) ==
    LET blocks == IF n <= cipher.spare THEN 0 ELSE 1
    IN  [made |-> cipher.made + blocks, spare |-> cipher.spare + blocks * BlockSize - n]

\* Keystream(n) makes blocks until n bytes are there, and returns n.
Keystream(cipher, n) ==
    LET lack  == n - cipher.spare
        blocks == IF lack <= 0 THEN 0 ELSE (lack + BlockSize - 1) \div BlockSize
    IN  [made |-> cipher.made + blocks, spare |-> cipher.spare + blocks * BlockSize - n]

\* Mutant: a frame consumes as many bytes as it has.
cryptUnaligned(cipher, size) == Keystream(cipher, size)

\* The cipher after crypt: a frame consumes whole blocks.
crypt(cipher, size) ==
    Keystream(cipher, ((size + BlockSize - 1) \div BlockSize) * BlockSize)

\* A frame as writeFrame builds it; the length field is a uint16, which nothing
\* keeps from wrapping.
FrameOf(m, offset, whole) ==
    [msg |-> m, length |-> (SizeOf[m] + HeaderSize) % LengthLimit,
     offset |-> offset, whole |-> whole]

\* What the body of f is to a reader at this offset of the keystream.
Reading(f, offset) ==
    IF f.length = SizeOf[f.msg] + HeaderSize /\ f.offset = offset
    THEN f.msg ELSE Garbage

-----------------------------------------------------------------------------
(* The server's end.  Its owner, Serve, makes one call at a time and makes *)
(* no other once a call has failed (module Session: Fail).                 *)

\* The write of a frame succeeds, or fails with part of it written.
writeFrame(m, offset) ==
    \/ /\ down' = Append(down, FrameOf(m, offset, TRUE))
       /\ server' = "ready"
    \/ /\ down' \in {down, Append(down, FrameOf(m, offset, FALSE))}
       /\ server' = "failed"

\* The handshake frame is plaintext and consumes no keystream.
Handshake ==
    /\ server = "handshake"
    /\ \/ writeFrame(Hello, Plain)
       \/ server' = "failed" /\ UNCHANGED down
    /\ UNCHANGED <<c2s, s2c, peer, up, sentUp, gotUp, sentDown, gotDown>>

\* Mutant: the owner goes on after a failed write.
SendGoesOn(m) ==
    /\ server = "ready" /\ Len(sentDown) < MaxSends
    /\ SizeOf[m] >= OpcodeSize
    /\ s2c' = crypt(s2c, SizeOf[m])
    /\ down' \in {Append(down, FrameOf(m, Offset(s2c), whole)) : whole \in BOOLEAN}
    /\ sentDown' = Append(sentDown, m)
    /\ UNCHANGED <<server, c2s, peer, up, sentUp, gotUp, gotDown>>

\* Encode may fail before any keystream is consumed.
Send(m) ==
    /\ server = "ready" /\ Len(sentDown) < MaxSends
    /\ SizeOf[m] >= OpcodeSize
    /\ \/ /\ writeFrame(m, Offset(s2c))
          /\ s2c' = crypt(s2c, SizeOf[m])
          /\ sentDown' = IF server' = "ready" THEN Append(sentDown, m) ELSE sentDown
       \/ /\ server' = "failed"
          /\ UNCHANGED <<s2c, down, sentDown>>
    /\ UNCHANGED <<c2s, peer, up, sentUp, gotUp, gotDown>>

\* A whole frame is read.  A length that does not count itself, or a body
\* shorter than an opcode, is an error; the latter after the decryption.
Recv ==
    /\ server = "ready"
    /\ up # <<>> /\ Head(up).whole
    /\ up' = Tail(up)
    /\ LET f == Head(up)
           size == f.length - HeaderSize
       IN  IF size < 0
           THEN /\ server' = "failed"
                /\ UNCHANGED <<c2s, gotUp>>
           ELSE /\ c2s' = crypt(c2s, size)
                /\ IF size < OpcodeSize
                   THEN server' = "failed" /\ UNCHANGED gotUp
                   ELSE /\ gotUp' = Append(gotUp, Reading(f, Offset(c2s)))
                        /\ UNCHANGED server
    /\ UNCHANGED <<s2c, peer, down, sentUp, sentDown, gotDown>>

\* The stream ends before the next frame is complete.
RecvEnd ==
    /\ server = "ready" /\ ~peer.open
    /\ (up # <<>> => ~Head(up).whole)
    /\ server' = "failed"
    /\ UNCHANGED <<c2s, s2c, peer, up, down, sentUp, gotUp, sentDown, gotDown>>

\* serveConn after a failed handshake, or Serve on its way out.
Close ==
    /\ server \in {"ready", "failed"}
    /\ server' = "closed"
    /\ UNCHANGED <<c2s, s2c, peer, up, down, sentUp, gotUp, sentDown, gotDown>>

-----------------------------------------------------------------------------
(* The client's end, as the server's code expects it: frames of the same   *)
(* form, whose lengths hold and whose bodies start at the next block of    *)
(* the keystream.                                                          *)

Blocks(size) == (size + BlockSize - 1) \div BlockSize

\* The first frame carries the keys.  A frame whose length wrapped ends where
\* it should not, and what follows is read as more frames: garbage from then on.
PeerRecv ==
    /\ peer.open /\ down # <<>> /\ Head(down).whole
    /\ down' = Tail(down)
    /\ LET f == Head(down)
       IN  IF peer.keyed
           THEN /\ gotDown' = Append(gotDown, IF peer.lost THEN Garbage
                                             ELSE Reading(f, peer.rx * BlockSize))
                /\ peer' = [peer EXCEPT !.rx = @ + Blocks(SizeOf[f.msg]),
                                        !.lost = @ \/ ~Fits(f.msg)]
           ELSE /\ peer' = [peer EXCEPT !.keyed = TRUE]
                /\ gotDown' = IF Reading(f, Plain) = Hello THEN gotDown
                              ELSE Append(gotDown, Garbage)
    /\ UNCHANGED <<server, c2s, s2c, up, sentUp, gotUp, sentDown>>

PeerSend(m) ==
    /\ peer.open /\ peer.keyed /\ Len(sentUp) < MaxSends
    /\ Fits(m)
    /\ up' = Append(up, FrameOf(m, peer.tx * BlockSize, TRUE))
    /\ peer' = [peer EXCEPT !.tx = @ + Blocks(SizeOf[m])]
    /\ sentUp' = Append(sentUp, m)
    /\ UNCHANGED <<server, c2s, s2c, down, gotUp, sentDown, gotDown>>

\* The client closes, or its network breaks: the server can still read what
\* has arrived, which may end in the middle of a frame.
PeerEnd ==
    /\ peer.open
    /\ peer' = [peer EXCEPT !.open = FALSE]
    /\ \E n \in 0 .. Len(up) :
          \/ up' = SubSeq(up, 1, n)
          \/ n > 0 /\ up' = [SubSeq(up, 1, n) EXCEPT ![n].whole = FALSE]
    /\ UNCHANGED <<server, c2s, s2c, down, sentUp, gotUp, sentDown, gotDown>>

TransportNext ==
    \/ Handshake \/ Recv \/ RecvEnd \/ Close
    \/ \E m \in Messages : Send(m) \/ PeerSend(m)
    \/ PeerRecv \/ PeerEnd

TransportSpec == TransportInit /\ [][TransportNext]_vars

-----------------------------------------------------------------------------
(* Properties.                                                             *)

\* How many messages there are in front of the first that does not fit.
Clear(sent) ==
    CHOOSE n \in 0 .. Len(sent) :
        /\ \A i \in 1 .. n : Fits(sent[i])
        /\ n < Len(sent) => ~Fits(sent[n + 1])

First(messages, n) == SubSeq(messages, 1, IF Len(messages) < n THEN Len(messages) ELSE n)

Up   == INSTANCE Pipe WITH Message <- Messages, sent <- sentUp, got <- gotUp
Down == INSTANCE Pipe WITH Message <- Messages,
                           sent <- First(sentDown, Clear(sentDown)),
                           got <- First(gotDown, Clear(sentDown))

\* Both directions are reliable pipes of messages up to the first failure, and
\* that of the server up to the first message that does not fit its frame: the
\* two keystreams of a direction never get out of step, whatever the sizes of
\* the bodies and whichever call fails (session.go:146-148, "so the next frame
\* starts on a 16-byte boundary").
PipeSpec == Up!Spec /\ Down!Spec

\* No byte of the server's keystream encrypts two frames: those in flight use
\* disjoint parts of it, in order, and the next one starts behind them
\* (Rabbit.Keystream, Conn.Send).
KeystreamUsedOnce ==
    \A i \in DOMAIN down : down[i].offset # Plain =>
        /\ down[i].offset + SizeOf[down[i].msg] <= Offset(s2c)
        /\ i < Len(down) =>
              down[i].offset + SizeOf[down[i].msg] <= down[i + 1].offset

\* Nothing is written behind a frame that was cut, where the client would read
\* it as the rest of that frame (Conn.writeFrame, Handler.Serve).
CutIsLast == \A i \in DOMAIN down : ~down[i].whole => i = Len(down)
=============================================================================

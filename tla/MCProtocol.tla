----------------------------- MODULE MCProtocol -----------------------------
(* The values of MCTables on their way, and bodies of other clients.        *)
EXTENDS MCTables, Arrivals

\* Bound: a list of no more values, of which a body of five bytes has one.
LargestCount == 63

\* Every opcode, and behind it every sequence of up to five bytes.
KindBodies ==
    {<<id, 0, 0, 0>> \o rest : id \in {0, 1, 2, 3}, rest \in BoundedSeq(0 .. 3, 5)}
    \cup {<<id % 4, id \div 4, 0, 0>> \o rest :
             id \in {5, 7, 11, 13},
             rest \in {r \in BoundedSeq(0 .. 3, 5) :
                         Len(r) >= 4 => Unsigned(SubSeq(r, 1, 4)) <= LargestCount}}
    \cup BoundedSeq(0 .. 3, 3)

\* Login requests of a client that is not ours, with account codes of any units,
\* few and many.
Plain(type, v) ==
    CASE type = String  -> encodeString(v).bytes
      [] type = Boolean -> encodeBoolean(v).bytes
      [] OTHER          -> encodeInteger(v, type.width).bytes

LoginBody(units) ==
    LET values == [m_accountCode |-> Text(units), m_sessionKey |-> I64(7)]
                  @@ ZeroValues("C2S_SessionAuthLogin").value
    IN  LittleEndian(messages["C2S_SessionAuthLogin"].id, 4)
        \o FlattenSeq([i \in DOMAIN C2S_SessionAuthLogin |->
               Plain(C2S_SessionAuthLogin[i].type, values[C2S_SessionAuthLogin[i].name])])

LoginTexts == BoundedSeq({<<1>>, <<12>>, <<13>>}, 3)
              \cup {[i \in 1 .. 40 |-> <<u>>] : u \in {2, 12}}
MCLogins   == {LoginBody(u) : u \in LoginTexts}

\* Cut anywhere, behind the account code, and behind the session key.
Cuts(units) == {11, 16, 30, 12 + 2 * Len(units), 16 + 2 * Len(units)}

MCForeignBodies ==
    KindBodies \cup MCLogins
    \cup UNION {{SubSeq(LoginBody(u), 1, n) : n \in Cuts(u)} : u \in LoginTexts}
=============================================================================

-------------------------------- MODULE Arrivals --------------------------------
(***************************************************************************)
(* What arrives of the handlers' replies: what the client reads of them.   *)
(***************************************************************************)
EXTENDS Exchange, Replies

CONSTANT LengthLimit    \* values of the length field (2^16 in the code)

ASSUME FrameAssumption == LengthLimit \in Nat

\* The length field of a frame holds its length, which includes its own 2 bytes.
Framed(bytes) == Len(bytes) + 2 < LengthLimit

\* The reply of handleLogin to values that may have no account code or no key,
\* which it takes as empty and as zero.
LoginEcho(values, result) ==
    LET named == DOMAIN values
    IN  sendLoginResult(IF "m_accountCode" \in named THEN values.m_accountCode.s ELSE <<>>,
                        IF "m_sessionKey" \in named THEN values.m_sessionKey.n ELSE 0,
                        result)

-----------------------------------------------------------------------------
(* Properties.                                                             *)

\* Whatever the handler has put into a reply, Encode accepts it, and the client
\* reads all of it and nothing else: no field is forgotten, of the wrong Go
\* type, misspelt, or wider than its place in the message (Conn.Send fails and
\* ends the session, or the client sees another value).
ReplyArrives ==
    origin = "values" /\ message \in DOMAIN MessageFields =>
        /\ stage # "refused"
        /\ stage = "read" /\ ~cut =>
               read.ok /\ read.msg = message /\ read.values = given /\ read.tail = <<>>

\* The character in the world is the one of the lobby: what S2C_PlayerList and
\* S2C_EnterWorldComplete both tell of a row reads the same in both, though
\* their types differ (toLobbyPlayerInfo, fillMyPlayerInfo).
SameCharacter ==
    stage = "read" /\ ~cut /\ origin = "values" /\ message = "S2C_EnterWorldComplete" =>
        \E c \in Characters :
            LET lobby == Kept(Struct("LobbyPlayerInfo"), toLobbyPlayerInfo(c)).fields
                world == read.values.m_myPlayerInfo.fields
            IN  /\ world.m_OID.n = Id + c.ID
                /\ world.m_name = lobby.m_name
                /\ \A p \in {<<"m_class", "m_classType">>, <<"m_subClass", "m_subClassType">>,
                             <<"m_headIndex", "m_headType">>, <<"m_level", "m_level">>,
                             <<"m_exp", "m_exp">>, <<"m_mapIndex", "m_mapIndex">>} :
                       world[p[1]].n = lobby[p[2]].n

\* The reply to a login that came in one frame can be sent in one frame, with a
\* length that "includes its own 2 bytes" (session.go:120) and nothing wrapped:
\* the client finds the end of the echo, and the next frame behind it
\* (handleLogin, Conn.writeFrame).
LoginEchoFits ==
    stage = "read" /\ read.ok /\ read.msg = "C2S_SessionAuthLogin" /\ Framed(body) =>
        \A result \in {resultOK} \cup Refusals :
            LET reply == LoginEcho(read.values, result)
            IN  Framed(Encode(reply[1], reply[2]).bytes)
=============================================================================

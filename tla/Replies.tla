-------------------------------- MODULE Replies --------------------------------
(***************************************************************************)
(* internal/game: the values of the messages that the handlers send, over  *)
(* the field layouts of the real catalogue, and what the client reads of   *)
(* them.  When a handler replies, and with which result, is the matter of  *)
(* the module Session.                                                     *)
(***************************************************************************)
EXTENDS Catalog

CONSTANTS Characters,         \* rows, by the names of persist.Character
          Refusals,           \* result codes other than success
          ProtocolVersions, AccountCodes, SessionKeys, WarpTokens, Times,
          WorldID, oidWorldMultiplier

maxCharacterSlots == 3
mapLayerIndex     == 1
resultOK          == 0

I64(n) == Num("int64", n)
U64(n) == Num("uint64", n)
F64(n) == Num("float64", n)
Id     == WorldID * oidWorldMultiplier
Pose(c) == Values([m_x |-> F64(c.X), m_y |-> F64(c.Y), m_z |-> F64(c.Z)])

\* A message of zeroes, with some of its fields replaced.
Reply(m, fields) == <<m, fields @@ ZeroValues(m).value>>

-----------------------------------------------------------------------------
(* Login and lobby.                                                        *)

VersionReply(clientVer, now) ==
    Reply("S2C_VersionCheck",
        [m_protocolVer |-> I64(clientVer), m_serverID |-> I64(WorldID),
         m_utcTimeOffset |-> I64(0), m_serverTime |-> I64(now), m_serverTick |-> I64(now)])

\* Echoes what the client has sent.
sendLoginResult(accountCode, sessionKey, result) ==
    Reply("S2C_SessionAuthLogin",
        [m_result |-> I64(result), m_accountCode |-> Text(accountCode),
         m_sessionKey |-> I64(sessionKey)])

WaitingReply(now) == Reply("S2C_WaitingUserCount", [m_nowServerTime |-> I64(now)])

\* Mutant: the fields of later versions of the row are not copied.
toLobbyPlayerInfoOld(c) ==
    Values([m_slotIndex |-> U64(c.SlotIndex), m_classType |-> U64(c.ClassType),
            m_name |-> Text(c.Name), m_headType |-> U64(c.HeadType)])

\* Built field by field, not from ZeroValues: each of them must be here.
toLobbyPlayerInfo(c) ==
    Values([m_slotIndex |-> U64(c.SlotIndex), m_classType |-> U64(c.ClassType),
            m_subClassType |-> U64(c.SubClassType), m_name |-> Text(c.Name),
            m_headType |-> U64(c.HeadType),
            m_equipCostumeIndex |-> I64(c.EquipCostumeIndex),
            m_equipCostumeStepUp |-> U64(c.EquipCostumeStepUp),
            m_weaponItemIndex |-> I64(c.WeaponItemIndex),
            m_weaponEnchant |-> U64(c.WeaponEnchant), m_level |-> I64(c.Level),
            m_exp |-> I64(c.Exp), m_realPower |-> I64(c.RealPower),
            m_mapIndex |-> I64(c.MapID), m_latestLoginTime |-> I64(c.LatestLoginTime),
            m_latestLogoutTime |-> I64(c.LatestLogoutTime),
            m_deletedTime |-> I64(c.DeletedTime), m_createdTime |-> I64(c.CreatedAt),
            m_guildName |-> Text(c.GuildName)])

PlayerListReply(characters) ==
    Reply("S2C_PlayerList",
        [m_maxSlotCount |-> U64(maxCharacterSlots), m_enableStoarge |-> Bool(FALSE),
         m_playerList |-> Items([i \in DOMAIN characters |-> toLobbyPlayerInfo(characters[i])])])

\* A refusal has no player.
RefuseCreate(result) == Reply("S2C_CreatePlayer", [m_result |-> I64(result)])
AcceptCreate(c) ==
    Reply("S2C_CreatePlayer", [m_result |-> I64(resultOK), m_player |-> toLobbyPlayerInfo(c)])

LogoutReply == Reply("S2C_Logout", <<>>)

-----------------------------------------------------------------------------
(* Entering the world.                                                     *)

sendEnterWorldResult(result, slot) ==
    Reply("S2C_EnterWorld", [m_result |-> I64(result), m_playerSlotIndex |-> U64(slot)])

\* Mutant: the look of the character stays the default one.
fillMyPlayerInfoHeadless(info, c, oid) ==
    [m_OID |-> I64(oid), m_worldID |-> I64(WorldID), m_name |-> Text(c.Name),
     m_class |-> U64(c.ClassType), m_subClass |-> U64(c.SubClassType),
     m_level |-> I64(c.Level), m_exp |-> I64(c.Exp), m_mapIndex |-> I64(c.MapID),
     m_dir |-> F64(c.Dir), m_useWorldAuction |-> Bool(TRUE), m_pos |-> Pose(c)] @@ info

fillMyPlayerInfo(info, c, oid) ==
    [m_OID |-> I64(oid), m_worldID |-> I64(WorldID), m_name |-> Text(c.Name),
     m_class |-> U64(c.ClassType), m_subClass |-> U64(c.SubClassType),
     m_headIndex |-> I64(c.HeadType), m_level |-> I64(c.Level), m_exp |-> I64(c.Exp),
     m_mapIndex |-> I64(c.MapID), m_dir |-> F64(c.Dir),
     m_useWorldAuction |-> Bool(TRUE), m_pos |-> Pose(c)] @@ info

sendEnterWorldComplete(c, token) ==
    LET zero == ZeroValues("S2C_EnterWorldComplete").value
    IN  Reply("S2C_EnterWorldComplete",
            [m_result |-> I64(resultOK), m_warpToken |-> I64(token),
             m_myPlayerInfo |->
                 Values(fillMyPlayerInfo(zero.m_myPlayerInfo.fields, c, Id + c.ID))])

MapEnterReply(c, now) ==
    Reply("S2C_MapEnter",
        [m_result |-> I64(resultOK), m_mapIndex |-> I64(c.MapID),
         m_layerIndex |-> I64(mapLayerIndex), m_dir |-> F64(c.Dir),
         m_serverID |-> I64(WorldID), m_serverTick |-> I64(now), m_startPos |-> Pose(c)])

MapEnterPreCompleteReply == Reply("S2C_MapEnterPreComplete", <<>>)
MapEnterCompleteReply(c) ==
    Reply("S2C_MapEnterComplete", [m_result |-> I64(resultOK), m_playerOID |-> I64(Id + c.ID)])
PlayerLoadFirstCallReply == Reply("S2C_PlayerLoadFirstCall", [m_result |-> I64(resultOK)])

\* The characters of an account, in the order of their slots.
Lists == {l \in BoundedSeq(Characters, maxCharacterSlots) :
             \A i, j \in DOMAIN l : i < j => l[i].SlotIndex < l[j].SlotIndex}

HandlerReplies ==
    {VersionReply(v, t) : v \in ProtocolVersions, t \in Times}
    \cup {sendLoginResult(code, key, r) :
             code \in AccountCodes, key \in SessionKeys, r \in {resultOK} \cup Refusals}
    \cup {WaitingReply(t) : t \in Times} \cup {PlayerListReply(l) : l \in Lists}
    \cup {RefuseCreate(r) : r \in Refusals} \cup {AcceptCreate(c) : c \in Characters}
    \cup {sendEnterWorldResult(r, s) :
             r \in {resultOK} \cup Refusals, s \in 0 .. maxCharacterSlots}
    \cup {sendEnterWorldComplete(c, t) : c \in Characters, t \in WarpTokens}
    \cup {MapEnterReply(c, t) : c \in Characters, t \in Times}
    \cup {MapEnterCompleteReply(c) : c \in Characters}
    \cup {LogoutReply, MapEnterPreCompleteReply, PlayerLoadFirstCallReply}
=============================================================================

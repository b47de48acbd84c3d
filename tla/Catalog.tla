-------------------------------- MODULE Catalog --------------------------------
(***************************************************************************)
(* internal/protocol/catalog_gen.go: the field layouts of every nested     *)
(* type, of the messages that the server handles or sends, and of those    *)
(* whose fields are arrays.  A field is known by its name where a handler  *)
(* uses it, and by its place in the layout elsewhere; an opcode by a       *)
(* small number.                                                           *)
(***************************************************************************)
EXTENDS Layouts, TLC

FieldOf(name, type) == [name |-> name, type |-> type]

Named(names, types) == [i \in DOMAIN types |-> FieldOf(names[i], types[i])]
InOrder(types)      == Named([i \in DOMAIN types |-> ToString(i)], types)

Positional(table) == [n \in DOMAIN table |-> InOrder(table[n])]

-----------------------------------------------------------------------------
(* Messages.                                                               *)

S2C_CheckConnection ==
    Named(<<"m_socketUID", "m_connectionKey", "m_clientSendIV", "m_serverSendIV",
            "m_encryptionKeyLow", "m_encryptionKeyHigh">>,
          <<Int64, Int64, Int64, Int64, Int64, Int64>>)

C2S_VersionCheck ==
    Named(<<"m_protocolVer", "m_socketUID", "m_connectionKey">>,
          <<Int32, Int64, Int64>>)

S2C_VersionCheck ==
    Named(<<"m_protocolVer", "m_serverID", "m_utcTimeOffset", "m_serverTime",
            "m_serverTick">>,
          <<Int32, Int32, Int32, Int64, Int64>>)

C2S_SessionAuthLogin ==
    Named(<<"m_worldGroupID", "m_accountCode", "m_sessionKey", "m_deviceOS", "m_deviceID",
            "m_deviceLangCode", "m_countryCode", "m_platformType", "m_deviceName",
            "m_useGameGuard", "m_systemLan", "m_processorType">>,
          <<Int32, String, Int32, Byte, String, String, String, Byte, String, Boolean,
            String, String>>)

S2C_SessionAuthLogin ==
    Named(<<"m_result", "m_accountCode", "m_sessionKey", "m_userBlockInfo">>,
          <<Int32, String, Int32, Struct("UserBlockInfo")>>)

C2S_SetOptions ==
    Named(<<"m_optionValues">>,
          <<UInt32>>)

C2S_WaitingUserCount ==
    <<>>

S2C_WaitingUserCount ==
    Named(<<"m_waitingNumber", "m_waitingUserCount", "m_elapsedTime", "m_rewardItemIndex",
            "m_rewardItemCount", "m_estimatedTime", "m_nowServerTime">>,
          <<Int32, Int32, Int32, Int32, Int32, Int32, Int64>>)

C2S_PlayerList ==
    <<>>

S2C_PlayerList ==
    Named(<<"m_maxSlotCount", "m_playerList", "m_enableStoarge">>,
          <<Byte, List(Struct("LobbyPlayerInfo")), Boolean>>)

C2S_CreatePlayer ==
    Named(<<"m_name", "m_classType", "m_headType">>,
          <<Chars, Byte, Byte>>)

S2C_CreatePlayer ==
    Named(<<"m_result", "m_player">>,
          <<Int32, Struct("LobbyPlayerInfo")>>)

C2S_EnterWorld ==
    Named(<<"m_playerSlotIndex">>,
          <<Byte>>)

S2C_EnterWorld ==
    Named(<<"m_result", "m_playerSlotIndex">>,
          <<Int32, Byte>>)

S2C_EnterWorldComplete ==
    Named(<<"m_result", "m_myPlayerInfo", "m_warpToken">>,
          <<Int32, Struct("MyPlayerInfo"), Int64>>)

C2S_MapEnter ==
    Named(<<"m_mapIndex", "m_batchIndex", "m_warpToken">>,
          <<Int32, Int32, Int64>>)

S2C_MapEnter ==
    Named(<<"m_result", "m_sourcePacketID", "m_mapIndex", "m_layerIndex", "m_startPos",
            "m_dir", "m_serverID", "m_serverTick">>,
          <<Int32, Int32, Int32, Int32, Struct("Vector"), Single, Int32, Int64>>)

C2S_MapEnterPreComplete ==
    <<>>

S2C_MapEnterPreComplete ==
    <<>>

C2S_MapEnterComplete ==
    <<>>

S2C_MapEnterComplete ==
    Named(<<"m_result", "m_playerOID", "m_remainTime", "m_randomTeleportRemainSec">>,
          <<Int32, Int64, Int32, Int32>>)

C2S_PlayerLoadFirstCall ==
    <<>>

S2C_PlayerLoadFirstCall ==
    Named(<<"m_result">>,
          <<Int32>>)

C2S_Logout ==
    Named(<<"m_sessionKey">>,
          <<Int32>>)

S2C_Logout ==
    Named(<<"m_result">>,
          <<Int32>>)

S2C_ContentsSetting ==
    InOrder(<<UInt32, Array(Int32), Array(Int32)>>)

S2C_EquipList ==
    InOrder(<<Array(Byte), Array(List(Struct("EquipItemData"))), Array(Int32),
        Array(Struct("PetInfo")), Array(List(Struct("EquipItemData")))>>)

S2C_TotalPresetList ==
    InOrder(<<Array(List(Struct("TotalPresetInfo")))>>)

S2C_GameGuardCheck ==
    InOrder(<<Array(Byte), UInt32, Int32>>)

C2S_GameGuardCheck ==
    InOrder(<<Array(Byte), UInt32, Int32>>)

-----------------------------------------------------------------------------
(* Nested types.                                                           *)

structs_AbilitySkillLevelInfo ==
    [AbilitySkillLevelInfo |-> <<Int32, Byte>>,
     AbilityValue |-> <<Array(Int32), List(Struct("MasteryData"))>>,
     AchieveData |-> <<Int32, Int64, Byte>>,
     AdventureMapInfo |-> <<Int32, Byte>>,
     AttachedData |-> <<Byte, Int32, Int64>>,
     AttendanceData |-> <<Int32, Byte, Boolean, Byte, Boolean, Boolean>>,
     AuctionElement |-> <<Int64, Int32, Int32, Byte, Byte, Array(Int32), Int64, Int32,
         Boolean>>,
     AuctionFixRecord |-> <<Byte, Struct("ItemData"), Int32, Int32, Int64>>,
     AuctionRecentPrice |-> <<Single, Int64>>,
     AutoStoreSettingInfo |-> <<Int32, Boolean>>,
     AutoUseInfo |-> <<Byte, Int32, Boolean>>,
     BankCardInfo |-> <<Int32, Int64, Int64, Int64, Single, Byte, Int64>>,
     BankDepositRankInfo |-> <<Int32, Int64>>,
     BossAuctionInfo |-> <<Int64, Int32, Chars, Int64, Int64, Int64,
         List(Struct("BossAuctionItemInfo"))>>,
     BossAuctionItemInfo |-> <<Byte, Byte, Int32, Int32, Int32, Int32>>,
     BroadCastInfo |-> <<Byte, Chars, Int32, Int32, Int32, Boolean>>,
     BuffData |-> <<Int32, Int64, Int32, String, Boolean>>,
     BuyItemData |-> <<Int32, Int32>>,
     ClassChangeItemInfo |-> <<Int64, Int32>>,
     ClassChangeSkillInfo |-> <<Int32>>,
     CollectionCountInfo |-> <<Byte, Int32>>,
     CollectionInfo |-> <<Int32, List(Struct("CollectionPart")), Boolean>>,
     CollectionPart |-> <<Int32, Boolean>>,
     CommissionInfo |-> <<Byte, Byte, Byte, Byte, Byte, Int64>>,
     ComposeFailedParam |-> <<Byte, Int32>>,
     ComposeInputInfo |-> <<Int32, Int32>>]

structs_ConquestDungeon ==
    [ConquestDungeon |-> <<Int32, Int32, Int64, Int64, Int32, Int64, Chars, Int64, Boolean,
         Byte>>,
     ConquestDungeonApply |-> <<Int64, Chars, Int32, Int64, Int64, Byte>>,
     ContributionRewardInfo |-> <<Int32, Int32, Int32>>,
     CoolInfo |-> <<Int32, Int64>>,
     CostumeInfo |-> <<Int32, Int32, Byte>>,
     DissolveData |-> <<Int64, Int32>>,
     DissolveRewardData |-> <<Byte, Int32, Int32>>,
     DistributionMemberDetailInfo |-> <<Int64, Chars, Byte, Int32, Int32,
         List(Struct("GuildContributeTypeInfo"))>>,
     DistributionMemberInfo |-> <<Int64, Chars, Byte, Byte, Boolean, Int32, Int32, Int64,
         Int64, Int64, Int64>>,
     DominionBriefData |-> <<Int32, Int64, Int64, Int32, Byte, Chars, List(Int64),
         List(Int64)>>,
     DominionGuildData |-> <<Int64, Int64, Int32, Int32>>,
     DominionIngameMemberPoint |-> <<Int64, Int64, Int32, Boolean, Chars>>,
     DominionIngameTeamPoint |-> <<Int64, Byte, Int32, Int32>>,
     DominionKillComboInfo |-> <<Int64, Int32>>,
     DominionMemberData |-> <<Int64, Int64, Chars, Int32>>,
     DominionMoneyData |-> <<Byte, Int32, Int64>>,
     DominionProductData |-> <<Int32, Int32>>,
     DominionResultData |-> <<Int32, Int32, Int32, Int32>>,
     DominionTaxInfo |-> <<Int32, Int64, Chars, Int32, Byte, Byte, Byte, Int64, Int64>>,
     EndTimeInfo |-> <<Int32, Int64>>,
     EntertainmentInfo |-> <<Int32, Int32>>,
     EquipItemData |-> <<Byte, Byte, Int64, Int32>>,
     EryndorImprintingInfo |-> <<Int32, Array(Int32), List(Byte), Byte>>]

structs_EventBingoStatus ==
    [EventBingoStatus |-> <<Int32, UInt32, List(Byte)>>,
     EventGameRandomBoxSlotInfo |-> <<Byte, Int32>>,
     EventMissionInfo |-> <<Int32, Int32, List(Struct("EventSubMissionInfo")), Byte, Byte>>,
     EventSubMissionInfo |-> <<Int32, Int32, Byte>>,
     FriendRequestInfo |-> <<Byte, Int64, Chars>>,
     GuardListInfo |-> <<Int64, Int64, Chars, Int32, Chars, UInt16, UInt16, UInt16, UInt16,
         Chars, Int32>>,
     GuardMemberInfo |-> <<Int64, Int64, Chars, Byte, Int64, Chars, Int32, Int32, Int32,
         Int64>>,
     GuardMyInfo |-> <<Byte, Int64, Chars, Int32, Int32, Int64, Int32, Int32, Int64,
         Int64>>,
     GuildAttendanceInfo |-> <<UInt16, Boolean, Int32, Int64, Int64, Byte, Byte, Byte>>,
     GuildBuffInfo |-> <<Int32, Int64, Chars>>,
     GuildContentResearchInfo |-> <<Int32, Int32, Int32, Boolean, Int64, Boolean>>,
     GuildContributeTypeInfo |-> <<Int32, Int32>>,
     GuildDistributionMoneyInfo |-> <<Int64, Boolean, Int64, Boolean, Int64, Boolean>>,
     GuildDistributionSetting |-> <<Byte, Int64, Byte,
         List(Struct("GuildContributeTypeInfo")), Struct("GuildDistributionMoneyInfo")>>,
     GuildDungeonInfo |-> <<Int32, Int64, Int32, Int32>>,
     GuildGuardInfo |-> <<Int64, UInt16, UInt16, UInt16, UInt16, Int32, Int32,
         List(Struct("GuardMemberInfo")), List(Struct("GuardMemberInfo"))>>,
     GuildHistoryInfo |-> <<Int64, Byte, Int32, Int64, Chars, Chars, Int64, Int64, Int64,
         Boolean, Boolean, Int32>>,
     GuildJoinRequestGuildInfo |-> <<Struct("GuildSimpleInfo"), Int64>>,
     GuildJoinRequestPlayerInfo |-> <<Int64, Chars, Byte, Byte, String, Int64>>]

structs_GuildMemberSimpleInfo ==
    [GuildMemberSimpleInfo |-> <<Int64, Chars, Byte, Byte, Byte, String, Int64, Int64,
         Int64, Int64, Int64>>,
     GuildPVPRecord |-> <<Byte, Int64, Chars, Byte, Byte, Int64, Int32, Chars, Byte, Byte,
         Chars, Int64, Int32, Int32, Boolean, Int64>>,
     GuildQuestData |-> <<Int32, Byte, Byte, Int32, Byte>>,
     GuildRelationInfo |-> <<Int32, Int64, Byte, Byte, Chars, Chars, Byte, Int32, UInt16,
         UInt16, UInt16, List(Struct("HostileFunctionSimpleInfo"))>>,
     GuildShopBuyLimitData |-> <<Int32, Int32>>,
     GuildShopItemData |-> <<Int32, Int32, Byte, Int64>>,
     GuildSimpleInfo |-> <<Int32, Int64, Chars, Chars, Int32, Int64, Chars, Int32, UInt16,
         Byte, String, UInt16, UInt16, Boolean, Boolean, Int64, Int64, Int64, Byte, Int64,
         Int64>>,
     HostileFunctionSimpleInfo |-> <<Byte, Int32, Int64>>,
     HostileUnionGuildInfo |-> <<Int64, Chars, Int32, Int64>>,
     HostileUnionInfo |-> <<Int64, Chars, Int32, Int64,
         List(Struct("HostileUnionGuildInfo")), Int64, Int64>>,
     ItemBrokenGiveData |-> <<Byte, Int32, Int32>>,
     ItemCollectionSlotRegQty |-> <<Byte, Int32>>,
     ItemCollectionSlots |-> <<Int32, Byte, List(Struct("ItemCollectionSlotRegQty"))>>,
     ItemData |-> <<Byte, Int64, Int32, Int32, Byte, Byte, Struct("ItemOptions")>>,
     ItemEnchantRequest |-> <<Int64, Boolean, Byte>>,
     ItemEnchantResult |-> <<Int64, Int32, Boolean, Byte>>,
     ItemMakeLimitInfo |-> <<Byte, Int32, Int32>>,
     ItemMakeResultInfo |-> <<Byte, Int32, Byte, Int32>>]

structs_ItemOidAndCount ==
    [ItemOidAndCount |-> <<Int64, Int32>>,
     ItemOptions |-> <<Byte, Array(Int32)>>,
     JewelCraftOptionData |-> <<Int32, Int32>>,
     KillerInfo |-> <<Int32, Int32, Int64, Int32, Chars, Byte, Byte, Int64, Int32, Chars,
         Byte, Byte, Byte>>,
     LegacyCollection |-> <<Int32, Int32, Byte>>,
     LegacyCollectionGroup |-> <<Int32, Byte, Byte, List(Struct("LegacyCollection"))>>]

LobbyPlayerInfo ==
    Named(<<"m_slotIndex", "m_classType", "m_subClassType", "m_name", "m_headType",
            "m_equipCostumeIndex", "m_equipCostumeStepUp", "m_weaponItemIndex",
            "m_weaponEnchant", "m_level", "m_exp", "m_realPower", "m_mapIndex",
            "m_latestLoginTime", "m_latestLogoutTime", "m_deletedTime", "m_createdTime",
            "m_guildName">>,
          <<Byte, Byte, Byte, Chars, Byte, Int32, Byte, Int32, Byte, Int32, Int64, Int32,
            Int32, Int64, Int64, Int64, Int64, Chars>>)

structs_MapLimitData ==
    [MapLimitData |-> <<Int32, Int32, Int32, Int32, Int32, Int32, Int32>>,
     MasteryData |-> <<Byte, Int32>>,
     MercenaryApplyInfo |-> <<Int64, Int64, Byte, Int32, Byte, Int32, Int64, Boolean,
         Boolean>>,
     MercenaryRecruitInfo |-> <<Int64, Byte, Chars, Int32, Int64, Int64, Int32, Int32,
         Int32, Int32, Byte>>,
     MoneyData |-> <<Byte, Int64>>,
     MonsterCollectionInfo |-> <<Int32, Int32, Int32, Int32, Byte, Boolean, Boolean,
         Int32>>,
     MonsterCollectionOptionReward |-> <<Byte, Byte, Int32>>,
     MyAuctionElement |-> <<Byte, Byte, Struct("AuctionElement"), Int64, Int64, Int64>>,
     MyGuildInfo |-> <<Int32, Int64, Chars, Chars, Int32, UInt16, Byte, String, String,
         UInt16, UInt16, Int32, Int64, Int64, Int64, Int64, Int64, Int64, Byte, Int32,
         Int32, Int32, Int64, List(Struct("GuildBuffInfo")),
         List(Struct("GuildContentResearchInfo")), List(Int64), List(Int64), List(Int64),
         List(Int64), Int64, Int64, String, Int32, List(Int64), List(Int64), Byte, Int64,
         Byte, Byte>>]

MyPlayerInfo ==
    Named(<<"m_OID", "m_objectType", "m_appearType", "m_dir", "m_pos", "m_alive",
            "m_effectBuffList", "m_worldID", "m_name", "m_class", "m_subClass",
            "m_alignment", "m_headIndex", "m_costumeIndex", "m_costumeStepUp",
            "m_weaponIndex", "m_weaponEnchant", "m_unionOID", "m_unionMarkIndex",
            "m_guildOID", "m_guildMarkIndex", "m_guildMemberGrade", "m_petIndex",
            "m_titleIndex", "m_wantedRank", "m_isSlayer", "m_teamIndex", "m_memberIndex",
            "m_memberType", "m_chaoExpiredTime", "m_level", "m_exp", "m_powerRank",
            "m_prevPowerRank", "m_mapIndex", "m_statInfo", "m_useWorldAuction",
            "m_mineRemainTime", "m_equippedCostumeIndex", "m_equippedCostumeStepUp",
            "m_equippedPetIndex">>,
          <<Int64, Byte, Byte, Single, Struct("Vector"), Byte, List(Int32), Int32, Chars,
            Byte, Byte, Int32, Int32, Int32, Byte, Int32, Byte, Int64, Int32, Int64, Int32,
            Byte, Int32, Int32, Int32, Boolean, Byte, Byte, Byte, Int64, Int32, Int64,
            Int32, Int32, Int32, Struct("StatInfo"), Boolean, Int32, Int32, Byte, Int32>>)

structs_NetworkObjData ==
    [NetworkObjData |-> <<Int64, Byte, Byte, Single, Struct("Vector"), Int32, Int32,
         Boolean, Byte, List(Int32), Boolean, Int64, Int32, Int32>>,
     PVPLostItemInfo |-> <<Int32, Byte>>,
     PVPRecord |-> <<Int64, Byte, Int64, Int32, Byte, Byte, Chars, Int64, Chars, Int32,
         Int32, Int32, Int32, Int64, Boolean, Boolean>>,
     ParcelInfo |-> <<Int64, Byte, Int64, Chars, Byte, Int32, Int32, Struct("ItemData"),
         Int64, Int64>>,
     ParcelTradeRecord |-> <<Int64, Chars, Int32, Int32, Struct("ItemData"), Int64>>,
     PartyBuffData |-> <<Int32, Int64>>,
     PartyDungeonMemberInfo |-> <<Int64, Boolean>>,
     PartyInfo |-> <<Int32, Int64, Int32>>,
     PartyMemberData |-> <<Byte, Int32, Int32, Int64, Byte, Byte, Chars, Byte, Byte, Byte,
         Int32, Int32, Single, Single, Int32, Int32, Int32, Int32,
         List(Struct("PartyBuffData"))>>,
     PetAdventureInfo |-> <<Int32, Byte, Int64, Int32, Byte>>,
     PetInfo |-> <<Int32, Int32, Int32, Int64, Int32, List(Struct("EquipItemData")), Byte,
         Byte>>,
     PetPartyInfo |-> <<Byte, List(Struct("PetSlotInfo")), Int32>>,
     PetSlotInfo |-> <<Int32, Byte, Byte>>,
     PickResultInfo |-> <<Int32, Boolean, Boolean>>]

structs_PlayerData ==
    [PlayerData |-> <<Int64, Byte, Byte, Single, Struct("Vector"), Byte, List(Int32), Int32,
         Chars, Byte, Byte, Int32, Int32, Int32, Byte, Int32, Byte, Int64, Int32, Int64,
         Int32, Byte, Int32, Int32, Int32, Boolean, Byte, Byte, Byte, Int64>>,
     PlayerRankInfo |-> <<Int64, Byte, Int32, Int32>>,
     PostInfo |-> <<Int64, Int64, Int32, Chars, List(Struct("AttachedData"))>>,
     PropertyData |-> <<Byte, Int64>>,
     QuestData |-> <<Byte, Int32, Byte, Int32>>,
     QuickSlotInfo |-> <<Byte, Byte, Int32, Int64>>,
     RankInfo |-> <<Int32, Int32, Int32, Int64, Chars, Byte, Int64, Chars, Int32, Int32,
         Int32, Int32, Chars, UInt16, UInt16, Int64, Byte, Byte>>,
     RankerStatueInfo |-> <<Int32, Byte, Byte, Byte, Chars>>,
     RePickResultInfo |-> <<Int64, Int32, Int32, Int64, Int32, Boolean>>,
     RealmMapInfo |-> <<Int32, Int64>>,
     RealmProgressInfo |-> <<Int32, Int32, Int32, Int64, Int64, List(Int32)>>,
     ReceivedPostInfo |-> <<Int32, Int64>>,
     RelationPlayerInfo |-> <<Byte, Byte, Int64, Chars, Boolean>>,
     RestoreData |-> <<Int64, Int32, Int32, Int32, Int64, Int64, Int64, Struct("ItemData"),
         Int32>>,
     RestoreSimpleData |-> <<Int32, Int32>>,
     RewardData |-> <<Byte, Int32, Int64, Byte>>,
     RuneInfo |-> <<Int64, Int32, Byte, List(Struct("RuneLineInfo"))>>]

structs_RuneLineInfo ==
    [RuneLineInfo |-> <<Byte, Byte, Int32>>,
     RunePanelInfo |-> <<Int32, List(Struct("RunePanelSlotInfo"))>>,
     RunePanelSlotInfo |-> <<Int32, Byte, Byte, Struct("RuneInfo")>>,
     S2C_MoveNotice |-> <<Int32, Byte, Int64, Byte, Byte, Single, Struct("Vector"),
         Struct("Vector"), List(Struct("Vector"))>>,
     ScheduleBossDashboardData |-> <<Int32, Int32, Int32, Boolean, Int64>>,
     ScheduleBossInfo |-> <<Int32, Int32>>,
     SelectPlayerInfo |-> <<Int32, Int64, Chars, Byte, Byte, Int32, Boolean, Int64, Chars,
         Int32, Byte>>,
     ServerTransferDateInfo |-> <<Int64, Int64, Int32, Int32, Byte>>,
     ShopItemData |-> <<Int32, Int32>>,
     SiegeWarDominionTaxInfo |-> <<Int32, Int64, Int64>>,
     SiegeWarGuardInfo |-> <<Int32, Int32, Int32>>,
     SiegeWarInfo |-> <<Int64, Int32, Chars, Chars, Int64, Int64, Int64, Int64, Int64,
         Int64, Int64, Int64, Byte, Byte, Byte>>,
     SiegeWarMemberBoardInfo |-> <<Struct("SiegeWarMemberInfo"),
         Struct("SiegeWarMemberScoreInfo")>>,
     SiegeWarMemberInfo |-> <<Byte, Byte, Byte, Int64, Chars, Byte, Boolean, Boolean>>,
     SiegeWarMemberScoreInfo |-> <<Int32, Int32, Int32, Int32, Int32, Int64>>,
     SiegeWarObjectInfo |-> <<Int64, Int32, Byte, Int64, Int64>>,
     SiegeWarPlayInfo |-> <<Byte, Int64, Int64, List(Struct("SiegeWarObjectInfo"))>>,
     SkillData |-> <<Int32, Byte, Int64>>,
     SkillEffectValue |-> <<Int64, Int32, Int32, Byte, Byte, Byte, Single, Boolean,
         Boolean>>,
     SlayerInfo |-> <<Int64, Byte, Byte, Chars, Int64, Int32, Chars, Int32, Int64>>]

structs_SoulStoneInfo ==
    [SoulStoneInfo |-> <<Int32, List(Struct("SoulStoneSlotInfo"))>>,
     SoulStoneRootInfo |-> <<Int32, Boolean, Byte, Array(Struct("SoulStoneInfo"))>>,
     SoulStoneSlotInfo |-> <<Byte, Byte, Int32, Int32>>,
     StatInfo |-> <<Int32, Int32, Int32, Int32, Int32, Int32, Int32, Int32, Int32, Int32,
         Int32, Int32>>,
     StepUpCountRewardInfo |-> <<Byte, List(Int32)>>,
     StorageBoxData |-> <<Int64, Int32>>,
     StoreHotDealData |-> <<Int32, Int32, Int64>>,
     StoreItemData |-> <<Int32, Byte, Byte, Int32, Int32, Int32, Int64, Int64, Byte,
         Int32>>,
     StoreSequenceItemData |-> <<Int32, Int32, Byte, Byte, Int32, Int32, Int64, Int64>>,
     SubSkillPointData |-> <<Byte, Int64>>,
     TotalPresetInfo |-> <<Int32, Boolean, Byte>>,
     TotalPresetSet |-> <<Byte, List(Struct("TotalPresetInfo"))>>,
     TowerInfo |-> <<Int32, Int64, Int64, Int64, Byte, Int32, Int16, Int16, Byte, Byte,
         Int32, Int64, Int64, Int64>>,
     TransferCheckData |-> <<Int32, Byte>>,
     TransferServerState |-> <<Int32, Byte>>,
     UnequipItemParam |-> <<Byte, Int64>>,
     UnionGuildInfo |-> <<Int64, Chars, Chars, Int32, Int64, Int32, Int32, Int64>>,
     UnionInfo |-> <<Int64, Chars, Int32, Int64, Int64, Int64,
         List(Struct("UnionGuildInfo")), List(Struct("UnionGuildInfo")),
         List(Struct("HostileUnionInfo"))>>,
     UnionSimpleInfo |-> <<Int64, Chars, Int32, Chars, Int64, Int64>>,
     UniqueItemInfo |-> <<Int32, Byte, Chars>>,
     UserBlockInfo |-> <<Byte, Byte, Int64>>]

Vector ==
    Named(<<"m_x", "m_y", "m_z">>,
          <<Single, Single, Single>>)

structs_WStorageInfo ==
    [WStorageInfo |-> <<Int64, Int32, Int32, Int64, List(Struct("AttachedData"))>>,
     WantedInfo |-> <<Byte, UInt16, Int64, Byte, Byte, Chars, Int64, Int32, Chars, Int64,
         Int64>>,
     WarehouseItemMove |-> <<Int64, Int32>>]

StructTables ==
    <<structs_AbilitySkillLevelInfo, structs_ConquestDungeon, structs_EventBingoStatus,
      structs_GuildMemberSimpleInfo, structs_ItemOidAndCount, structs_MapLimitData,
      structs_NetworkObjData, structs_PlayerData, structs_RuneLineInfo,
      structs_SoulStoneInfo, structs_WStorageInfo>>

CatalogStructs ==
    Positional(FoldLeft(LAMBDA f, g : f @@ g, <<>>, StructTables))
    @@ [LobbyPlayerInfo |-> LobbyPlayerInfo, MyPlayerInfo |-> MyPlayerInfo, Vector |-> Vector]

S2C_MoveNotice == InOrder(structs_RuneLineInfo.S2C_MoveNotice)

MessageFields ==
    [S2C_CheckConnection |-> S2C_CheckConnection,
     C2S_VersionCheck |-> C2S_VersionCheck, S2C_VersionCheck |-> S2C_VersionCheck,
     C2S_SessionAuthLogin |-> C2S_SessionAuthLogin,
     S2C_SessionAuthLogin |-> S2C_SessionAuthLogin, C2S_SetOptions |-> C2S_SetOptions,
     C2S_WaitingUserCount |-> C2S_WaitingUserCount,
     S2C_WaitingUserCount |-> S2C_WaitingUserCount, C2S_PlayerList |-> C2S_PlayerList,
     S2C_PlayerList |-> S2C_PlayerList, C2S_CreatePlayer |-> C2S_CreatePlayer,
     S2C_CreatePlayer |-> S2C_CreatePlayer, C2S_EnterWorld |-> C2S_EnterWorld,
     S2C_EnterWorld |-> S2C_EnterWorld,
     S2C_EnterWorldComplete |-> S2C_EnterWorldComplete, C2S_MapEnter |-> C2S_MapEnter,
     S2C_MapEnter |-> S2C_MapEnter,
     C2S_MapEnterPreComplete |-> C2S_MapEnterPreComplete,
     S2C_MapEnterPreComplete |-> S2C_MapEnterPreComplete,
     C2S_MapEnterComplete |-> C2S_MapEnterComplete,
     S2C_MapEnterComplete |-> S2C_MapEnterComplete,
     C2S_PlayerLoadFirstCall |-> C2S_PlayerLoadFirstCall,
     S2C_PlayerLoadFirstCall |-> S2C_PlayerLoadFirstCall, C2S_Logout |-> C2S_Logout,
     S2C_Logout |-> S2C_Logout, S2C_ContentsSetting |-> S2C_ContentsSetting,
     S2C_EquipList |-> S2C_EquipList, S2C_TotalPresetList |-> S2C_TotalPresetList,
     S2C_GameGuardCheck |-> S2C_GameGuardCheck,
     C2S_GameGuardCheck |-> C2S_GameGuardCheck,
     S2C_MoveNotice |-> S2C_MoveNotice]

\* Opcodes from first on, all different.
Numbered(layouts, names, first) ==
    LET order[n \in 0 .. Cardinality(names)] ==
            IF n = 0 THEN <<>>
            ELSE LET before == order[n - 1]
                 IN  Append(before, CHOOSE m \in names \ ToSet(before) : TRUE)
        ordered == order[Cardinality(names)]
    IN  [m \in names |-> [id     |-> first - 1 + SelectInSeq(ordered, LAMBDA k : k = m),
                          fields |-> layouts[m]]]

CatalogMessages == Numbered(MessageFields, DOMAIN MessageFields, 32)

-----------------------------------------------------------------------------
(* What the field types do not say.                                        *)

CatalogFixedArrays ==
    (<<"AbilityValue", "1">> :> 249) @@ (<<"ItemOptions", "2">> :> 10)
    @@ (<<"S2C_ContentsSetting", "2">> :> 10) @@ (<<"S2C_ContentsSetting", "3">> :> 3)
    @@ [p \in {"S2C_EquipList"} \X {"1", "2", "3", "4", "5"} |-> 2]

CatalogMessageFullNames == {"S2C_MoveNotice"}
=============================================================================

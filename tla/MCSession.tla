------------------------------ MODULE MCSession ------------------------------
(* Values for the constants of Session that a .cfg cannot write.           *)
EXTENDS Session, TLC

MCEntrants == [conn : Conns, account : Accounts]
MCSlots    == 0 .. MaxSlots

Key(account, code, world) == [account |-> account, code |-> code, world |-> world]
Account(code) == [code |-> code, options |-> DefaultOptions]
Character(account, slot, name) == [account |-> account, slot |-> slot, name |-> name]

\* Nothing was stored by an earlier run.
NoAccounts == [a \in Accounts |-> None]
NoRoster   == [c \in Characters |-> None]

\* One message for each handler.
AllRequests == {"C2S_VersionCheck", "C2S_SessionAuthLogin", "C2S_SetOptions",
    "C2S_WaitingUserCount", "C2S_PlayerList", "C2S_CreatePlayer", "C2S_EnterWorld",
    "C2S_MapEnter", "C2S_MapEnterPreComplete", "C2S_MapEnterComplete",
    "C2S_PlayerLoadFirstCall", "C2S_Logout"}

LobbyRequests == AllRequests \ {"C2S_EnterWorld", "C2S_MapEnter"}
WorldRequests == {"C2S_SessionAuthLogin", "C2S_EnterWorld", "C2S_MapEnterComplete"}
RaceRequests  == WorldRequests \cup {"C2S_CreatePlayer"}
=============================================================================

------------------------------ MODULE NetCode ------------------------------
(***************************************************************************)
(* The formats of src/Shared/NetCode: for every message its id and the     *)
(* fields its read and its write go through, in order, with the conditions *)
(* on which some of them are there.                                        *)
(*                                                                         *)
(* A read takes one field after the other from what has arrived of the     *)
(* message.  A field that is not there leaves the rest as it is: some      *)
(* reads return false then, most go on and return what their last field    *)
(* gave.  A packet that was read is written again for the other players.   *)
(***************************************************************************)
EXTENDS Integers, Sequences

CONSTANTS
    VehiclePool,    \* VEHICLE_POOL_SIZE
    ObjectPool      \* OBJECT_POOL_SIZE

VARIABLES
    stage,      \* what happens to the message
    message,    \* its format
    values,     \* the fields on which what is written for others depends
    left,       \* bits of it that are not read yet
    at,         \* the field that is read next
    got,        \* the fields that were read
    result,     \* what the last read gave
    relayed     \* the fields written for the other players

own  == <<stage, message, values, left, at, got, result, relayed>>
vars == own
-----------------------------------------------------------------------------
\* The widths of the bit stream: a string is empty, an array has one element.
Width == [bit |-> 1, u8 |-> 8, u16 |-> 16, u32 |-> 32, i16 |-> 16, i32 |-> 32,
          f |-> 32, v2 |-> 64, v3 |-> 96, v4 |-> 128, quat |-> 128, pct |-> 16,
          vel |-> 80, s8 |-> 8, s16 |-> 16, s32 |-> 32, arr |-> 96, text |-> 16,
          compressed |-> 16]

Field(kind, name) == [kind |-> kind, name |-> name, missing |-> "go on"]
Bit(n)   == Field("bit", n)
U8(n)    == Field("u8", n)
U16(n)   == Field("u16", n)
U32(n)   == Field("u32", n)
I16(n)   == Field("i16", n)
I32(n)   == Field("i32", n)
F(n)     == Field("f", n)
V2(n)    == Field("v2", n)
V3(n)    == Field("v3", n)
V4(n)    == Field("v4", n)
Quat(n)  == Field("quat", n)
Pct(n)   == Field("pct", n)
Vel(n)   == Field("vel", n)
S8(n)    == Field("s8", n)
S16(n)   == Field("s16", n)
S32(n)   == Field("s32", n)
Arr(n)   == Field("arr", n)
Text2(n) == Field("text", n)
Compressed(n) == Field("compressed", n)

Must(f)  == [f EXCEPT !.missing = "refuse"]     \* if (!bs.read...) return false
Rest(f)  == [f EXCEPT !.missing = "end"]        \* what follows is optional
Each(Kind(_), names) == [i \in DOMAIN names |-> Kind(names[i])]
If(c, fields)        == IF c THEN fields ELSE <<>>
\* A bit says whether the fields are there.
Announced(c, fields) == <<Bit("announced")>> \o If(c, fields)
Keyed(key) == Announced(key > 0, <<U16("LeftRight")>>) \o
              Announced(key > 0, <<U16("UpDown")>>) \o <<U16("Keys")>>

Message(id, type, read, write) ==
    [id |-> id, type |-> type, read |-> read, write |-> write]
ToClient(id, write)       == Message(id, "rpc", <<>>, write)
ToServer(id, read)        == Message(id, "rpc", read, <<>>)
TwoWay(id, fields)        == Message(id, "rpc", fields, fields)
Read(id, read, write)     == Message(id, "rpc", read, write)
ToClientPacket(id, write) == Message(id, "packet", <<>>, write)
ToServerPacket(id, read)  == Message(id, "packet", read, <<>>)
TwoWayPacket(id, fields)  == Message(id, "packet", fields, fields)
\* The writer puts the packet's and the player's id before the fields.
RelayedPacket(id, read, write) == Message(id, "packet", read, write)

\* What a player surfs on, from the id in its packet, and the id others get.
SurfedOn(id) ==
    IF id \in 1..VehiclePool - 1 THEN [type |-> "vehicle", id |-> id]
    ELSE IF id \in VehiclePool..VehiclePool + ObjectPool - 1
         THEN [type |-> "object", id |-> id - VehiclePool]
    ELSE [type |-> "none", id |-> id]
SurfingId(s) == IF s.type = "object" THEN s.id + VehiclePool ELSE s.id
-----------------------------------------------------------------------------

\* actor.hpp
ShowActorForPlayer(isDL) == ToClient(171, <<U16("ActorID"), U32("SkinID")>> \o
    If(isDL, <<U32("CustomSkin")>>) \o <<V3("Position"), F("Angle"),
    F("Health"), U8("Invulnerable")>>)
HideActorForPlayer == ToClient(172, <<U16("ActorID")>>)
ApplyActorAnimationForPlayer == ToClient(173, <<U16("ActorID"), S8("lib"), S8("name"),
    F("delta")>> \o Each(Bit, <<"loop", "lockX", "lockY", "freeze">>) \o
    <<U32("time")>>)
ClearActorAnimationsForPlayer == ToClient(174, <<U16("ActorID")>>)
SetActorFacingAngleForPlayer == ToClient(175, <<U16("ActorID"), F("Angle")>>)
SetActorPosForPlayer == ToClient(176, <<U16("ActorID"), V3("Pos")>>)
SetActorHealthForPlayer == ToClient(178, <<U16("ActorID"), F("Health")>>)
OnPlayerDamageActor == ToServer(177, <<Bit("Unknown"), U16("ActorID"),
    Must(F("Damage")), U32("WeaponID"), U32("Bodypart")>>)

\* checkpoint.hpp
SetCheckpoint == ToClient(107, <<V3("position"), F("size")>>)
DisableCheckpoint == ToClient(37, <<>>)
SetRaceCheckpoint == ToClient(38, <<U8("type"), V3("position"), V3("nextPosition"),
    F("size")>>)
DisableRaceCheckpoint == ToClient(39, <<>>)

\* class.hpp
PlayerRequestClass == TwoWay(128, <<U16("Classid")>>)
PlayerRequestClassResponse(IsDL) == Read(128, <<U8("Selectable"), U8("TeamID"),
    U32("ModelID"), U8("Unknown1"), Must(V3("Spawn")), Must(F("ZAngle")),
    Arr("Weapons"), Arr("Ammos")>>, <<U8("Selectable"), U8("TeamID"),
    U32("ModelID")>> \o If(IsDL, <<U32("CustomModelID")>>) \o
    <<U8("Unknown1"), V3("Spawn"), F("ZAngle"), Arr("Weapons"), Arr("Ammos")>>)
SetSpawnInfo(isDL) == ToClient(68, <<U8("TeamID"), U32("ModelID")>> \o
    If(isDL, <<U32("CustomModelID")>>) \o <<U8("Unknown1"), V3("Spawn"),
    F("ZAngle"), Arr("Weapons"), Arr("Ammos")>>)
PlayerRequestSpawn == ToServer(129, <<>>)
PlayerRequestSpawnResponse == TwoWay(129, <<U32("Allow")>>)
ImmediatelySpawnPlayer == ToClient(129, <<U32("Allow")>>)

\* console.hpp
PlayerRconCommand == ToServerPacket(201, <<S32("cmd")>>)

\* core.hpp
PlayerConnect == Read(25, <<U32("VersionNumber"), U8("Modded"), S8("Name"),
    U32("ChallengeResponse"), S8("Key"), S8("VersionString"),
    Rest(U32("OmpVersion"))>>, <<U32("VersionNumber"), U8("Modded"), S8("Name"),
    U32("ChallengeResponse"), S8("Key"), S8("VersionString")>>)
NPCConnect == ToServer(54, <<U32("VersionNumber"), U8("Modded"), S8("Name"),
    U32("ChallengeResponse")>>)
PlayerJoin == TwoWay(137, <<U16("PlayerID"), U32("Col"), U8("IsNPC"), S8("Name")>>)
PlayerQuit == TwoWay(138, <<U16("PlayerID"), U8("Reason")>>)
PlayerInit == TwoWay(139, Each(Bit, <<"EnableZoneNames", "UsePlayerPedAnims",
    "AllowInteriorWeapons", "UseLimitGlobalChatRadius">>) \o
    <<Must(F("LimitGlobalChatRadius")), Bit("EnableStuntBonus"),
    Must(F("SetNameTagDrawDistance"))>> \o Each(Bit, <<"DisableInteriorEnterExits",
    "DisableNameTagLOS", "ManualVehicleEngineAndLights">>) \o
    <<U32("SetSpawnInfoCount"), U16("PlayerID"), Bit("ShowNameTags"),
    U32("ShowPlayerMarkers"), U8("SetWorldTime"), U8("SetWeather"),
    Must(F("SetGravity")), Bit("LanMode"), U32("SetDeathDropAmount"), Bit("Instagib")>>
    \o Each(U32, <<"OnFootRate", "InCarRate", "WeaponRate", "Multiplier",
    "LagCompensation">>) \o <<S8("ServerName"), Arr("VehicleModels"),
    U32("EnableVehicleFriendlyFire")>>)
GivePlayerWeapon == TwoWay(22, <<U32("Weapon"), U32("Ammo")>>)
ResetPlayerWeapons == TwoWay(21, <<>>)
SetPlayerArmedWeapon == TwoWay(67, <<U32("Weapon")>>)
SetPlayerChatBubble == ToClient(59, <<U16("PlayerID"), U32("Col"), F("DrawDistance"),
    U32("ExpireTime"), S8("Text")>>)
PlayerStreamIn(isDL) == ToClient(32, <<U16("PlayerID"), U8("Team"), U32("Skin")>> \o
    If(isDL, <<U32("CustomSkin")>>) \o <<V3("Pos"), F("Angle"), U32("Col"),
    U8("FightingStyle"), Arr("SkillLevel")>>)
PlayerStreamOut == ToClient(163, <<U16("PlayerID")>>)
SetPlayerName == ToClient(11, <<U16("PlayerID"), S8("Name"), U8("Success")>>)
SendClientMessage == ToClient(93, <<U32("Col"), S32("Message")>>)
PlayerRequestChatMessage == ToServer(101, <<S8("message")>>)
PlayerChatMessage == ToClient(101, <<U16("PlayerID"), S8("message")>>)
\* at least two characters, and at most 256
PlayerRequestCommandMessage == ToServer(50, <<Must(U32("len")), Must(Text2("message"))>>)
PlayerCommandMessage == ToClient(50, <<S32("message")>>)
SendDeathMessage == ToClient(55, <<U16("KillerID"), U16("PlayerID"), U8("reason")>>)
SendGameTimeUpdate == ToClient(60, <<I32("Time")>>)
SetPlayerWeather == ToClient(152, <<U8("WeatherID")>>)
SetWorldBounds == ToClient(17, <<V4("coords")>>)
SetPlayerColor == ToClient(72, <<U16("PlayerID"), U32("Col")>>)
SetPlayerPosition == ToClient(12, <<V3("Pos")>>)
SetPlayerCameraPosition == ToClient(157, <<V3("Pos")>>)
SetPlayerCameraLookAt == ToClient(158, <<V3("Pos"), U8("CutType")>>)
SetPlayerCameraBehindPlayer == ToClient(162, <<>>)
InterpolateCamera == ToClient(82, <<Bit("PosSet"), V3("From"), V3("To"), U32("Time"),
    U8("Cut")>>)
AttachCameraToObject == ToClient(81, <<U16("ObjectID")>>)
SetPlayerPositionFindZ == ToClient(13, <<V3("Pos")>>)
SetPlayerFacingAngle == ToClient(19, <<F("Angle")>>)
SetPlayerTeam == ToClient(69, <<U16("PlayerID"), U8("Team")>>)
SetPlayerFightingStyle == ToClient(89, <<U16("PlayerID"), U8("Style")>>)
SetPlayerSkillLevel == ToClient(34, <<U16("PlayerID"), U32("SkillType"),
    U16("SkillLevel")>>)
SetPlayerSkin(isDL) == ToClient(153, IF isDL
    THEN <<U16("PlayerID"), U32("Skin"), U32("CustomSkin")>>
    ELSE <<U32("PlayerID"), U32("Skin")>>)
SetPlayerHealth == ToClient(14, <<F("Health")>>)
SetPlayerArmour == ToClient(66, <<F("Armour")>>)
SetPlayerSpecialAction == ToClient(88, <<U8("Action")>>)
SetPlayerVelocity == ToClient(90, <<V3("Velocity")>>)
ApplyPlayerAnimation == ToClient(86, <<U16("PlayerID"), S8("lib"), S8("name"),
    F("delta")>> \o Each(Bit, <<"loop", "lockX", "lockY", "freeze">>) \o
    <<U32("time")>>)
ClearPlayerTasks == ToClient(87, <<U16("PlayerID")>>)
TogglePlayerControllable == ToClient(15, <<U8("Enable")>>)
TogglePlayerSpectating == ToClient(124, <<U32("Enable")>>)
PlayerPlaySound == ToClient(16, <<U32("SoundID"), V3("Position")>>)
GivePlayerMoney == ToClient(18, <<I32("Money")>>)
ResetPlayerMoney == ToClient(20, <<>>)
SetPlayerTime == ToClient(29, <<U8("Hour"), U8("Minute")>>)
TogglePlayerClock == ToClient(30, <<U8("Toggle")>>)
OnPlayerDeath == ToServer(53, <<U8("Reason"), U16("KillerID")>>)
OnPlayerCameraTarget == ToServer(168, Each(U16, <<"TargetObjectID", "TargetVehicleID",
    "TargetPlayerID", "TargetActorID">>))
PlayerDeath == ToClient(166, <<U16("PlayerID")>>)
SetPlayerShopName == ToClient(33, <<Arr("Name")>>)
SetPlayerDrunkLevel == ToClient(35, <<I32("Level")>>)
PlayAudioStreamForPlayer == ToClient(41, <<S8("URL"), V3("Position"), F("Distance"),
    U8("Usepos")>>)
PlayCrimeReport == ToClient(112, <<U16("Suspect")>> \o Each(U32, <<"InVehicle",
    "VehicleModel", "VehicleColour", "CrimeID">>) \o <<V3("Position")>>)
StopAudioStreamForPlayer == ToClient(42, <<>>)
SetPlayerAmmo == ToClient(145, <<U8("Weapon"), U16("Ammo")>>)
SendPlayerScoresAndPings == ToClient(155, <<U16("ID"), I32("Score"), U32("Ping")>>)
OnPlayerRequestScoresAndPings == ToServer(155, <<>>)
RemoveBuildingForPlayer == ToClient(43, <<U32("ModelID"), V3("Position"), F("Radius")>>)
CreateExplosion == ToClient(79, <<V3("vec"), U32("type"), F("radius")>>)
SetPlayerInterior == ToClient(156, <<U8("Interior")>>)
SetPlayerWantedLevel == ToClient(133, <<U8("Level")>>)
ToggleWidescreen == ToClient(111, <<U8("enable")>>)
OnPlayerGiveTakeDamage == ToServer(115, <<Bit("Taking"), U16("PlayerID"),
    Must(F("Damage")), U32("WeaponID"), U32("Bodypart")>>)
OnPlayerInteriorChange == ToServer(118, <<U8("Interior")>>)
SetPlayerCameraTargeting == ToClient(170, <<Bit("Enabled")>>)
SCMEvent == Read(96, Each(U32, <<"VehicleID", "Arg1", "Arg2", "EventType">>),
    <<U16("PlayerID")>> \o Each(U32, <<"EventType", "VehicleID", "Arg1", "Arg2">>))
SendGameText == ToClient(73, <<U32("Style"), U32("Time"), S32("Text")>>)
SetPlayerGravity == ToClient(146, <<F("Gravity")>>)
SetPlayerMapIcon == ToClient(56, <<U8("IconID"), V3("Pos"), U8("Type"), U32("Col"),
    U8("Style")>>)
RemovePlayerMapIcon == ToClient(144, <<U8("IconID")>>)
ShowPlayerNameTagForPlayer == ToClient(80, <<U16("PlayerID"), U8("Show")>>)
EnableStuntBonusForPlayer == ToClient(104, <<Bit("Enable")>>)
OnPlayerClickMap == ToServer(119, <<V3("Pos")>>)
OnPlayerClickPlayer == ToServer(23, <<U16("PlayerID"), U8("Source")>>)
DisableRemoteVehicleCollisions == ToClient(167, <<Bit("Disable")>>)
PlayerSpawn == ToServer(52, <<>>)
ForcePlayerClassSelection == ToClient(74, <<>>)
PlayerSpectatePlayer == ToClient(126, <<U16("PlayerID"), U8("SpecCamMode")>>)
PlayerSpectateVehicle == ToClient(127, <<U16("VehicleID"), U8("SpecCamMode")>>)
SetPlayerWorldTime == ToClient(94, <<U8("Time")>>)
ClientCheck == Read(103, <<U8("Type"), U32("Address"), U8("Results")>>,
    <<U8("Type"), U32("Address"), U16("Offset"), U16("Count")>>)
PlayerClose == ToClient(40, <<>>)
SetPlayerVirtualWorld == ToClient(48, <<I32("worldId")>>)
PlayerFootSync(v) == RelayedPacket(207,
    Each(U16, <<"LeftRight", "UpDown", "Keys">>) \o
    <<Must(V3("Position")), Must(Quat("Rotation")), Pct("HealthArmour"),
    U8("WeaponAdditionalKey"), U8("SpecialAction"), Must(V3("Velocity")),
    Must(V3("Offset")), U16("Surfing"), U16("AnimationID"), U16("AnimationFlags")>>,
    Keyed(v.key) \o <<V3("Position"), Quat("Rotation"), Pct("HealthArmour"),
    U8("WeaponAdditionalKey"), U8("SpecialAction"), Vel("Velocity")>> \o
    Announced(SurfedOn(v.surfing).type # "none", <<U16("Surfing"), V3("Offset")>>) \o
    Announced(v.extra > 0, <<U16("AnimationID"), U16("AnimationFlags")>>))
PlayerAimSync == RelayedPacket(203, <<U8("CamMode"), Must(V3("CamFrontVector")),
    Must(V3("CamPos")), Must(F("AimZ")), U8("ZoomWepState"), U8("AspectRatio")>>,
    <<U8("CamMode"), V3("CamFrontVector"), V3("CamPos"), F("AimZ"),
    U8("ZoomWepState"), U8("AspectRatio")>>)
PlayerBulletSync == RelayedPacket(206, <<U8("HitType"), U16("HitID"),
    Must(V3("Origin")), Must(V3("HitPos")), Must(V3("Offset")), U8("WeaponID")>>,
    <<U8("HitType"), U16("HitID"), V3("Origin"), V3("HitPos"), V3("Offset"),
    U8("WeaponID")>>)
PlayerStatsSync == TwoWayPacket(205, <<I32("Money"), I32("DrunkLevel")>>)
PlayerWeaponsUpdate == ToServerPacket(204, <<U16("TargetPlayer"), U16("TargetActor"),
    Rest(U8("slot")), Must(U8("id")), Must(U16("ammo"))>>)
PlayerMarkersSync(streamed) == ToClientPacket(208, <<U32("Count"), U16("ID")>> \o
    Announced(streamed, Each(I16, <<"x", "y", "z">>)))
PlayerSpectatorSync(v) == RelayedPacket(212, Each(U16, <<"LeftRight", "UpDown", "Keys">>) \o
    <<V3("Position")>>, Keyed(v.key) \o <<V3("Position")>>)

\* custommodels.hpp
ModelRequest == ToClient(179, <<U32("poolID"), I32("Count"), U8("type")>> \o Each(I32,
    <<"virtualWorld", "baseId", "newId">>) \o Each(U32, <<"dffChecksum", "txdChecksum",
    "dffSize", "txdSize">>) \o <<U8("timeOn"), U8("timeOff")>>)
ModelUrl == ToClient(183, <<U8("urlType"), U8("fileType"), U32("fileChecksum"),
    S8("downloadLink")>>)
DownloadCompleted == ToClient(185, <<>>)
FinishDownload == ToServer(184, <<>>)
RequestTXD == ToServer(182, <<U32("checksum")>>)
RequestDFF == ToServer(181, <<U32("checksum")>>)

\* dialog.hpp
ShowDialog == ToClient(61, <<I16("ID"), U8("Style"), S8("Title"),
    S8("FirstButton"), S8("SecondButton"), Compressed("Body")>>)
OnPlayerDialogResponse == ToServer(62, <<I16("ID"), U8("Response"), I16("ListItem"),
    S8("Text")>>)

\* gangzone.hpp
ShowGangZone == ToClient(108, <<I16("ID"), V2("Min"), V2("Max"), U32("Col")>>)
HideGangZone == ToClient(120, <<I16("ID")>>)
FlashGangZone == ToClient(121, <<I16("ID"), U32("Col")>>)
StopFlashGangZone == ToClient(85, <<I16("ID")>>)

\* menu.hpp
PlayerInitMenu(HasTwoColumns) == ToClient(76, <<U8("MenuID"), U32("HasTwoColumns"),
    Arr("Title"), V2("Position"), F("Col1Width")>> \o
    If(HasTwoColumns, <<F("Col2Width")>>) \o
    <<U32("MenuEnabled"), Arr("RowEnabled"), Arr("ColumnHeader"), U8("ItemCount"),
    Arr("Items")>> \o
    If(HasTwoColumns, <<Arr("ColumnHeader"), U8("ItemCount"), Arr("Items")>>))
PlayerShowMenu == ToClient(77, <<U8("MenuID")>>)
PlayerHideMenu == ToClient(78, <<U8("MenuID")>>)
OnPlayerSelectedMenuRow == ToServer(132, <<U8("MenuRow")>>)
OnPlayerExitedMenu == ToServer(140, <<>>)

\* object.hpp
Material(isText) == IF isText
    THEN <<U8("materialSize"), S8("font"), U8("fontSize"), U8("bold"), U32("fontColour"),
         U32("backgroundColour"), U8("alignment"), Compressed("text")>>
    ELSE <<U16("model"), S8("txd"), S8("texture"), U32("materialColour")>>
SetPlayerObjectMaterial(isText) == ToClient(84, <<U16("ObjectID"), U8("type"),
    U8("MaterialID")>> \o Material(isText))
CreateObject(attached, used, isText) == ToClient(44, <<U16("ObjectID"), I32("ModelID"),
    V3("Position"), V3("Rotation"), F("DrawDistance"), U8("NoCameraCollision"),
    U16("VehicleID"), U16("AttachedTo")>> \o
    If(attached, <<V3("offset"), V3("rotation"), U8("syncRotation")>>) \o
    <<U8("MaterialsCount")>> \o If(used, <<U8("type"), U8("i")>> \o Material(isText)))
DestroyObject == ToClient(47, <<U16("ObjectID")>>)
MoveObject == ToClient(99, <<U16("ObjectID"), V3("CurrentPosition"), V3("targetPos"),
    F("speed"), V3("targetRot")>>)
StopObject == ToClient(122, <<U16("ObjectID")>>)
SetObjectPosition == ToClient(45, <<U16("ObjectID"), V3("Position")>>)
SetObjectRotation == ToClient(46, <<U16("ObjectID"), V3("Rotation")>>)
AttachObjectToPlayer == ToClient(75, <<U16("ObjectID"), U16("PlayerID"), V3("Offset"),
    V3("Rotation")>>)
SetPlayerAttachedObject(Create) == ToClient(113, <<U16("PlayerID"), U32("Index")>> \o
    Announced(Create, <<U32("model"), U32("bone"), V3("offset"), V3("rotation"),
    V3("scale"), U32("colour1"), U32("colour2")>>))
PlayerBeginObjectSelect == ToClient(27, <<>>)
OnPlayerSelectObject == ToServer(27, <<U32("SelectType"), U16("ObjectID"), U32("Model"),
    V3("Position")>>)
PlayerCancelObjectEdit == ToClient(28, <<>>)
PlayerBeginObjectEdit == ToClient(117, <<Bit("PlayerObject"), U16("ObjectID")>>)
OnPlayerEditObject == ToServer(117, <<Bit("PlayerObject"), U16("ObjectID"),
    U32("Response"), Must(V3("Offset")), V3("Rotation")>>)
PlayerBeginAttachedObjectEdit == ToClient(116, <<U32("Index")>>)
OnPlayerEditAttachedObject == ToServer(116, Each(U32, <<"Response", "Index", "model",
    "bone">>) \o <<Must(V3("offset")), Must(V3("rotation")), Must(V3("scale")),
    U32("colour1"), U32("colour2")>>)

\* pickup.hpp
PlayerCreatePickup == ToClient(95, Each(I32, <<"PickupID", "Model", "Type">>) \o
    <<V3("Position")>>)
PlayerDestroyPickup == ToClient(63, <<I32("PickupID")>>)
OnPlayerPickUpPickup == ToServer(131, <<I32("PickupID")>>)

\* textdraw.hpp
PlayerShowTextDraw == ToClient(134, <<U16("TextDrawID"), U8("flags"), V2("LetterSize"),
    U32("LetterColour"), V2("TextSize"), U32("BoxColour"), U8("Shadow"), U8("Outline"),
    U32("BackgroundColour"), U8("Style"), U8("Selectable"), V2("Position"),
    U16("Model"), V3("Rotation"), F("Zoom"), I16("Color1"), I16("Color2"),
    S16("Text")>>)
PlayerHideTextDraw == ToClient(135, <<U16("TextDrawID")>>)
PlayerTextDrawSetString == ToClient(105, <<U16("TextDrawID"), S16("Text")>>)
PlayerBeginTextDrawSelect == ToClient(83, <<Bit("Enable"), U32("Col")>>)
OnPlayerSelectTextDraw == ToServer(83, <<U16("TextDrawID")>>)

\* textlabel.hpp
PlayerShowTextLabel == ToClient(36, <<U16("TextLabelID"), U32("Col"), V3("Position"),
    F("DrawDistance"), U8("LOS"), U16("PlayerAttachID"), U16("VehicleAttachID")>>)
PlayerHideTextLabel == ToClient(58, <<U16("TextLabelID")>>)

\* vehicle.hpp
PutPlayerInVehicle == ToClient(70, <<U16("VehicleID"), U8("SeatID")>>)
SetVehicleHealth == ToClient(147, <<U16("VehicleID"), F("health")>>)
LinkVehicleToInterior == ToClient(65, <<U16("VehicleID"), U8("InteriorID")>>)
SetVehicleZAngle == ToClient(160, <<U16("VehicleID"), F("angle")>>)
RemovePlayerFromVehicle == ToClient(71, <<>>)
StreamInVehicle == ToClient(164, <<U16("VehicleID"), U32("ModelID"), V3("Position"),
    F("Angle"), U8("Colour1"), U8("Colour2"), F("Health"), U8("Interior"),
    U32("DoorDamage"), U32("PanelDamage"), U8("LightDamage"), U8("TyreDamage"),
    U8("Siren"), Arr("Mods"), U8("Paintjob"), U32("BodyColour1"), U32("BodyColour2")>>)
StreamOutVehicle == ToClient(165, <<U16("VehicleID")>>)
OnPlayerEnterVehicle == ToServer(26, <<U16("VehicleID"), U8("Passenger")>>)
EnterVehicle == ToClient(26, <<U16("PlayerID"), U16("VehicleID"), U8("Passenger")>>)
OnPlayerExitVehicle == ToServer(154, <<U16("VehicleID")>>)
ExitVehicle == ToClient(154, <<U16("PlayerID"), U16("VehicleID")>>)
SetVehiclePlate == ToClient(123, <<U16("VehicleID"), S8("plate")>>)
SetVehiclePosition == ToClient(159, <<U16("VehicleID"), V3("position")>>)
SetVehicleDamageStatus == TwoWay(106, <<U16("VehicleID"), U32("PanelStatus"),
    U32("DoorStatus"), U8("LightStatus"), U8("TyreStatus")>>)
RemoveVehicleComponent == ToClient(57, <<U16("VehicleID"), U16("Component")>>)
VehicleDeath == ToServer(136, <<U16("VehicleID")>>)
AttachTrailer == ToClient(148, <<U16("TrailerID"), U16("VehicleID")>>)
DetachTrailer == ToClient(149, <<U16("VehicleID")>>)
SetVehicleVelocity == ToClient(91, <<U8("Type"), V3("Velocity")>>)
SetVehicleParams == ToClient(24, <<U16("VehicleID")>> \o Each(U8, <<"engine", "lights",
    "alarm", "doors", "bonnet", "boot", "objective", "siren", "doorDriver",
    "doorPassenger", "doorBackLeft", "doorBackRight", "windowDriver", "windowPassenger",
    "windowBackLeft", "windowBackRight">>))
PlayerVehicleSync(v) == RelayedPacket(200,
    Each(U16, <<"VehicleID", "LeftRight", "UpDown", "Keys">>) \o
    <<Must(Quat("Rotation")), Must(V3("Position")), Must(V3("Velocity")),
    Must(F("Health")), Pct("HealthArmour"), U8("AdditionalKeyWeapon"), U8("Siren"),
    U8("LandingGear"), U16("TrailerID"), U32("HydraThrustAngle")>>,
    Each(U16, <<"VehicleID", "LeftRight", "UpDown", "Keys">>) \o
    <<Quat("Rotation"), V3("Position"), Vel("Velocity"), U16("Health"),
    Pct("HealthArmour"), U8("AdditionalKeyWeapon"), Bit("Siren"), Bit("LandingGear")>> \o
    Announced(v.extra > 0, <<U32("HydraThrustAngle")>>) \o
    Announced(v.trailer, <<U16("TrailerID")>>))
PlayerPassengerSync == RelayedPacket(211, <<U16("VehicleID"), U16("DriveBy"),
    Pct("HealthArmour"), U16("LeftRight"), U16("UpDown"), U16("Keys"), V3("Position")>>,
    <<U16("VehicleID"), U16("DriveBy"), U8("HealthArmour"), U8("HealthArmour"),
    U16("LeftRight"), U16("UpDown"), U16("Keys"), V3("Position")>>)
PlayerUnoccupiedSync == RelayedPacket(209, <<U16("VehicleID"), U8("SeatID"),
    Must(V3("Roll")), Must(V3("Rotation")), Must(V3("Position")), Must(V3("Velocity")),
    Must(V3("AngularVelocity")), F("Health")>>, <<U16("VehicleID"), U8("SeatID"),
    V3("Roll"), V3("Rotation"), V3("Position"), V3("Velocity"), V3("AngularVelocity"),
    F("Health")>>)
PlayerTrailerSync == RelayedPacket(210, <<U16("VehicleID"), Must(V3("Position")),
    Must(V4("Quat")), Must(V3("Velocity")), V3("TurnVelocity")>>, <<U16("VehicleID"),
    V3("Position"), V4("Quat"), V3("Velocity"), V3("TurnVelocity")>>)

-----------------------------------------------------------------------------
\* What the server only writes, whatever the conditions are.
Written(b) ==
    {ShowActorForPlayer(b), HideActorForPlayer,
     ApplyActorAnimationForPlayer, ClearActorAnimationsForPlayer,
     SetActorFacingAngleForPlayer, SetActorPosForPlayer,
     SetActorHealthForPlayer, SetCheckpoint, DisableCheckpoint,
     SetRaceCheckpoint, DisableRaceCheckpoint, SetSpawnInfo(b),
     ImmediatelySpawnPlayer, SetPlayerChatBubble, PlayerStreamIn(b),
     PlayerStreamOut, SetPlayerName, SendClientMessage, PlayerChatMessage,
     PlayerCommandMessage, SendDeathMessage, SendGameTimeUpdate,
     SetPlayerWeather, SetWorldBounds, SetPlayerColor, SetPlayerPosition,
     SetPlayerCameraPosition, SetPlayerCameraLookAt,
     SetPlayerCameraBehindPlayer, InterpolateCamera, AttachCameraToObject,
     SetPlayerPositionFindZ, SetPlayerFacingAngle, SetPlayerTeam,
     SetPlayerFightingStyle, SetPlayerSkillLevel, SetPlayerSkin(b),
     SetPlayerHealth, SetPlayerArmour, SetPlayerSpecialAction,
     SetPlayerVelocity, ApplyPlayerAnimation, ClearPlayerTasks,
     TogglePlayerControllable, TogglePlayerSpectating, PlayerPlaySound,
     GivePlayerMoney, ResetPlayerMoney, SetPlayerTime, TogglePlayerClock,
     PlayerDeath, SetPlayerShopName, SetPlayerDrunkLevel,
     PlayAudioStreamForPlayer, PlayCrimeReport, StopAudioStreamForPlayer,
     SetPlayerAmmo, SendPlayerScoresAndPings, RemoveBuildingForPlayer,
     CreateExplosion, SetPlayerInterior, SetPlayerWantedLevel,
     ToggleWidescreen, SetPlayerCameraTargeting, SendGameText,
     SetPlayerGravity, SetPlayerMapIcon, RemovePlayerMapIcon,
     ShowPlayerNameTagForPlayer, EnableStuntBonusForPlayer,
     DisableRemoteVehicleCollisions, ForcePlayerClassSelection,
     PlayerSpectatePlayer, PlayerSpectateVehicle, SetPlayerWorldTime,
     PlayerClose, SetPlayerVirtualWorld, PlayerMarkersSync(b), ModelRequest,
     ModelUrl, DownloadCompleted, ShowDialog, ShowGangZone, HideGangZone,
     FlashGangZone, StopFlashGangZone, PlayerInitMenu(b), PlayerShowMenu,
     PlayerHideMenu, SetPlayerObjectMaterial(b), CreateObject(b, b, b),
     DestroyObject, MoveObject, StopObject, SetObjectPosition,
     SetObjectRotation, AttachObjectToPlayer, SetPlayerAttachedObject(b),
     PlayerBeginObjectSelect, PlayerCancelObjectEdit, PlayerBeginObjectEdit,
     PlayerBeginAttachedObjectEdit, PlayerCreatePickup, PlayerDestroyPickup,
     PlayerShowTextDraw, PlayerHideTextDraw, PlayerTextDrawSetString,
     PlayerBeginTextDrawSelect, PlayerShowTextLabel, PlayerHideTextLabel,
     PutPlayerInVehicle, SetVehicleHealth, LinkVehicleToInterior,
     SetVehicleZAngle, RemovePlayerFromVehicle, StreamInVehicle,
     StreamOutVehicle, EnterVehicle, ExitVehicle, SetVehiclePlate,
     SetVehiclePosition, RemoveVehicleComponent, AttachTrailer,
     DetachTrailer, SetVehicleVelocity, SetVehicleParams}

\* What it reads, and what both sides write.
Plain ==
    {PlayerRequestClass, PlayerRequestSpawnResponse, PlayerJoin, PlayerQuit,
     PlayerInit, GivePlayerWeapon, ResetPlayerWeapons, SetPlayerArmedWeapon,
     PlayerStatsSync, SetVehicleDamageStatus, OnPlayerDamageActor,
     PlayerRequestSpawn, PlayerRconCommand, NPCConnect,
     PlayerRequestChatMessage, PlayerRequestCommandMessage, OnPlayerDeath,
     OnPlayerCameraTarget, OnPlayerGiveTakeDamage, OnPlayerInteriorChange,
     OnPlayerClickMap, OnPlayerClickPlayer, PlayerSpawn,
     PlayerWeaponsUpdate, FinishDownload, RequestTXD, RequestDFF,
     OnPlayerDialogResponse, OnPlayerSelectedMenuRow, OnPlayerExitedMenu,
     OnPlayerSelectObject, OnPlayerEditObject, OnPlayerEditAttachedObject,
     OnPlayerPickUpPickup, OnPlayerSelectTextDraw, OnPlayerEnterVehicle,
     OnPlayerExitVehicle, VehicleDeath, PlayerConnect,
     PlayerRequestClassResponse(FALSE), ClientCheck, SCMEvent}

\* The packets it reads and writes for others.
Relays(v) ==
    {PlayerFootSync(v), PlayerAimSync, PlayerBulletSync,
     PlayerSpectatorSync(v), PlayerVehicleSync(v), PlayerPassengerSync,
     PlayerUnoccupiedSync, PlayerTrailerSync}

Values == [key : 0..1, extra : 0..1, trailer : BOOLEAN,
           surfing : 0..VehiclePool + ObjectPool]
Zero   == [key |-> 0, extra |-> 0, trailer |-> FALSE, surfing |-> 0]

\* Bits of the first n fields.
Size(fields, n) == LET total[i \in 0..n] ==
                           IF i = 0 THEN 0 ELSE total[i - 1] + Width[fields[i].kind]
                   IN  total[n]
Names(fields)  == {fields[i].name : i \in DOMAIN fields}
Kinds(fields)  == [i \in DOMAIN fields |-> fields[i].kind]
\* The fields before those that may be missing.
Needed(fields) ==
    {fields[i].name : i \in {j \in DOMAIN fields :
                                 \A k \in 1..j : fields[k].missing # "end"}}
-----------------------------------------------------------------------------
Init ==
    /\ stage = "idle"
    /\ message = FinishDownload
    /\ values = Zero
    /\ left = 0 /\ at = 1 /\ got = {} /\ result = TRUE
    /\ relayed = <<>>

\* A message of which so many bits have arrived.
Arrive(m, v, bits) ==
    /\ stage = "idle"
    /\ message' = m
    /\ values' = v
    /\ left' = bits
    /\ stage' = IF m.read = <<>> THEN "accepted" ELSE "reading"
    /\ UNCHANGED <<at, got, result, relayed>>

\* All of it, or some of its fields and some bytes more.
ArriveWhole == \E v \in Values : \E m \in Relays(v) : Arrive(m, v, Size(m.read, Len(m.read)))
ArriveShort ==
    \E m \in Plain \cup Relays(Zero), bits \in {0, 8, 16, 24, 32} : \E n \in 0..Len(m.read) :
        /\ Size(m.read, n) + bits <= Size(m.read, Len(m.read))
        /\ Arrive(m, Zero, Size(m.read, n) + bits)

\* read: the next field.
ReadField ==
    /\ stage = "reading"
    /\ LET f == message.read[at]
           there == Width[f.kind] <= left
           ends  == at = Len(message.read) \/ (~there /\ f.missing # "go on")
       IN  /\ left' = IF there THEN left - Width[f.kind] ELSE left
           /\ got' = IF there THEN got \cup {f.name} ELSE got
           /\ result' = IF f.missing = "end" THEN result ELSE there
           /\ stage' = IF ~ends THEN "reading"
                       ELSE IF result' THEN "accepted" ELSE "refused"
           /\ at' = IF ends THEN at ELSE at + 1
    /\ UNCHANGED <<message, values, relayed>>

\* write: the packet for the other players.
Relay ==
    /\ stage = "accepted"
    /\ message \in Relays(values)
    /\ stage' = "relayed"
    /\ relayed' = message.write
    /\ UNCHANGED <<message, values, left, at, got, result>>

Next == ArriveWhole \/ ArriveShort \/ ReadField \/ Relay
Spec == Init /\ [][Next]_vars
-----------------------------------------------------------------------------
TypeOK ==
    /\ stage \in {"idle", "reading", "accepted", "refused", "relayed"}
    /\ values \in Values
    /\ message.id \in 0..255
    /\ message.type \in {"rpc", "packet"}
    /\ left \in 0..Size(message.read, Len(message.read))
    /\ at \in 1..Len(message.read) + 1
    /\ got \subseteq Names(message.read)
    /\ result \in BOOLEAN
    /\ relayed \in {<<>>, message.write}

\* The messages whose read may return true although a field of them is not
\* there: the last field is shorter than one before it that is not checked.
Unchecked ==
    {PlayerConnect, PlayerJoin, PlayerQuit, PlayerInit, SetVehicleDamageStatus,
     ClientCheck, OnPlayerClickPlayer, OnPlayerEnterVehicle, OnPlayerDialogResponse}

\* A message is accepted only when every field its handler uses was read, but
\* for the messages above.
Whole ==
    stage \in {"accepted", "relayed"} =>
        \/ Needed(message.read) \subseteq got
        \/ message \in Unchecked

\* What the other players are sent of a packet was read from it.
RelayedAsRead ==
    stage = "relayed" => Names(relayed) \subseteq got \cup {"announced"}

\* Others see a player surf on the vehicle or object its packet names.
SameSurface ==
    stage = "relayed" =>
        SurfedOn(values.surfing).type = "none"
        \/ SurfingId(SurfedOn(values.surfing)) = values.surfing

\* Messages to the client with one id have one format.
IdsTell ==
    stage = "idle" =>
        \A b, c \in BOOLEAN : \A m \in Written(b), n \in Written(b) \cup Plain :
            m.id = n.id /\ m.type = n.type /\ n.write # <<>> =>
                Kinds(m.write) = Kinds(n.write)
=============================================================================

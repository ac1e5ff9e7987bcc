------------------------------- MODULE Routes --------------------------------
(***************************************************************************)
(* The handlers of the HTTP routes that reach a session, each the sequence *)
(* of its steps around the functions of module WhatsApp.  Besides theirs:  *)
(*   door                  the middleware turns the request away;          *)
(*   form, media, convert  the request, or the file it names, is refused   *)
(*                         (400, 400, 500) or taken;                       *)
(*   cached, keep, forget  the list of groups in the cache answers, is     *)
(*                         stored, is dropped;                             *)
(*   known                 the session must exist (404);                   *)
(*   none                  nothing may be found (404);                     *)
(*   record, rows          the database is written, read;                  *)
(*   finally               a failure so far goes on here, its answer held: *)
(*   limited, late         it may be a 429 or a 504 instead,               *)
(*   tolerate, forgive     may be, or is, a 200 instead.                   *)
(* A handler with optional parts is the set of its sequences.  What begins *)
(* or ends the session or its connection is a step of its own name.        *)
(***************************************************************************)
EXTENDS Integers, Sequences

LOCAL W == INSTANCE WhatsApp

Form == <<"form">>
Body(program) == Form \o program

(* handler/message.go                                                      *)
parseMediaRequest == <<"form", "media">>
sendMediaMessage(send) == parseMediaRequest \o Form \o send
SendText == Body(W!SendTextQuoted)
SendImage == sendMediaMessage(W!SendImage)
SendAudio == {sendMediaMessage(W!SendAudio), sendMediaMessage(<<"convert">> \o W!SendAudio)}
SendVideo == sendMediaMessage(W!SendVideo)
SendDocument == sendMediaMessage(W!SendDocument)
SendSticker == sendMediaMessage(W!SendSticker)
SendLocation == Body(W!SendLocation)
SendContact == Body(W!SendContact)
SendReaction == Body(W!SendReaction)
SendPoll == Body(W!SendPoll)
SendPollVote == Body(W!SendPollVote)
SendButtons == Body(W!SendButtons)
SendList == Body(W!SendList)

(* The files of a message are fetched and uploaded one after the other.    *)
Attached == <<"media">> \o W!UploadMedia
Optional(n, send) ==
  LET Attachments[i \in 0 .. n] == IF i = 0 THEN <<>> ELSE Attachments[i - 1] \o Attached
  IN {Body(Attachments[i] \o send) : i \in 0 .. n}
SendInteractive == Optional(2, W!SendNativeFlow)
SendTemplate == Optional(3, W!SendTemplate)
SendCarousel == Optional(4, W!SendCarousel)

MessageRoutes ==
  {SendText, SendImage, SendVideo, SendDocument, SendSticker, SendLocation, SendContact,
   SendReaction, SendPoll, SendPollVote, SendButtons, SendList}
  \cup SendAudio \cup SendInteractive \cup SendTemplate \cup SendCarousel

(* handler/chat.go                                                         *)
saveDeleteUpdate == <<"record">>
SetPresence == Body(W!SendPresence)
SubscribePresence == Body(W!SubscribePresence)
SetChatPresence == Body(W!SendChatPresenceRaw)
MarkRead == {Body(W!MarkRead \o <<"record">>), Body(<<"record">>)}
MarkChatUnread == Body(W!MarkChatUnread)
ArchiveChat == Body(W!ArchiveChat)
SetDisappearingTimer == Body(Form \o W!SetDisappearingTimer)
DeleteMessage ==
  {Body(W!DeleteMessage \o <<"finally">> \o save \o <<"tolerate">>) :
     save \in {saveDeleteUpdate, <<>>}}
EditMessage == Body(W!EditMessage)
RequestUnavailableMessage == Body(W!RequestUnavailableMessage)
RejectCall == Body(W!RejectCall)
GetAllChats == Body(<<"known", "rows">>)
GetChatMessages == Body(<<"known", "rows">>)
GetChatInfo == Body(<<"known", "rows", "none">>)

ChatRoutes ==
  {SetPresence, SubscribePresence, SetChatPresence, MarkChatUnread, ArchiveChat,
   SetDisappearingTimer, EditMessage, RequestUnavailableMessage, RejectCall, GetAllChats,
   GetChatMessages, GetChatInfo} \cup MarkRead \cup DeleteMessage

(* handler/group.go                                                        *)
CreateGroup == Body(W!CreateGroup \o <<"forget">>)
GetGroupInfo == Body(W!GetGroupInfo)
GetJoinedGroups == <<"cached">> \o W!GetJoinedGroups \o <<"keep", "finally", "limited">>

LeaveGroup == Body(W!LeaveGroup \o <<"forget">>)
UpdateGroupName == Body(W!SetGroupName)
UpdateGroupTopic == Body(W!SetGroupTopic)
AddParticipants == Body(W!updateParticipants)
RemoveParticipants == Body(W!updateParticipants)
PromoteParticipants == Body(W!updateParticipants)
DemoteParticipants == Body(W!updateParticipants)
GetInviteLink == Body(W!GetInviteLink)
JoinGroup == Body(W!JoinWithLink \o <<"forget">>)
SendGroupMessage == Body(W!SendText)
SetGroupAnnounce == Body(W!SetGroupAnnounce)
SetGroupLocked == Body(W!SetGroupLocked)
SetGroupPicture == Body(<<"media">> \o W!SetGroupPhoto)
DeleteGroupPicture == Body(W!DeleteGroupPhoto)
GetGroupPicture == Body(W!GetGroupPicture \o <<"finally", "forgive">>)
SetGroupApprovalMode == Body(W!SetJoinApprovalMode)
SetGroupMemberAddMode == Body(Form \o W!SetMemberAddMode)
GetGroupRequestParticipants == Body(W!GetJoinRequests)
UpdateGroupRequestParticipants == Body(Form \o W!UpdateJoinRequests)
GetGroupInfoFromLink == Body(W!GetGroupInfoFromLink)

GroupRoutes ==
  {CreateGroup, GetGroupInfo, GetJoinedGroups, LeaveGroup, UpdateGroupName, UpdateGroupTopic,
   AddParticipants, RemoveParticipants, PromoteParticipants, DemoteParticipants, GetInviteLink,
   JoinGroup, SendGroupMessage, SetGroupAnnounce, SetGroupLocked, SetGroupPicture,
   DeleteGroupPicture, GetGroupPicture, SetGroupApprovalMode, SetGroupMemberAddMode,
   GetGroupRequestParticipants, UpdateGroupRequestParticipants, GetGroupInfoFromLink}

(* handler/contact.go, community.go, profile.go and status.go              *)
CheckPhone == Body(W!CheckPhoneRegistered)
GetContactInfo == Body(W!GetUserInfo)
GetAvatar == Body(W!GetProfilePicture)
GetContacts == W!GetContacts
GetBlocklist == W!GetBlocklist
UpdateBlocklist == Body(W!UpdateBlocklist)
GetContactQRLink == W!GetContactQRLink
GetBusinessProfile == Body(W!GetBusinessProfile)
GetContactLID == Body(W!GetContactLID \o <<"none">>)
LinkGroup == Body(W!LinkGroup)
UnlinkGroup == Body(W!UnlinkGroup)
GetSubGroups == Body(W!GetSubGroups)
GetProfile == W!GetOwnProfile
SetStatus == Body(W!SetStatusMessage)
SetPushName == Body(W!SetPushName)
SetProfilePicture == Body(<<"media">> \o W!SetProfilePicture)
DeleteProfilePicture == W!DeleteProfilePicture
buildStatusMessage == Form
SendStory == Body(buildStatusMessage \o W!SendStatus \o <<"finally", "late">>)
GetStatusPrivacy == W!GetStatusPrivacy \o <<"finally", "late">>

ContactRoutes ==
  {CheckPhone, GetContactInfo, GetAvatar, GetContacts, GetBlocklist, UpdateBlocklist,
   GetContactQRLink, GetBusinessProfile, GetContactLID, LinkGroup, UnlinkGroup, GetSubGroups,
   GetProfile, SetStatus, SetPushName, SetProfilePicture, DeleteProfilePicture, SendStory,
   GetStatusPrivacy}

(* handler/newsletter.go                                                   *)
CreateNewsletter == Body(W!CreateNewsletter)
FollowNewsletter == Body(W!FollowNewsletter)
UnfollowNewsletter == Body(W!UnfollowNewsletter)
GetNewsletterInfo == Body(W!GetNewsletterInfo)
GetSubscribedNewsletters == W!GetSubscribedNewsletters
GetNewsletterMessages == Body(W!GetNewsletterMessages)
NewsletterSendReaction == Body(W!NewsletterSendReaction)
NewsletterToggleMute == Body(W!NewsletterToggleMute)
NewsletterMarkViewed == Body(W!NewsletterMarkViewed)
NewsletterSubscribeLiveUpdates == Body(W!NewsletterSubscribeLiveUpdates)

NewsletterRoutes ==
  {CreateNewsletter, FollowNewsletter, UnfollowNewsletter, GetNewsletterInfo,
   GetSubscribedNewsletters, GetNewsletterMessages, NewsletterSendReaction,
   NewsletterToggleMute, NewsletterMarkViewed, NewsletterSubscribeLiveUpdates}

(* handler/session.go; what the steps do in full is module Session         *)
Fetch == <<>>
Create == Body(<<"create">>)
Delete == <<"delete">>
Info == <<"known">>
Connect == <<"known", "connect">>
Disconnect == <<"known", "disconnect">>
Logout == <<"known", "logout">>
Restart == <<"session", "restart">>
QR == <<"known", "build">>
PairPhone == Body(W!PairPhone)

SessionRoutes ==
  {Fetch, Create, Delete, Info, Connect, Disconnect, Logout, Restart, QR, PairPhone}

TurnedAway == <<"door">>
AllRoutes ==
  {TurnedAway} \cup MessageRoutes \cup ChatRoutes \cup GroupRoutes \cup ContactRoutes \cup NewsletterRoutes
  \cup SessionRoutes
==============================================================================

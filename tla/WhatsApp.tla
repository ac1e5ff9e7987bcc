------------------------------ MODULE WhatsApp -------------------------------
(***************************************************************************)
(* The functions of wpp.Service, by which requests reach WhatsApp.  Each   *)
(* is the sequence of what it does that can fail or change something, in   *)
(* its order; module Requests says what a step does:                       *)
(*   client, session  the session must exist, and for client be connected; *)
(*   paired, own      its device must be paired: own crashes otherwise;    *)
(*   address          a number or identifier given must have a valid form; *)
(*   build, upload    a message is encoded, a file is uploaded;            *)
(*   send, ask, call  WhatsApp is asked to deliver a message, to tell      *)
(*                    something, or to change something;                   *)
(*   list, regroup    WhatsApp lists the groups, or changes which there    *)
(*                    are;                                                 *)
(*   identify, show   the message is passed on as an event of the session. *)
(* The content of messages and of answers is left out.                     *)
(***************************************************************************)
EXTENDS Sequences

getClient == <<"client">>
emitSentEvent == <<"identify", "show">>
To(step) == getClient \o <<"address", step>>

(* send.go                                                                 *)
sendMedia == To("upload") \o <<"send">> \o emitSentEvent
SendTextQuoted == To("send") \o emitSentEvent
SendText == SendTextQuoted
SendImage == sendMedia
SendDocument == sendMedia
SendAudio == sendMedia
SendVideo == sendMedia
SendSticker == sendMedia
SendLocation == To("send") \o emitSentEvent
SendContact == To("send") \o emitSentEvent
SendReaction == To("send")
SendButtons == To("send")
SendList == To("send")
SendNativeFlow == To("send")
SendTemplate == To("send")
SendCarousel == To("send")
SendPoll == To("send") \o emitSentEvent
SendPollVote == To("build") \o <<"send">>
SendStatus == getClient \o <<"send">>
UploadMedia == getClient \o <<"upload">>

(* chat.go                                                                 *)
MarkRead == To("call")
ArchiveChat == To("call")
MarkChatUnread == To("call")
DeleteMessage == To("send")
EditMessage == To("send")
SendPresence == getClient \o <<"call">>
SendChatPresenceRaw == To("call")
SetDisappearingTimer == To("call")
RequestUnavailableMessage == To("own") \o <<"send">>

(* contact.go                                                              *)
CheckPhoneRegistered == getClient \o <<"ask">>
GetProfilePicture == To("ask")
GetUserInfo == To("ask")
GetContacts == <<"session", "ask">>
GetContactLID == getClient \o <<"address">>
SubscribePresence == To("call")
GetContactQRLink == getClient \o <<"ask">>
GetBusinessProfile == To("ask")

(* profile.go; what GetOwnProfile asks WhatsApp it leaves out on failure,  *)
(* and SetPushName only changes the name in memory                         *)
GetOwnProfile == <<"session", "paired">>
SetStatusMessage == getClient \o <<"call">>
SetPushName == <<"session">>
SetProfilePicture == <<"session", "paired", "call">>
DeleteProfilePicture == <<"session", "paired", "call">>
GetBlocklist == getClient \o <<"ask">>
UpdateBlocklist == To("call")
GetStatusPrivacy == getClient \o <<"ask">>
PairPhone == <<"session", "call">>
RejectCall == To("call")

(* group.go                                                                *)
updateParticipants == To("address") \o <<"call">>
CreateGroup == To("regroup")
GetGroupInfo == To("ask")
GetJoinedGroups == getClient \o <<"list">>
LeaveGroup == To("regroup")
SetGroupName == To("call")
SetGroupTopic == To("call")
GetInviteLink == To("ask")
JoinWithLink == getClient \o <<"regroup">>
SetGroupAnnounce == To("call")
SetGroupLocked == To("call")
SetGroupPhoto == To("call")
DeleteGroupPhoto == SetGroupPhoto
GetGroupPicture == To("ask")
GetGroupInfoFromLink == getClient \o <<"ask">>
SetJoinApprovalMode == To("call")
SetMemberAddMode == To("call")
GetJoinRequests == To("ask")
UpdateJoinRequests == To("address") \o <<"call">>
LinkGroup == To("address") \o <<"call">>
UnlinkGroup == To("address") \o <<"call">>
GetSubGroups == To("ask")

(* newsletter.go                                                           *)
CreateNewsletter == getClient \o <<"call">>
FollowNewsletter == To("call")
UnfollowNewsletter == To("call")
GetNewsletterInfo == To("ask")
GetSubscribedNewsletters == getClient \o <<"ask">>
GetNewsletterMessages == To("ask")
NewsletterSendReaction == To("call")
NewsletterToggleMute == To("call")
NewsletterMarkViewed == To("call")
NewsletterSubscribeLiveUpdates == To("call")
==============================================================================

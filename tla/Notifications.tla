--------------------------- MODULE Notifications ---------------------------
(***************************************************************************)
(* The data of package dispatch and of package publication: what a         *)
(* notification is, what a subscriber asked for, who may be sent what, and *)
(* the form in which each kind of subscriber is sent it.  Everything here  *)
(* is constant-level; Dispatcher is the state machine that uses it.        *)
(*                                                                         *)
(* Abstractions.  APIURL, Title and Standout are copied from model to      *)
(* message unchanged and never looked at, so they are left out.            *)
(* EditorialDesk only feeds the policy agent, whose answer is              *)
(* nondeterministic here.  A message is the record that is encoded, an     *)
(* omitted (empty) field being "" or 0; the encoder cannot fail on this    *)
(* type, so the error returns of the Send methods are unreachable.         *)
(***************************************************************************)
EXTENDS Naturals, Sequences

CONSTANTS
  ContentID,  \* identifiers of pieces of content
  Reference,  \* publish references (transaction ids), "" among them
  TypeName,   \* the spellings of subscription types in use, "" among them
  ToLower,    \* strings.ToLower on those spellings
  UUID,       \* publication identifiers
  PinkFt,     \* the identifier of the FT Pink publication
  Nil         \* the nil pointer

ASSUME BlankAssumption == "" \in TypeName /\ "" \in Reference

ASSUME ToLowerAssumption ==
  /\ ToLower \in [TypeName -> TypeName]
  /\ \A t \in TypeName : ToLower[ToLower[t]] = ToLower[t]
  /\ \A t \in TypeName : ToLower[t] = "" <=> t = ""

ASSUME PinkFtAssumption == PinkFt \in UUID

ASSUME NilAssumption == Nil \notin Seq(UUID)

----------------------------------------------------------------------------
(* Types of notification (the last segment of the ThingChangeType URL).    *)

ContentUpdateType    == "UPDATE"
ContentCreateType    == "CREATE"
ContentDeleteType    == "DELETE"
AnnotationUpdateType == "ANNOTATIONS_UPDATE"
RelatedContentType   == "RELATEDCONTENT"

EventType == {ContentUpdateType, ContentCreateType, ContentDeleteType,
              AnnotationUpdateType, RelatedContentType}

(* LastModified is the rank of a timestamp; 0 stands for every string that *)
(* is not one, which byTimestamp parses as the zero time.                  *)
NotificationModel ==
  [ID               : ContentID,
   Type             : EventType,
   SubscriptionType : TypeName,
   IsE2ETest        : BOOLEAN,
   Publication      : {Nil} \cup Seq(UUID),
   PublishReference : Reference,
   LastModified     : Nat,
   NotificationDate : {"", "now"}]

(* What access.GetNotificationSubscriptionOptions found in the policies of *)
(* a subscriber's key.                                                     *)
NotificationSubscriptionOptions ==
  [ReceiveAdvancedNotifications : BOOLEAN, ReceiveInternalUnstable : BOOLEAN]

(* A StandardSubscriber, or a MonitorSubscriber when monitoring is TRUE.   *)
(* matchesSubType turns acceptedTypes into a set, so it is one here.       *)
Subscriber ==
  [monitoring        : BOOLEAN,
   acceptedTypes     : SUBSET TypeName,
   subscriberOptions : NotificationSubscriptionOptions]

NotificationResponse(Id) ==
  [ID               : ContentID,
   Type             : EventType,
   SubscriberID     : {Nil} \cup Id,
   PublishReference : Reference,
   LastModified     : Nat,
   NotificationDate : {"", "now"}]

----------------------------------------------------------------------------
(* Publications.OnlyOneOrPink: FT Pink wins wherever it stands in the      *)
(* list; otherwise the list must have exactly one element.                 *)
OnlyOneOrPinkFails(uuids) ==
  /\ \A i \in 1..Len(uuids) : uuids[i] # PinkFt
  /\ Len(uuids) # 1

(* forwardToSubscribers gives up before it asks the policy agent.          *)
PublicationFails(n) ==
  /\ n.Publication # Nil
  /\ OnlyOneOrPinkFails(n.Publication)

(* Both sides are compared in lower case; a DELETE without a type is for   *)
(* every subscriber.                                                       *)
matchesSubType(n, sub) ==
  \/ n.Type = ContentDeleteType /\ ToLower[n.SubscriptionType] = ""
  \/ ToLower[n.SubscriptionType] \in {ToLower[t] : t \in sub.acceptedTypes}

(* The body of the loop over d.subscribers up to its last "continue".      *)
Skipped(n, hasAccess, sub) ==
  IF n.IsE2ETest
  THEN ~sub.monitoring
  ELSE \/ ~matchesSubType(n, sub)
       \/ ~hasAccess
       \/ /\ n.Type = RelatedContentType
          /\ ~sub.subscriberOptions.ReceiveInternalUnstable

(* A CREATE is shown as an UPDATE to those without the advanced policy.    *)
CreateNotificationResponse(n, options) ==
  [ID               |-> n.ID,
   Type             |-> IF /\ n.Type = ContentCreateType
                           /\ ~options.ReceiveAdvancedNotifications
                        THEN ContentUpdateType
                        ELSE n.Type,
   SubscriberID     |-> Nil,
   PublishReference |-> n.PublishReference,
   LastModified     |-> n.LastModified,
   NotificationDate |-> n.NotificationDate]

(* Mutant: the notification date is not blanked.                           *)
buildDatedNotificationMsg(r) ==
  [r EXCEPT !.PublishReference = "", !.LastModified = 0]

buildStandardNotificationMsg(r) ==
  [r EXCEPT !.PublishReference = "", !.LastModified = 0,
            !.NotificationDate = ""]

buildMonitorNotificationMsg(r, id) == [r EXCEPT !.SubscriberID = id]

(* What the Send method of a subscriber puts on its channel.               *)
MessageTo(n, id, sub) ==
  LET r == CreateNotificationResponse(n, sub.subscriberOptions)
  IN  IF sub.monitoring THEN buildMonitorNotificationMsg(r, id)
                        ELSE buildStandardNotificationMsg(r)
=============================================================================

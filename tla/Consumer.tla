------------------------------ MODULE Consumer ------------------------------
(***************************************************************************)
(* QueueHandler.HandleMessage and NotificationMapper.MapNotification: what *)
(* becomes of a message of the Kafka topic.  Each call of HandleMessage    *)
(* either drops the message or hands one notification to Dispatcher.Send.  *)
(* The handler keeps no state, so calls for several partitions at a time   *)
(* have the results of the same calls one after the other.                 *)
(*                                                                         *)
(* A message is described by what the code asks of it: whether its body    *)
(* parses, what the transaction id matches, whether the content URI has a  *)
(* UUID in it and is allowlisted, its headers and the fields of its        *)
(* payload.  Text is not modelled.                                         *)
(***************************************************************************)
EXTENDS Notifications, FiniteSets

CONSTANTS
  Messages,             \* the messages that can be on the topic
  contentTypeAllowlist, \* the configured content types
  UpdateEventType,      \* the type of notification for an update
  Subscribers,          \* the subscribers the properties speak of
  MaxMessages           \* bound on the messages of a behaviour

(* The Content-Type headers, shortened.                                    *)
TypeOfHeader ==
  [article |-> "Article", contentPackage |-> "ContentPackage", audio |-> "Audio",
   liveBlogPost |-> "LiveBlogPost", liveBlogPackage |-> "LiveBlogPackage",
   page |-> "Page", list |-> "List"]
Header == DOMAIN TypeOfHeader \cup {"", "json", "placeholder"}

AnnotationsType == "Annotations"

(* An entry of a publication list that uuid.Parse refuses.                 *)
NotUUID == "not a UUID"

NotificationMessage ==
  [parses       : BOOLEAN,
   tid          : [ref : Reference, synth : BOOLEAN, e2e : BOOLEAN,
                   carousel : BOOLEAN],
   uuid         : {Nil} \cup ContentID,
   uriAllowed   : BOOLEAN,
   ContentType  : Header,
   annotation   : BOOLEAN,            \* Message-Type is concept-annotation
   type         : TypeName,           \* of the payload, like the fields below
   PublishCount : Nat,
   Deleted      : BOOLEAN,
   Related      : BOOLEAN,
   Publication  : {Nil} \cup Seq(UUID \cup {NotUUID}),
   LastModified : Nat]

ASSUME TypeOfHeaderAssumption ==
  /\ \A h \in DOMAIN TypeOfHeader : TypeOfHeader[h] \in TypeName
  /\ AnnotationsType \in TypeName
ASSUME NotUUIDAssumption == NotUUID \notin UUID
ASSUME MessagesAssumption == Messages \subseteq NotificationMessage
ASSUME AllowlistAssumption == contentTypeAllowlist \subseteq Header
ASSUME UpdateAssumption ==
  UpdateEventType \in {ContentUpdateType, AnnotationUpdateType}
ASSUME SubscribersAssumption == Subscribers \subseteq Subscriber

VARIABLES
  handled,  \* the messages HandleMessage was called with
  sent      \* what was handed to Send: the message and the notification

vars == <<handled, sent>>

----------------------------------------------------------------------------
(* Mutant: a header that has no type is taken for an article's.            *)
resolveAnyHeader(h) ==
  IF h \in DOMAIN TypeOfHeader THEN TypeOfHeader[h] ELSE "Article"

resolveTypeFromMessageHeader(h) ==
  IF h \in DOMAIN TypeOfHeader THEN TypeOfHeader[h] ELSE ""

(* Mutant: a related content notification that deletes is a DELETE.        *)
eventTypeDeleteFirst(m) ==
  IF m.Deleted THEN ContentDeleteType
  ELSE IF m.Related THEN RelatedContentType
  ELSE IF m.PublishCount = 1 THEN ContentCreateType
  ELSE UpdateEventType

(* The later assignments of MapNotification win.                           *)
eventType(m) ==
  IF m.Related THEN RelatedContentType
  ELSE IF m.Deleted THEN ContentDeleteType
  ELSE IF m.PublishCount = 1 THEN ContentCreateType
  ELSE UpdateEventType

contentType(m) ==
  IF m.Deleted THEN resolveTypeFromMessageHeader(m.ContentType)
  ELSE IF m.type = "" /\ m.annotation THEN AnnotationsType
  ELSE m.type

(* Mutant: what does not parse is kept, as the zero UUID.                  *)
UnmarshalAll(list) == list

(* Publications.UnmarshalJSON keeps the entries that parse; kept[i] is the *)
(* slice after i rounds of its loop.  It is not called for a missing list, *)
(* and does not fail for an unreadable one.                                *)
UnmarshalJSON(list) ==
  LET kept[i \in 0..Len(list)] ==
        IF i = 0 THEN <<>>
        ELSE IF list[i] \in UUID THEN Append(kept[i - 1], list[i]) ELSE kept[i - 1]
  IN  IF list = Nil THEN Nil ELSE kept[Len(list)]

MapNotification(m) ==
  [ID               |-> m.uuid,
   Type             |-> eventType(m),
   SubscriptionType |-> contentType(m),
   IsE2ETest        |-> m.tid.e2e,
   Publication      |-> UnmarshalJSON(m.Publication),
   PublishReference |-> m.tid.ref,
   LastModified     |-> m.LastModified,
   NotificationDate |-> ""]

(* A JSON message is judged by its URI, any other by its content type.     *)
Allowlisted(m) ==
  IF m.ContentType = "json" THEN m.uriAllowed
                            ELSE m.ContentType \in contentTypeAllowlist

(* Mutant: what is on the allowlist is not examined for its transaction.   *)
DroppedByListOnly(m) ==
  ~m.parses \/ m.tid.carousel \/ (~m.tid.e2e /\ ~Allowlisted(m)) \/ m.uuid = Nil

(* Mutant: the error of MapNotification is not looked at.                  *)
DroppedUnlessMapped(m) ==
  ~m.parses \/ m.tid.carousel \/ (~m.tid.e2e /\ (m.tid.synth \/ ~Allowlisted(m)))

(* The early returns of HandleMessage.  An end-to-end test message is      *)
(* neither held to be synthetic, which it also is, nor to the allowlists.  *)
Dropped(m) ==
  \/ ~m.parses
  \/ m.tid.carousel
  \/ ~m.tid.e2e /\ (m.tid.synth \/ ~Allowlisted(m))
  \/ m.uuid = Nil

HandleMessage(m) ==
  /\ Len(handled) < MaxMessages
  /\ handled' = Append(handled, m)
  /\ IF Dropped(m)
     THEN UNCHANGED sent
     ELSE sent' = Append(sent, [msg |-> m, note |-> MapNotification(m)])

Init == handled = <<>> /\ sent = <<>>

Next == \E m \in Messages : HandleMessage(m)

Spec == Init /\ [][Next]_vars

----------------------------------------------------------------------------
(* Properties.  They speak of what a subscriber is sent in the end: of     *)
(* HandleMessage and of the conditions of forwardToSubscribers together,   *)
(* in the case that the policy agent allows the notification.              *)

TypeOK ==
  /\ handled \in Seq(Messages)
  /\ \A i \in DOMAIN sent : /\ sent[i].msg \in Messages
                            /\ sent[i].note \in NotificationModel

Receives(r, n) == ~PublicationFails(n) /\ ~Skipped(n, TRUE, r)

(* Test traffic: whatever its headers and its payload, no message with a   *)
(* synthetic or end-to-end transaction id is sent to a standard            *)
(* subscriber, and a carousel message to nobody.                           *)
TestTrafficIsolated ==
  \A i \in DOMAIN sent : \A r \in Subscribers :
    Receives(r, sent[i].note) =>
      /\ ~sent[i].msg.tid.carousel
      /\ sent[i].msg.tid.synth \/ sent[i].msg.tid.e2e => r.monitoring

(* The lists that let a notification pass: none, or one in which, of what  *)
(* can be read, there is exactly one entry or FT Pink.                     *)
PublicationAdmits(list) ==
  \/ list = Nil
  \/ LET read == {j \in DOMAIN list : list[j] \in UUID}
     IN  Cardinality(read) = 1 \/ \E j \in read : list[j] = PinkFt

Accepts(r, t) == ToLower[t] \in {ToLower[u] : u \in r.acceptedTypes}

(* Deletes, other than of related content: the payload has no type, so the *)
(* header decides.  With one of the table it is for those who accept its   *)
(* type, with the JSON header for all, in an end-to-end test for the       *)
(* monitors; and always subject to the list of publications.  Of other     *)
(* headers nothing is said here (see TypedDeleteIsFiltered).               *)
DeletesFollowHeader ==
  \A i \in DOMAIN sent : \A r \in Subscribers :
    LET m == sent[i].msg
        admits == PublicationAdmits(m.Publication)
        received == Receives(r, sent[i].note)
    IN  m.Deleted /\ ~m.Related =>
          /\ m.tid.e2e => (received <=> admits /\ r.monitoring)
          /\ ~m.tid.e2e /\ m.ContentType \in DOMAIN TypeOfHeader =>
               (received <=> admits /\ Accepts(r, TypeOfHeader[m.ContentType]))
          /\ ~m.tid.e2e /\ m.ContentType = "json" => (received <=> admits)

(* Related content: deleted or not, it is seen only with the policy, or in *)
(* an end-to-end test by monitors, which need no policy for it; and nobody *)
(* is told of it as of a creation, an update or a delete.                  *)
RelatedNeedsPolicy ==
  \A i \in DOMAIN sent : \A r \in Subscribers :
    LET m == sent[i].msg IN
    m.Related /\ Receives(r, sent[i].note) =>
      /\ IF m.tid.e2e THEN r.monitoring ELSE r.subscriberOptions.ReceiveInternalUnstable
      /\ CreateNotificationResponse(sent[i].note, r.subscriberOptions).Type
           = RelatedContentType

(* Publications: entries that cannot be read count for nothing, neither    *)
(* for nor against; unless FT Pink or exactly one other is left,           *)
(* forwardToSubscribers gives up and nobody is sent the notification, the  *)
(* monitors of test traffic included.                                      *)
PublicationDecides ==
  \A i \in DOMAIN sent :
    PublicationFails(sent[i].note) <=> ~PublicationAdmits(sent[i].msg.Publication)

(* What README.md says of deletes: one whose Content-Type header is empty  *)
(* is sent to all the subscribers.                                         *)
UntypedDeleteReachesAll ==
  \A i \in DOMAIN handled :
    LET m == handled[i] IN
    /\ m.parses /\ m.uuid # Nil /\ m.Deleted /\ ~m.Related /\ m.uriAllowed
    /\ m.Publication = Nil
    /\ ~(m.tid.carousel \/ m.tid.synth \/ m.tid.e2e)
    /\ m.ContentType = ""
    => \E j \in DOMAIN sent : /\ sent[j].msg = m
                              /\ \A r \in Subscribers : Receives(r, sent[j].note)

(* What README.md says of deletes: one with any other Content-Type header  *)
(* than JSON has a type, and is sent to the subscribers who accept it.     *)
TypedDeleteIsFiltered ==
  \A i \in DOMAIN sent :
    LET m == sent[i].msg IN
    /\ m.Deleted /\ ~m.Related /\ m.Publication = Nil /\ ~m.tid.e2e
    /\ m.ContentType \notin {"", "json"}
    => \E t \in TypeName \ {""} : \A r \in Subscribers :
         Receives(r, sent[i].note) <=> Accepts(r, t)

(* The two behaviours that README.md has for deletes, in a form weaker     *)
(* than its words: one of them at least is what happens.                   *)
DeletesAsDocumented == UntypedDeleteReachesAll \/ TypedDeleteIsFiltered
=============================================================================

----------------------------- MODULE MCConsumer -----------------------------
(* Instances of Consumer for TLC: every combination of the transaction     *)
(* ids, headers and payloads below, two messages in a row.                 *)
EXTENDS Consumer

CONSTANTS pink, book1, book2, uuid

MCContentID == {uuid}
MCReference == {"", "tid"}
Lower ==
  [Article |-> "article", ContentPackage |-> "contentpackage", Audio |-> "audio",
   LiveBlogPost |-> "liveblogpost", LiveBlogPackage |-> "liveblogpackage",
   Page |-> "page", List |-> "list", Annotations |-> "annotations"]
MCTypeName == {""} \cup DOMAIN Lower \cup {Lower[t] : t \in DOMAIN Lower}
MCToLower == [t \in MCTypeName |-> IF t \in DOMAIN Lower THEN Lower[t] ELSE t]

Tid(synth, e2e, carousel) ==
  [ref |-> "tid", synth |-> synth, e2e |-> e2e, carousel |-> carousel]
Tids == {Tid(FALSE, FALSE, FALSE), Tid(TRUE, FALSE, FALSE), Tid(TRUE, TRUE, FALSE),
         Tid(FALSE, TRUE, TRUE)}

Plain ==
  [parses |-> TRUE, tid |-> Tid(FALSE, FALSE, FALSE), uuid |-> uuid,
   uriAllowed |-> TRUE, ContentType |-> "json", annotation |-> FALSE,
   type |-> "Article", PublishCount |-> 2, Deleted |-> FALSE, Related |-> FALSE,
   Publication |-> Nil, LastModified |-> 1]

MCMessages ==
  {[Plain EXCEPT !.tid = t, !.ContentType = h, !.Deleted = d, !.Related = r,
                 !.type = IF d THEN "" ELSE "Article"] :
     t \in Tids, h \in {"", "json", "audio", "placeholder"},
     d \in BOOLEAN, r \in BOOLEAN}
  \cup {[Plain EXCEPT !.parses = FALSE], [Plain EXCEPT !.uuid = Nil],
        [Plain EXCEPT !.uriAllowed = FALSE], [Plain EXCEPT !.PublishCount = 1],
        [Plain EXCEPT !.annotation = TRUE, !.type = ""]}
  \cup {[Plain EXCEPT !.tid = t, !.Publication = list, !.Deleted = d,
                       !.type = IF d THEN "" ELSE "Article"] :
          t \in {Tid(FALSE, FALSE, FALSE), Tid(TRUE, TRUE, FALSE)}, d \in BOOLEAN,
          list \in {<<>>, <<NotUUID>>, <<NotUUID, book1>>, <<book1, book2>>,
                   <<book1, book2, pink>>}}

MCSubscribers ==
  [monitoring : BOOLEAN, acceptedTypes : {{"article"}, {"Audio"}, {"Annotations"}},
   subscriberOptions : [ReceiveAdvancedNotifications : {FALSE},
                        ReceiveInternalUnstable : BOOLEAN]]

MCAllowlist == {"audio", "article", "placeholder"}
=============================================================================

---------------------------- MODULE MCDispatcher ----------------------------
(* Instances of Dispatcher for TLC.                                        *)
EXTENDS Dispatcher, TLC

CONSTANTS c1, c2, s1, s2, p1, p2, pink, poller

MCContentID == {"content", "created", "deleted", "related", "e2e", "two"}
MCReference == {"", "tid"}
MCTypeName == {"", "Article", "article", "Page", "page"}
MCToLower ==
  [t \in MCTypeName |-> CASE t = "Article" -> "article"
                          [] t = "Page" -> "page"
                          [] OTHER -> t]

Content ==
  [ID |-> "content", Type |-> "UPDATE", SubscriptionType |-> "Article",
   IsE2ETest |-> FALSE, Publication |-> Nil, PublishReference |-> "tid",
   LastModified |-> 2, NotificationDate |-> ""]

Created ==
  [Content EXCEPT !.ID = "created", !.Type = "CREATE", !.LastModified = 1,
                  !.Publication = <<p1, pink>>]
Deleted    == [Content EXCEPT !.ID = "deleted", !.Type = "DELETE",
                              !.SubscriptionType = "", !.LastModified = 0]
Related    == [Content EXCEPT !.ID = "related", !.Type = "RELATEDCONTENT",
                              !.SubscriptionType = "page"]
Synthetic  == [Content EXCEPT !.ID = "e2e", !.IsE2ETest = TRUE]
TwoBooks   == [Content EXCEPT !.ID = "two", !.Publication = <<p1, p2>>]

Options(advanced, unstable) ==
  [ReceiveAdvancedNotifications |-> advanced, ReceiveInternalUnstable |-> unstable]

Plain    == [monitoring |-> FALSE, acceptedTypes |-> {"article"},
             subscriberOptions |-> Options(FALSE, FALSE)]
Advanced == [monitoring |-> FALSE, acceptedTypes |-> {"Article", "Page"},
             subscriberOptions |-> Options(TRUE, TRUE)]
Monitor  == [monitoring |-> TRUE, acceptedTypes |-> {"Page"},
             subscriberOptions |-> Options(TRUE, FALSE)]

MixedInputs  == {Created, Deleted, Related, Synthetic, TwoBooks}
OneInput     == {Content}
MixedRequests == {Plain, Advanced, Monitor}
OneRequest   == {Plain}

Symmetry == Permutations({c1, c2}) \cup Permutations({s1, s2})
=============================================================================

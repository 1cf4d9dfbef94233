--------------------------- MODULE ConsumerProofs ---------------------------
(***************************************************************************)
(* Theorems about Consumer, for every set of messages, lists of            *)
(* publications of any length, every allowlist and any number of messages. *)
(***************************************************************************)
EXTENDS Consumer, FiniteSetTheorems, TLAPS

(* What HandleMessage may hand to Send.                                    *)
Mapped == {[msg |-> m, note |-> MapNotification(m)] : m \in {k \in Messages : ~Dropped(k)}}

IInv == handled \in Seq(Messages) /\ sent \in Seq(Mapped)

(* Every notification was mapped from a message that was not dropped.      *)
THEOREM Invariance == Spec => []IInv
<1>1. Init => IInv
  BY DEF Init, IInv
<1>2. IInv /\ [Next]_vars => IInv'
  <2> SUFFICES ASSUME IInv, [Next]_vars PROVE IInv'
    OBVIOUS
  <2>1. ASSUME NEW m \in Messages, HandleMessage(m) PROVE IInv'
    <3>1. CASE Dropped(m)
      BY <2>1, <3>1 DEF IInv, HandleMessage
    <3>2. CASE ~Dropped(m)
      <4> DEFINE e == [msg |-> m, note |-> MapNotification(m)]
      <4>1. e \in Mapped
        BY <3>2 DEF Mapped
      <4>2. handled' = Append(handled, m) /\ sent' = Append(sent, e)
        BY <2>1, <3>2 DEF HandleMessage
      <4> HIDE DEF e
      <4> QED BY <4>1, <4>2 DEF IInv
    <3> QED BY <3>1, <3>2
  <2>2. CASE UNCHANGED vars
    BY <2>2 DEF IInv, vars
  <2> QED BY <2>1, <2>2 DEF Next
<1> QED BY <1>1, <1>2, PTL DEF Spec

(* What an entry of "sent" is, for the proofs below.                       *)
LEMMA SentIsMapped ==
  ASSUME IInv, NEW i \in DOMAIN sent
  PROVE  \E m \in Messages : /\ ~Dropped(m)
                             /\ sent[i].msg = m
                             /\ sent[i].note = MapNotification(m)
<1>1. sent[i] \in Mapped
  BY DEF IInv
<1> QED BY <1>1 DEF Mapped

----------------------------------------------------------------------------
(* The list of publications.                                               *)

(* Induction over the natural numbers, for sets.                           *)
LEMMA LeastNatural ==
  ASSUME NEW T \in SUBSET Nat, T # {}
  PROVE  \E x \in T : \A y \in T : x <= y
<1> DEFINE R == OpToRel(<, Nat)
<1>1. IsWellFoundedOn(R, Nat)
  BY NatLessThanWellFounded, Zenon
<1>2. \A x, y \in Nat : x < y => <<x, y>> \in R
  BY DEF OpToRel
<1> HIDE DEF R
<1>3. PICK x \in T : \A y \in T : <<y, x>> \notin R
  BY <1>1, WFMin
<1>4. ASSUME NEW y \in T PROVE x <= y
  <2>1. x \in Nat /\ y \in Nat
    OBVIOUS
  <2>2. ~(y < x)
    BY <1>2, <1>3, <2>1, Zenon
  <2> QED BY <2>1, <2>2
<1> QED BY <1>4

LEMMA SetInduction ==
  ASSUME NEW N \in Nat, NEW P, 0 \in P,
         \A n \in 0..N - 1 : n \in P => n + 1 \in P
  PROVE  \A n \in 0..N : n \in P
<1> SUFFICES ASSUME NEW n \in 0..N, n \notin P PROVE FALSE
  OBVIOUS
<1> DEFINE T == {k \in 0..N : k \notin P}
<1>1. T \in SUBSET Nat /\ T # {}
  OBVIOUS
<1>2. PICK x \in T : \A y \in T : x <= y
  <2> HIDE DEF T
  <2> QED BY <1>1, LeastNatural
<1>3. x # 0 /\ x - 1 \in 0..N - 1 /\ x - 1 \notin T
  BY <1>2
<1> QED BY <1>2, <1>3

(* One round of the loop of UnmarshalJSON.                                 *)
Round(list, before, i) == IF list[i] \in UUID THEN Append(before, list[i]) ELSE before

(* The slices after 0, 1, ..., n rounds.                                   *)
Rounds(list, n) ==
  {g \in [0..n -> Seq(UUID)] :
     g[0] = <<>> /\ \A i \in 1..n : g[i] = Round(list, g[i - 1], i)}

(* The loop of UnmarshalJSON goes through all of the list.                 *)
LEMMA LoopEnds ==
  ASSUME NEW list \in Seq(UUID \cup {NotUUID})
  PROVE  Rounds(list, Len(list)) # {}
<1> DEFINE N == Len(list)
           P == {n \in 0..N : Rounds(list, n) # {}}
<1>1. N \in Nat
  OBVIOUS
<1>2. 0 \in P
  <2>1. [i \in 0..0 |-> <<>>] \in Rounds(list, 0)
    BY DEF Rounds
  <2> QED BY <1>1, <2>1
<1>3. ASSUME NEW n \in 0..N - 1, n \in P PROVE n + 1 \in P
  <2>1. PICK g : g \in Rounds(list, n)
    BY <1>3
  <2>2. /\ g \in [0..n -> Seq(UUID)] /\ g[0] = <<>>
        /\ \A i \in 1..n : g[i] = Round(list, g[i - 1], i)
    BY <2>1 DEF Rounds
  <2> DEFINE next == Round(list, g[n], n + 1)
             f == [i \in 0..n + 1 |-> IF i <= n THEN g[i] ELSE next]
  <2>3. next \in Seq(UUID)
    BY <2>2 DEF Round
  <2> HIDE DEF next
  <2>4. f \in [0..n + 1 -> Seq(UUID)] /\ f[0] = <<>>
    BY <2>2, <2>3
  <2>5. ASSUME NEW i \in 1..n + 1 PROVE f[i] = Round(list, f[i - 1], i)
    <3>1. CASE i <= n
      <4>1. f[i] = g[i] /\ f[i - 1] = g[i - 1] /\ i \in 1..n
        BY <3>1
      <4> HIDE DEF f
      <4> QED BY <2>2, <4>1
    <3>2. CASE i = n + 1
      <4>1. f[i] = next /\ f[i - 1] = g[n]
        BY <3>2
      <4> HIDE DEF f
      <4> QED BY <3>2, <4>1 DEF next
    <3> QED BY <3>1, <3>2
  <2> HIDE DEF f
  <2>6. f \in Rounds(list, n + 1)
    BY <2>4, <2>5 DEF Rounds
  <2>7. n + 1 \in 0..N
    BY <1>1
  <2> QED BY <2>6, <2>7
<1> HIDE DEF N, P
<1>4. \A n \in 0..N : n \in P
  BY <1>1, <1>2, <1>3, SetInduction, Zenon
<1>5. N \in P
  BY <1>1, <1>4
<1> QED BY <1>5 DEF N, P

(* The positions of the first n entries that can be read.                  *)
ReadUpTo(list, n) == {j \in 1..n : list[j] \in UUID}

(* UnmarshalJSON keeps as many entries as can be read, each entry it keeps *)
(* is one of those, and each of those is kept.                             *)
LEMMA UnmarshalKeepsRead ==
  ASSUME NEW list \in Seq(UUID \cup {NotUUID}), list # Nil
  PROVE  /\ UnmarshalJSON(list) \in Seq(UUID)
         /\ Len(UnmarshalJSON(list)) = Cardinality(ReadUpTo(list, Len(list)))
         /\ \A k \in DOMAIN UnmarshalJSON(list) :
              \E j \in ReadUpTo(list, Len(list)) : UnmarshalJSON(list)[k] = list[j]
         /\ \A j \in ReadUpTo(list, Len(list)) :
              \E k \in DOMAIN UnmarshalJSON(list) : UnmarshalJSON(list)[k] = list[j]
<1> DEFINE N == Len(list)
           Body(g) == [i \in 0..N |->
             IF i = 0 THEN <<>>
             ELSE IF list[i] \in UUID THEN Append(g[i - 1], list[i]) ELSE g[i - 1]]
           kept == CHOOSE g : g = Body(g)
<1>1. UnmarshalJSON(list) = kept[N]
  BY DEF UnmarshalJSON
<1>2. \E g : g = Body(g)
  <2>1. PICK g : g \in Rounds(list, N)
    BY LoopEnds
  <2>2. g = [i \in 0..N |-> g[i]]
    BY <2>1 DEF Rounds
  <2>3. ASSUME NEW i \in 0..N
        PROVE  g[i] = IF i = 0 THEN <<>>
                      ELSE IF list[i] \in UUID THEN Append(g[i - 1], list[i])
                      ELSE g[i - 1]
    <3>1. g[0] = <<>> /\ \A k \in 1..N : g[k] = Round(list, g[k - 1], k)
      BY <2>1 DEF Rounds
    <3>2. i # 0 => i \in 1..N
      OBVIOUS
    <3> QED BY <3>1, <3>2 DEF Round
  <2>4. g = Body(g)
    BY <2>2, <2>3
  <2> QED BY <2>4
<1>3. kept = Body(kept)
  BY <1>2
<1> HIDE DEF kept
<1>4. /\ kept[0] = <<>>
      /\ \A i \in 1..N : kept[i] = Round(list, kept[i - 1], i)
  <2>1. ASSUME NEW i \in 0..N
        PROVE  kept[i] = IF i = 0 THEN <<>>
                         ELSE IF list[i] \in UUID THEN Append(kept[i - 1], list[i])
                         ELSE kept[i - 1]
    BY <1>3, Zenon
  <2>2. 0 \in 0..N /\ \A i \in 1..N : i \in 0..N /\ i # 0
    OBVIOUS
  <2> HIDE DEF N
  <2> QED BY <2>1, <2>2 DEF Round
<1> DEFINE Good(n) ==
             /\ kept[n] \in Seq(UUID)
             /\ IsFiniteSet(ReadUpTo(list, n))
             /\ Len(kept[n]) = Cardinality(ReadUpTo(list, n))
             /\ \A k \in 1..Len(kept[n]) :
                  \E j \in ReadUpTo(list, n) : kept[n][k] = list[j]
             /\ \A j \in ReadUpTo(list, n) :
                  \E k \in 1..Len(kept[n]) : kept[n][k] = list[j]
           P == {n \in 0..N : Good(n)}
<1>5. N \in Nat
  OBVIOUS
<1>6. 0 \in P
  <2>1. ReadUpTo(list, 0) = {}
    BY DEF ReadUpTo
  <2>2. kept[0] \in Seq(UUID) /\ Len(kept[0]) = 0
    BY <1>4
  <2>3. IsFiniteSet({}) /\ Cardinality({}) = 0
    BY FS_EmptySet
  <2>4. 1..Len(kept[0]) = {}
    BY <2>2
  <2>5. IsFiniteSet(ReadUpTo(list, 0)) /\ Len(kept[0]) = Cardinality(ReadUpTo(list, 0))
    BY <2>1, <2>2, <2>3
  <2>6. Good(0)
    BY <2>1, <2>2, <2>4, <2>5, Zenon
  <2> QED BY <1>5, <2>6
<1>7. ASSUME NEW n \in 0..N - 1, n \in P PROVE n + 1 \in P
  <2>1. Good(n) /\ n + 1 \in 1..N /\ n + 1 \in 0..N
    BY <1>5, <1>7
  <2>2. kept[n + 1] = Round(list, kept[n], n + 1)
    BY <1>4, <2>1
  <2>3. CASE list[n + 1] \notin UUID
    <3>1. ReadUpTo(list, n + 1) = ReadUpTo(list, n)
      BY <2>3 DEF ReadUpTo
    <3>2. kept[n + 1] = kept[n]
      BY <2>2, <2>3 DEF Round
    <3> QED BY <2>1, <3>1, <3>2
  <2>4. CASE list[n + 1] \in UUID
    <3>1. /\ ReadUpTo(list, n + 1) = ReadUpTo(list, n) \cup {n + 1}
          /\ n + 1 \notin ReadUpTo(list, n)
      BY <2>4 DEF ReadUpTo
    <3>2. kept[n + 1] = Append(kept[n], list[n + 1])
      BY <2>2, <2>4 DEF Round
    <3>3. /\ IsFiniteSet(ReadUpTo(list, n + 1))
          /\ Cardinality(ReadUpTo(list, n + 1)) = Cardinality(ReadUpTo(list, n)) + 1
      BY <2>1, <3>1, FS_AddElement
    <3>4. kept[n + 1] \in Seq(UUID) /\ Len(kept[n + 1]) = Len(kept[n]) + 1
      BY <2>1, <2>4, <3>2
    <3>5. ASSUME NEW k \in 1..Len(kept[n + 1])
          PROVE  \E j \in ReadUpTo(list, n + 1) : kept[n + 1][k] = list[j]
      <4>1. CASE k <= Len(kept[n])
        <5>1. kept[n + 1][k] = kept[n][k] /\ k \in 1..Len(kept[n])
          BY <2>1, <3>2, <3>4, <4>1
        <5> QED BY <2>1, <3>1, <5>1
      <4>2. CASE k = Len(kept[n]) + 1
        BY <2>1, <3>1, <3>2, <4>2
      <4> QED BY <2>1, <3>4, <4>1, <4>2
    <3>6. ASSUME NEW j \in ReadUpTo(list, n + 1)
          PROVE  \E k \in 1..Len(kept[n + 1]) : kept[n + 1][k] = list[j]
      <4>1. CASE j \in ReadUpTo(list, n)
        <5>1. PICK k \in 1..Len(kept[n]) : kept[n][k] = list[j]
          BY <2>1, <4>1
        <5>2. k \in 1..Len(kept[n + 1]) /\ kept[n + 1][k] = kept[n][k]
          BY <2>1, <2>4, <3>2, <3>4
        <5> QED BY <5>1, <5>2
      <4>2. CASE j = n + 1
        <5>1. /\ Len(kept[n]) + 1 \in 1..Len(kept[n + 1])
              /\ kept[n + 1][Len(kept[n]) + 1] = list[n + 1]
          BY <2>1, <2>4, <3>2, <3>4
        <5> QED BY <4>2, <5>1
      <4> QED BY <3>1, <4>1, <4>2
    <3> QED BY <2>1, <3>3, <3>4, <3>5, <3>6
  <2> QED BY <2>3, <2>4
<1> HIDE DEF P, N
<1>8. N \in P
  <2>1. \A n \in 0..N : n \in P
    BY <1>5, <1>6, <1>7, SetInduction, Zenon
  <2> QED BY <1>5, <2>1
<1>9. Good(N)
  BY <1>8 DEF P
<1> QED BY <1>1, <1>9 DEF N

(* Entries that cannot be read count for nothing, however long the list.   *)
LEMMA FailsUnlessAdmitted ==
  ASSUME NEW m \in Messages
  PROVE  PublicationFails(MapNotification(m)) <=> ~PublicationAdmits(m.Publication)
<1> DEFINE list == m.Publication
           kept == UnmarshalJSON(list)
           read == {j \in DOMAIN list : list[j] \in UUID}
<1>1. MapNotification(m).Publication = kept
  BY DEF MapNotification
<1>2. CASE list = Nil
  <2>1. kept = Nil
    BY <1>2 DEF UnmarshalJSON
  <2> QED BY <1>1, <1>2, <2>1 DEF PublicationFails, PublicationAdmits
<1>3. CASE list # Nil
  <2>1. list \in Seq(UUID \cup {NotUUID})
    BY <1>3, MessagesAssumption DEF NotificationMessage
  <2>2. read = ReadUpTo(list, Len(list))
    BY <2>1 DEF ReadUpTo
  <2> HIDE DEF list
  <2>3. /\ kept \in Seq(UUID) /\ Len(kept) = Cardinality(ReadUpTo(list, Len(list)))
        /\ \A k \in DOMAIN kept : \E j \in ReadUpTo(list, Len(list)) : kept[k] = list[j]
        /\ \A j \in ReadUpTo(list, Len(list)) : \E k \in DOMAIN kept : kept[k] = list[j]
    BY <1>3, <2>1, UnmarshalKeepsRead
  <2>4. /\ kept \in Seq(UUID) /\ Len(kept) = Cardinality(read)
        /\ \A k \in DOMAIN kept : \E j \in read : kept[k] = list[j]
        /\ \A j \in read : \E k \in DOMAIN kept : kept[k] = list[j]
    BY <2>2, <2>3
  <2>5. PublicationAdmits(list) <=>
          Cardinality(read) = 1 \/ \E j \in read : list[j] = PinkFt
    BY <1>3, Zenon DEF PublicationAdmits
  <2> HIDE DEF kept, read
  <2>6. PublicationFails(MapNotification(m)) <=>
          ~(Len(kept) = 1 \/ \E k \in DOMAIN kept : kept[k] = PinkFt)
    <3>1. kept # Nil /\ DOMAIN kept = 1..Len(kept)
      BY <2>4, NilAssumption
    <3> QED BY <1>1, <3>1 DEF PublicationFails, OnlyOneOrPinkFails
  <2>7. (\E k \in DOMAIN kept : kept[k] = PinkFt) <=> \E j \in read : list[j] = PinkFt
    BY <2>4, Zenon
  <2> QED BY <2>4, <2>5, <2>6, <2>7 DEF list
<1> QED BY <1>2, <1>3

(* forwardToSubscribers gives a notification up for its publications just  *)
(* when, of the list in the message, what can be read does not admit it.   *)
THEOREM PublicationDecidesHolds == Spec => []PublicationDecides
<1>1. IInv => PublicationDecides
  BY SentIsMapped, FailsUnlessAdmitted DEF PublicationDecides
<1> QED BY <1>1, Invariance, PTL

----------------------------------------------------------------------------
(* What reaches whom.                                                      *)

(* HandleMessage lets a test message through only if it is an end-to-end   *)
(* one, and forwardToSubscribers sends that to monitors only.              *)
THEOREM TestTrafficIsolatedHolds == Spec => []TestTrafficIsolated
<1>1. IInv => TestTrafficIsolated
  <2> SUFFICES ASSUME IInv, NEW i \in DOMAIN sent, NEW r \in Subscribers,
                      Receives(r, sent[i].note)
               PROVE  /\ ~sent[i].msg.tid.carousel
                      /\ sent[i].msg.tid.synth \/ sent[i].msg.tid.e2e => r.monitoring
    BY DEF TestTrafficIsolated
  <2>1. PICK m \in Messages : /\ ~Dropped(m) /\ sent[i].msg = m
                              /\ sent[i].note = MapNotification(m)
    BY SentIsMapped
  <2>2. ~m.tid.carousel /\ (m.tid.synth => m.tid.e2e)
    BY <2>1 DEF Dropped
  <2>3. MapNotification(m).IsE2ETest = m.tid.e2e
    BY DEF MapNotification
  <2> QED BY <2>1, <2>2, <2>3 DEF Receives, Skipped
<1> QED BY <1>1, Invariance, PTL

(* No header of the table stands for the blank type.                       *)
LEMMA HeaderHasType == \A h \in DOMAIN TypeOfHeader : TypeOfHeader[h] # ""
<1>1. DOMAIN TypeOfHeader = {"article", "contentPackage", "audio", "liveBlogPost",
                             "liveBlogPackage", "page", "list"}
  BY DEF TypeOfHeader
<1>2. /\ TypeOfHeader["article"] = "Article"
      /\ TypeOfHeader["contentPackage"] = "ContentPackage"
      /\ TypeOfHeader["audio"] = "Audio"
      /\ TypeOfHeader["liveBlogPost"] = "LiveBlogPost"
      /\ TypeOfHeader["liveBlogPackage"] = "LiveBlogPackage"
      /\ TypeOfHeader["page"] = "Page"
      /\ TypeOfHeader["list"] = "List"
  BY DEF TypeOfHeader
<1> QED BY <1>1, <1>2

(* A delete is for those who accept the type of its header, with the JSON  *)
(* header for all, in an end-to-end test for the monitors, if its          *)
(* publications admit it; MapNotification does not look into the payload.  *)
THEOREM DeletesFollowHeaderHolds == Spec => []DeletesFollowHeader
<1>1. IInv => DeletesFollowHeader
  <2> SUFFICES ASSUME IInv, NEW i \in DOMAIN sent, NEW r \in Subscribers,
                      NEW m, m = sent[i].msg, m.Deleted, ~m.Related,
                      NEW admits, admits <=> PublicationAdmits(m.Publication)
               PROVE  /\ m.tid.e2e => (Receives(r, sent[i].note) <=> admits /\ r.monitoring)
                      /\ ~m.tid.e2e /\ m.ContentType \in DOMAIN TypeOfHeader =>
                           (Receives(r, sent[i].note) <=>
                              admits /\ Accepts(r, TypeOfHeader[m.ContentType]))
                      /\ ~m.tid.e2e /\ m.ContentType = "json" =>
                           (Receives(r, sent[i].note) <=> admits)
    BY DEF DeletesFollowHeader
  <2> DEFINE n == MapNotification(m)
  <2>1. m \in Messages /\ sent[i].note = n
    BY SentIsMapped
  <2>2. /\ n.Type = ContentDeleteType
        /\ n.SubscriptionType = resolveTypeFromMessageHeader(m.ContentType)
        /\ n.IsE2ETest = m.tid.e2e
    BY DEF MapNotification, eventType, contentType
  <2>3. PublicationFails(n) <=> ~PublicationAdmits(m.Publication)
    BY <2>1, FailsUnlessAdmitted
  <2> HIDE DEF n
  <2>4. CASE m.tid.e2e
    BY <2>1, <2>2, <2>3, <2>4 DEF Receives, Skipped
  <2>5. CASE ~m.tid.e2e
    <3>1. Receives(r, n) <=> PublicationAdmits(m.Publication) /\ matchesSubType(n, r)
      BY <2>2, <2>3, <2>5 DEF Receives, Skipped, ContentDeleteType, RelatedContentType
    <3>2. CASE m.ContentType \in DOMAIN TypeOfHeader
      <4> DEFINE t == TypeOfHeader[m.ContentType]
      <4>1. n.SubscriptionType = t
        BY <2>2, <3>2 DEF resolveTypeFromMessageHeader
      <4>2. t \in TypeName /\ t # ""
        BY <3>2, TypeOfHeaderAssumption, HeaderHasType
      <4> HIDE DEF t
      <4>3. ToLower[n.SubscriptionType] # ""
        BY <4>1, <4>2, ToLowerAssumption
      <4>4. matchesSubType(n, r) <=> Accepts(r, t)
        BY <4>1, <4>3, Zenon DEF matchesSubType, Accepts
      <4>5. m.ContentType # "json"
        BY <3>2 DEF TypeOfHeader
      <4> QED BY <2>1, <2>5, <3>1, <4>4, <4>5 DEF t
    <3>3. CASE m.ContentType \notin DOMAIN TypeOfHeader
      <4>1. ToLower[n.SubscriptionType] = ""
        BY <2>2, <3>3, ToLowerAssumption, BlankAssumption
           DEF resolveTypeFromMessageHeader
      <4> QED BY <2>1, <2>2, <2>5, <3>1, <3>3, <4>1 DEF matchesSubType
    <3> QED BY <3>2, <3>3
  <2> QED BY <2>4, <2>5
<1> QED BY <1>1, Invariance, PTL

(* RELATEDCONTENT is the last assignment of MapNotification: whatever else *)
(* the message says, the condition on the policy applies, and for an       *)
(* end-to-end test the one on monitors.                                    *)
THEOREM RelatedNeedsPolicyHolds == Spec => []RelatedNeedsPolicy
<1>1. IInv => RelatedNeedsPolicy
  <2> SUFFICES ASSUME IInv, NEW i \in DOMAIN sent, NEW r \in Subscribers,
                      NEW m, m = sent[i].msg, m.Related, Receives(r, sent[i].note)
               PROVE  /\ m.tid.e2e => r.monitoring
                      /\ ~m.tid.e2e => r.subscriberOptions.ReceiveInternalUnstable
                      /\ CreateNotificationResponse(sent[i].note, r.subscriberOptions).Type
                           = RelatedContentType
    BY DEF RelatedNeedsPolicy
  <2> DEFINE n == MapNotification(m)
  <2>1. sent[i].note = n
    BY SentIsMapped
  <2>2. n.Type = RelatedContentType /\ n.IsE2ETest = m.tid.e2e
    BY DEF MapNotification, eventType
  <2> HIDE DEF n
  <2> QED BY <2>1, <2>2 DEF Receives, Skipped, CreateNotificationResponse,
             RelatedContentType, ContentCreateType
<1> QED BY <1>1, Invariance, PTL

----------------------------------------------------------------------------
(* Whatever HandleMessage hands to Send is a notification of the kind that *)
(* the dispatcher works on: it has an ID, and its list of publications is  *)
(* missing or all of UUIDs.                                                *)
THEOREM TypeCorrect == Spec => []TypeOK
<1>1. ASSUME NEW m \in Messages, ~Dropped(m)
      PROVE  MapNotification(m) \in NotificationModel
  <2>1. m \in NotificationMessage
    BY MessagesAssumption
  <2>2. m.uuid \in ContentID
    BY <1>1, <2>1 DEF Dropped, NotificationMessage
  <2>3. eventType(m) \in EventType
    BY UpdateAssumption DEF eventType, EventType
  <2>4. contentType(m) \in TypeName
    BY <2>1, TypeOfHeaderAssumption, BlankAssumption
       DEF contentType, resolveTypeFromMessageHeader, NotificationMessage
  <2>5. UnmarshalJSON(m.Publication) \in {Nil} \cup Seq(UUID)
    <3>1. CASE m.Publication = Nil
      BY <3>1 DEF UnmarshalJSON
    <3>2. CASE m.Publication # Nil
      BY <2>1, <3>2, UnmarshalKeepsRead DEF NotificationMessage
    <3> QED BY <3>1, <3>2
  <2>6. m.tid.e2e \in BOOLEAN /\ m.tid.ref \in Reference /\ m.LastModified \in Nat
    BY <2>1 DEF NotificationMessage
  <2> QED BY <2>2, <2>3, <2>4, <2>5, <2>6, Zenon DEF MapNotification, NotificationModel
<1>2. IInv => TypeOK
  <2> SUFFICES ASSUME IInv PROVE TypeOK
    OBVIOUS
  <2>1. ASSUME NEW i \in DOMAIN sent
        PROVE  sent[i].msg \in Messages /\ sent[i].note \in NotificationModel
    BY <1>1, SentIsMapped
  <2> QED BY <2>1 DEF IInv, TypeOK
<1> QED BY <1>2, Invariance, PTL
=============================================================================

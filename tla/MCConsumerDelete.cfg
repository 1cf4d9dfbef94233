\* A delete without a Content-Type header, and one of a content placeholder.
SPECIFICATION Spec
CONSTANTS
  pink = pink
  book1 = book1
  book2 = book2
  uuid = uuid
  Nil = Nil
  UUID = {pink, book1, book2}
  PinkFt = pink
  ContentID <- MCContentID
  Reference <- MCReference
  TypeName <- MCTypeName
  ToLower <- MCToLower
  Messages <- MCMessages
  contentTypeAllowlist <- MCAllowlist
  UpdateEventType = "UPDATE"
  Subscribers <- MCSubscribers
  MaxMessages = 2
CHECK_DEADLOCK FALSE
INVARIANT DeletesAsDocumented

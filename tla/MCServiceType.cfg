\* A request for a valid and an invalid type.
SPECIFICATION Spec
CONSTANTS
  k1 = k1
  uuid = uuid
  pink = pink
  Nil = Nil
  UUID = {pink}
  PinkFt = pink
  ContentID <- MCContentID
  Reference <- MCReference
  TypeName <- MCTypeName
  ToLower <- MCToLower
  Requests = {r1}
  Keys <- MCKeys
  Queries <- MCQueries
  XPolicy = {"INTERNAL_UNSTABLE"}
  contentTypesIncludedInAll <- MCIncludedInAll
  contentTypesSupported <- MCSupported
  defaultSubscriptionType = "Article"
  MaxChanges = 1
CHECK_DEADLOCK FALSE
INVARIANT InvalidTypeRefused

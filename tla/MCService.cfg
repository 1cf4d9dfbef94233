\* Two requests, a change of a key between any two steps, a shutdown at any time.
SPECIFICATION LiveSpec
CONSTANTS
  k1 = k1
  uuid = uuid
  pink = pink
  Nil = Nil
  UUID = {pink}
  PinkFt = pink
  ContentID <- MCContentID
  Reference <- MCReference
  TypeName <- MCTypeName
  ToLower <- MCToLower
  Requests = {r1, r2}
  Keys <- MCKeys
  Queries <- MCQueries
  XPolicy = {"INTERNAL_UNSTABLE"}
  contentTypesIncludedInAll <- MCIncludedInAll
  contentTypesSupported <- MCSupported
  defaultSubscriptionType = "Article"
  MaxChanges = 1
CHECK_DEADLOCK FALSE
INVARIANTS
  TypeOK
  Admission
  QuietEnd
PROPERTIES
  TimeoutHasCause
  LeaverIsRemoved
  ProbeReturns
  ShutdownCompletes

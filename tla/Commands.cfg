SPECIFICATION Spec
CONSTANTS
  Float64 <- MCFloat64
  UnixMillis <- MCUnixMillis
  UnixTime <- MCUnixTime
  DateTime <- MCDateTime
  MaxShort = 3
  Nesting = 3
  ClassNameKey <- MCClassNameKey
  Text <- MCText
  Commands <- MCCommandSet
  Infos <- MCInfos
INVARIANTS
  CommandsTypeOK
  ArrivesWhole
  UnreadableIsLost
  CutIsPrefix
  OtherEncodingRefused
  ConnectObeyed
  ArgumentsUnderstood

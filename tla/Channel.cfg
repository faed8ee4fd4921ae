CONSTANTS
  Int64s <- MCInt64s
  Doubles <- MCDoubles
  Names <- MCNames
  Texts <- MCTexts
  Sizes <- MCSizes
  Garbage <- MCGarbage
  MaxValues = 7
  Spell <- MCSpell
  ArgValues <- MCArgValues
  SocketPaths <- MCSocketPaths
  Kinds <- MCKinds
  Answers <- MCAnswers
SPECIFICATION Spec
INVARIANTS
  TypeOK
  CapacityOK
  ShortMessagesRead
  LongLengthsAtStart
  ArgumentsArrive
  ReplyUnderstood
CHECK_DEADLOCK FALSE

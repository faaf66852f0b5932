\* Every input of the sets named in the modules, one component at a time.
SPECIFICATION MCSpec
CONSTANTS
  Parked = Parked
  Definitions <- AllDefinitions
  Registered <- Handled
  Prepares <- Fits
  NotJSON <- Malformed
  Cases <- AllCases
  KindOf <- AllKinds
  Number <- Numbers
  TextOf <- Texts
  Members <- Arrays
  Fields <- Objects
  Missing = Missing
  None = None
  Enforcing = {"postgres"}
  Batch = 2
  Strings <- AllStrings
  Invalid <- NotUTF8
  Long <- TooLong
  Blank = Blank
  Replaced <- MadeText
  Nil = Nil
  Fresh <- AllFresh
  Extensions <- Appended
  TaskLists <- Tasks
  Payloads <- Replacements
  MaxVersion = 3
  Spellings <- AllSpellings
  x = x
  y = y
  long = long
  garbled = garbled
  mangled = mangled
  question = question
INVARIANTS
  VerdictIsRight
  PlanIsExecutable
  CountersAreExact
  PublishedStaysValid
  OutcomeIsRight
  DecodeIsRight
  OnlyPairsPass
  LoadedIsWhatWasSaved
  NoFalseRewrite
  RowsMeetTheSchema
  NoFalseAlarm
  FaultsAreCaught
CHECK_DEADLOCK FALSE

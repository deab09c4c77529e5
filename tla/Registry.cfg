SPECIFICATION Spec
CONSTANTS
  t1 = t1
  t2 = t2
  Threads = {t1, t2}
  Manager = manager
  Null = null
  Names <- SomeNames
  Characters <- SomeCharacters
  Grammar <- SomeGrammar
  Setups <- SomeSetups
  MaxBuilds = 2
CHECK_DEADLOCK FALSE
INVARIANT TypeOK
INVARIANT LookupsAgree
INVARIANT BuiltIsFound
INVARIANT LoggersComplete
INVARIANT FormatsAsMeant
PROPERTY DirectorySpec

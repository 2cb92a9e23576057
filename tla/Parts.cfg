SPECIFICATION PartsSpec
CONSTANTS
  Shorts = {12, 15, 18}
  Full = 24
  Accounts = 2
  Indexes = 1
  Columns = 3
  Starts = {1, 2, 3}
  Capacity = 5
  MaxHint = 2
  OfWords = TRUE
  Hurried = FALSE
  ByteValues = 4
  LastValues = 2
  Checksums = 2
  PhraseWords = 3
  ListWords = 3
  TypedWords = 2
  MostGap = 3
  DecoyGap = 1
  LongGap = 2
  DefaultAccounts = 2
  DefaultIndexes = 2
  Faces = 2
  WordBits = 2
  GlyphBits = 1
  Glyphs = 3
  MostWords = 3
  MostGlyphs = 3
  FewWords = 2
  FewGlyphs = 2
  CheckedWords = 2
  MostRefused = 1
INVARIANTS
  RekeyIsSafe
  AnswersAreTrue
  ToldOnlyIfEarned
  DrawIsSound
  AddressIsFound
  WordsAreFound
  MadeAsTold
  TerminalIsTrue
PROPERTIES
  KeepsGuard
\* A part ends.
CHECK_DEADLOCK FALSE

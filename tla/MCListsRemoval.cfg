CONSTANTS
  AliceUpper = AliceUpper
  AliceLower = AliceLower
  Bob = Bob
  Example = Example
  Star = Star
  Empty = Empty
  NoDomain = NoDomain
  NoReport = NoReport
  Words <- MCWords
  Lower <- MCLower
  Names <- MCNames
  Senders <- MCSenders
  Passwords = {p1, p2}
  FileEntries <- MCFileEntries
  Width <- MCWidth
  FilterRules <- MCFilterRules
  MaxRules = 3
SPECIFICATION MCSpec
INVARIANT RemovalTakesEffect
SYMMETRY PasswordSymmetry

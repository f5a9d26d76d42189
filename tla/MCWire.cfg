CONSTANTS
  Words <- MCWords
  Upper <- MCUpper
  Openers <- MCOpeners
  Pieces <- MCPieces
  MaxTokens = 5
  Chars = {"S", "x"}
  MaxLineLength = 2
  BufferSize = 4
  HasAcceptor = TRUE
  MaxSent = 7
  ServerNames = {"", "postgraph"}
  MaxCommands = 4
SPECIFICATION MCSpec
INVARIANTS ParsesAsWritten AddressIsBare RepliesInStep FeaturesTrue
  InOrderAndOnce NoPlainTextInTls LineLimitExact
PROPERTIES ImplementsDialog ReadsOn
CHECK_DEADLOCK FALSE

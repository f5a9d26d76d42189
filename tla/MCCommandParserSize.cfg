CONSTANTS
  Words <- MCWords
  Upper <- MCUpper
  Openers <- MCSizeOpeners
  Pieces <- MCSizePieces
  MaxTokens = 9
SPECIFICATION LineSpec
INVARIANT SenderAsPerEnvelope

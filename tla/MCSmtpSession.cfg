CONSTANTS
  Configs <- MCConfigs
  BodyLines <- MCBodyLines
  MaxMessageSize = 5
  Addresses = {alice, bob}
  NoAddress = NoAddress
  MaxRecipients = 2
SPECIFICATION SessionSpec
INVARIANTS TypeOK InStep MailIsAuthorised CredentialsOverTls SizeLimit
CHECK_DEADLOCK FALSE

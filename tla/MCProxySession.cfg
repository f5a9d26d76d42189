CONSTANTS
  alice = alice
  bob = bob
  anna = anna
  bert = bert
  Configs <- MCConfigs
  BodyLines <- MCBodyLines
  MaxMessageSize = 3
  Addresses = {anna, bert}
  NoAddress = NoAddress
  MaxRecipients = 0
  Setups <- MCSetups
  Users = {alice, bob}
  NoUser = NoUser
  SendAs <- MCSendAs
  MaxMails = 2
SPECIFICATION ProxyFairSpec
INVARIANTS ProxyTypeOK UserIsClients ReportFits
PROPERTIES ImplementsRelay MailAnswered
CHECK_DEADLOCK FALSE

SPECIFICATION Spec
CONSTANTS
  Mail = {foreign, attachment, support, trade}
  TradeMail = {trade}
  SupportMail = {support}
  Large = {attachment}
  MaxExits = 1
  MaxCrashes = 1
INVARIANTS TypeOK ListFollowsMap
PROPERTIES ExitWritesList FileKeepsMail
CHECK_DEADLOCK FALSE

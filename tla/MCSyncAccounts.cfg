CONSTANTS
  contacts = contacts
  templates = templates
  anna = anna
  bert = bert
  Lists = {contacts}
  Accounts = {anna, bert}
  Known = {anna}
  ServerFaults = {}
  ProgressShown = TRUE
  CanRegister = TRUE
  MaxClock = 2
  MaxQuits = 1
  MaxKills = 1
SPECIFICATION Spec
INVARIANT QuietMeansSynced

CONSTANTS
  contacts = contacts
  templates = templates
  anna = anna
  bert = bert
  Lists = {contacts}
  Accounts = {anna, bert}
  Known = {anna}
  ServerFaults = {}
  ProgressShown = FALSE
  CanRegister = TRUE
  MaxClock = 1
  MaxQuits = 0
  MaxKills = 0
SPECIFICATION Spec
INVARIANT ProgressAsserted

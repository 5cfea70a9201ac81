CONSTANTS
  contacts = contacts
  templates = templates
  anna = anna
  bert = bert
  Lists = {contacts, templates}
  Accounts = {anna}
  Known = {anna}
  ServerFaults = {"blank", "results_with_error"}
  ProgressShown = TRUE
  CanRegister = FALSE
  MaxClock = 3
  MaxQuits = 0
  MaxKills = 1
SPECIFICATION Spec
INVARIANT TypeOK
INVARIANT SyncIInv
INVARIANT RowsTrue
INVARIANT StampsTrue
PROPERTY ServerForward
PROPERTY MemoryForward

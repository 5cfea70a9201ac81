\* Nothing happens when nobody holds a timer and no more may be added.
CHECK_DEADLOCK FALSE
SPECIFICATION FairSpec
CONSTANTS
  Owners = {send, widget}
  NoOwner = NoOwner
  MaxId = 4
  MaxQueue = 2
INVARIANTS
  TimersIInv
  NoOrphan
  ValidIsRegistered
  CallbackKept
PROPERTIES
  ImplementsPromise
  KeepsFiring

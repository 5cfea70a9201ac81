CONSTANTS
  empty = empty
  pair = pair
  swapped = swapped
  greeting = greeting
  blank = blank
  alice = alice
  bob = bob
  Groups <- MCGroups
  Templates <- MCTemplates
  Receivers <- MCReceivers
  Mobiles <- MCMobiles
  EmptyMessage <- MCEmptyMessage
  SimSlots = {1}
  MaxItems <- TwoGroups
  MaxCrashes = 2
  ConcurrentAppEvents = FALSE
  EagerUser = FALSE
SPECIFICATION Spec
INVARIANT TypeOK
INVARIANT IInv
INVARIANT AssertionsHold
INVARIANT PositionInBounds
INVARIANT RunningInBounds
INVARIANT PersistedPosition
INVARIANT ButtonsFresh
PROPERTY TaskLocked
PROPERTY ImplementsCampaign
PROPERTY ResumesInPlace

CONSTANTS
  empty = empty
  pair = pair
  swapped = swapped
  greeting = greeting
  blank = blank
  alice = alice
  bob = bob
  Groups <- MCGroups
  Templates <- MCTemplates
  Receivers <- MCReceivers
  Mobiles <- MCMobiles
  EmptyMessage <- MCEmptyMessage
  SimSlots = {1}
  MaxItems <- OneEach
  MaxCrashes = 1
  ConcurrentAppEvents = TRUE
  EagerUser = TRUE
SPECIFICATION FairSpec
INVARIANT OnlyKnownFailures
PROPERTY ServedUntilStart
PROPERTY RunEnds

CONSTANTS
  empty = empty
  pair = pair
  swapped = swapped
  greeting = greeting
  blank = blank
  alice = alice
  bob = bob
  Groups <- MCGroups
  Templates <- MCTemplates
  Receivers <- MCReceivers
  Mobiles <- MCMobiles
  EmptyMessage <- MCEmptyMessage
  SimSlots = {1}
  MaxItems <- OneEach
  MaxCrashes = 0
  ConcurrentAppEvents = TRUE
  EagerUser = FALSE
SPECIFICATION Spec
INVARIANT BackgroundServed

CONSTANTS
  empty = empty
  pair = pair
  swapped = swapped
  greeting = greeting
  blank = blank
  alice = alice
  bob = bob
  Groups <- SendableGroups
  Templates <- MCTemplates
  Receivers <- MCReceivers
  Mobiles <- SendableMobiles
  EmptyMessage <- MCEmptyMessage
  SimSlots = {1}
  MaxItems <- TwoGroups
  MaxCrashes = 0
  ConcurrentAppEvents = FALSE
  EagerUser = FALSE
SPECIFICATION Spec
PROPERTY RunsCurrentQueue

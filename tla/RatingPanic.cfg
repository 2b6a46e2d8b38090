CONSTANTS
  alice = alice
  bob = bob
  Keys = {alice, bob}
  Unregistered = {}
  Values = {1}
  NoRating = NoRating
  Events <- PutAndDelete
  Malformed = Malformed
  MaxEvents = 1
  MaxFaults = 0
  MaxLives = 1
SPECIFICATION Spec
INVARIANT NeverPanics

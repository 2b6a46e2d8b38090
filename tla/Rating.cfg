CONSTANTS
  alice = alice
  bob = bob
  Keys = {alice}
  Unregistered = {alice}
  Values = {1, 2}
  NoRating = NoRating
  Events <- RivalEvents
  Malformed = Malformed
  MaxEvents = 4
  MaxFaults = 1
  MaxLives = 2
SPECIFICATION FairSpec
INVARIANTS TypeOK LossIsBounded MissingIsBounded FirstRatingStands
PROPERTIES ImplementsPipe EventsAreHandled

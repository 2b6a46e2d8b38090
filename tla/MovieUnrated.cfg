CONSTANTS
  r1 = r1
  alice = alice
  theMovie = theMovie
  sequel = sequel
  Requests = {r1}
  Transports = {"grpc", "http"}
  Movies = {theMovie, sequel}
  Users = {alice, NoUser}
  Values = {1, 5}
  NoMovie = NoMovie
  NoUser = NoUser
  NoRating = NoRating
  NaN = NaN
  MaxAttempts = 5
  MaxFaults = 0
SPECIFICATION Spec
INVARIANT RatingIsANumber
CHECK_DEADLOCK FALSE

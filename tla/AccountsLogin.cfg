CONSTANTS
  r1 = r1
  r2 = r2
  r3 = r3
  r4 = r4
  alice = alice
  bob = bob
  aliceAt = aliceAt
  bobAt = bobAt
  secret = secret
  other = other
  long = long
  Requests = {r1, r2, r3, r4}
  Usernames = {alice, bob}
  Emails = {aliceAt, bobAt}
  Passwords = {secret, other, long}
  Unhashable = {long}
  BcryptKey <- FirstBytes
  DSNs = {FALSE}
  NoValue = NoValue
  MaxFaults = 1
SYMMETRY Symmetry
SPECIFICATION Spec
PROPERTY CredentialsSuffice

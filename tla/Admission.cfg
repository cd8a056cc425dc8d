SPECIFICATION LiveSpec
CONSTANTS
  Clients = {c1, c2}
  MaxReads = 1
  AdmissionTimeout = 1
  MaxLifetime = 2
  MaxToken = 2
  AllowAnonymous = TRUE
  NoToken = NoToken
  Plans = {p1, p2}
INVARIANTS
  PermitsConserved
  BodyEndsWithToken
PROPERTIES
  WaitingAnswered
  BodyEnds

SPECIFICATION SharedFairSpec
CONSTANTS
  Clients = {c1, c2}
  Nodes = {n1}
  Threshold = 2
  Cooldown = 1
  RedisFaults = TRUE
INVARIANTS
  SharedTypeOK
  TripIsNotForgotten
  
PROPERTIES
  ServiceResumes
  OutageTrips

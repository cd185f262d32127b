CONSTANTS
  A = A
  B = B
  NULL = NULL
  Clients <- MCClients
  Statuses <- MCStatuses
  MaxFaults = 1
  MaxTrans = 2
  MaxConnects = 2
SPECIFICATION FairSpec
INVARIANTS TypeOK ClientPresent SettlesApproved
PROPERTIES ApprovedSettled TransLeaves ReturnsToIdle ToldIsNews

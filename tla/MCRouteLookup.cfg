SPECIFICATION FairSpec
CONSTANTS
  OCTET = 2
  Routes <- MCRoutes
  MaxRoutes = 3
  Modes = {"search", "scan"}
INVARIANTS
  ScanIsBest
  SearchIsBest
PROPERTIES
  LookupEnds

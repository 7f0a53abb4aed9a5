SPECIFICATION Spec
CONSTANTS
  OCTET = 2
  Routes <- MCRoutes
  MaxRoutes = 3
  Modes = {"search"}
INVARIANTS
  FindsMostSpecific

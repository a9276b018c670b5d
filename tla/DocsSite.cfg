SPECIFICATION Spec
CONSTANTS
  Queries <- MCQueries
  Score <- MCScore
INVARIANTS TypeOK ScrollLockNeedsDialog NavigationIsSound

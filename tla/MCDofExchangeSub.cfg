SPECIFICATION DfSpec
CONSTANTS
  DfRanks = 3
  DfMesh <- df_mesh
  DfOwners <- df_owners
INVARIANT SubGhostsReplaced

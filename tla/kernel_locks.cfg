SPECIFICATION FairSpec
CONSTANTS
  Kinit = "kinit"
  Kthreads <- MCKthreads
  CliWrites = FALSE
  MinCapacity = 4
INVARIANTS
  TypeOK
  MaskedNeverSpins
PROPERTY KeepsAcquiring

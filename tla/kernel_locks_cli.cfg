SPECIFICATION FairSpec
CONSTANTS
  Kinit = "kinit"
  Kthreads <- MCKthreads
  CliWrites = TRUE
  MinCapacity = 4
PROPERTY KeepsAcquiring

\* Every program of three functions, every root and direction, limits below,
\* at and above what such a program needs; every graph of three blocks; every
\* choice of eleven functions; every reading of four entries with two changes
\* that move what is still to be read.
SPECIFICATION MCSpec
CONSTANTS
  Functions = {f1, f2, f3}
  Depths = {0, 1, 5}
  NodeLimits = {0, 2, 3}
  EdgeLimits = {0, 2, 9}
  Starts <- MCStarts
  Sizes <- MCSizes
  Ways <- MCWays
  FirstAddr = 1
  EndAddr = 6
  Wire <- MCWire
  Keywords = {"import"}
  Builtins <- MCBuiltins
  Modules <- MCModules
  Scripts <- MCScripts
  Entries <- MCEntries
  Kinds = {"function", "export", "class", "to", "bytes", "insns"}
  Offsets = {0, 2}
  Limits = {0, 1, 2}
  PageLimit = 3
  MaxChanges = 2
INVARIANTS
  PartTypes
  WalkIsExact
  DepthsAreRealised
  TruncationIsReal
  NormalForm
  ProjectionIsFaithful
  PagingIsHonest
SYMMETRY Symmetry

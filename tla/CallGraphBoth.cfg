\* The callers of the root are missing from a walk in both directions.
SPECIFICATION Spec
CONSTANTS
  Functions = {f1, f2}
  Depths = {5}
  NodeLimits = {5}
  EdgeLimits = {5}
INVARIANTS
  BothListsCallers
SYMMETRY Symmetry

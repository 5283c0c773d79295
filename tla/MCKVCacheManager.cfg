CONSTANTS
  s1 = s1
  s2 = s2
  s3 = s3
  Seqs = {s1, s2, s3}
  TotalBlocks = 3
  BlockSize = 2
  Demands = {1, 3, 7}
SYMMETRY Symmetry
SPECIFICATION Spec
INVARIANTS BlocksPartitioned NoFault SlackBounded
PROPERTIES ImplementsAtomic

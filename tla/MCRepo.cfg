SPECIFICATION Spec
CONSTANTS
  p1 = p1
  p2 = p2
  b1 = b1
  b2 = b2
  l1 = l1
  Procs = {p1, p2}
  Blobs = {b1, b2}
  Larges = {l1}
  ChunksOf <- MCChunksOf
  Instances <- MCInstances
SYMMETRY Symmetry
INVARIANTS ListedIsReadable PublishedIsComplete QueueHasSource
CHECK_DEADLOCK FALSE

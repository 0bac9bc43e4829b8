SPECIFICATION Spec
CONSTANTS
  Strategies = {"exact", "multiply", "linear", "adaptive", "smart"}
  Initial = 16
  Chunk = 8
  MaxSize = 64
  Sizes = {0, 4, 12}
  Batches <- MCBatches
  Aligns = {4, 16}
  MaxObjects = 3
  Addrs = {a1, a2}
  NoAddr = NoAddr
  MaxDepth = 2
  MaxEpoch = 3
  Vals = {x, q}
  Refs = {r, s}
  Boxes = {w}
  Param = q
  Regions = {R1, R2}
  NoName = NoName
  MaxStmts = 5
  MaxFrames = 3
SYMMETRY MemorySymmetry
INVARIANTS
   NoDangling  
PROPERTIES  BlockLeavesNothing
\* A program stops after it has destroyed its region or returned.
CHECK_DEADLOCK FALSE

SPECIFICATION AllocatorSpec
CONSTANTS
  Threads = {t1}
  Blocks = {b1, b2, b3, b4, b5}
  Default = malloc
  Allocators = {malloc, pool, arena}
  None = None
  Wrap = 16
INVARIANTS
  CountExact
  FromCurrent

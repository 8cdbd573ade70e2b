SPECIFICATION Spec
CONSTANTS
  Boots <- MCBoots
  Half = 16
  Reach = 32
  Base = 64
  Virt = 128
  Buffer = 200
  MaxBss = 4
INVARIANTS TypeOK HunksApart HunksEnclosed BssHanded OneModuleEach PointersMeet
CHECK_DEADLOCK FALSE

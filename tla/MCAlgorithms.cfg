SPECIFICATION Spec
\* One step picks an input, and that is all.
CHECK_DEADLOCK FALSE
INVARIANTS
  SurfacesStand
  TracesStand
  ChunksTile
  EvalsStand
  ReasoningStands
  ContractsStand
  PricesStand
  RefusalsToldOnce

\* Six names, three handlers, one preview kept; the watcher is stopped at will.
SPECIFICATION FairSpec
CONSTANTS
  Names <- MCNames
  Records <- MCRecords
  Kind <- MCKind
  Slow <- MCSlow
  Dotted <- MCDotted
  Handlers = {1, 2, 3}
  Keep = 1
  None = None
INVARIANTS ArrivalsFound BurstKeepsPreviews ClosingLosesNothing
PROPERTIES SlowPhotoHoldsNothing

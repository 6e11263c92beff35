CONSTANTS
  Items = {1, 2}
  Workers = {w1, w2}
  w1 = w1
  w2 = w2
  Modes = {"HARDLINK", "SYMLINK", "COPY", "REUSE"}
  Window = 1
  MaxEvents = 1
SPECIFICATION FairSpec
INVARIANTS PlacedIsSound RowsAreTrue
PROPERTIES NothingReplaced KeepsPromise Settles
CHECK_DEADLOCK FALSE

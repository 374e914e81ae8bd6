\* Two calls of the lock, one loss of its key.  Two runs of the collector that overlap
\* once; after the baseline three captures let the same counters come again after a
\* restart.  Two runs of the aggregator, two days, batches of two of four deltas.
CONSTANTS
  Calls = {a, b}
  NoCall = NoCall
  Ttl = 3
  MinPeriod = 1
  Latency = 1
  WorkMax = 1
  MaxVanish = 1
  MaxStall = 2
  Collectors = {a, b}
  Engines = {e1}
  Dirs = {up, down}
  Free = Free
  None = None
  MaxBytes = 2
  MaxEpoch = 1
  MaxClock = 3
  MaxLost = 1
  Runs = {a, b}
  Days = {1, 2}
  BatchSize = 2
  MaxRows = 4
SYMMETRY Symm
SPECIFICATION WorkersSpec
INVARIANTS DoubtBounded EachDeltaOnce
PROPERTY EachByteOnce
CHECK_DEADLOCK FALSE

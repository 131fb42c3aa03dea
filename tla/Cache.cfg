\* Stores without a bound, of one entry, and of two or three of four keys.
CONSTANTS
  Key <- FourKeys
  Value <- Results
  Compute <- ResultOf
  NoValue = NoValue
  Capacities = {0, 1, 2, 3}
SPECIFICATION Spec
INVARIANTS TypeOK InStep WithinCapacity CachedStays
PROPERTY ImplementsTable

\* Four ids through a set that remembers two: every eviction pattern.
CONSTANTS
  Instants <- Carry
  Randoms <- Extreme
  Ids <- Minted
  Capacity = 2
  MaxInserted = 6
SPECIFICATION Spec
INVARIANTS FieldsAgree KeepsNewest NoRepeatWithinWindow IdsTellTheirInstant

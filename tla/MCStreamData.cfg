SPECIFICATION ReaderSpec
CONSTANTS
  five = five
  Undashed <- MCUndashed
  Ids <- MCIds
  Clock = {1, 2, 3}
  Counts <- MCCounts
  SeqMod = 3
  MaxLen = 4
VIEW Claimed
INVARIANTS TypeOK IdsIncrease LoadKeepsEntries XRangeComplete ReaderMissesNothing

CONSTANTS
  a = a
  b = b
  c = c
  allinone = allinone
  karaoke = karaoke
  Clients = {a, b, c}
  Names = {a, b, c, allinone, karaoke}
  AllInOneNames = {allinone}
  KaraokeNames = {karaoke}
  MAX_STREAM_COUNT = 2
  MaxTotal = 5
SPECIFICATION BoundedSpec
SYMMETRY ClientSymmetry
INVARIANTS TypeOK StreamIdsUnique SlotsUnique NoLeak TotalMatchesMask

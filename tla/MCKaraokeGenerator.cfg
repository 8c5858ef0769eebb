CONSTANTS
  s1 = s1
  s2 = s2
  Default = Default
  None = None
  c1 = c1
  Songs = {s1, s2}
  Missing = {s2}
  FirstSong = s1
  Clients = {c1}
  Length = 2
  QueueLimit = 2
  DELAY_INTERVAL = 1
  MaxDuration = 1
  Width = 22
  HeaderWidth = 11
SPECIFICATION Spec
INVARIANTS TypeOK EveryFrameIsSentTwice
PROPERTIES TimeGoesBackOnlyAtTheWrap SelectedSongIsPlayed

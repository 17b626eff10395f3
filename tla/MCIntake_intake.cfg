SPECIFICATION FairSpec
CONSTANTS
  Users = {u1, u2}
  Layers <- MCLayers
  NoticeTTL = 1
  ChunkLimit = 4
  Slots = {m1, m2}
  Taps = {t1, t2}
  Cap = 2
  Texts <- MCTexts
  MaxFaults = 1
INVARIANTS TypeOK WindowLetsLimitPass SecondJobNeedsDoubleTap PickerTellsTheOutcome TextButtonIsBacked ReaderGetsThePost
PROPERTIES NobodyIsShutOut SilentDropIsExplained

SPECIFICATION FairSpec
CONSTANTS
  Windows = {w1}
  Files = {f, g}
  Makable = {f}
  Changing = {f}
  Icons = {f}
  IconUser = icon
  Sizes = {1}
  Modes = {m1}
  Children = {c1, c2}
  TooOld = 0
  PurgeAge = 0
  MaxClock = 2
  MaxChanges = 1
  MaxChains = 2
INVARIANTS RefsAreChains QueueIsServed StaleOnlyIfHasty OneMaker
PROPERTIES WorkEnds

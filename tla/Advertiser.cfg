\* Every record up to four emails and two phones; bursts of two, one frame announced.
SPECIFICATION AdvFairSpec
CONSTANTS
  Emails = 4
  Phones = 2
  Burst = 2
  Count = 1
  SeqSpace = 4
  MaxFrames = 2
INVARIANTS AdvertHonest RepliesOwed
PROPERTY StopsOnSignal

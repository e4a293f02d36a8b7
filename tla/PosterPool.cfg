SPECIFICATION FairSpec
CONSTANTS
  Jobs <- MCJobs
  Contents <- MCContents
  Content <- MCContent
  Hashed <- MCJobs
  Slots <- TwoSlots
  Tries = 2
  MaxDeaths = 1
  MayFail = {"spawn", "import", "copy"}
INVARIANTS
  VerdictsRight
  Accounted
  AnswersKept
  CacheSound
PROPERTY
  PassEnds

SPECIFICATION DocumentsSpec
CONSTANTS
  t1 = t1
  f1 = f1
  f2 = f2
  Tabs = {t1}
  Files = {f1, f2}
  Outside = Outside
  Gone = Gone
  MaxFiles = 2
  MaxDrafts = 2
  MaxRequests = 2
  MaxNonces = 2
  MaxTokens = 2
SYMMETRY FilesAlike
CHECK_DEADLOCK FALSE
INVARIANTS
  ProposedAsChosen
  SealedFilesReadable
PROPERTIES
  AbandonedChallengesDoNotBlock

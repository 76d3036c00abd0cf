CONSTANTS
  Sessions = {s1, s2}
  Existing = {s1}
  NoSession = none
  MaxItems = 1
  MaxMessages = 3
  MaxEdits = 1
  MaxSaves = 1
  MaxVersion = 1
  MaxRuns = 2
  MaxCalls = 2
  MaxActs = 4
  Workflows = {w1, w2}
  NoWorkflow = none
  MaxWfRuns = 2
  MaxPosts = 2
  MaxUses = 2
SPECIFICATION PanelsSpec
INVARIANTS
  SavedGroupsAreOwn
  DeletesWhatWasShown
  PayloadsAreSound
  CatalogKeepsChoice
  TerminalIsKept
  InputInOrder
  InputsAreOwn
PROPERTIES
  DeadPageLeaves
  SaveChangesOnlyEdits
  PreviewCatchesUp
  DetailCatchesUp
CHECK_DEADLOCK FALSE

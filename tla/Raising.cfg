\* Two drafts, a checklist of two items, one file; two saves of two wizards.
SPECIFICATION RaisingSpec
CONSTANTS
  d1 = d1  d2 = d2  i1 = i1  i2 = i2  f1 = f1  None = None
  Drafts = {d1, d2}
  Items = {i1, i2}
  Mandatory = {i2}
  Files = {f1}
  Types = {"functional"}
  Attempts = {1, 2}
  MaxOpened = 2
  MaxEdits = 1
INVARIANTS WizardIsSound EvidenceIsInPlace
PROPERTY SavedMeansStored
SYMMETRY AnyDraft
ACTION_CONSTRAINT Instance
CHECK_DEADLOCK FALSE

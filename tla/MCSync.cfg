SPECIFICATION Spec
CONSTANTS
  ThreadIds <- MCThreadIds
  MaxWaiters = 1
  Permits = 2
  MaxWord = 7
INVARIANTS
  TypeOK
  LockAgreement
  PermitsConserved
  WordAgreement
PROPERTIES
  LockProgress
  PermitTaken
  SomeoneGetsIt

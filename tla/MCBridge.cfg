SPECIFICATION BridgeSpec
CONSTANTS
  t1 = t1  t2 = t2  f = f  g = g  x = x  y = y  k1 = k1  Nothing = Nothing
  Threads <- MCThreads
  Contents <- MCContents
  Captures <- MCCaptures
  Classes <- MCClasses
  MaxValues = 3
  Names <- MCNames
  MaxClasses = 2
  MaxObjects = 2
  MaxDepth = 2
SYMMETRY MCSymmetry
INVARIANTS
  TypeOK
  AnswersResolve
  DuplicatesBounded
  NoForeignSelf
PROPERTIES
  SingletonsKept
\* The bounds on VALUEs stop the model where the program goes on, and a thread
\* that is stuck is stuck for good.
CHECK_DEADLOCK FALSE

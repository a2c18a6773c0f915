SPECIFICATION Spec
CONSTANTS
  o1 = o1  o2 = o2  m1 = m1  m2 = m2  NoObject = NoObject
  Objects <- MCObjects
  Mutators <- MCMutators
  MaxRoots = 2
  Concurrent = {"barrier", "allocate"}
  e1 = e1  e2 = e2  p1 = p1  p2 = p2  r1 = r1  Self = Self
  Evacuators <- MCEvacuators
  Pinners <- MCPinners
  Readers <- MCReaders
INVARIANTS
  TypeOK
  MarkingIsSound
  OneWinner
PROPERTIES
  ColorProtocol
  ReadsMoveForward
  InstallEnds

CONSTANTS
  a = a
  b = b
  Sender = {a, b}
  MaxPackets = 2
  Fragments <- MCFragments
  MaxFragments = 3
  EndpointOf <- MCEndpointOf
  nMaxFragments = 3
  allowReassembly = TRUE
  reassemblyTimeout = 2
  SequenceSpace = 8
  NoSequence = NoSequence
  Stray <- MCStray
SPECIFICATION FairSpec
INVARIANTS
  TypeOK
  PartialPacketsAreSound
PROPERTIES
  DropsOnlyIdle
  NothingStays
  ImplementsDatagramLink
CHECK_DEADLOCK FALSE

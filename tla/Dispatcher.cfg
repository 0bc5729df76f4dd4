CONSTANTS
  c1 = c1
  c2 = c2
  Clients <- TwoClients
  Flusher = Flusher
  None = None
  MaxInputs = 4
SPECIFICATION Spec
INVARIANTS
  TypeOK
  NoLostWakeup
  SendsNeverOverlap
  MovesInOrder
  AtMostOneOvertaken
PROPERTY
  MoveIsTaken

CONSTANTS
  Items <- Spellings
  MaxItems = 2
  NotText = NotText
  NoSequence = NoSequence
SPECIFICATION Spec
INVARIANTS
  SameMachineSameSeat
  DifferentMachinesApart
CHECK_DEADLOCK FALSE

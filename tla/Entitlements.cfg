CONSTANTS
  t1 = t1
  t2 = t2
  e1 = e1
  e2 = e2
  Thread <- Threads
  Code <- Codes
  MaxPage = 1
  NoList = NoList
  MaxVersion = 3
SYMMETRY Symmetric
SPECIFICATION Spec
INVARIANTS
  EntitlementsInv
  AnswersTrue
  RefreshLasts

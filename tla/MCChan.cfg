SPECIFICATION Spec
CONSTANTS
  t1 = t1
  t2 = t2
  t3 = t3
  Tasks = {t1, t2, t3}
  None = None
  MaxValues = 5
SYMMETRY Symmetry
INVARIANTS
  ListedWhileWaiting
  EachValueOnce

SPECIFICATION Spec
CONSTANTS
  shell = shell
  worker = worker
  Objects = {vehicle, gprs}
  IdZero = vehicle
  Values = {a, b}
  Writers = {shell, worker}
  Above <- MCAbove
  NPages = 2
  Words = 2
  Faults = 1
  Absent = Absent
  Spoilt = Spoilt
  Blank = Blank
  Mixed = Mixed
INVARIANT RestartFindsTheSame
PROPERTY StoreRefined
SYMMETRY MCSymmetry

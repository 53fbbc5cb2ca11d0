SPECIFICATION Spec
CONSTANTS
  Keys = {k1, k2, k3, k4}
  Values = {v1, v2}
  MaxPending = 3
  Spacing = 3
  Modulus = 8
  MaxLate = 1
  MaxNow = 18
SYMMETRY Symmetry
INVARIANTS TypeOK WritesArePaced PendingIsScheduled NoWriteIsOverdue
PROPERTY ImplementsPacedWrites

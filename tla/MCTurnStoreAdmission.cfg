SPECIFICATION Spec
CONSTANTS
  Turn = {t1, t2, t3}
  Command <- MCAdmission
  Generation = {g1}
  Interaction = {i1}
  Plan = {p1}
  Caller = {a1, a2}
  Null = Null
  MaxVersion = 1
  Name = {x1}
SYMMETRY MCSymmetry
CHECK_DEADLOCK FALSE
INVARIANTS
  TypeOK
  AdmissionIsIdempotent

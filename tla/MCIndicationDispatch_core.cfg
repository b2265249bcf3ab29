SPECIFICATION Spec
CONSTANTS
  c1 = c1  c2 = c2
  CallId = {c1, c2}
  Shown = {"incoming"}
  Absent = Absent
  Nobody = Nobody
  RegReports = {"registered"}
  Shapes = {"whole", "untyped", "cut", "numberless"}
  MayRefuse = TRUE
  MaxInbox = 2
  MaxOffers = 2
SYMMETRY Symmetric
CHECK_DEADLOCK FALSE
INVARIANTS
  TypeOK
  OnlyDamagedDiffer
  AllowsMatchOffers
  NoOfferForgotten

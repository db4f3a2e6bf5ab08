SPECIFICATION Spec
CONSTANTS
  e1 = e1
  e2 = e2
  r1 = r1
  r2 = r2
  p1 = p1
  p2 = p2
  None = None
  Broken = Broken
  Absent = Absent
  Exporter = {e1, e2}
  Resource = {r1, r2}
  Place = {p1, p2}
  exporterOf <- TwoExporters
  defaultPlace <- DefaultP1
  Faulty = {r2}
  MaxCrashes = 2
  MaxBacklog = 0
INVARIANT
  Consistent

CONSTANTS
  g = g
  h = h
  Prelude = Prelude
  Games = {g, h}
  Local = {h}
  Present = {h}
  MaxRevision <- GRevised
  Faults = {"request", "body", "open", "write", "record", "kill"}
SPECIFICATION Spec
INVARIANTS
  TypeOK
  StaleOnlyAfterError
  UpdatesRepair
PROPERTY
  UpdateEnds

\* Two requests at a time, of any kind, against consent and sweep.
SPECIFICATION SessionSpec
CONSTANTS
  Clients = {c1, c2}
  Maximum = 2
  Report = 3
SYMMETRY Symmetry
INVARIANTS
  SessionTypeOK
  HeldOnlyWhileOpen
  FirstReportIsCharged
  ConsentIsTheLastWord
\* an ended session with every decision made stops
CHECK_DEADLOCK FALSE

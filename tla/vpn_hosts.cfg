\* Two requests, at one time or one after the other, two lists and one that is refused,
\* the watcher beside them, and two faults: failed calls or killed runs.
SPECIFICATION Spec
CONSTANTS
  Req = {r1, r2}
  Config = {c1, c2}
  Bad = {bad}
  Default = default
  Watch = watch
  MaxAsked = 2
  MaxFaults = 2
  None = None
INVARIANTS Healed SaveApplied
SYMMETRY Symmetry
CONSTRAINT NotTorn
CHECK_DEADLOCK FALSE

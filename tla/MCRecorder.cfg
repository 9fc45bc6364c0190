\* Two workers and one right; two writers of two paths, two lines and three views;
\* two beats of two steps with two rewrites.
SPECIFICATION RecorderSpec
CONSTANTS
  Worker = {w1, w2}
  Root = Root
  Right = {g1}
  MaxTape = 6
  MaxFailures = 2
  Writer = {v1, v2}
  Path = {p1, p2}
  MaxLines = 2
  MaxViews = 3
  MaxLost = 1
  Document = {x, y}
  Blank = x
  Other = {"config"}
  MaxSteps = 2
  MaxBeats = 2
  MaxWrites = 2
  MaxRevokes = 1
  MaxMounts = 2
  MaxFaults = 1
  MaxEvents = 3
  None = None
  Absent = Absent
  Nil = Nil
CONSTRAINT Bounded
SYMMETRY Symmetry
CHECK_DEADLOCK FALSE
INVARIANTS SeatsSafe NoViewLostInSilence BoundarySafe
PROPERTIES CloseIsOwn CascadeIsComplete NoMountForgotten NoRequestOnAReplacement

SPECIFICATION Spec
CONSTANTS
  c1 = c1
  e1 = e1
  None = None
  Cmds = {c1, c2}
  Streams = {s1}
  Awaits = {a1}
  Events = {e1}
  SubCap = 2
  MaxFrames = 2
  MaxRequests = 2
  Contains <- ContainsEventAndCommand
INVARIANT AwaitIdless

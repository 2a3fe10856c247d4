\* Incoming calls: two handlers, two host threads, two INVITEs, one of them repeated.
CONSTANTS
  Controllers = {h1}
  Enders = {h2}
  Handlers = {x1, x2}
  Dials = {}
  Invites = {i1, i2}
  Legs = {l1, l2}
  RSeqs = {}
  Unreliable = {"media", "response"}
  ByeCalls = {i1, i2}
  None = None
SYMMETRY CallSymmetry
SPECIFICATION Spec
INVARIANTS TypeOK RingingIsTimed AnsweredIsWhole

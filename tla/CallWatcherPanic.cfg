\* A reliable 183 races a hangup whose CANCEL cannot be written.
CONSTANTS
  Controllers = {h1}
  Enders = {h2}
  Handlers = {}
  Dials = {d1}
  Invites = {}
  Legs = {}
  RSeqs = {1}
  Unreliable = {"cancel"}
  ByeCalls = {}
  None = None
SPECIFICATION Spec
INVARIANT WatcherSurvives

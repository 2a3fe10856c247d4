\* The user hangs up while watchInvite handles a response.
CONSTANTS
  Controllers = {h1}
  Enders = {h2}
  Handlers = {}
  Dials = {d1}
  Invites = {}
  Legs = {}
  RSeqs = {1}
  Unreliable = {}
  ByeCalls = {}
  None = None
SPECIFICATION Spec
INVARIANT HangupSticks

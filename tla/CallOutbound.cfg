\* Outgoing calls: two dials one after the other, each of which may be hung up.
CONSTANTS
  Controllers = {h1}
  Enders = {h2}
  Handlers = {}
  Dials = {d1, d2}
  Invites = {}
  Legs = {}
  RSeqs = {}
  Unreliable = {"media", "invite", "ack"}
  ByeCalls = {}
  None = None
SPECIFICATION LiveSpec
INVARIANTS ActiveIsAcked WatchersSound
PROPERTY DialResolves

\* Dials and INVITEs compete for the slot; nobody hangs up an established call.
CONSTANTS
  Controllers = {h1}
  Enders = {}
  Handlers = {x1, x2}
  Dials = {d1}
  Invites = {i1}
  Legs = {l1, l2}
  RSeqs = {1}
  Unreliable = {"media", "invite", "cancel", "ack", "response"}
  ByeCalls = {}
  None = None
SPECIFICATION LiveSpec
INVARIANTS AnswerExclusive SocketsOwned
PROPERTIES SlotIsClaimed PendingDecided

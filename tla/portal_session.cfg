CONSTANTS
  Chats = {c1}
  Buttons = {b1, b2}
  MaxRequests = 5
  MaxReplies = 1
SPECIFICATION Spec
SYMMETRY Symmetry
INVARIANTS
  RepliesFollow
  NotesReachTheModel
  ResetIsFinal
CHECK_DEADLOCK FALSE

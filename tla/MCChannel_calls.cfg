SPECIFICATION Spec
CONSTANTS
  Channel = {c1}
  Thread = {t1, t2}
  PushId = {p1, p2, p3}
  Event = {}
  Callback = {}
  Topic <- OneTopic
  HookSets <- BothHooks
  Kinds = {"push"}
  Answers = {"ok", "error", "bad"}
  Timeouts <- No
  JoinRefs <- No
  RefMod = 5
  MaxRef = 4
  MaxInbox = 1
  None = None
SYMMETRY Symmetry
INVARIANTS AnsweredAtMostOnce NoDanglingPush
PROPERTIES ImplementsLifecycle

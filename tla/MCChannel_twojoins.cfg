SPECIFICATION Spec
CONSTANTS
  Channel = {c1}
  Thread = {t1}
  PushId = {p1, p2}
  Event = {}
  Callback = {}
  Topic <- OwnTopic
  HookSets <- BothHooks
  Kinds = {"join"}
  Answers = {"ok"}
  Timeouts <- No
  JoinRefs <- No
  RefMod = 6
  MaxRef = 5
  MaxInbox = 1
  None = None
INVARIANT SingleSubscription

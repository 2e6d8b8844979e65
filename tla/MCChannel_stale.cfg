SPECIFICATION Spec
CONSTANTS
  Channel = {c1, c2}
  Thread = {t1}
  PushId = {p1, p2}
  Event = {e1}
  Callback = {k1}
  Topic <- OneTopic
  HookSets <- BothHooks
  Kinds = {"push"}
  Answers = {"ok"}
  Timeouts <- No
  JoinRefs <- Yes
  RefMod = 6
  MaxRef = 5
  MaxInbox = 1
  None = None
INVARIANT StaleJoinRefDropped

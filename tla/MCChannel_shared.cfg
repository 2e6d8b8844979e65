SPECIFICATION Spec
CONSTANTS
  Channel = {c1, c2}
  Thread = {t1}
  PushId = {p1, p2, p3}
  Event = {}
  Callback = {}
  Topic <- OneTopic
  HookSets <- BothHooks
  Kinds = {"push"}
  Answers = {"ok"}
  Timeouts <- No
  JoinRefs <- Either
  RefMod = 6
  MaxRef = 5
  MaxInbox = 1
  None = None
SYMMETRY ChannelSymmetry
INVARIANTS VisitedChannelsLive ReplyReachesItsPush
PROPERTIES OpenedAfterRejoin

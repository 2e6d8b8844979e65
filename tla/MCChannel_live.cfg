SPECIFICATION FairSpec
CONSTANTS
  Channel = {c1}
  Thread = {t1}
  PushId = {p1, p2}
  Event = {e1}
  Callback = {k1}
  Topic <- OneTopic
  HookSets <- BothHooks
  Kinds = {"push"}
  Answers = {"ok", "error"}
  Timeouts <- Either
  JoinRefs <- Yes
  RefMod = 1
  MaxRef = 1
  MaxInbox = 2
  None = None
INVARIANTS IndInv
PROPERTIES PendingNeverReplaced ReplyEndsWait OpeningEnds RegistryReleased ImplementsLink

SPECIFICATION NotificationsSpec
CONSTANTS
  None = None  w1 = w1  u1 = u1  u2 = u2  i0 = i0  systemKey = systemKey  retiredKey = retiredKey
  Workers = {w1}
  Recipients = {u1, u2}  Batches = {}  PushTokens = {}  Devices = {}  Sockets = {1, 2, 3}
  TemplateIds = {i0}  SeedId = i0  TemplateKeys = {systemKey, retiredKey}
  SystemKey = systemKey  RetiredKey = retiredKey
  NoticeBodies <- MCNoticeBodies  NoticeScopes <- MCNoticeScopes
INVARIANT OpenIsSubscribed
CHECK_DEADLOCK FALSE

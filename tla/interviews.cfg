SPECIFICATION Spec
CONSTANTS
  Tabs = {t1}
  Interviews = {i1}
  Filters = {"all"}
  UsedActs = {"start", "complete"}
  ChannelCap = 1
  MaxAttempts = 2
  MaxWrites = 2
  Existing = {"scheduled"}
  NoSource = NoSource
  Undefined = Undefined
INVARIANTS TypeOK NoStrayConnection AnnouncedIsFetched
PROPERTIES OwnActionShown

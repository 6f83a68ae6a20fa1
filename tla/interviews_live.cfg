SPECIFICATION FairSpec
CONSTANTS
  Tabs = {t1}
  Interviews = {i1}
  Filters = {"all"}
  UsedActs = {"cancel", "start", "complete"}
  ChannelCap = 1
  MaxAttempts = 1
  MaxWrites = 1
  Existing = {"scheduled"}
  NoSource = NoSource
  Undefined = Undefined
PROPERTIES ListCatchesUp ButtonsComeBack StreamComesBack

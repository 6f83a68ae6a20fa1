SPECIFICATION FairSpec
CONSTANTS
  TOAST_LIMIT = 1
  MaxToasts = 2
  Word <- MCWord
  Day <- MCDay
  Hours = 2
  Minutes = 2
  Seconds = 2
  Gaps = {2}
  HourInput = {0, 2}
  MinuteInput = {1}
  SecondInput = {1}
  Now = 3
  NoDate = NoDate
  MaxDate = 15
  MaxSent = 1
INVARIANTS TypeOK RequestIsValid DateAndTimeApart
PROPERTIES OpenToastStays DismissedIsRemoved FormComesBack
CHECK_DEADLOCK FALSE

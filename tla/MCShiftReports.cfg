CONSTANTS
  DayLen = 6
  MaxShift = 4
  Standard = 2
  VeryLate = 2
  Slots = {5, 7, 9, 13}
  Clock = {7, 11, 14}
  JoinedAt = {0, 9}
  MaxPunches = 3
  MaxChanges = 1
  MaxReviews = 1
SPECIFICATION Spec
INVARIANTS HiddenAsSeen BriefingAgrees HoursAgree
PROPERTIES SettledStaysSettled SuggestionsAreSafe
CHECK_DEADLOCK FALSE

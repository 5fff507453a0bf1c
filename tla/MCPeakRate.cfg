SPECIFICATION Spec
CONSTANTS
  Windows <- MCWindows
  HolidayDays <- MCHolidays
  MaxRetries = 3
  MaxYear = 3
  MaxCalls = 2
  MaxRemounts = 1
INVARIANTS
  OneRetryTimer
  PeakByBeijingClock
PROPERTIES
  CatchUp

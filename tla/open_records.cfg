\* Three days, two records a day, four messages under way, one trouble.
SPECIFICATION RecordsSpec
CONSTANTS
  LastDay = 3
  MaxRecords = 2
  MaxFlight = 4
  MaxTrouble = 1
INVARIANTS
  RecordsTypeOK
  RecordsOfTheDay
PROPERTIES
  RecordsNeverShrink
\* The user may stop.
CHECK_DEADLOCK FALSE

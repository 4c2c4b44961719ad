SPECIFICATION Spec
CONSTANTS
  Decision = {"first", "again"}
  Subject = {"s"}
  IntentOf <- Shared
  MaxEvents = 3
  MaxSpoils = 1
  MaxMade = 2
  MaxDamage = 2
INVARIANTS AcceptedIsGenuine SummaryTells OneStory
CHECK_DEADLOCK FALSE

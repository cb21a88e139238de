CONSTANTS
  Order <- TwoSubs
  Regimes = {on, off}
  SmoothingDays = 2
  Cooldown = 2
  MaxDay = 3
  MaxRuns = 1
  MaxFaults = 1
  Posters = {exec, summary}
  Summaries = {summary}
  Intents = {1, 2}
  TicketDates = {1}
  MaxReplies = 1
  SpillAt = 2
  MaxAttempts = 3
  DeskDays = 2
  DeskFaults = 1
SYMMETRY RegimeSymmetry
SPECIFICATION BookSpec
INVARIANTS RegimeChangeTicketed RegimesKept PostsExcused RepliesRecordedRight
PROPERTY CooldownHolds
CHECK_DEADLOCK FALSE

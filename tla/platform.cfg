CONSTANTS
  Watched = {decisions, slippage}
  Unwatched = {raec}
  Clients = {c1}
  MaxWrites = 2
  MaxFaults = 2
  MaxRequests = 1
  Records <- SomeRecords
  AccountStates <- SomeAccounts
  Growing <- SomeGrowing
  Quotes <- SomeQuotes
  EquityHead = 3
  Page = 2
SPECIFICATION PlatformSpec
INVARIANTS ServedTablesHonest NewestTicketShown FlatProfitPerShare CleanReportExplains
PROPERTY ServerShowsChanges
CHECK_DEADLOCK FALSE

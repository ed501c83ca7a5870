SPECIFICATION MCSpec
CONSTANTS
  Clones <- MCClones
  Jobs <- MCNumbers
  MaxTakeovers = 1
  MayOverlap = FALSE
  MayRestart = TRUE
  Other = Other
  Nothing = Nothing
  ChatAsks <- MCNumbers
  Manuals <- MCManuals
  Engines <- MCEngines
  MaxHooks = 2
  Stoppable <- MCStoppable
  Impatient = {}
  MayCross = FALSE
  Agents <- MCAgents
  Browsers <- MCBrowsers
  MaxVisitors = 2
  MaxConvs = 3
  DeskAsks <- MCNumbers
  Renewals <- MCRenewals
  Clients <- MCClients
  Servers <- MCServers
  Previews <- MCNumbers
  Decisions <- MCNumbers
  m1 = m1
  a1 = a1
  b1 = b1
  b2 = b2
  n1 = n1
  c1 = c1
  c2 = c2
  s1 = s1
ACTION_CONSTRAINT MCNarrow
INVARIANTS
  
  RowHasSummary
  
  
  
  
  AnswersStayPrivate
  LogIsTrue
  RunsOnce

  
CHECK_DEADLOCK FALSE

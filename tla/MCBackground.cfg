SPECIFICATION BackSpec
CONSTANTS
  Procs = {p1, p2}
  T = 2
  Window = 1
  K = 1
  PageSize = 1
  S = 2
  SopPage = 2
  CronSops = {1}
  DueMinutes = {1}
  MaxMinute = 1
  Msgs = {m1}
  Matching = {m1}
  Cap = 1
  MaxFaults = 1
  MonWorkers = {v1}
  MonClients = {q1, q2}
  Sweeper = Sweeper
  NoRun = NoRun
  FailureLimit = 1
  MaxMonFaults = 1
  MaxMonRequests = 2
CHECK_DEADLOCK FALSE
INVARIANT BackgroundTypeOK MarkedWasStarted
PROPERTY MailStartsSop EveryTenantServed OutcomePublished  HeldIsLetGo

CONSTANTS
  app = app
  metrics = metrics
  k1 = k1
  k2 = k2
  k3 = k3
  AppServer = app
  Servers <- MCServers
  Conns <- MCConns
  ServerOf <- MCServerOf
  MaxRun = 4
  Grace = 4
  NewGrace = 3
SPECIFICATION ShutdownSpec
INVARIANTS
  ShutdownTypeOK
  CompleteMeansAnswered
  DeadlineSpares
  MetricsMatchAnswers
PROPERTIES
  NoRequestAfterShutdown
  SignalEndsProcess
CHECK_DEADLOCK FALSE

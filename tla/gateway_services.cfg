SPECIFICATION Spec
CONSTANTS
  chat1 = chat1
  chat2 = chat2
  new1 = new1
  status1 = status1
  Msgs <- MCMsgs
  MsgKind <- MCKind
  MsgTopic <- MCTopic
  Topics <- MCTopics
  MaxConcurrency = 2
  MaxSends = 2
  KeepsClient = TRUE
  GenJobs <- MCGenJobs
  PageSize = 1
  RvJobs <- MCRvJobs
  MaxAttempts = 2
  MaxAnalyses = 2
  Workloads <- MCWorkloads
INVARIANTS
  ServicesAgree
PROPERTIES
  ServicesGoOn
CHECK_DEADLOCK FALSE

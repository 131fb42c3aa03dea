\* One permit for two clients, one of which may read nothing; a reload; a failed accept.
CONSTANTS
  LowerCase <- ToLower
  Parse <- Says
  Cost <- CostOf
  HEADER_COST = 1
  MAX_QUERY_RESULTS = 3
  MAX_QUERY_LEN = 4
  MAX_CONCEPTS = 2
  MAX_EDGES_PER_NODE = 2
  REPORT_SAMPLE_SIZE = 2
  Client <- Clients
  Reloader = {"r"}
  Start = {"ring"}
  Later = {"diamond"}
  Built <- Graphs
  Messages <- Sent
  MaxSends <- SentOften
  Lines <- Parts
  Reader = {"asks"}
  Leaver = {"types"}
  Needles <- Looked
  NL = "NL"
  CR = "CR"
  SP = "SP"
  MAX_LINE_BYTES = 2
  MAX_CONNECTIONS = 1
  CHUNK = 3
  ROOM = 1
  MaxReloads = 1
  MaxFaults = 1
SPECIFICATION FairSpec
INVARIANTS TypeOK PermitsAccounted Bounded WarmFindRight
PROPERTIES ImplementsService Answered PermitsReturn LetInOrDropped
CHECK_DEADLOCK FALSE

SPECIFICATION Spec
CONSTANTS
  Scripts <- Sessions
  Witness = TRUE
  Brokers <- Ports
  MaxSkips = 1
INVARIANTS AnswersInOrder OutcomesHonest SocketPerCall TemplatesOfThisCall DiscoverComplete

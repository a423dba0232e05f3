SPECIFICATION FairSpec
CONSTANTS
  MessageTypes = {"PING"}
  MaxRetries = 1
  SeqModulus = 2
  InitialSequence = 1
  CountModulus = 256
  EventCapacity = 2
  RestartNodes = {"responder"}
  MaxExchanges = 1
  MaxFaults = 1
  MaxJunk = 1
  MaxRestarts = 0
INVARIANT EventExpected
PROPERTIES ExchangeEnds ResponderListens

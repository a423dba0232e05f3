SPECIFICATION Spec
CONSTANTS
  MessageTypes = {"DATA"}
  MaxRetries = 1
  SeqModulus = 2
  InitialSequence = 1
  CountModulus = 256
  EventCapacity = 2
  RestartNodes = {"responder"}
  MaxExchanges = 3
  MaxFaults = 1
  MaxJunk = 0
  MaxRestarts = 1
INVARIANTS IInv SuccessImpliesAccepted AtMostOncePerBoot AdapterAgrees ResponderHears NoEventDropped
PROPERTIES ImplementsExchange OnlyDuplicatesSuppressed

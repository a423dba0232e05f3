SPECIFICATION FairSpec
CONSTANTS
  MaxRequests = 1
  MaxErrors = 1
INVARIANTS BusyEnds WholeUntilError TurnsAreTaken
PROPERTIES PendingIsSent TransmissionGoesOn

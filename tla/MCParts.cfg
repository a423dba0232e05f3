SPECIFICATION Spec
CONSTANTS
  MaxFrameSize = 7
  RcFrame <- Rc
  PingFrames <- Pings
  OtherFrame <- Other
  Noise <- LineNoise
  FrameSize = 4
  Timeout = 3
  MaxPoll = 1
  Gap = 4
  MaxWaiting = 4
  Period = 3
  FailsafeTimeout = 5
  MaxNotified = 2
  Entries <- Profiles
  RawValues <- Raws
  Packets <- LinkPackets
  Damages <- ByteDamages
INVARIANTS
  TypeOK
  FramesRecognised
  BackInStep
  FramesExact
  SignalServed
  MailboxFresh
  StickFollowed
  AcceptedWasSent

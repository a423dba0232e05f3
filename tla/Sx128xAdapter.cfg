SPECIFICATION FairSpec
CONSTANT CountModulus = 3
INVARIANTS TypeOK PendingInterruptWakes InitiatorFrameIsSound
PROPERTIES UnexpectedOnlyAfterTxTimeout ImplementsPacketRadio OperationEnds

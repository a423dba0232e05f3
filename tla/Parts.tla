-------------------------------- MODULE Parts --------------------------------
(***************************************************************************)
(* Five parts of the two images that share no state: what turns bytes into *)
(* values (the CRSF and SBUS parsers, the packet of the radio link), the   *)
(* channel mapper, and the FreeRTOS task around the receiver service.      *)
(* Each has its own surroundings, of which its module speaks.  One         *)
(* specification stands for all five, so that one model can check them:    *)
(* part says which of them a behaviour is about, and the others rest.      *)
(***************************************************************************)
EXTENDS CrsfParser, SbusParser, ReceiverTask, ChannelMapper, LinkPacket

VARIABLE part

vars == <<part, crsfVars, sbusVars, taskVars, mapVars, packetVars>>

\* The others rest in one of their initial states.
Init ==
  /\ part \in {"CRSF", "SBUS", "task", "mapper", "packet"}
  /\ CrsfInit /\ SbusInit /\ TaskInit /\ MapInit /\ PacketInit
  /\ part # "CRSF" => crsf_plain = FALSE
  /\ part # "mapper" => map_entry = CHOOSE e \in Entries : TRUE
  /\ part # "packet" => packet_sent = CHOOSE p \in Packets : TRUE

NextCrsf ==
  /\ part = "CRSF" /\ CrsfNext
  /\ UNCHANGED <<part, sbusVars, taskVars, mapVars, packetVars>>

NextSbus ==
  /\ part = "SBUS" /\ SbusNext
  /\ UNCHANGED <<part, crsfVars, taskVars, mapVars, packetVars>>

NextTask ==
  /\ part = "task" /\ TaskNext
  /\ UNCHANGED <<part, crsfVars, sbusVars, mapVars, packetVars>>

NextMapper ==
  /\ part = "mapper" /\ Move
  /\ UNCHANGED <<part, crsfVars, sbusVars, taskVars, packetVars>>

NextPacket ==
  /\ part = "packet" /\ PacketNext
  /\ UNCHANGED <<part, crsfVars, sbusVars, taskVars, mapVars>>

Next == NextCrsf \/ NextSbus \/ NextTask \/ NextMapper \/ NextPacket

Spec == Init /\ [][Next]_vars

TypeOK == CrsfTypeOK /\ SbusTypeOK /\ TaskTypeOK /\ MapTypeOK /\ PacketTypeOK

=============================================================================

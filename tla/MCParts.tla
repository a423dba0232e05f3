------------------------------- MODULE MCParts -------------------------------
(***************************************************************************)
(* The instance of Parts that is model-checked.                            *)
(***************************************************************************)
EXTENDS Parts

\* CRSF: 200 is the address of the flight controller, 234 that of a handset;
\* 22 and 40 are the types of RC and ping frames.
Rc == <<200, 3, 22, 1, 77>>

\* To the flight controller, with a byte inside that looks like the first byte
\* of a frame; and to every device, without one.
Pings == {<<200, 4, 40, 200, 234, 77>>, <<200, 4, 40, 0, 234, 77>>}

Other == <<200, 2, 50, 77>>

\* An address, the length of the longest frame, a length too long.
LineNoise == {200, 5, 7}

\* Profiles: the limits of radio_control_profile.c, and narrow ones with an
\* uneven span on either side and the widest deadband that is accepted.
Limits(low, center, high, deadband) ==
  [mode : Modes, raw_min : {low}, raw_center : {center}, raw_max : {high},
   deadband : {deadband}, reversed : BOOLEAN]

Profiles ==
  Limits(172, 992, 1811, 20) \union Limits(0, 3, 10, 2) \union Limits(5, 6, 7, 0)

\* Around every limit and every edge of a deadband, and 2^16 - 1.
Raws == 0..11 \union {171, 172, 173, 192, 193, 582, 971, 972, 973, 991, 992,
                      993, 1012, 1013, 1402, 1791, 1810, 1811, 1812, 65535}

\* Packets with neighbouring sequence numbers, one of which wraps the low byte.
LinkData(type, sequence, length) ==
  [message_type |-> type, source_id |-> 1, destination_id |-> 2,
   sequence |-> sequence, acknowledged_sequence |-> 0,
   payload_length |-> length, flags |-> 0,
   payload |-> [i \in 0..(PayloadSize - 1) |-> 17 * i]]

LinkPackets == {LinkData(1, 255, 16), LinkData(1, 256, 16), LinkData(3, 256, 10)}

ByteDamages == {0, 1, 2, 16, 128, 255}

\* Two of these packets cannot be torn into a third.
ASSUME TearsAssumption == TearsFound

=============================================================================

---------------------------- MODULE ChannelMapper ----------------------------
(***************************************************************************)
(* The RC channel mapper: how the raw value of a channel becomes the value *)
(* the control policy compares with its thresholds, and a servo pulse.     *)
(* The arithmetic is the code's, division towards zero included; an entry  *)
(* the code accepts keeps every intermediate result within its C type.     *)
(***************************************************************************)
EXTENDS Integers

CONSTANTS
  Entries,   \* RcChannelMapEntry: the entries of a profile
  RawValues  \* raw values a channel may have

Normalized == -1000..1000   \* RC_NORMALIZED_MIN..RC_NORMALIZED_MAX
Pulses == 1000..2000        \* RC_PULSE_MIN_US..RC_PULSE_MAX_US

Modes == {"CENTERED", "UNIPOLAR", "SWITCH_2POS", "SWITCH_3POS"}

Entry == [mode : Modes, raw_min : Nat, raw_center : Nat, raw_max : Nat,
          deadband : Nat, reversed : BOOLEAN]

\* rc_channel_map_entry_is_valid.
EntryIsValid(e) ==
  /\ e.raw_min < e.raw_center /\ e.raw_center < e.raw_max
  /\ e.deadband < e.raw_center - e.raw_min
  /\ e.deadband < e.raw_max - e.raw_center

ASSUME EntriesAssumption ==
  /\ Entries \subseteq Entry
  /\ \A e \in Entries : EntryIsValid(e)
  /\ RawValues \subseteq Nat

Clamp(raw, low, high) ==
  IF raw < low THEN low ELSE IF raw > high THEN high ELSE raw

\* distance * RC_NORMALIZED_MAX / span
Scaled(distance, span) == (distance * 1000) \div span

\* Mutant: the distance is measured from the centre.
Centered_FromCenter(value, e) ==
  LET raw == Clamp(value, e.raw_min, e.raw_max)
      lower == e.raw_center - e.deadband
      upper == e.raw_center + e.deadband
  IN IF raw < lower THEN -Scaled(e.raw_center - raw, lower - e.raw_min)
     ELSE IF raw > upper THEN Scaled(raw - e.raw_center, e.raw_max - upper)
     ELSE 0

Centered(value, e) ==
  LET raw == Clamp(value, e.raw_min, e.raw_max)
      lower == e.raw_center - e.deadband
      upper == e.raw_center + e.deadband
  IN IF raw < lower THEN -Scaled(lower - raw, lower - e.raw_min)
     ELSE IF raw > upper THEN Scaled(raw - upper, e.raw_max - upper)
     ELSE 0

Unipolar(value, e) ==
  LET raw == Clamp(value, e.raw_min, e.raw_max)
      active_min == e.raw_min + e.deadband
  IN IF raw <= active_min THEN 0
     ELSE Scaled(raw - active_min, e.raw_max - active_min)

TwoPositions(value, e) == IF value >= e.raw_center THEN 1000 ELSE 0

ThreePositions(value, e) ==
  IF value < e.raw_center - e.deadband THEN -1000
  ELSE IF value > e.raw_center + e.deadband THEN 1000
  ELSE 0

Normalize(value, e) ==
  CASE e.mode = "CENTERED" -> Centered(value, e)
    [] e.mode = "UNIPOLAR" -> Unipolar(value, e)
    [] e.mode = "SWITCH_2POS" -> TwoPositions(value, e)
    [] e.mode = "SWITCH_3POS" -> ThreePositions(value, e)

OneSided(e) == e.mode \in {"UNIPOLAR", "SWITCH_2POS"}

ApplyReverse(normalized, e) ==
  IF ~e.reversed THEN normalized
  ELSE IF OneSided(e) THEN 1000 - normalized
  ELSE -normalized

\* What rc_channel_mapper_map stores for the entry.
Mapped(value, e) == ApplyReverse(Normalize(value, e), e)

\* C divides towards zero.
Half(n) == IF n >= 0 THEN n \div 2 ELSE -((-n) \div 2)

PulseUs(normalized, e) ==
  Clamp(IF OneSided(e) THEN 1000 + normalized ELSE 1500 + Half(normalized),
        1000, 2000)

-----------------------------------------------------------------------------
(* A channel whose stick or switch is moved.                               *)

VARIABLES map_entry, map_raw

mapVars == <<map_entry, map_raw>>

NoRaw == -1   \* before the first frame

MapInit == map_entry \in Entries /\ map_raw = NoRaw

Move ==
  /\ map_raw' \in RawValues \ {map_raw}
  /\ UNCHANGED map_entry

MapSpec == MapInit /\ [][Move]_mapVars

MapTypeOK == map_entry \in Entries /\ map_raw \in RawValues \union {NoRaw}

-----------------------------------------------------------------------------
\* The ends of a mapped channel.
Low(e) == IF OneSided(e) THEN 0 ELSE -1000

InRange(value, e) ==
  /\ Mapped(value, e) \in Low(e)..1000
  /\ PulseUs(Mapped(value, e), e) \in Pulses

EndsReached(value, e) ==
  LET top == IF e.reversed THEN Low(e) ELSE 1000
      bottom == IF e.reversed THEN 1000 ELSE Low(e)
  IN /\ value >= e.raw_max => Mapped(value, e) = top
     /\ value <= e.raw_min => Mapped(value, e) = bottom

InOrder(value, other, e) ==
  value <= other =>
    IF e.reversed THEN Mapped(other, e) <= Mapped(value, e)
                  ELSE Mapped(value, e) <= Mapped(other, e)

\* The mapped value follows the stick, whatever the limits and the deadband of
\* the entry: it stays in the range of its mode and so does the pulse, a stick
\* at its end gives the end of the range, and moving the stick one way never
\* moves the value the other way, across the edges of the deadband included.
StickFollowed ==
  map_raw # NoRaw =>
    /\ InRange(map_raw, map_entry)
    /\ EndsReached(map_raw, map_entry)
    /\ \A other \in RawValues : InOrder(map_raw, other, map_entry)

=============================================================================

----------------------------- MODULE Excitation -----------------------------
(***************************************************************************)
(* The voltage over the strips: initialize_excitation_dac of main.c with   *)
(* DAC_files/DAC_excitation_voltage.c.  DAC0 drives an amplifier, and all  *)
(* the strips switched on share what comes out of it.                      *)
(***************************************************************************)
EXTENDS Integers

AMPLIFIER_GAIN == 3
Reference      == 3300                 \* mV, at the largest DAC value
FullScale      == 4095
PerStripRange  == 500 .. 1000          \* mV
MaxTotal       == 8000                 \* mV

\* The voltage of one strip times the number of strips; 0 when either is refused,
\* for DAC_excitation_V_Init has turned the output off before.
UncheckedTotal(perStrip, strips) == perStrip * strips

TotalVoltage(perStrip, strips) ==
  IF perStrip \in PerStripRange /\ perStrip * strips <= MaxTotal THEN perStrip * strips ELSE 0

\* What DAC_SetData may get.  The code computes with floats, so that a quotient
\* without a remainder may also be truncated to the step below.
SetExcitationVoltage(perStrip, strips) ==
  LET scaled == FullScale * TotalVoltage(perStrip, strips)
  IN {(scaled - e) \div (AMPLIFIER_GAIN * Reference) : e \in {x \in {0, 1} : x <= scaled}}
=============================================================================

---------------------------- MODULE MCHotPlate ----------------------------
(* Instances of HotPlate: the parameters it is initialised with.            *)
EXTENDS HotPlate

Wave(type, duty, frequency, amplitude) ==
  [waveType |-> type, dutyCycle |-> duty, frequency |-> frequency, amplitude |-> amplitude]

\* Periods of 6, 4 and 2 samples; duty cycles at and beyond their ends; and what
\* is refused, a wave type that does not exist and a frequency just too low: with
\* a lower one IndexWithinArray fails between SetSize and CapSize.
MCWaves ==
  {Wave(0, 50, 6000, 21), Wave(1, 50, 4000, 7), Wave(1, 0, 12000, 20), Wave(1, 101, 6000, 14),
   Wave(2, 50, 6000, 14), Wave(2, 100, 4000, 21), Wave(2, 34, 4000, 21),
   Wave(2, 0, 6000, 14), Wave(2, 50, 3600, 7), Wave(3, 50, 12000, 7)}

MCSameAmplitude == {Wave(1, 50, 6000, 7), Wave(0, 50, 4000, 7)}
=============================================================================

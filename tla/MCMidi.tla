------------------------------- MODULE MCMidi -------------------------------
\* MidiBridge with the traffic of MidiTraffic.
EXTENDS MidiBridge, MidiTraffic
=============================================================================

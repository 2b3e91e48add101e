SPECIFICATION WaveSpec
CONSTANTS
  Lanes = 2
  MaxReqs = 2
  MaxWaves = 3
  MaxStarts = 2
INVARIANT WaveWhenWoken
CHECK_DEADLOCK FALSE

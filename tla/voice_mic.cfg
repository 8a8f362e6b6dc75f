SPECIFICATION Spec
CONSTANTS MaxPresses = 2 MaxRounds = 3
INVARIANT MicrophoneShown
CHECK_DEADLOCK FALSE

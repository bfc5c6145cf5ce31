SPECIFICATION DriveFairSpec
CHECK_DEADLOCK FALSE
CONSTANTS
    LastStep = 1
    MaxYesFixRounds = 1
    MaxRounds = 2
    MaxDrives = 1
    MaxKeys = 0
    MaxCrashes = 1
PROPERTY
    DriveComesBack

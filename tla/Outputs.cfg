\* The two scenes, for a user who is no quicker than the driver.
SPECIFICATION MCSpec
CONSTANTS
    Outs = {0, 1}
    StepMax = 3
    Step0 = 2
    StepDim = 1
    Step8Min = 2
    WheelZones <- MCZones
    WheelSteps <- MCSteps
    Levels <- MCLevels
    MaxClicks = 1
    LowestHdb <- MCLowest
    Events = {"press", "fail", "dim", "balance", "power"}
    Hasty = {}
VIEW MCView
INVARIANTS
    DigitalFollows
    AnalogSettles
PROPERTIES
    BalanceKept

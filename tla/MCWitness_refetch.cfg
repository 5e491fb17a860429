CONSTANTS
    Listed = {"c"}
    Urls = {"u"}
    Arts = {"A"}
    Recheck = 2
    RowsMax = 1
    ChangesMax = 1
    MaxHours = 2
    MaxEdits = 0
    MaxMishaps = 0
    MaxMediaLosses = 1
SPECIFICATION WitnessSpec
PROPERTY RefetchRestores
CHECK_DEADLOCK FALSE

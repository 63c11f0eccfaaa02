CONSTANTS
    Devices = {self, d1, d2, d3}
    Self = self
    Recorders = {job}
    Grace = 1
    MinHistory = 1
    MinMembers = 2
    MinRate = 10
    HourRate = 50
    MinHourSamples = 2
    MinDays = 2
    DayLength = 2
    HistoryLength = 5
    LastHour = 6
SPECIFICATION OutagesSpec
SYMMETRY Alike
INVARIANTS TracksAgree  EndsAreReturns
CHECK_DEADLOCK FALSE

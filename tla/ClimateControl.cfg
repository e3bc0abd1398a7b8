\* A heater as well as a fan.
SPECIFICATION Spec
CONSTANTS
    Temps <- SomeTemps
    Dewpts <- SomeDewpts
    MinTemp = 2
    MaxTemp = 3
    DewptTH <- DewptMargin
    HeaterEnabled = TRUE
INVARIANTS
    NeverFanAgainstHeater
PROPERTY KeepsReading


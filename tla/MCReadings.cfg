SPECIFICATION Spec
CONSTANTS
    Temperature <- MCTemperature
    Humidity <- MCHumidity
    Wind <- MCWind
    HeatFormula <- MCHeatFormula
    ChillFormula <- MCChillFormula
    Rule <- MCRule
INVARIANTS OppositesDecide

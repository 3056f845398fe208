----------------------------- MODULE MCReadings -----------------------------
(* The values at both sides of each bound of the derived metrics, and      *)
(* rules whose thresholds some of them meet exactly.                       *)
EXTENDS Readings

MCTemperature == {99, 100, 270, 271}
MCHumidity == {400, 401}
MCWind == {48, 49}

(* The formulas, to the tenth: 26.9 at 27.1 C and 40.1 %, 9.7 at 9.9 C and *)
(* 4.9 km/h.  The functions are applied to no other values.                *)
MCHeatFormula == [x \in Temperature \X Humidity |-> 269]
MCChillFormula == [x \in Temperature \X Wind |-> 97]

Condition(m, o, t) == [metric |-> m, operator |-> o, threshold |-> t]

MCRule ==
    {Condition("temperature_c", ">=", 270), Condition("temperature_c", "<", 270),
     Condition("feels_like_c", ">", 269), Condition("feels_like_c", "<=", 269),
     Condition("wind_chill_c", "==", 97), Condition("pressure", ">", 0)}
=============================================================================

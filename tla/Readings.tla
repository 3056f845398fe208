------------------------------ MODULE Readings ------------------------------
(***************************************************************************)
(* One reading of a weather station, from the values that Open-Meteo       *)
(* answers to the alerts that they raise: the derived metrics and the rule *)
(* engine.                                                                 *)
(*                                                                         *)
(* Values are integers, tenths of the code's units.  A value that may be   *)
(* None is a set of at most one number.  precipitation_mm and weather_code *)
(* go the way of humidity_pct and are left out.  Keys, time stamps,        *)
(* cycles, their failures and transactions are in Ingestion and            *)
(* Processing: here a reading is fetched and stored, or processed, in one  *)
(* step.                                                                   *)
(***************************************************************************)
EXTENDS Integers

CONSTANTS
    Temperature, Humidity, Wind,    \* values the provider may send
    HeatFormula,    \* the regression of compute_heat_index, by its inputs
    ChillFormula,   \* that of compute_wind_chill
    Rule            \* the rows of processing_rules

ASSUME ValuesAssumption ==
    /\ Temperature \subseteq Int /\ Humidity \subseteq Int /\ Wind \subseteq Int
    /\ HeatFormula \in [Temperature \X Humidity -> Int]
    /\ ChillFormula \in [Temperature \X Wind -> Int]
ASSUME RuleAssumption ==
    Rule \subseteq [metric : STRING, operator : {">", ">=", "<", "<=", "=="}, threshold : Int]

Maybe(S) == {{}} \cup {{v} : v \in S}

(* The values of a RawObservation. *)
Reading ==
    [temperature : Maybe(Temperature), humidity : Maybe(Humidity), wind : Maybe(Wind)]

VARIABLES
    pending,    \* the reading of a new row, until it is processed
    verdict     \* the processed observation that the last step made

vars == <<pending, verdict>>

Init ==
    /\ pending = {}
    /\ verdict = {}

-----------------------------------------------------------------------------
(* The derived metrics. *)

HeatIndex(r) ==
    {HeatFormula[x] : x \in {t \in r.temperature : t > 270} \X {h \in r.humidity : h > 400}}

WindChill(r) ==
    {ChillFormula[x] : x \in {t \in r.temperature : t < 100} \X {w \in r.wind : w > 48}}

FeelsLike(r) ==
    CASE HeatIndex(r) # {} -> HeatIndex(r)
      [] HeatIndex(r) = {} /\ WindChill(r) # {} -> WindChill(r)
      [] OTHER -> r.temperature

(* obs_data, which has no other metric. *)
Value(r, metric) ==
    CASE metric = "temperature_c" -> r.temperature
      [] metric = "humidity_pct" -> r.humidity
      [] metric = "wind_speed_kmh" -> r.wind
      [] metric = "heat_index_c" -> HeatIndex(r)
      [] metric = "wind_chill_c" -> WindChill(r)
      [] metric = "feels_like_c" -> FeelsLike(r)
      [] OTHER -> {}

-----------------------------------------------------------------------------
(* The rule engine. *)

(* Seeded bug: >= is evaluated as >. *)
MeetsStrictly(v, k) ==
    CASE k.operator \in {">", ">="} -> v > k.threshold
      [] k.operator = "<" -> v < k.threshold
      [] k.operator = "<=" -> v <= k.threshold
      [] k.operator = "==" -> v = k.threshold

(* _evaluate_operator *)
Meets(v, k) ==
    CASE k.operator = ">" -> v > k.threshold
      [] k.operator = ">=" -> v >= k.threshold
      [] k.operator = "<" -> v < k.threshold
      [] k.operator = "<=" -> v <= k.threshold
      [] k.operator = "==" -> v = k.threshold

(* evaluate_rules, with the active rules A: a metric without a value       *)
(* matches nothing.                                                        *)
Matches(r, A) == {k \in A : \E v \in Value(r, k.metric) : Meets(v, k)}

-----------------------------------------------------------------------------

(* fetch_current, and save_many: whatever current holds is stored.         *)
Ingest ==
    /\ pending = {}
    /\ \E r \in Reading : pending' = {r}
    /\ verdict' = {}

(* A cycle finds the new row, while the rules A are active. *)
Process(A) ==
    /\ \E r \in pending :
          verdict' = {[reading |-> r, felt |-> FeelsLike(r), active |-> A,
                       matches |-> Matches(r, A)]}
    /\ pending' = {}

Next == Ingest \/ \E A \in SUBSET Rule : Process(A)

Spec == Init /\ [][Next]_vars

-----------------------------------------------------------------------------
(* Properties. *)

Verdict ==
    [reading : Reading, felt : SUBSET Int, active : SUBSET Rule, matches : SUBSET Rule]

(* The variables have their types. *)
TypeOK ==
    /\ pending \in Maybe(Reading)
    /\ verdict \subseteq Verdict

(* Of two rules with opposite conditions, while both are active, exactly   *)
(* one raises an alert for a reading, at the threshold as well; and        *)
(* neither does when the metric has no value.                              *)
OppositesDecide ==
    \A v \in verdict : \A j, k \in v.active :
        /\ j.metric = k.metric /\ j.threshold = k.threshold
        /\ <<j.operator, k.operator>> \in {<<">", "<=">>, <<">=", "<">>}
        => IF Value(v.reading, j.metric) = {}
           THEN j \notin v.matches /\ k \notin v.matches
           ELSE (j \in v.matches) = (k \notin v.matches)

(* A reading is never corrected for heat and for wind at once, so that the *)
(* order of the two in compute_feels_like does not matter, and it feels    *)
(* like something exactly when it has a temperature.                       *)
OneCorrection ==
    \A v \in verdict :
        /\ HeatIndex(v.reading) = {} \/ WindChill(v.reading) = {}
        /\ v.felt = {} <=> v.reading.temperature = {}

=============================================================================

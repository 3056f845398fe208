--------------------------- MODULE Readings_proofs ---------------------------
(***************************************************************************)
(* Proofs about Readings, for all values, formulas and rules.              *)
(***************************************************************************)
EXTENDS Readings, TLAPS

(* A verdict is what the functions make of its reading.                    *)
Judged ==
    /\ pending \in Maybe(Reading)
    /\ \A v \in verdict :
          /\ v.reading \in Reading
          /\ v.active \in SUBSET Rule
          /\ v = [reading |-> v.reading, felt |-> v.felt, active |-> v.active,
                  matches |-> v.matches]
          /\ v.felt = FeelsLike(v.reading)
          /\ v.matches = Matches(v.reading, v.active)

(* A value that may be None is at most one number. *)
Single(V) == V \subseteq Int /\ \A u, v \in V : u = v

LEMMA MaybeSingle ==
    ASSUME NEW S, S \subseteq Int, NEW V \in Maybe(S)
    PROVE  V \subseteq S /\ Single(V)
BY DEF Maybe, Single

LEMMA HeatIndexSingle ==
    ASSUME NEW r \in Reading
    PROVE  Single(HeatIndex(r))
<1>1. /\ r.temperature \subseteq Temperature /\ Single(r.temperature)
      /\ r.humidity \subseteq Humidity /\ Single(r.humidity)
  BY MaybeSingle, ValuesAssumption DEF Reading
<1>2. \A x \in HeatIndex(r) : \E t \in r.temperature, h \in r.humidity :
          x = HeatFormula[<<t, h>>]
  BY DEF HeatIndex
<1>3. \A t \in r.temperature, h \in r.humidity : HeatFormula[<<t, h>>] \in Int
  BY <1>1, ValuesAssumption
<1>4. \A t, u \in r.temperature : t = u
  BY <1>1 DEF Single
<1>5. \A g, h \in r.humidity : g = h
  BY <1>1 DEF Single
<1>6. ASSUME NEW x \in HeatIndex(r), NEW y \in HeatIndex(r) PROVE x = y
  <2>1. PICK t \in r.temperature, g \in r.humidity : x = HeatFormula[<<t, g>>]
    BY <1>2
  <2>2. PICK u \in r.temperature, h \in r.humidity : y = HeatFormula[<<u, h>>]
    BY <1>2
  <2> QED BY <1>4, <1>5, <2>1, <2>2
<1>7. HeatIndex(r) \subseteq Int
  BY <1>2, <1>3
<1> QED BY <1>6, <1>7 DEF Single

LEMMA WindChillSingle ==
    ASSUME NEW r \in Reading
    PROVE  Single(WindChill(r))
<1>1. /\ r.temperature \subseteq Temperature /\ Single(r.temperature)
      /\ r.wind \subseteq Wind /\ Single(r.wind)
  BY MaybeSingle, ValuesAssumption DEF Reading
<1>2. \A x \in WindChill(r) : \E t \in r.temperature, w \in r.wind :
          x = ChillFormula[<<t, w>>]
  BY DEF WindChill
<1>3. \A t \in r.temperature, w \in r.wind : ChillFormula[<<t, w>>] \in Int
  BY <1>1, ValuesAssumption
<1>4. \A t, u \in r.temperature : t = u
  BY <1>1 DEF Single
<1>5. \A g, h \in r.wind : g = h
  BY <1>1 DEF Single
<1>6. ASSUME NEW x \in WindChill(r), NEW y \in WindChill(r) PROVE x = y
  <2>1. PICK t \in r.temperature, g \in r.wind : x = ChillFormula[<<t, g>>]
    BY <1>2
  <2>2. PICK u \in r.temperature, h \in r.wind : y = ChillFormula[<<u, h>>]
    BY <1>2
  <2> QED BY <1>4, <1>5, <2>1, <2>2
<1>7. WindChill(r) \subseteq Int
  BY <1>2, <1>3
<1> QED BY <1>6, <1>7 DEF Single

LEMMA TemperatureSingle ==
    ASSUME NEW r \in Reading
    PROVE  Single(r.temperature) /\ Single(r.humidity) /\ Single(r.wind)
BY MaybeSingle, ValuesAssumption DEF Reading

LEMMA FeelsLikeSingle ==
    ASSUME NEW r \in Reading
    PROVE  Single(FeelsLike(r))
BY HeatIndexSingle, WindChillSingle, TemperatureSingle DEF FeelsLike

(* Every metric has one value or none. *)
LEMMA ValueSingle ==
    ASSUME NEW r \in Reading, NEW metric
    PROVE  Single(Value(r, metric))
<1>1. Single({})
  BY DEF Single
<1> QED
  BY <1>1, HeatIndexSingle, WindChillSingle, TemperatureSingle, FeelsLikeSingle DEF Value

(* Either correction needs a temperature, one above 27.0, the other below  *)
(* 10.0.                                                                   *)
LEMMA CorrectionsExclude ==
    ASSUME NEW r \in Reading
    PROVE  /\ HeatIndex(r) = {} \/ WindChill(r) = {}
           /\ FeelsLike(r) = {} <=> r.temperature = {}
<1>1. Single(r.temperature)
  BY TemperatureSingle
<1>2. HeatIndex(r) # {} => \E t \in r.temperature : t > 270
  BY DEF HeatIndex
<1>3. WindChill(r) # {} => \E t \in r.temperature : t < 100
  BY DEF WindChill
<1>4. \A t \in r.temperature : ~ (t > 270 /\ t < 100)
  BY <1>1 DEF Single
<1>5. HeatIndex(r) = {} \/ WindChill(r) = {}
  BY <1>1, <1>2, <1>3, <1>4 DEF Single
<1>6. CASE HeatIndex(r) # {}
  BY <1>2, <1>5, <1>6 DEF FeelsLike
<1>7. CASE HeatIndex(r) = {} /\ WindChill(r) # {}
  BY <1>3, <1>7 DEF FeelsLike
<1>8. CASE HeatIndex(r) = {} /\ WindChill(r) = {}
  BY <1>8 DEF FeelsLike
<1> QED BY <1>6, <1>7, <1>8

LEMMA OppositeConditions ==
    ASSUME NEW v \in Int, NEW j \in Rule, NEW k \in Rule,
           j.threshold = k.threshold,
           <<j.operator, k.operator>> \in {<<">", "<=">>, <<">=", "<">>}
    PROVE  Meets(v, j) <=> ~ Meets(v, k)
<1>1. j.threshold \in Int /\ k.threshold \in Int
  BY RuleAssumption
<1>2. CASE j.operator = ">" /\ k.operator = "<="
  BY <1>1, <1>2 DEF Meets
<1>3. CASE j.operator = ">=" /\ k.operator = "<"
  BY <1>1, <1>3 DEF Meets
<1> QED BY <1>2, <1>3

-----------------------------------------------------------------------------
(* Verdicts. *)

LEMMA JudgedStep == Judged /\ [Next]_vars => Judged'
<1> SUFFICES ASSUME Judged, [Next]_vars PROVE Judged'
  OBVIOUS
<1> USE DEF Judged
<1>1. CASE Ingest
  BY <1>1 DEF Ingest, Maybe
<1>2. ASSUME NEW A \in SUBSET Rule, Process(A) PROVE Judged'
  <2>1. PICK r \in pending :
           verdict' = {[reading |-> r, felt |-> FeelsLike(r), active |-> A,
                        matches |-> Matches(r, A)]}
    BY <1>2 DEF Process
  <2>2. r \in Reading /\ pending' \in Maybe(Reading)
    BY <1>2 DEF Process, Maybe
  <2> QED BY <2>1, <2>2
<1>3. CASE UNCHANGED vars
  BY <1>3 DEF vars
<1> QED BY <1>1, <1>2, <1>3 DEF Next

LEMMA JudgedAlways == Spec => []Judged
<1>1. Init => Judged
  BY DEF Init, Judged, Maybe
<1> QED BY <1>1, JudgedStep, PTL DEF Spec

(* Every value that is derived from a reading is a number or missing. *)
THEOREM ReadingsTyped == Spec => []TypeOK
<1>1. Judged => verdict \subseteq Verdict
  <2> SUFFICES ASSUME Judged, NEW v \in verdict
               PROVE  v \in Verdict
    OBVIOUS
  <2>1. v.reading \in Reading /\ v.active \in SUBSET Rule
    BY DEF Judged
  <2>2. v.felt \in SUBSET Int
    BY <2>1, FeelsLikeSingle DEF Judged, Single
  <2>3. v.matches \in SUBSET Rule
    BY <2>1 DEF Judged, Matches
  <2>4. v = [reading |-> v.reading, felt |-> v.felt, active |-> v.active,
             matches |-> v.matches]
    BY DEF Judged
  <2> QED BY <2>1, <2>2, <2>3, <2>4 DEF Verdict
<1>2. Judged => TypeOK
  BY <1>1 DEF Judged, TypeOK
<1> QED BY <1>2, JudgedAlways, PTL

(* Opposite rules: exactly one of them raises an alert, for every formula, *)
(* threshold and reading.                                                  *)
THEOREM OneOfTwoOpposites == Spec => []OppositesDecide
<1>1. Judged => OppositesDecide
  <2> SUFFICES ASSUME Judged, NEW v \in verdict, NEW j \in v.active, NEW k \in v.active,
                      j.metric = k.metric, j.threshold = k.threshold,
                      <<j.operator, k.operator>> \in {<<">", "<=">>, <<">=", "<">>}
               PROVE  IF Value(v.reading, j.metric) = {}
                      THEN j \notin v.matches /\ k \notin v.matches
                      ELSE (j \in v.matches) = (k \notin v.matches)
    BY DEF OppositesDecide
  <2> DEFINE V == Value(v.reading, j.metric)
  <2>1. v.reading \in Reading /\ j \in Rule /\ k \in Rule /\ Single(V)
    BY ValueSingle DEF Judged
  <2>2. /\ j \in v.matches <=> \E u \in V : Meets(u, j)
        /\ k \in v.matches <=> \E u \in V : Meets(u, k)
    BY DEF Judged, Matches
  <2>3. CASE V = {}
    BY <2>2, <2>3
  <2>4. CASE V # {}
    <3>1. PICK u \in Int : V = {u}
      BY <2>1, <2>4 DEF Single
    <3>2. Meets(u, j) <=> ~ Meets(u, k)
      BY <2>1, OppositeConditions
    <3> QED BY <2>2, <2>4, <3>1, <3>2
  <2> QED BY <2>3, <2>4
<1> QED BY <1>1, JudgedAlways, PTL

(* Heat and wind never correct the same reading. *)
THEOREM CorrectionsApart == Spec => []OneCorrection
<1>1. Judged => OneCorrection
  BY CorrectionsExclude DEF Judged, OneCorrection
<1> QED BY <1>1, JudgedAlways, PTL

=============================================================================

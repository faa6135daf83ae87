-------------------------------- MODULE Scoring --------------------------------
(***************************************************************************)
(* The rules-based lead score of packages/core/src/scoring.ts over the     *)
(* roofing/HVAC model of packages/core/src/verticals/roofing-hvac.ts, and  *)
(* the facts the ingest processor derives.  A fact bag is the set of the   *)
(* facts that are true.                                                    *)
(***************************************************************************)
EXTENDS Integers, Sequences

Rule(category, points, when) == [category |-> category, points |-> points, when |-> when]

(* roofingHvacScoringModel.rules, in order. *)
ScoringRules == <<
    Rule("fit", 15, "insideServiceArea"), Rule("fit", 10, "eligibleService"),
    Rule("fit", 5, "eligiblePropertyType"), Rule("fit", 3, "validPhone"),
    Rule("fit", 2, "validEmail"),
    Rule("intent", 8, "askedPricing"), Rule("intent", 12, "requestedAppointment"),
    Rule("intent", 6, "hasClearProject"), Rule("intent", 2, "repliedQuickly"),
    Rule("intent", 2, "providedDetail"),
    Rule("urgency", 20, "activeEmergency"), Rule("urgency", 10, "within30Days"),
    Rule("urgency", 8, "insuranceDeadline"),
    Rule("engagement", 6, "repliedToSms"), Rule("engagement", 5, "clickedBookingLink"),
    Rule("engagement", 4, "answeredQualification"), Rule("engagement", 5, "calledBusiness"),
    Rule("engagement", 2, "openedEmail"),
    Rule("negative", -30, "isDuplicate"), Rule("negative", -40, "outsideServiceArea"),
    Rule("negative", -40, "jobSeekerOrStudent"), Rule("negative", -40, "supplierSolicitation"),
    Rule("negative", -20, "invalidPhone"), Rule("negative", -50, "abusiveContent"),
    Rule("negative", -50, "obviousSpam"), Rule("negative", -20, "repeatedNoShows") >>

Facts == {ScoringRules[i].when : i \in DOMAIN ScoringRules}

(* roofingHvacScoringModel.caps; penalties have none. *)
CategoryCap == [fit |-> 35, intent |-> 30, urgency |-> 20, engagement |-> 15]

Categories == DOMAIN CategoryCap \cup {"negative"}

Least(a, b)    == IF a < b THEN a ELSE b
Greatest(a, b) == IF a > b THEN a ELSE b

(* Mutant: the whole rule counts as long as its category has room left. *)
OvershootPoints(rule, current) ==
    IF rule.points > 0 /\ current >= CategoryCap[rule.category] THEN 0 ELSE rule.points

(* The points a rule adds to a category that has scored current. *)
RulePoints(rule, current) ==
    IF rule.points > 0
    THEN Least(rule.points, Greatest(0, CategoryCap[rule.category] - current))
    ELSE rule.points

(* The loop of scoreLead: the points of each category. *)
CategoryTotals(facts) ==
    LET after[n \in 0..Len(ScoringRules)] ==       \* after the first n rules
          IF n = 0 THEN [c \in Categories |-> 0]
          ELSE LET rule == ScoringRules[n] totals == after[n - 1]
               IN IF rule.when \in facts
                  THEN [totals EXCEPT ![rule.category] = @ + RulePoints(rule, @)]
                  ELSE totals
    IN after[Len(ScoringRules)]

ScoreTotal(facts) ==
    LET t == CategoryTotals(facts)
    IN Greatest(0, Least(100, t["fit"] + t["intent"] + t["urgency"] + t["engagement"]
                                + t["negative"]))

(* bandFor, with the model's inclusive lower bounds. *)
BandFor(total) ==
    CASE total >= 80 -> "hot"
      [] total >= 55 /\ total < 80 -> "qualified"
      [] total >= 25 /\ total < 55 -> "nurture"
      [] OTHER -> "unqualified"

Band(facts) == BandFor(ScoreTotal(facts))

(* deriveFacts of the ingest processor.  eligibleService is always true:   *)
(* a service that is given is eligible, and one that is not is the empty   *)
(* string, which every known service includes.                             *)
DerivedFacts(phone, email, city, service) ==
    {"eligibleService", "eligiblePropertyType"}
        \cup (IF phone THEN {"validPhone"} ELSE {"invalidPhone"})
        \cup (IF email THEN {"validEmail"} ELSE {})
        \cup (IF city THEN {"insideServiceArea"} ELSE {})
        \cup (IF service THEN {"hasClearProject"} ELSE {})

=============================================================================

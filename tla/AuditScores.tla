---- MODULE AuditScores ----
(***************************************************************************)
(* What an onboarding audit makes of a business                            *)
(* (app/services/onboarding.py, _calculate_scores, _estimate_losses, the   *)
(* plan of _generate_recommendations), and how it changes while the        *)
(* business improves one thing after another among the same competitors.   *)
(*                                                                         *)
(* The code's floats are exact here: ratings are in tenths, the review     *)
(* score times 10, the total a fraction over Denominator.  The columns     *)
(* select_business never writes (latest_post_date, has_description) have   *)
(* no value, so the activity score is always the base score.               *)
(***************************************************************************)
EXTENDS Integers, FiniteSetsExt

CONSTANTS ReviewCounts, Ratings, PhotoCounts,  \* numbers a business may have
          Markets                              \* the competitors' average numbers

\* What is assumed of the constants; the modules that instantiate this one state it.
\* Without competitors both averages are 0.
AuditScoresAssumption ==
    /\ ReviewCounts \subseteq Nat /\ PhotoCounts \subseteq Nat
    /\ Ratings \subseteq 10..50
    /\ Markets \subseteq [reviews : Nat, rating : 0..50]
    /\ \A m \in Markets : m.reviews > 0 => m.rating > 0

VARIABLES business, market

vars == <<business, market>>

\* Ages of the newest review, in the tiers the code tells apart.
Recency == {"none", "older", "60 days", "30 days", "14 days", "7 days"}
Businesses ==
    [reviews : ReviewCounts \cup {0}, rating : Ratings \cup {0}, newest : Recency,
     photos : PhotoCounts \cup {0}, hours : BOOLEAN, phone : BOOLEAN, website : BOOLEAN]
\* Who has no reviews has no rating.
Possible(b) == /\ b.reviews = 0 <=> b.rating = 0
               /\ b.reviews = 0 <=> b.newest = "none"

RecencyPoints(newest) ==
    CASE newest = "7 days" -> 20 [] newest = "14 days" -> 15
      [] newest = "30 days" -> 10 [] newest = "60 days" -> 5
      [] OTHER -> 0

\* review_score times 10
ReviewScore10(b) ==
    IF b.reviews = 0 THEN 0
    ELSE 4 * Min({b.reviews, 100}) + 8 * b.rating + 10 * RecencyPoints(b.newest)

ActivityScore == 50

PhotoPoints(photos) ==
    CASE photos >= 10 -> 25
      [] photos >= 5 /\ photos < 10 -> 15
      [] photos >= 1 /\ photos < 5 -> 5
      [] OTHER -> 0

Points(given) == IF given THEN 20 ELSE 0
CompletenessScore(b) ==
    Points(b.phone) + Points(b.website) + Points(b.hours) + PhotoPoints(b.photos)

Scale(m) == IF m.reviews = 0 THEN 1 ELSE m.reviews * m.rating
\* competition_score times Scale
CompetitionScore(b, m) ==
    IF m.reviews = 0 THEN 50
    ELSE 50 * Min({b.reviews, m.reviews}) * m.rating + 50 * Min({b.rating, m.rating}) * m.reviews

\* total_score times 1000 times Scale
Total(b, m) ==
    Scale(m) * (35 * ReviewScore10(b) + 200 * ActivityScore + 200 * CompletenessScore(b))
        + 250 * CompetitionScore(b, m)
\* the stored total_score, rounded to tenths
TotalTenths(b, m) == (Total(b, m) + 50 * Scale(m)) \div (100 * Scale(m))

\* The grade, 8 for A+ and 0 for F, is of the total before rounding.
Grade(b, m) ==
    LET bounds == {50, 60, 65, 70, 75, 80, 85, 90}
    IN  Quantify(bounds, LAMBDA bound : Total(b, m) >= 1000 * bound * Scale(m))

\* Mutant: the distance from the market, above it or below it.
ReviewGapEitherWay(b, m) == Max({m.reviews - b.reviews, b.reviews - m.reviews})

ReviewGap(b, m) == Max({0, m.reviews - b.reviews})

\* _estimate_losses, in dollars
MonthlyLoss(b, m) ==
    Min({5 * (1000 - TotalTenths(b, m)) + Min({20 * ReviewGap(b, m), 1000}), 5000})
MissedCalls(b, m) == MonthlyLoss(b, m) \div 50

\* The recommended plans by their price: maps_starter, calls_growth, competitive_market
RecommendedPlan(b, m) ==
    IF CompetitionScore(b, m) < 45 * Scale(m) /\ ReviewGap(b, m) >= 50 THEN 3
    ELSE IF TotalTenths(b, m) < 500 THEN 2
    ELSE 1

Init ==
    /\ business = [reviews |-> 0, rating |-> 0, newest |-> "none", photos |-> 0,
                   hours |-> FALSE, phone |-> FALSE, website |-> FALSE]
    /\ market \in Markets

\* An improvement of the business, between two audits.
Better(b) ==
    /\ b # business /\ Possible(b)
    /\ business' = b
    /\ UNCHANGED market
EarnReviews ==
    \E n \in ReviewCounts, r \in Ratings, age \in Recency :
        /\ n > business.reviews /\ r >= business.rating
        /\ RecencyPoints(age) >= RecencyPoints(business.newest)
        /\ Better([business EXCEPT !.reviews = n, !.rating = r, !.newest = age])
AddPhotos ==
    \E n \in PhotoCounts : n > business.photos /\ Better([business EXCEPT !.photos = n])
FillIn ==
    \/ Better([business EXCEPT !.hours = TRUE])
    \/ Better([business EXCEPT !.phone = TRUE])
    \/ Better([business EXCEPT !.website = TRUE])

Next == EarnReviews \/ AddPhotos \/ FillIn
Spec == Init /\ [][Next]_vars

-----------------------------------------------------------------------------
\* The scores stay in the ranges their columns are commented with.
TypeOK ==
    /\ business \in Businesses /\ market \in Markets
    /\ ReviewScore10(business) \in 0..1000
    /\ CompletenessScore(business) \in 0..100
    /\ TotalTenths(business, market) \in 0..1000
    /\ MonthlyLoss(business, market) \in 0..5000

\* A business that gets better in one respect and in none worse never gets a lower
\* score or grade, more estimated losses or missed calls, or a dearer plan, whatever
\* tier, cap or rounding the numbers cross.
ImprovementPays ==
    /\ Total(business', market') >= Total(business, market)
    /\ Grade(business', market') >= Grade(business, market)
    /\ MonthlyLoss(business', market') <= MonthlyLoss(business, market)
    /\ MissedCalls(business', market') <= MissedCalls(business, market)
    /\ RecommendedPlan(business', market') <= RecommendedPlan(business, market)
ImprovingPays == [][ImprovementPays]_vars
====

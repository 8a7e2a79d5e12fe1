------------------------------ MODULE ICPScoring ------------------------------
(***************************************************************************)
(* ICPScoringService: how well a contact fits the active ICPConfig.        *)
(*                                                                         *)
(* Texts are abstracted to what the matching tells apart: the values of a  *)
(* comma-separated cell to the set of its normalised, non-empty values; a  *)
(* title to the set of keywords it contains; a missing or empty text to    *)
(* NoValue.  Scores are in hundredths of a point: round(x, 2) is an        *)
(* integer.  Weights are whole and not negative.                           *)
(*                                                                         *)
(* A definition whose comment begins with "Altered" is a plausible slip in *)
(* the one that follows it; Next never reaches it.                         *)
(***************************************************************************)
EXTENDS Integers

CONSTANTS
  Ids,         \* primary keys of the icp_configs table
  ProfilesOf,  \* ProfilesOf[i] is the set of values row i may have
  Contacts,    \* the contacts that may be scored
  NoValue,     \* a NULL column
  Texts        \* normalised industries, revenue ranges and title keywords

Criteria == {"industry", "employee_count", "revenue_range", "title"}

Counts == Nat \cup {NoValue}

Profiles ==
  [enabled : BOOLEAN, industries : SUBSET Texts, lower : Counts, upper : Counts,
   revenues : SUBSET Texts, keywords : SUBSET Texts, weight : [Criteria -> Nat]]

\* A contact without a company has NoValue for everything of the company.
Leads ==
  [industry : Texts \cup {NoValue}, employees : Counts, revenue : Texts \cup {NoValue},
   title : SUBSET Texts]

ASSUME ScoringAssumption ==
  /\ Ids \subseteq Nat
  /\ \A i \in Ids : ProfilesOf[i] \subseteq Profiles
  /\ Contacts \subseteq Leads
  /\ NoValue \notin Texts
  /\ NoValue \notin Nat

-----------------------------------------------------------------------------
\* The early return of each _score_... method: a criterion the profile leaves
\* empty is not scored at all.
Configured(p, c) ==
  CASE c = "industry" -> p.industries # {}
    [] c = "employee_count" -> p.lower # NoValue \/ p.upper # NoValue
    [] c = "revenue_range" -> p.revenues # {}
    [] OTHER -> p.keywords # {}

\* lower <= count <= upper, a missing bound standing for infinity.
WithinBounds(p, n) ==
  /\ n # NoValue
  /\ p.lower # NoValue => p.lower <= n
  /\ p.upper # NoValue => n <= p.upper

Matched(l, p, c) ==
  CASE c = "industry" -> l.industry \in p.industries
    [] c = "employee_count" -> WithinBounds(p, l.employees)
    [] c = "revenue_range" -> l.revenue \in p.revenues
    [] OTHER -> l.title \cap p.keywords # {}

\* The weight a criterion adds to the total when it counts.
Share(p, c, counts) == IF counts THEN p.weight[c] ELSE 0

Total(p, Counts4(_)) ==
  Share(p, "industry", Counts4("industry")) + Share(p, "employee_count", Counts4("employee_count"))
    + Share(p, "revenue_range", Counts4("revenue_range")) + Share(p, "title", Counts4("title"))

Possible(p) == Total(p, LAMBDA c : Configured(p, c))
Earned(l, p) == Total(p, LAMBDA c : Configured(p, c) /\ Matched(l, p, c))

\* Altered: the fraction is cut off instead of rounded.
Truncated(earned, possible) == (10000 * earned) \div possible

\* The nearest hundredth, the upper one of two.
HalfUp(earned, possible) == (20000 * earned + possible) \div (2 * possible)

\* earned / possible * 100 lies in the middle of two hundredths.
Tie(earned, possible) == (20000 * earned + possible) % (2 * possible) = 0

\* round(earned / possible * 100, 2): a tie goes to the even digit.  That is what
\* the float shows for a binary fraction such as 1/32; the float of another
\* quotient may lie on either side of its tie, by less than any digit kept here.
Rounded(earned, possible) ==
  LET q == HalfUp(earned, possible)
  IN  IF Tie(earned, possible) /\ q % 2 = 1 THEN q - 1 ELSE q

\* Altered: the share of all four weights, configured or not.
ShareOfAll(l, p) ==
  LET all == Total(p, LAMBDA c : TRUE)
  IN  IF all > 0 THEN Rounded(Earned(l, p), all) ELSE 0

\* Altered: what was missed, not what was earned.
MissedShare(l, p) ==
  IF Possible(p) > 0 THEN Rounded(Possible(p) - Earned(l, p), Possible(p)) ELSE 0

\* ICPScoringService.score.
ScoreOf(l, p) == IF Possible(p) > 0 THEN Rounded(Earned(l, p), Possible(p)) ELSE 0

-----------------------------------------------------------------------------
VARIABLES
  table,   \* the icp_configs table
  scored   \* the last contact scored, with its profile and score: one record or none

vars == <<table, scored>>

Init ==
  /\ table \in {t \in [Ids -> UNION {ProfilesOf[i] : i \in Ids}] : \A i \in Ids : t[i] \in ProfilesOf[i]}
  /\ scored = {}

Enabled == {i \in Ids : table[i].enabled}

\* get_active_config: the first enabled profile, by id.
Active(i) == i \in Enabled /\ \A j \in Enabled : i <= j

\* An operator edits a profile.
EditProfile(i, p) ==
  /\ table' = [table EXCEPT ![i] = p]
  /\ scored' = {}

\* Without an enabled profile scoring is refused.
ScoreContact(l) ==
  /\ scored' = {[lead |-> l, profile |-> table[i], score |-> ScoreOf(l, table[i])] :
                  i \in {j \in Ids : Active(j)}}
  /\ UNCHANGED table

Next ==
  \/ \E i \in Ids : \E p \in ProfilesOf[i] : EditProfile(i, p)
  \/ \E l \in Contacts : ScoreContact(l)

Spec == Init /\ [][Next]_vars

-----------------------------------------------------------------------------
\* The score is the percentage, exact to half a hundredth, and lies in 0-100,
\* also when nothing is configured or every weight is zero.
ScoreIsThePercentage ==
  \A s \in scored :
    LET e == Earned(s.lead, s.profile)
        d == Possible(s.profile)
    IN  /\ s.score \in 0..10000
        /\ 2 * (s.score * d - 10000 * e) <= d
        /\ 2 * (10000 * e - s.score * d) <= d

\* A criterion that is not configured does not count: its weight and what the
\* contact has for it change nothing.
UnconfiguredIsNeutral ==
  \A s \in scored :
    \A c \in Criteria : ~Configured(s.profile, c) =>
      /\ ScoreOf(s.lead, [s.profile EXCEPT !.weight[c] = @ + 1]) = s.score
      /\ \A l \in Contacts :
           (\A k \in Criteria \ {c} : Matched(l, s.profile, k) <=> Matched(s.lead, s.profile, k))
             => ScoreOf(l, s.profile) = s.score

\* A contact that matches everything another one matches scores no less, and
\* one that matches all that is configured scores 100.
MoreMatchesScoreNoLess ==
  \A s \in scored :
    /\ \A l \in Contacts :
         (\A c \in Criteria : Matched(s.lead, s.profile, c) => Matched(l, s.profile, c))
           => s.score <= ScoreOf(l, s.profile)
    /\ Possible(s.profile) > 0
         /\ (\A c \in Criteria : Configured(s.profile, c) => Matched(s.lead, s.profile, c))
           => s.score = 10000
=============================================================================

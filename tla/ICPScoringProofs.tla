--------------------------- MODULE ICPScoringProofs ---------------------------
(***************************************************************************)
(* Proofs about the scoring, for any profiles with whole, non-negative     *)
(* weights and any contacts: the score is the percentage to the nearest    *)
(* hundredth and lies in 0-100.                                            *)
(***************************************************************************)
EXTENDS ICPScoring, TLAPS

\* What division by a positive number leaves.
LEMMA DivisionBounds ==
  ASSUME NEW n \in Nat, NEW m \in Nat \ {0}
  PROVE  /\ n \div m \in Nat
         /\ m * (n \div m) <= n
         /\ n < m * (n \div m) + m
<1>1. n \div m \in Int /\ n % m \in 0..(m - 1) /\ n = m * (n \div m) + (n % m)
  OBVIOUS
<1>2. m * (n \div m) <= n /\ n < m * (n \div m) + m
  BY <1>1
<1> QED
  BY <1>1, <1>2

\* Rounding is exact to half a unit, and keeps a fraction of at most one
\* within 0..10000.
LEMMA RoundingBounds ==
  ASSUME NEW e \in Nat, NEW d \in Nat \ {0}, e <= d
  PROVE  /\ Rounded(e, d) \in 0..10000
         /\ 2 * (Rounded(e, d) * d - 10000 * e) <= d
         /\ 2 * (10000 * e - Rounded(e, d) * d) <= d
<1> DEFINE n == 20000 * e + d
           m == 2 * d
           q == n \div m
<1>1. n \in Nat /\ m \in Nat \ {0}
  OBVIOUS
<1> HIDE DEF n, m
<1>2. q \in Nat /\ m * q <= n /\ n < m * q + m
  BY <1>1, DivisionBounds
<1>3. HalfUp(e, d) = q /\ (Tie(e, d) => n % m = 0)
  BY DEF HalfUp, Tie, n, m
<1>4. n % m = 0 => m * q = n
  BY <1>1
<1> HIDE DEF q
<1>7. m * q = 2 * (q * d)
  BY <1>2 DEF m
<1>5. /\ 2 * (q * d - 10000 * e) <= d /\ 2 * (10000 * e - q * d) <= d
      /\ Tie(e, d) => /\ 2 * ((q - 1) * d - 10000 * e) <= d
                      /\ 2 * (10000 * e - (q - 1) * d) <= d
  <2>1. q * d \in Nat /\ (q - 1) * d = q * d - d
    BY <1>2
  <2> QED
    BY <1>2, <1>3, <1>4, <1>7, <2>1 DEF n, m
<1>6. q <= 10000
  <2>1. SUFFICES ASSUME q >= 10001 PROVE FALSE
    BY <1>2
  <2>2. q * d >= 10001 * d
    BY <1>2, <2>1
  <2>3. q * d \in Nat
    BY <1>2
  <2> QED
    BY <1>2, <1>7, <2>2, <2>3 DEF n, m
<1>8. CASE Tie(e, d) /\ q % 2 = 1
  <2>1. Rounded(e, d) = q - 1 /\ q - 1 \in 0..10000
    BY <1>2, <1>3, <1>6, <1>8 DEF Rounded
  <2>2. 2 * ((q - 1) * d - 10000 * e) <= d /\ 2 * (10000 * e - (q - 1) * d) <= d
    BY <1>5, <1>8
  <2> QED
    BY <2>1, <2>2
<1>9. CASE ~(Tie(e, d) /\ q % 2 = 1)
  BY <1>2, <1>3, <1>5, <1>6, <1>9 DEF Rounded
<1> QED
  BY <1>8, <1>9

\* No criterion earns more than it could.
LEMMA EarnedIsPossible ==
  ASSUME NEW p \in Profiles, NEW l
  PROVE  /\ Possible(p) \in Nat
         /\ Earned(l, p) \in Nat
         /\ Earned(l, p) <= Possible(p)
<1>1. \A c \in Criteria : p.weight[c] \in Nat
  BY DEF Profiles
<1>2. \A c \in Criteria :
        /\ Share(p, c, Configured(p, c)) \in Nat
        /\ Share(p, c, Configured(p, c) /\ Matched(l, p, c)) \in Nat
        /\ Share(p, c, Configured(p, c) /\ Matched(l, p, c)) <= Share(p, c, Configured(p, c))
  BY <1>1 DEF Share
<1>3. \A c \in {"industry", "employee_count", "revenue_range", "title"} : c \in Criteria
  BY DEF Criteria
<1> QED
  BY <1>2, <1>3 DEF Possible, Earned, Total

\* The score of any contact under any profile.
THEOREM ScoreIsBounded ==
  ASSUME NEW p \in Profiles, NEW l
  PROVE  /\ ScoreOf(l, p) \in 0..10000
         /\ 2 * (ScoreOf(l, p) * Possible(p) - 10000 * Earned(l, p)) <= Possible(p)
         /\ 2 * (10000 * Earned(l, p) - ScoreOf(l, p) * Possible(p)) <= Possible(p)
<1>1. Possible(p) \in Nat /\ Earned(l, p) \in Nat /\ Earned(l, p) <= Possible(p)
  BY EarnedIsPossible
<1>2. CASE Possible(p) > 0
  <2> DEFINE d == Possible(p)
             e == Earned(l, p)
  <2>1. ScoreOf(l, p) = Rounded(e, d)
    BY <1>2 DEF ScoreOf
  <2>2. e \in Nat /\ d \in Nat \ {0} /\ e <= d
    BY <1>1, <1>2
  <2> HIDE DEF d, e
  <2>3. /\ Rounded(e, d) \in 0..10000
        /\ 2 * (Rounded(e, d) * d - 10000 * e) <= d
        /\ 2 * (10000 * e - Rounded(e, d) * d) <= d
    BY <2>2, RoundingBounds
  <2> QED
    BY <2>1, <2>3 DEF d, e
<1>3. CASE Possible(p) = 0
  BY <1>1, <1>3 DEF ScoreOf
<1> QED
  BY <1>1, <1>2, <1>3

\* A fraction that is no smaller is rounded to a score that is no smaller.
LEMMA RoundingIsMonotone ==
  ASSUME NEW e \in Nat, NEW f \in Nat, NEW d \in Nat \ {0}, e <= f
  PROVE  Rounded(e, d) <= Rounded(f, d)
<1> DEFINE m == 2 * d
           n(x) == 20000 * x + d
           q(x) == n(x) \div m
<1>1. n(e) \in Nat /\ n(f) \in Nat /\ m \in Nat \ {0} /\ n(e) <= n(f)
  OBVIOUS
<1> HIDE DEF m, n
<1>2. /\ q(e) \in Nat /\ m * q(e) <= n(e)
      /\ q(f) \in Nat /\ n(f) < m * q(f) + m
  BY <1>1, DivisionBounds
<1>4. \A x \in {e, f} : n(x) % m = 0 => n(x) = m * q(x)
  BY <1>1
<1>5. \A x \in {e, f} : HalfUp(x, d) = q(x) /\ (Tie(x, d) <=> n(x) % m = 0)
  BY DEF HalfUp, Tie, q, n, m
<1>6. ASSUME q(e) = q(f), n(f) % m = 0 PROVE n(e) % m = 0
  <2>1. n(f) = m * q(f) /\ m * q(e) <= n(e) /\ m * q(f) \in Nat
    BY <1>1, <1>2, <1>4, <1>6
  <2>2. n(e) = n(f)
    BY <1>1, <1>6, <2>1
  <2> QED
    BY <1>6, <2>2
<1> HIDE DEF q
<1>3. q(e) <= q(f)
  <2> SUFFICES ASSUME q(e) >= q(f) + 1 PROVE FALSE
    BY <1>2
  <2>1. m * q(e) >= m * (q(f) + 1) /\ m * (q(f) + 1) = m * q(f) + m
    BY <1>1, <1>2
  <2>2. m * q(e) \in Nat /\ m * q(f) \in Nat
    BY <1>1, <1>2
  <2> QED
    BY <1>1, <1>2, <2>1, <2>2
<1>7. \A x \in {e, f} : Rounded(x, d) = IF n(x) % m = 0 /\ q(x) % 2 = 1 THEN q(x) - 1 ELSE q(x)
  BY <1>5 DEF Rounded
<1>8. CASE q(e) = q(f)
  BY <1>2, <1>6, <1>7, <1>8
<1>9. CASE q(e) # q(f)
  BY <1>2, <1>3, <1>7, <1>9
<1> QED
  BY <1>8, <1>9

\* q is the percentage e of d to the nearest hundredth.
Nearest(q, e, d) == q \in 0..10000 /\ 2 * (10000 * e - q * d) <= d

\* Everything that is possible is 100.
LEMMA AllIsTheWhole ==
  ASSUME NEW d \in Nat \ {0}
  PROVE  Rounded(d, d) = 10000
<1>1. ASSUME NEW e \in Nat, e <= d PROVE Nearest(Rounded(e, d), e, d)
  <2>1. /\ Rounded(e, d) \in 0..10000
        /\ 2 * (Rounded(e, d) * d - 10000 * e) <= d
        /\ 2 * (10000 * e - Rounded(e, d) * d) <= d
    BY <1>1, RoundingBounds
  <2> QED
    BY <2>1 DEF Nearest
<1>2. d \in Nat /\ d <= d
  OBVIOUS
<1>3. Nearest(Rounded(d, d), d, d)
  BY <1>1, <1>2
<1>4. ASSUME NEW q, Nearest(q, d, d) PROVE q = 10000
  <2>1. q \in Int /\ 0 <= q /\ q <= 10000
    BY <1>4 DEF Nearest
  <2>2. 2 * (10000 * d - q * d) <= d
    BY <1>4 DEF Nearest
  <2>3. ~(q <= 9999)
    <3> SUFFICES ASSUME q <= 9999 PROVE FALSE
      OBVIOUS
    <3>1. q * d <= 9999 * d /\ q * d \in Nat
      BY <2>1
    <3> QED
      BY <2>2, <3>1
  <2> QED
    BY <2>1, <2>3
<1> QED
  BY <1>3, <1>4

\* The score depends on what the profile makes possible and the contact earns.
LEMMA ScoreFollowsTheShares ==
  ASSUME NEW l, NEW p, NEW k, NEW r,
         \A c \in Criteria : Share(p, c, Configured(p, c)) = Share(r, c, Configured(r, c)),
         \A c \in Criteria : Share(p, c, Configured(p, c) /\ Matched(l, p, c))
                               = Share(r, c, Configured(r, c) /\ Matched(k, r, c))
  PROVE  ScoreOf(l, p) = ScoreOf(k, r)
<1>1. \A c \in {"industry", "employee_count", "revenue_range", "title"} : c \in Criteria
  BY DEF Criteria
<1>2. Possible(p) = Possible(r) /\ Earned(l, p) = Earned(k, r)
  BY <1>1 DEF Possible, Earned, Total
<1> QED
  BY <1>2 DEF ScoreOf

\* The weight of a criterion that is not configured changes no score.
LEMMA IdleWeight ==
  ASSUME NEW p \in Profiles, NEW l, NEW c \in Criteria, ~Configured(p, c)
  PROVE  ScoreOf(l, [p EXCEPT !.weight[c] = @ + 1]) = ScoreOf(l, p)
<1> DEFINE r == [p EXCEPT !.weight[c] = @ + 1]
<1>1. /\ r.industries = p.industries /\ r.lower = p.lower /\ r.upper = p.upper
      /\ r.revenues = p.revenues /\ r.keywords = p.keywords
      /\ \A k \in Criteria : k # c => r.weight[k] = p.weight[k]
  BY DEF Profiles
<1> HIDE DEF r
<1>2. \A k \in Criteria : (Configured(r, k) <=> Configured(p, k)) /\ (Matched(l, r, k) <=> Matched(l, p, k))
  BY <1>1 DEF Configured, Matched, WithinBounds
<1>3. \A k \in Criteria :
        /\ Share(r, k, Configured(r, k)) = Share(p, k, Configured(p, k))
        /\ Share(r, k, Configured(r, k) /\ Matched(l, r, k)) = Share(p, k, Configured(p, k) /\ Matched(l, p, k))
  BY <1>1, <1>2 DEF Share
<1> QED
  BY <1>3, ScoreFollowsTheShares DEF r

\* Who matches all that another one matches scores no less.
LEMMA MatchingMore ==
  ASSUME NEW p \in Profiles, NEW l, NEW k,
         \A c \in Criteria : Matched(l, p, c) => Matched(k, p, c)
  PROVE  ScoreOf(l, p) <= ScoreOf(k, p)
<1>1. \A c \in Criteria :
        /\ Share(p, c, Configured(p, c) /\ Matched(l, p, c)) \in Nat
        /\ Share(p, c, Configured(p, c) /\ Matched(k, p, c)) \in Nat
        /\ Share(p, c, Configured(p, c) /\ Matched(l, p, c)) <= Share(p, c, Configured(p, c) /\ Matched(k, p, c))
  <2>1. \A c \in Criteria : p.weight[c] \in Nat
    BY DEF Profiles
  <2> QED
    BY <2>1 DEF Share
<1>2. \A c \in {"industry", "employee_count", "revenue_range", "title"} : c \in Criteria
  BY DEF Criteria
<1>3. Earned(l, p) <= Earned(k, p)
  BY <1>1, <1>2 DEF Earned, Total
<1>4. Possible(p) \in Nat /\ Earned(l, p) \in Nat /\ Earned(k, p) \in Nat
  BY EarnedIsPossible
<1>5. CASE Possible(p) > 0
  BY <1>3, <1>4, <1>5, RoundingIsMonotone DEF ScoreOf
<1>6. CASE Possible(p) = 0
  BY <1>6 DEF ScoreOf
<1> QED
  BY <1>4, <1>5, <1>6

\* Who matches all that is configured scores 100.
LEMMA MatchingAll ==
  ASSUME NEW p \in Profiles, NEW l, Possible(p) > 0,
         \A c \in Criteria : Configured(p, c) => Matched(l, p, c)
  PROVE  ScoreOf(l, p) = 10000
<1>1. \A c \in Criteria : Share(p, c, Configured(p, c) /\ Matched(l, p, c)) = Share(p, c, Configured(p, c))
  BY DEF Share
<1>2. \A c \in {"industry", "employee_count", "revenue_range", "title"} : c \in Criteria
  BY DEF Criteria
<1>3. Earned(l, p) = Possible(p)
  BY <1>1, <1>2 DEF Earned, Possible, Total
<1>4. Possible(p) \in Nat \ {0}
  BY EarnedIsPossible
<1> QED
  BY <1>3, <1>4, AllIsTheWhole DEF ScoreOf

-----------------------------------------------------------------------------
\* A score that was returned is that of its contact under its profile, and the
\* profile is one that an operator may have written.
ScoringInv ==
  /\ table \in [Ids -> UNION {ProfilesOf[i] : i \in Ids}]
  /\ \A i \in Ids : table[i] \in Profiles
  /\ \A s \in scored : s.profile \in Profiles /\ s.score = ScoreOf(s.lead, s.profile)

\* The invariant of every behaviour.
LEMMA ScoringInvariant == Spec => []ScoringInv
<1>1. Init => ScoringInv
  BY ScoringAssumption DEF Init, ScoringInv, ScoringAssumption
<1>2. ScoringInv /\ [Next]_vars => ScoringInv'
  <2> SUFFICES ASSUME ScoringInv, [Next]_vars PROVE ScoringInv'
    OBVIOUS
  <2>1. ASSUME NEW i \in Ids, NEW p \in ProfilesOf[i], EditProfile(i, p) PROVE ScoringInv'
    BY <2>1, ScoringAssumption DEF EditProfile, ScoringInv, ScoringAssumption
  <2>2. ASSUME NEW l \in Contacts, ScoreContact(l) PROVE ScoringInv'
    <3>1. \A s \in scored' : \E i \in Ids :
            s = [lead |-> l, profile |-> table[i], score |-> ScoreOf(l, table[i])]
      BY <2>2 DEF ScoreContact
    <3>2. table' = table
      BY <2>2 DEF ScoreContact
    <3> QED
      BY <3>1, <3>2 DEF ScoringInv
  <2>3. CASE UNCHANGED vars
    BY <2>3 DEF vars, ScoringInv
  <2> QED
    BY <2>1, <2>2, <2>3 DEF Next
<1> QED
  BY <1>1, <1>2, PTL DEF Spec

\* Every score that is ever returned is the percentage of what was possible.
THEOREM ScoresArePercentages == Spec => []ScoreIsThePercentage
<1>1. ScoringInv => ScoreIsThePercentage
  BY ScoreIsBounded DEF ScoringInv, ScoreIsThePercentage
<1> QED
  BY <1>1, ScoringInvariant, PTL

\* A criterion that is not configured does not count, neither with its weight
\* nor with what the contact has for it.
THEOREM IdleCriteriaAreNeutral == Spec => []UnconfiguredIsNeutral
<1>1. ScoringInv => UnconfiguredIsNeutral
  <2> SUFFICES ASSUME ScoringInv, NEW s \in scored, NEW c \in Criteria, ~Configured(s.profile, c)
               PROVE  /\ ScoreOf(s.lead, [s.profile EXCEPT !.weight[c] = @ + 1]) = s.score
                      /\ \A l \in Contacts :
                           (\A k \in Criteria \ {c} : Matched(l, s.profile, k) <=> Matched(s.lead, s.profile, k))
                             => ScoreOf(l, s.profile) = s.score
    BY DEF UnconfiguredIsNeutral
  <2>1. s.profile \in Profiles /\ s.score = ScoreOf(s.lead, s.profile)
    BY DEF ScoringInv
  <2>2. ASSUME NEW l \in Contacts,
               \A k \in Criteria \ {c} : Matched(l, s.profile, k) <=> Matched(s.lead, s.profile, k)
        PROVE  ScoreOf(l, s.profile) = s.score
    <3>1. \A k \in Criteria :
            Share(s.profile, k, Configured(s.profile, k) /\ Matched(l, s.profile, k))
              = Share(s.profile, k, Configured(s.profile, k) /\ Matched(s.lead, s.profile, k))
      BY <2>2 DEF Share
    <3> QED
      BY <2>1, <3>1, ScoreFollowsTheShares
  <2> QED
    BY <2>1, <2>2, IdleWeight
<1> QED
  BY <1>1, ScoringInvariant, PTL

\* A contact that matches more scores no less, and 100 when it matches all.
THEOREM ScoresFollowMatches == Spec => []MoreMatchesScoreNoLess
<1>1. ScoringInv => MoreMatchesScoreNoLess
  BY MatchingMore, MatchingAll DEF ScoringInv, MoreMatchesScoreNoLess
<1> QED
  BY <1>1, ScoringInvariant, PTL
=============================================================================

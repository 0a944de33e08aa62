--------------------------- MODULE FairShareProofs ---------------------------
(***************************************************************************)
(* Proofs about FairShare, for any number of pods, any priorities, any      *)
(* alpha and scale the configuration allows and any durations below those   *)
(* of DurationsAssumption.                                                  *)
(***************************************************************************)
EXTENDS FairShare, NaturalsInduction, WellFoundedInduction, TLAPS

----------------------------------------------------------------------------
(* Arithmetic. *)

(* Multiplication by a natural number is monotone.                          *)
LEMMA Monotone ==
  ASSUME NEW a \in Int, NEW b \in Int, NEW c \in Nat, a <= b
  PROVE  /\ a * c <= b * c /\ c * a <= c * b
         /\ a * c \in Int /\ b * c \in Int
  OBVIOUS

(* A common positive factor cancels.                                        *)
LEMMA Cancel ==
  ASSUME NEW a \in Int, NEW b \in Int, NEW c \in Nat \ {0}, c * a <= c * b
  PROVE  a <= b
  OBVIOUS

(* What \div and % are.                                                     *)
LEMMA Division ==
  ASSUME NEW n \in Int, NEW d \in Nat \ {0}
  PROVE  /\ n \div d \in Int /\ n % d \in Int
         /\ d * (n \div d) <= n /\ n < d * (n \div d) + d
         /\ n % d = n - d * (n \div d)
  OBVIOUS

(* A quotient that is truncated is less than one below it, or one.          *)
LEMMA TruncatedIs ==
  ASSUME NEW n \in Nat, NEW d \in Nat \ {0}, NEW x \in Truncated(n, d)
  PROVE  x \in Nat /\ d * x <= n /\ n <= d * x + d
  <1> DEFINE q == n \div d
  <1>1. q \in Int /\ d * q <= n /\ n < d * q + d BY Division
  <1>2. q >= 0 BY <1>1
  <1>3. CASE x = q BY <1>1, <1>2, <1>3
  <1>4. CASE x = q - 1 /\ d > 1 /\ n % d = 0 /\ n > d
    <2>1. n = d * q BY <1>4, Division
    <2>2. q > 1 BY <2>1, <1>1, <1>4
    <2>3. d * (q - 1) = d * q - d BY <1>1
    <2> QED BY <2>1, <2>2, <2>3, <1>1, <1>4
  <1> QED BY <1>3, <1>4 DEF Truncated

(* A quotient that is rounded up is at most one above it.                   *)
LEMMA RoundedUpIs ==
  ASSUME NEW n \in Nat, NEW d \in Nat \ {0}, NEW x \in RoundedUp(n, d)
  PROVE  x \in Nat /\ n <= d * x /\ d * x <= n + d
  <1> DEFINE q == n \div d
             r == (n + d - 1) \div d
  <1>1. q \in Int /\ d * q <= n /\ n < d * q + d BY Division
  <1>2. r \in Int /\ d * r <= n + d - 1 /\ n + d - 1 < d * r + d
    <2>1. n + d - 1 \in Int OBVIOUS
    <2> QED BY <2>1, Division
  <1>3. CASE x = r
    <2>1. r >= 0 BY <1>2
    <2> QED BY <1>2, <1>3, <2>1
  <1>4. CASE x = q + 1
    <2>1. d * (q + 1) = d * q + d BY <1>1
    <2>2. q >= 0 BY <1>1
    <2> QED BY <1>1, <1>4, <2>1, <2>2
  <1> QED BY <1>3, <1>4 DEF RoundedUp

(* A rounded quotient is at most one from it.                               *)
LEMMA RoundedIs ==
  ASSUME NEW n \in Nat, NEW d \in Nat \ {0}, NEW x \in Rounded(n, d)
  PROVE  x \in Nat /\ d * x <= n + d /\ n <= d * x + d
  <1> DEFINE q == n \div d
             r == (2 * n + d) \div (2 * d)
  <1>1. q \in Int /\ d * q <= n /\ n < d * q + d BY Division
  <1>2. r \in Int /\ (2 * d) * r <= 2 * n + d /\ 2 * n + d < (2 * d) * r + 2 * d
    <2>1. 2 * n + d \in Int /\ 2 * d \in Nat \ {0} OBVIOUS
    <2> QED BY <2>1, Division
  <1>3. CASE x = r
    <2>1. (2 * d) * r = 2 * (d * r) /\ d * r \in Int BY <1>2
    <2>2. r >= 0 BY <1>2
    <2> QED BY <1>2, <1>3, <2>1, <2>2
  <1>4. CASE x = q
    <2>1. q >= 0 BY <1>1
    <2> QED BY <1>1, <1>4, <2>1
  <1> QED BY <1>3, <1>4 DEF Rounded

(* A bounded set of numbers has a largest element, which Max is.            *)
LEMMA MaxIs ==
  ASSUME NEW S, S # {}, NEW b \in Nat, S \subseteq 0 .. b
  PROVE  Max(S) \in S /\ \A y \in S : y <= Max(S)
  <1>1. \E x \in S : \A y \in S : y <= x
    <2> DEFINE T == {n \in Nat : b - n \in S}
    <2>1. PICK z \in S : TRUE OBVIOUS
    <2>2. b - z \in T BY <2>1
    <2>3. PICK n \in T : \A k \in T : ~(<<k, n>> \in OpToRel(<, Nat))
      <3>1. T # {} /\ T \subseteq Nat BY <2>2
      <3> QED BY <3>1, WFMin, NatLessThanWellFounded
    <2>4. ASSUME NEW k \in T, k < n PROVE FALSE
      <3>1. \A j \in Nat : j < n => <<j, n>> \in OpToRel(<, Nat) BY Zenon DEF OpToRel
      <3> QED BY <3>1, <2>3, <2>4, Zenon
    <2>5. b - n \in S OBVIOUS
    <2>6. \A y \in S : b - y \in T OBVIOUS
    <2> QED BY <2>4, <2>5, <2>6
  <1> QED BY <1>1 DEF Max

----------------------------------------------------------------------------
(* One plan. *)

(* The numbers a plan is computed from: the time t of a token, the priority *)
(* p and the anchor A.                                                      *)
LEMMA ConstantFacts ==
  /\ MAX_TOKENS \in Nat \ {0} /\ DEFAULT_AVG_US \in Nat \ {0}
  /\ GRACE_US \in Nat /\ U64 \in Nat \ {0}
  /\ SCALE \in Nat \ {0} /\ SCALE_DEN \in Nat \ {0}
  /\ ALPHA \in 5 .. 95
  BY NumbersAssumption, ScaleAssumption, AlphaAssumption

(* A run of t us per token is short of the width of the counters.           *)
LEMMA ShortRuns ==
  ASSUME NEW t \in Nat \ {0}, Short(t), NEW k \in 1 .. MAX_TOKENS
  PROVE  /\ t < U64
         /\ saturating_mul(k, t) = k * t /\ k * t \in Nat \ {0}
         /\ TimeLimit(k * t) \in 0 .. U64 - 1
         /\ TimeLimit(k * t) >= k * t + GRACE_US
  <1> USE ConstantFacts
  <1>1. k * t <= MAX_TOKENS * t /\ 1 * t <= k * t /\ k * t \in Nat /\ MAX_TOKENS * t \in Nat
    BY Monotone
  <1>2. 3 * (k * t) + 2 * GRACE_US < 2 * U64 BY <1>1 DEF Short
  <1> DEFINE r == k * t
             h == r \div 2
             w == r + h + GRACE_US
  <1>3. h \in Nat /\ 2 * h <= r BY <1>1
  <1>4. w < U64 /\ w \in Nat BY <1>1, <1>2, <1>3
  <1>5. w % U64 = w BY <1>4
  <1>6. TimeLimit(k * t) = w BY <1>5 DEF TimeLimit
  <1>7. r \in Nat \ {0} /\ t <= r /\ r < U64 BY <1>1, <1>2
  <1>8. saturating_mul(k, t) = r BY <1>7 DEF saturating_mul, Smaller
  <1> HIDE DEF r, h, w
  <1>9. w >= r + GRACE_US /\ w \in 0 .. U64 - 1 BY <1>3, <1>4, <1>7 DEF w
  <1> QED BY <1>6, <1>7, <1>8, <1>9 DEF r

(* The unscaled tokens: enough for the priority unless they are capped, and *)
(* at most one too many.                                                    *)
LEMMA BaseIs ==
  ASSUME NEW n \in Nat \ {0}, NEW d \in Nat \ {0}, NEW b \in RoundedUp(n, d),
         NEW base, base = Clamp(b, MIN_TOKENS, MAX_TOKENS)
  PROVE  /\ base \in 1 .. MAX_TOKENS
         /\ d * base <= n + d
         /\ base = MAX_TOKENS \/ n <= d * base
  <1> USE ConstantFacts
  <1>1. b \in Nat /\ n <= d * b /\ d * b <= n + d BY RoundedUpIs
  <1>2. b # 0 BY <1>1
  <1>3. base \in 1 .. MAX_TOKENS /\ base <= b /\ (base = MAX_TOKENS \/ base = b)
    BY <1>1, <1>2 DEF Clamp, Larger, Smaller, MIN_TOKENS
  <1>4. d * base <= d * b BY <1>1, <1>3
  <1> QED BY <1>1, <1>3, <1>4

(* The scaled tokens.                                                       *)
LEMMA TokensIs ==
  ASSUME NEW base \in 1 .. MAX_TOKENS, NEW k \in Tokens(base)
  PROVE  /\ k \in 1 .. MAX_TOKENS
         /\ k = 1 \/ SCALE_DEN * k <= base * SCALE
         /\ k = MAX_TOKENS \/ base * SCALE <= SCALE_DEN * k + SCALE_DEN
  <1> USE ConstantFacts
  <1>1. base * SCALE \in Nat OBVIOUS
  <1>2. PICK x \in Truncated(base * SCALE, SCALE_DEN) : k = Clamp(x, MIN_TOKENS, MAX_TOKENS)
    BY DEF Tokens
  <1>3. x \in Nat /\ SCALE_DEN * x <= base * SCALE /\ base * SCALE <= SCALE_DEN * x + SCALE_DEN
    BY <1>1, <1>2, TruncatedIs
  <1>4. k \in 1 .. MAX_TOKENS /\ (k = 1 \/ k <= x) /\ (k = MAX_TOKENS \/ x <= k)
    BY <1>2, <1>3 DEF Clamp, Larger, Smaller, MIN_TOKENS
  <1>5. k <= x => SCALE_DEN * k <= SCALE_DEN * x BY <1>3, <1>4
  <1>6. x <= k => SCALE_DEN * x <= SCALE_DEN * k BY <1>3, <1>4
  <1> QED BY <1>1, <1>3, <1>4, <1>5, <1>6

(* A run is not longer for the priority than by one base token, ...         *)
LEMMA RunUpper ==
  ASSUME NEW n \in Nat, NEW t \in Nat \ {0}, NEW base \in Nat \ {0}, NEW k \in Nat \ {0},
         NEW S \in Nat \ {0}, NEW D \in Nat \ {0},
         (100 * t) * base <= n + 100 * t, k = 1 \/ D * k <= base * S
  PROVE  100 * ((k * t) * D - t * Larger(S, D)) <= n * S
  <1> DEFINE L == Larger(S, D)
  <1>1. L \in Nat /\ S <= L /\ D <= L BY DEF Larger
  <1> HIDE DEF L
  <1>2. t * S <= t * L /\ t * D <= t * L /\ t * S \in Nat /\ t * D \in Nat /\ t * L \in Nat /\ n * S \in Nat
    BY <1>1, Monotone
  <1>3. (k * t) * D = t * (D * k) OBVIOUS
  <1>4. CASE k = 1 BY <1>2, <1>4 DEF L
  <1>5. CASE D * k <= base * S
    <2>1. t * (D * k) <= t * (base * S) BY <1>5, Monotone
    <2>2. ((100 * t) * base) * S <= (n + 100 * t) * S BY Monotone
    <2>3. ((100 * t) * base) * S = 100 * (t * (base * S)) OBVIOUS
    <2>4. (n + 100 * t) * S = n * S + 100 * (t * S) OBVIOUS
    <2>5. t * (base * S) \in Int /\ t * (D * k) \in Int OBVIOUS
    <2> QED BY <1>2, <1>3, <2>1, <2>2, <2>3, <2>4, <2>5 DEF L
  <1> QED BY <1>4, <1>5

(* ... and not shorter than by one token.                                   *)
LEMMA RunLower ==
  ASSUME NEW n \in Nat, NEW t \in Nat \ {0}, NEW base \in Nat \ {0}, NEW k \in Nat \ {0},
         NEW S \in Nat \ {0}, NEW D \in Nat \ {0},
         n <= (100 * t) * base, base * S <= D * k + D
  PROVE  n * S <= 100 * ((k * t) * D + t * D)
  <1>1. n * S <= ((100 * t) * base) * S BY Monotone
  <1>2. ((100 * t) * base) * S = 100 * (t * (base * S)) OBVIOUS
  <1>3. t * (base * S) <= t * (D * k + D) BY Monotone
  <1>4. t * (D * k + D) = (k * t) * D + t * D OBVIOUS
  <1>5. n * S \in Int /\ t * (base * S) \in Int /\ (k * t) * D + t * D \in Int OBVIOUS
  <1> QED BY <1>1, <1>2, <1>3, <1>4, <1>5

----------------------------------------------------------------------------
(* The inductive invariant. *)

(* The averages are positive and short; what is left of TypeOK.             *)
AverageInv ==
  /\ current_avg_us \in [Managers -> Nat \ {0}]
  /\ avg_kernel_time \in [Managers -> Nat]
  /\ \A m \in Managers : Short(current_avg_us[m]) /\ avg_kernel_time[m] < U64

(* The configuration is a priority and a mode.                              *)
ConfigInv ==
  my_priority \in [Managers -> Int \cup {NaN}] /\ fixed_share_ratio \in [Managers -> BOOLEAN]

(* The pod in its slice is the holder, so one plan is enough for all pods.  *)
HolderInv ==
  /\ holder \in Managers \cup {Nobody}
  /\ pc \in [Managers -> {"off", "register", "wait", "rest", "plan", "run"}]
  /\ \A m \in Managers : pc[m] \in {"rest", "plan", "run"} => holder = m

(* m computed the plan with its present average and some anchor.            *)
Planned(m) == \E anchor \in Nat \ {0} : plan \in SharePlansAt(m, anchor)

(* The plan is that of the pod that runs, and there is none otherwise.      *)
PlanInv ==
  /\ \A m \in Managers : pc[m] = "run" => Planned(m)
  /\ (\A m \in Managers : pc[m] # "run") => plan = NoPlan

(* The inductive invariant of every theorem below.                          *)
Inv == AverageInv /\ ConfigInv /\ HolderInv /\ PlanInv

(* The flags of the registry are Booleans.                                  *)
Flags == is_active \in [Managers -> BOOLEAN] /\ resting \in [Managers -> BOOLEAN]

(* The time of a token and the priority are positive.                       *)
LEMMA PodFacts ==
  ASSUME AverageInv, ConfigInv, NEW m \in Managers
  PROVE  /\ my_time(m) \in Nat \ {0} /\ my_time(m) = current_avg_us[m] /\ Short(my_time(m))
         /\ prio_for_tokens(m) \in Nat \ {0}
  <1>1. current_avg_us[m] \in Nat \ {0} /\ Short(current_avg_us[m]) BY DEF AverageInv
  <1>2. my_time(m) = current_avg_us[m] BY <1>1 DEF my_time, Larger
  <1>3. my_priority[m] \in Int \cup {NaN} BY DEF ConfigInv
  <1>5. \A x \in Int \cup {NaN}, y \in Nat \ {0} : AtLeast(x, y) \in Nat \ {0}
    BY DEF AtLeast, Larger
  <1>6. (IF fixed_share_ratio[m] THEN 1 ELSE 100) \in Nat \ {0} OBVIOUS
  <1>4. prio_for_tokens(m) \in Nat \ {0} BY <1>3, <1>5, <1>6, Zenon DEF prio_for_tokens
  <1> QED BY <1>1, <1>2, <1>4

(* The anchor is a positive number.                                         *)
LEMMA AnchorFacts ==
  ASSUME AverageInv
  PROVE  anchor_speed_us \in Nat \ {0}
  <1> DEFINE S == {1} \cup {avg_kernel_time[n] : n \in {k \in Managers : is_active[k]}}
  <1>1. \A n \in Managers : avg_kernel_time[n] \in 0 .. U64 BY ConstantFacts DEF AverageInv
  <1>2. S \subseteq 0 .. U64 BY <1>1, ConstantFacts
  <1>3. 1 \in S OBVIOUS
  <1> HIDE DEF S
  <1>4. Max(S) \in S /\ \A y \in S : y <= Max(S) BY <1>2, <1>3, ConstantFacts, MaxIs
  <1>6. ASSUME NEW x \in S, \A y \in S : y <= x PROVE x \in Nat \ {0}
    <2>1. 1 <= x BY <1>3, <1>6
    <2>2. x \in 0 .. U64 BY <1>2
    <2> QED BY <2>1, <2>2, ConstantFacts
  <1>5. Max(S) \in Nat \ {0} BY <1>4, <1>6, Zenon
  <1> QED BY <1>5 DEF anchor_speed_us, S

(* What every plan of m with an anchor satisfies.                           *)
LEMMA PlanFacts ==
  ASSUME AverageInv, ConfigInv, NEW m \in Managers, NEW anchor \in Nat \ {0},
         NEW a \in SharePlansAt(m, anchor)
  PROVE  /\ a.base_tokens \in 1 .. MAX_TOKENS /\ a.tokens \in 1 .. MAX_TOKENS
         /\ a.expected_run_us = a.tokens * my_time(m) /\ a.expected_run_us \in Nat \ {0}
         /\ a.time_limit_us \in 0 .. U64 - 1
         /\ a.time_limit_us >= a.expected_run_us + GRACE_US
         /\ 100 * (a.expected_run_us * SCALE_DEN - BaseTokenTime(m))
              <= (prio_for_tokens(m) * anchor) * SCALE
         /\ \/ Capped(a)
            \/ (prio_for_tokens(m) * anchor) * SCALE
                 <= 100 * (a.expected_run_us * SCALE_DEN + TokenTime(m))
         /\ a.rest_wait_us \in RestWait(m, anchor)
  <1> DEFINE t == my_time(m)
             n == prio_for_tokens(m) * anchor
  <1> USE ConstantFacts
  <1>1. t \in Nat \ {0} /\ Short(t) BY PodFacts
  <1>2. n \in Nat \ {0}
    <2>1. prio_for_tokens(m) \in Nat \ {0} BY PodFacts
    <2> HIDE DEF n
    <2> QED BY <2>1 DEF n
  <1>13. PICK base \in BaseTokens(m, anchor) :
           \E k \in Tokens(base), rest \in RestWait(m, anchor) :
             a = [base_tokens |-> base, tokens |-> k,
                  expected_run_us |-> Larger(saturating_mul(k, t), 1),
                  time_limit_us   |-> TimeLimit(saturating_mul(k, t)),
                  rest_wait_us    |-> rest]
    BY DEF SharePlansAt
  <1>3. PICK k \in Tokens(base), rest \in RestWait(m, anchor) :
          a = [base_tokens |-> base, tokens |-> k,
               expected_run_us |-> Larger(saturating_mul(k, t), 1),
               time_limit_us   |-> TimeLimit(saturating_mul(k, t)),
               rest_wait_us    |-> rest]
    BY <1>13
  <1>4. PICK b \in RoundedUp(n, 100 * t) : base = Clamp(b, MIN_TOKENS, MAX_TOKENS)
    BY <1>13 DEF BaseTokens
  <1> HIDE DEF t, n
  <1>5. /\ base \in 1 .. MAX_TOKENS /\ (100 * t) * base <= n + 100 * t
        /\ base = MAX_TOKENS \/ n <= (100 * t) * base
    <2>1. 100 * t \in Nat \ {0} BY <1>1
    <2> QED BY <2>1, <1>2, <1>4, BaseIs
  <1>6. /\ k \in 1 .. MAX_TOKENS /\ (k = 1 \/ SCALE_DEN * k <= base * SCALE)
        /\ k = MAX_TOKENS \/ base * SCALE <= SCALE_DEN * k + SCALE_DEN
    BY <1>5, TokensIs
  <1>7. /\ saturating_mul(k, t) = k * t /\ k * t \in Nat \ {0}
        /\ TimeLimit(k * t) \in 0 .. U64 - 1 /\ TimeLimit(k * t) >= k * t + GRACE_US
    BY <1>1, <1>6, ShortRuns
  <1>8. Larger(k * t, 1) = k * t BY <1>7 DEF Larger
  <1>9. /\ a.base_tokens = base /\ a.tokens = k /\ a.expected_run_us = k * t
        /\ a.time_limit_us = TimeLimit(k * t) /\ a.rest_wait_us = rest
    <2>1. /\ a.base_tokens = base /\ a.tokens = k
          /\ a.expected_run_us = Larger(saturating_mul(k, t), 1)
          /\ a.time_limit_us = TimeLimit(saturating_mul(k, t)) /\ a.rest_wait_us = rest
      BY <1>3
    <2> QED BY <2>1, <1>7, <1>8, Zenon
  <1>10. 100 * ((k * t) * SCALE_DEN - t * Larger(SCALE, SCALE_DEN)) <= n * SCALE
    <2>1. n \in Nat /\ base \in Nat \ {0} /\ k \in Nat \ {0} BY <1>2, <1>5, <1>6
    <2> QED BY <2>1, <1>1, <1>5, <1>6, RunUpper, Zenon
  <1>11. Capped(a) \/ n * SCALE <= 100 * ((k * t) * SCALE_DEN + t * SCALE_DEN)
    <2>1. CASE base = MAX_TOKENS \/ k = MAX_TOKENS BY <2>1, <1>9 DEF Capped
    <2>2. CASE base # MAX_TOKENS /\ k # MAX_TOKENS
      BY <2>2, <1>1, <1>2, <1>5, <1>6, RunLower
    <2> QED BY <2>1, <2>2
  <1>12. t = my_time(m) /\ n = prio_for_tokens(m) * anchor BY DEF t, n
  <1>14. BaseTokenTime(m) = t * Larger(SCALE, SCALE_DEN) /\ TokenTime(m) = t * SCALE_DEN
    BY <1>12 DEF BaseTokenTime, TokenTime
  <1> QED BY <1>3, <1>5, <1>6, <1>7, <1>9, <1>10, <1>11, <1>12, <1>14, Zenon

----------------------------------------------------------------------------
(* One sample. *)

(* The clamped sample is on the side of the average the cost is on, and the *)
(* cost itself unless it exceeds four times the average or lies below a     *)
(* quarter.                                                                 *)
LEMMA ClampIs ==
  ASSUME NEW avg \in Nat \ {0}, avg < U64, NEW sample \in Nat, sample < U64,
         NEW cost, cost = Larger(sample, 1), NEW c, c = ClampedSample(avg, sample)
  PROVE  /\ c \in Nat \ {0} /\ cost \in Nat \ {0}
         /\ avg > cost => cost <= c /\ c < avg
         /\ avg < cost => avg < c /\ c <= cost /\ (c = cost \/ c = 4 * avg)
         /\ avg = cost => c = avg
  <1> USE ConstantFacts
  <1> DEFINE lo == Larger(avg \div 4, 1)
             hi == Larger(saturating_mul(avg, 4), 1)
  <1>1. cost \in Nat \ {0} /\ cost < U64 /\ (cost = sample \/ (sample = 0 /\ cost = 1))
    BY DEF Larger
  <1>2. lo \in Nat \ {0} /\ lo <= avg /\ (avg > 1 => lo < avg) BY DEF Larger
  <1>3. hi \in Nat \ {0} /\ hi >= avg /\ (hi = 4 * avg \/ hi = U64 - 1)
    BY DEF Larger, Smaller, saturating_mul
  <1> HIDE DEF lo, hi
  <1>4. c = Larger(lo, Smaller(sample, hi)) BY DEF ClampedSample, Clamp, lo, hi
  <1> QED BY <1>1, <1>2, <1>3, <1>4 DEF Larger, Smaller

(* The slack is 100/ALPHA, rounded down.                                    *)
LEMMA SlackIs == Slack \in Nat /\ 100 < ALPHA * Slack + ALPHA
  <1> USE ConstantFacts
  <1>1. ALPHA \in Nat \ {0} OBVIOUS
  <1>2. 100 \div ALPHA \in Int /\ 100 < ALPHA * (100 \div ALPHA) + ALPHA BY <1>1, Division
  <1>3. ASSUME NEW q \in Int, 100 < ALPHA * q + ALPHA PROVE q \in Nat BY <1>1, <1>3
  <1> QED BY <1>2, <1>3 DEF Slack

(* The new average, before it is truncated, in hundredths.                  *)
Weighted(avg, c) == avg * (100 - ALPHA) + c * ALPHA

(* It lies between the average and the clamped sample, and differs from both *)
(* by a twentieth at least.                                                 *)
LEMMA WeightedIs ==
  ASSUME NEW avg \in Nat \ {0}, NEW c \in Nat \ {0}, NEW n, n = Weighted(avg, c)
  PROVE  /\ n \in Nat
         /\ c < avg => 100 * c + 5 <= n /\ n <= 100 * avg - 5
         /\ c > avg => 100 * avg + 5 <= n /\ n <= 100 * c - 5
         /\ c = avg => n = 100 * avg
         /\ c - avg > Slack => n > 100 * avg + 100
  <1> USE ConstantFacts
  <1> DEFINE up == c - avg
             e  == up * ALPHA
  <1>1. n = 100 * avg + e /\ e \in Int BY DEF Weighted
  <1>2. up < 0 => e <= -5 /\ 95 * up <= e
    <2>1. ASSUME up < 0 PROVE e <= -5 /\ 95 * up <= e
      <3>1. (0 - up) * 5 <= (0 - up) * ALPHA /\ (0 - up) * ALPHA <= (0 - up) * 95 BY <2>1, Monotone
      <3>2. (0 - up) * ALPHA = 0 - e OBVIOUS
      <3> QED BY <2>1, <3>1, <3>2
    <2> QED BY <2>1
  <1>3. up > 0 => e >= 5 /\ e <= 95 * up
    <2>1. ASSUME up > 0 PROVE e >= 5 /\ e <= 95 * up
      <3>1. up * 5 <= up * ALPHA /\ up * ALPHA <= up * 95 BY <2>1, Monotone
      <3> QED BY <2>1, <3>1
    <2> QED BY <2>1
  <1>4. up = 0 => e = 0 OBVIOUS
  <1>5. up > Slack => e > 100
    <2>1. ASSUME up > Slack PROVE e > 100
      <3>1. Slack \in Nat /\ 100 < ALPHA * Slack + ALPHA BY SlackIs
      <3>2. (Slack + 1) * ALPHA <= up * ALPHA BY <2>1, <3>1, Monotone
      <3>3. (Slack + 1) * ALPHA = ALPHA * Slack + ALPHA BY <3>1
      <3> QED BY <3>1, <3>2, <3>3
    <2> QED BY <2>1
  <1>6. Slack \in Nat BY SlackIs
  <1> HIDE DEF e
  <1> QED BY <1>1, <1>2, <1>3, <1>4, <1>5, <1>6

(* A sample moves the average towards the cost, and it stays positive.      *)
LEMMA SampleApproaches ==
  ASSUME NEW avg \in Nat \ {0}, avg < U64, NEW sample \in Nat, sample < U64,
         NEW new \in NewAvg(avg, sample)
  PROVE  /\ new \in Nat \ {0}
         /\ new <= avg \/ new <= Larger(sample, 1)
         /\ Approaches(avg, new, Larger(sample, 1))
  <1> USE ConstantFacts
  <1> DEFINE c == ClampedSample(avg, sample)
             cost == Larger(sample, 1)
             n == Weighted(avg, c)
  <1> HIDE DEF c, cost
  <1>1. /\ c \in Nat \ {0} /\ cost \in Nat \ {0}
        /\ avg > cost => cost <= c /\ c < avg
        /\ avg < cost => avg < c /\ c <= cost /\ (c = cost \/ c = 4 * avg)
        /\ avg = cost => c = avg
    BY ClampIs DEF c, cost
  <1> HIDE DEF n
  <1>2. /\ n \in Nat
        /\ c < avg => 100 * c + 5 <= n /\ n <= 100 * avg - 5
        /\ c > avg => 100 * avg + 5 <= n /\ n <= 100 * c - 5
        /\ c = avg => n = 100 * avg
        /\ c - avg > Slack => n > 100 * avg + 100
    BY <1>1, WeightedIs DEF n
  <1>3. new \in Truncated(n, 100) BY DEF NewAvg, Weighted, n, c
  <1>4. \/ new = n \div 100
        \/ new = n \div 100 - 1 /\ n % 100 = 0 /\ n > 100
    BY <1>3 DEF Truncated
  <1>5. Slack \in Nat BY SlackIs
  <1>6. /\ avg > cost => cost <= new /\ new < avg
        /\ avg < cost => avg <= new /\ new <= cost
        /\ avg = cost => new \in {avg - 1, avg}
        /\ new \in Nat \ {0}
    BY <1>1, <1>2, <1>4
  <1>7. cost - avg > Slack /\ 3 * avg > Slack => avg < new
    <2>1. ASSUME cost - avg > Slack, 3 * avg > Slack PROVE avg < new
      <3>2. c - avg > Slack BY <1>1, <1>5, <2>1
      <3>3. n > 100 * avg + 100 BY <1>2, <3>2
      <3> QED BY <1>2, <1>4, <3>3
    <2> QED BY <2>1
  <1> QED BY <1>1, <1>6, <1>7 DEF Approaches, cost

----------------------------------------------------------------------------
(* The steps. *)

(* A pod whose average and configuration stay has the same plans.           *)
LEMMA PlansKept ==
  ASSUME NEW m \in Managers, current_avg_us'[m] = current_avg_us[m], UNCHANGED config,
         plan' = plan, Planned(m)
  PROVE  Planned(m)'
  <1>1. /\ my_time(m)' = my_time(m)
        /\ prio_for_tokens(m)' = prio_for_tokens(m)
        /\ fixed_share_ratio' = fixed_share_ratio /\ my_priority' = my_priority
    BY DEF my_time, prio_for_tokens, config
  <1>2. ASSUME NEW anchor PROVE SharePlansAt(m, anchor)' = SharePlansAt(m, anchor)
    <2>1. BaseTokens(m, anchor)' = BaseTokens(m, anchor) BY <1>1 DEF BaseTokens
    <2>2. RestWait(m, anchor)' = RestWait(m, anchor) BY <1>1 DEF RestWait
    <2> QED BY <1>1, <2>1, <2>2 DEF SharePlansAt
  <1> QED BY <1>2 DEF Planned

(* Steps that plan nothing and leave averages and configuration alone.      *)
LEMMA PlainKept ==
  ASSUME Inv, UNCHANGED <<current_avg_us, config, plan>>,
         avg_kernel_time' = avg_kernel_time,
         NEW m \in Managers, pc[m] # "run",
         NEW to \in {"off", "register", "wait", "rest", "plan"},
         pc' = [pc EXCEPT ![m] = to],
         to \in {"rest", "plan"} => holder' = m,
         \/ holder' = holder
         \/ holder = Nobody /\ holder' = m
  PROVE  Inv'
  <1>1. AverageInv' BY DEF Inv, AverageInv
  <1>2. ConfigInv' BY DEF Inv, ConfigInv, config
  <1>3. HolderInv' BY NobodyAssumption DEF Inv, HolderInv
  <1>4. \A n \in Managers : pc'[n] = "run" <=> pc[n] = "run" BY DEF Inv, HolderInv
  <1>5. ASSUME NEW n \in Managers, pc'[n] = "run" PROVE Planned(n)'
    <2>1. Planned(n) BY <1>4, <1>5 DEF Inv, PlanInv
    <2> QED BY <2>1, PlansKept
  <1>6. (\A n \in Managers : pc'[n] # "run") => plan' = NoPlan
    BY <1>4 DEF Inv, PlanInv
  <1>7. PlanInv' BY <1>5, <1>6 DEF PlanInv
  <1> QED BY <1>1, <1>2, <1>3, <1>7 DEF Inv

(* The invariant holds before the first pod comes.                          *)
LEMMA InitInv == Init => Inv /\ Flags
  <1> SUFFICES ASSUME Init PROVE Inv /\ Flags
    OBVIOUS
  <1> USE ConstantFacts DEF Init
  <1>1. Short(DEFAULT_AVG_US) BY DurationsAssumption
  <1>2. AverageInv BY <1>1 DEF AverageInv
  <1>3. ConfigInv
    <2>1. \A v \in EnvPriority : PriorityOf(v) \in Int \cup {NaN}
      BY NumbersAssumption DEF PriorityOf, DEFAULT_PRIORITY
    <2>2. {PriorityOf(v) : v \in EnvPriority} \subseteq Int \cup {NaN} BY <2>1
    <2> QED BY <2>2 DEF ConfigInv
  <1>4. HolderInv BY DEF HolderInv
  <1>5. PlanInv BY DEF PlanInv
  <1>6. Flags BY Zenon DEF Flags
  <1> QED BY <1>2, <1>3, <1>4, <1>5, <1>6 DEF Inv

(* Register, TakeTurn and HonorFixedRestWait only move the pod.             *)
LEMMA MoveInv ==
  ASSUME Inv, NEW m \in Managers, Register(m) \/ TakeTurn(m) \/ HonorFixedRestWait(m)
  PROVE  Inv'
  <1>1. CASE Register(m) BY <1>1, PlainKept DEF Register, Goto
  <1>2. CASE TakeTurn(m) BY <1>2, PlainKept DEF TakeTurn, Goto, slots
  <1>3. CASE HonorFixedRestWait(m)
    <2>1. holder = m BY <1>3 DEF HonorFixedRestWait, Goto, Inv, HolderInv
    <2> QED BY <1>3, <2>1, PlainKept DEF HonorFixedRestWait, Goto, slots
  <1> QED BY <1>1, <1>2, <1>3

(* A newcomer's average is the default; nobody's plan rests on it yet.      *)
LEMMA StoreDefaultAvgInv ==
  ASSUME Inv, NEW m \in Managers, StoreDefaultAvg(m)
  PROVE  Inv'
  <1> USE ConstantFacts DEF StoreDefaultAvg, Goto
  <1>1. Short(DEFAULT_AVG_US) /\ DEFAULT_AVG_US < U64
    <2>1. Short(DEFAULT_AVG_US) BY DurationsAssumption
    <2>2. 1 \in 1 .. MAX_TOKENS OBVIOUS
    <2> QED BY <2>1, <2>2, ShortRuns
  <1>2. AverageInv' BY <1>1 DEF Inv, AverageInv
  <1>3. ConfigInv' BY DEF Inv, ConfigInv, config
  <1>4. HolderInv' BY DEF Inv, HolderInv
  <1>5. \A n \in Managers : (pc'[n] = "run" <=> pc[n] = "run") /\ (pc[n] = "run" => n # m)
    BY DEF Inv, HolderInv
  <1>6. ASSUME NEW n \in Managers, pc'[n] = "run" PROVE Planned(n)'
    <2>1. Planned(n) /\ n # m BY <1>5, <1>6 DEF Inv, PlanInv
    <2>2. current_avg_us'[n] = current_avg_us[n] BY <2>1 DEF Inv, AverageInv
    <2> QED BY <2>1, <2>2, PlansKept
  <1>7. (\A n \in Managers : pc'[n] # "run") => plan' = NoPlan BY <1>5 DEF Inv, PlanInv
  <1> QED BY <1>2, <1>3, <1>4, <1>6, <1>7 DEF Inv, PlanInv

(* A pod that fails in its slice takes the slice and the plan with it.      *)
LEMMA LeaveInv ==
  ASSUME Inv, NEW m \in Managers, Leave(m)
  PROVE  Inv'
  <1> USE DEF Leave
  <1>1. AverageInv' BY DEF Inv, AverageInv
  <1>2. ConfigInv' BY DEF Inv, ConfigInv, config
  <1>3. HolderInv' BY DEF Inv, HolderInv
  <1>4. \A n \in Managers : pc'[n] = "run" => pc[n] = "run" /\ n # m /\ holder = n
    BY DEF Inv, HolderInv
  <1>5. ASSUME NEW n \in Managers, pc'[n] = "run" PROVE Planned(n)'
    <2>1. Planned(n) /\ plan' = plan BY <1>4, <1>5 DEF Inv, PlanInv
    <2> QED BY <2>1, PlansKept
  <1>6. (\A n \in Managers : pc'[n] # "run") => plan' = NoPlan
    <2>1. ASSUME NEW n \in Managers, pc'[n] # "run", holder # m PROVE pc[n] # "run"
      BY <2>1 DEF Inv, HolderInv
    <2> QED BY <2>1 DEF Inv, PlanInv
  <1> QED BY <1>1, <1>2, <1>3, <1>5, <1>6 DEF Inv, PlanInv

(* A plan is computed by the holder, for itself.                            *)
LEMMA CalculateInv ==
  ASSUME Inv, NEW m \in Managers, CalculateFairShare(m)
  PROVE  Inv'
  <1> USE DEF CalculateFairShare, Goto
  <1>1. AverageInv' BY DEF Inv, AverageInv, slots
  <1>2. ConfigInv' BY DEF Inv, ConfigInv, config
  <1>3. HolderInv' BY DEF Inv, HolderInv
  <1>4. \A n \in Managers : pc'[n] = "run" => n = m BY DEF Inv, HolderInv
  <1>5. Planned(m)'
    <2>1. anchor_speed_us \in Nat \ {0} BY AnchorFacts DEF Inv
    <2>2. plan' \in SharePlansAt(m, anchor_speed_us) BY DEF SharePlans
    <2>3. PICK anchor \in Nat \ {0} : plan' \in SharePlansAt(m, anchor) BY <2>1, <2>2
    <2>4. SharePlansAt(m, anchor)' = SharePlansAt(m, anchor)
      BY DEF SharePlansAt, BaseTokens, RestWait, prio_for_tokens, my_time, config
    <2> QED BY <2>3, <2>4 DEF Planned
  <1>6. pc'[m] = "run" BY DEF Inv, HolderInv
  <1> QED BY <1>1, <1>2, <1>3, <1>4, <1>5, <1>6 DEF Inv, PlanInv

(* What a round reports of a kernel is short, for a batch is.               *)
LEMMA SampleShort ==
  ASSUME NEW duration \in Durations, duration > 0, NEW used \in Nat \ {0}
  PROVE  /\ duration \div used \in Nat /\ duration \div used < U64
         /\ Short(Larger(duration \div used, 1))
  <1> USE ConstantFacts
  <1> DEFINE q == duration \div used
  <1>1. duration \in Nat \ {0} /\ Short(duration) BY NumbersAssumption, DurationsAssumption
  <1>2. q \in Int /\ used * q <= duration /\ duration < used * q + used BY <1>1, Division
  <1> HIDE DEF q
  <1>3. q >= 0 /\ q <= duration BY <1>1, <1>2
  <1>4. 1 \in 1 .. MAX_TOKENS OBVIOUS
  <1>5. duration < U64 BY <1>1, <1>4, ShortRuns
  <1>6. Larger(q, 1) \in Nat /\ Larger(q, 1) <= duration BY <1>1, <1>2, <1>3 DEF Larger
  <1>7. MAX_TOKENS * Larger(q, 1) <= MAX_TOKENS * duration BY <1>1, <1>6, Monotone
  <1>8. MAX_TOKENS * Larger(q, 1) \in Int /\ MAX_TOKENS * duration \in Int BY <1>1, <1>6
  <1>9. Short(Larger(q, 1)) BY <1>1, <1>7, <1>8 DEF Short
  <1> QED BY <1>2, <1>3, <1>5, <1>9, <1>1 DEF q

(* A shorter average is short.                                              *)
LEMMA ShortBelow ==
  ASSUME NEW a \in Nat, NEW b \in Nat, a <= b, Short(b)
  PROVE  Short(a)
  <1>1. MAX_TOKENS * a <= MAX_TOKENS * b /\ MAX_TOKENS * a \in Int /\ MAX_TOKENS * b \in Int
    BY ConstantFacts, Monotone
  <1> QED BY <1>1, ConstantFacts DEF Short

(* The statistics of a round keep the averages positive and short, and move *)
(* the pod's towards the cost.                                              *)
LEMMA StatsInv ==
  ASSUME AverageInv, NEW m \in Managers, NEW duration \in Durations, NEW used \in Nat,
         UpdateLocalStats(m, duration, used)
  PROVE  /\ AverageInv'
         /\ used > 0 /\ duration > 0 =>
              Approaches(current_avg_us[m], current_avg_us'[m], Larger(duration \div used, 1))
  <1> USE ConstantFacts
  <1>0. duration \in Nat BY NumbersAssumption
  <1>1. CASE used = 0 \/ duration = 0
    <2>1. UNCHANGED <<current_avg_us, avg_kernel_time>>
      BY <1>0, <1>1 DEF UpdateLocalStats
    <2> QED BY <1>0, <1>1, <2>1 DEF AverageInv
  <1>2. CASE used > 0 /\ duration > 0
    <2> DEFINE avg == current_avg_us[m]
               q == duration \div used
    <2>1. PICK new \in NewAvg(avg, q) :
            /\ current_avg_us' = [current_avg_us EXCEPT ![m] = new]
            /\ avg_kernel_time' = [avg_kernel_time EXCEPT ![m] = new]
      BY <1>2 DEF UpdateLocalStats, Sample
    <2>2. avg \in Nat \ {0} /\ Short(avg) BY DEF AverageInv
    <2>3. 1 \in 1 .. MAX_TOKENS OBVIOUS
    <2>4. avg < U64 BY <2>2, <2>3, ShortRuns
    <2>5. q \in Nat /\ q < U64 /\ Short(Larger(q, 1)) BY <1>2, SampleShort
    <2> HIDE DEF avg, q
    <2>6. /\ new \in Nat \ {0} /\ Approaches(avg, new, Larger(q, 1))
          /\ new <= avg \/ new <= Larger(q, 1)
      BY <2>1, <2>2, <2>4, <2>5, SampleApproaches
    <2>7. Larger(q, 1) \in Nat BY <2>5 DEF Larger
    <2>8. Short(new) BY <2>2, <2>5, <2>6, <2>7, ShortBelow
    <2>9. new < U64 BY <2>3, <2>6, <2>8, ShortRuns
    <2>10. current_avg_us'[m] = new BY <2>1 DEF AverageInv
    <2>11. AverageInv' BY <2>1, <2>6, <2>8, <2>9 DEF AverageInv
    <2> QED BY <2>6, <2>10, <2>11 DEF avg, q
  <1> QED BY <1>0, <1>1, <1>2

(* A round ends the slice and its plan.                                     *)
LEMMA RoundInv ==
  ASSUME Inv, NEW m \in Managers, NEW duration \in Durations, NEW used \in 0 .. MAX_TOKENS,
         Round(m, duration, used)
  PROVE  Inv'
  <1> USE DEF Round, Goto
  <1>1. used \in Nat BY ConstantFacts
  <1>2. AverageInv' BY <1>1, StatsInv DEF Inv
  <1>3. ConfigInv' BY DEF Inv, ConfigInv, config
  <1>4. HolderInv' BY DEF Inv, HolderInv
  <1>5. \A n \in Managers : pc'[n] # "run" BY DEF Inv, HolderInv
  <1> QED BY <1>2, <1>3, <1>4, <1>5 DEF Inv, PlanInv

(* Every step keeps the invariant.                                          *)
LEMMA NextInv == Inv /\ [Next]_vars => Inv'
  <1> SUFFICES ASSUME Inv, [Next]_vars PROVE Inv'
    OBVIOUS
  <1>1. CASE UNCHANGED vars
    <2>1. AverageInv' BY <1>1 DEF Inv, AverageInv, vars, slots
    <2>2. ConfigInv' BY <1>1 DEF Inv, ConfigInv, vars, config
    <2>3. HolderInv' BY <1>1 DEF Inv, HolderInv, vars
    <2>4. ASSUME NEW n \in Managers, pc'[n] = "run" PROVE Planned(n)'
      <3>1. Planned(n) BY <1>1, <2>4 DEF Inv, PlanInv, vars
      <3> QED BY <1>1, <3>1, PlansKept DEF vars
    <2>5. (\A n \in Managers : pc'[n] # "run") => plan' = NoPlan
      BY <1>1 DEF Inv, PlanInv, vars
    <2> QED BY <2>1, <2>2, <2>3, <2>4, <2>5 DEF Inv, PlanInv
  <1>2. ASSUME NEW m \in Managers, Register(m) \/ TakeTurn(m) \/ HonorFixedRestWait(m) PROVE Inv'
    BY <1>2, MoveInv
  <1>3. ASSUME NEW m \in Managers, StoreDefaultAvg(m) PROVE Inv' BY <1>3, StoreDefaultAvgInv
  <1>4. ASSUME NEW m \in Managers, Leave(m) PROVE Inv' BY <1>4, LeaveInv
  <1>5. ASSUME NEW m \in Managers, CalculateFairShare(m) PROVE Inv' BY <1>5, CalculateInv
  <1>6. ASSUME NEW m \in Managers, NEW duration \in Durations, NEW used \in 0 .. MAX_TOKENS,
               Round(m, duration, used)
        PROVE  Inv'
    BY <1>6, RoundInv
  <1> QED BY <1>1, <1>2, <1>3, <1>4, <1>5, <1>6, Zenon DEF Next

(* The Boolean variables stay Boolean.                                      *)
LEMMA NextFlags == Inv /\ Flags /\ [Next]_vars => Flags'
  <1> SUFFICES ASSUME Inv, Flags, [Next]_vars PROVE Flags'
    OBVIOUS
  <1> USE DEF Flags
  <1>1. CASE UNCHANGED vars BY <1>1 DEF vars, slots
  <1>2. ASSUME NEW m \in Managers, \/ Register(m) \/ StoreDefaultAvg(m) \/ Leave(m)
                                   \/ TakeTurn(m) \/ HonorFixedRestWait(m)
                                   \/ CalculateFairShare(m)
        PROVE  Flags'
    BY <1>2 DEF Register, StoreDefaultAvg, Leave, TakeTurn, HonorFixedRestWait,
                CalculateFairShare, slots
  <1>3. ASSUME NEW m \in Managers, NEW duration \in Durations, NEW used \in 0 .. MAX_TOKENS,
               Round(m, duration, used)
        PROVE  Flags'
    <2>1. (fixed_share_ratio[m] /\ plan.rest_wait_us > 0) \in BOOLEAN OBVIOUS
    <2> QED BY <1>3, <2>1, Zenon DEF Round, ScheduleRestWait
  <1> QED BY <1>1, <1>2, <1>3, Zenon DEF Next

----------------------------------------------------------------------------
(* Theorems. *)

(* The invariant holds always.                                              *)
LEMMA AlwaysInv == Spec => [](Inv /\ Flags)
  BY InitInv, NextInv, NextFlags, PTL DEF Spec

(* The plan under way is one of the holder's.                               *)
LEMMA CurrentPlan ==
  ASSUME Inv
  PROVE  plan = NoPlan \/ \E m \in Managers, anchor \in Nat \ {0} : plan \in SharePlansAt(m, anchor)
  BY DEF Inv, PlanInv, Planned

(* Types: in particular no average reaches 0 or 2^64, whatever the samples. *)
THEOREM TypeCorrect == Spec => []TypeOK
  <1>1. Inv /\ Flags => TypeOK
    <2> SUFFICES ASSUME Inv, Flags PROVE TypeOK
      OBVIOUS
    <2> USE ConstantFacts
    <2>1. 1 \in 1 .. MAX_TOKENS OBVIOUS
    <2>2. ASSUME NEW m \in Managers PROVE current_avg_us[m] \in 1 .. U64 - 1
      <3>1. current_avg_us[m] \in Nat \ {0} /\ Short(current_avg_us[m]) BY DEF Inv, AverageInv
      <3>2. current_avg_us[m] < U64 BY <3>1, <2>1, ShortRuns
      <3> QED BY <3>1, <3>2
    <2>3. current_avg_us \in [Managers -> 1 .. U64 - 1] BY <2>2 DEF Inv, AverageInv
    <2>4. avg_kernel_time \in [Managers -> 0 .. U64 - 1] BY DEF Inv, AverageInv
    <2>5. plan.tokens \in 0 .. MAX_TOKENS /\ plan.time_limit_us \in 0 .. U64 - 1
      <3>1. CASE plan = NoPlan BY <3>1 DEF NoPlan
      <3>2. ASSUME NEW m \in Managers, NEW anchor \in Nat \ {0}, plan \in SharePlansAt(m, anchor)
            PROVE  plan.tokens \in 0 .. MAX_TOKENS /\ plan.time_limit_us \in 0 .. U64 - 1
        <4>1. plan.tokens \in 1 .. MAX_TOKENS /\ plan.time_limit_us \in 0 .. U64 - 1
          BY <3>2, PlanFacts DEF Inv
        <4> QED BY <4>1
      <3> QED BY <3>1, <3>2, CurrentPlan
    <2> QED BY <2>3, <2>4, <2>5 DEF TypeOK, Flags, Inv, HolderInv
  <1> QED BY <1>1, AlwaysInv, PTL

(* The time limit of a batch covers its budget and the grace period: no     *)
(* sum or product of calculate_fair_share wraps around.                     *)
THEOREM TimeLimitsDoNotWrap == Spec => []TimeoutCoversBudget
  <1>1. Inv => TimeoutCoversBudget
    <2> SUFFICES ASSUME Inv, plan # NoPlan
                 PROVE  plan.time_limit_us >= plan.expected_run_us + GRACE_US
      BY DEF TimeoutCoversBudget
    <2>1. PICK m \in Managers, anchor \in Nat \ {0} : plan \in SharePlansAt(m, anchor)
      BY CurrentPlan
    <2> QED BY <2>1, PlanFacts DEF Inv
  <1> QED BY <1>1, AlwaysInv, PTL

(* Two runs whose lengths are within a grain of their priorities are within *)
(* a grain of each other.                                                   *)
LEMMA Proportional ==
  ASSUME NEW x \in Int, NEW y \in Int, NEW p \in Nat, NEW q \in Nat, NEW A \in Nat, NEW S \in Nat,
         100 * x <= (p * A) * S, (q * A) * S <= 100 * y
  PROVE  x * q <= y * p
  <1>1. (100 * x) * q <= ((p * A) * S) * q BY Monotone
  <1>2. ((q * A) * S) * p <= (100 * y) * p BY Monotone
  <1>3. ((p * A) * S) * q = ((q * A) * S) * p OBVIOUS
  <1>4. (100 * x) * q = 100 * (x * q) /\ (100 * y) * p = 100 * (y * p) OBVIOUS
  <1>5. x * q \in Int /\ y * p \in Int /\ ((q * A) * S) * p \in Int OBVIOUS
  <1> QED BY <1>1, <1>2, <1>3, <1>4, <1>5

(* calculate_fair_share: run times are in the ratio of the priorities, to   *)
(* the grain of a token, for any two pods that plan with the same anchor.   *)
THEOREM RunsFollowPriority == Spec => []ShareByPriority
  <1>1. Inv => ShareByPriority
    <2> SUFFICES ASSUME Inv, NEW m \in Managers, NEW n \in Managers,
                        NEW a \in SharePlans(m), NEW b \in SharePlans(n), ~Capped(b)
                 PROVE  (a.expected_run_us * SCALE_DEN - BaseTokenTime(m)) * prio_for_tokens(n)
                          <= (b.expected_run_us * SCALE_DEN + TokenTime(n)) * prio_for_tokens(m)
      BY Zenon DEF ShareByPriority, Managing
    <2> USE ConstantFacts
    <2> DEFINE x == a.expected_run_us * SCALE_DEN - BaseTokenTime(m)
               y == b.expected_run_us * SCALE_DEN + TokenTime(n)
    <2>1. anchor_speed_us \in Nat \ {0} BY AnchorFacts DEF Inv
    <2>2. PICK A \in Nat \ {0} : A = anchor_speed_us BY <2>1
    <2>3. a \in SharePlansAt(m, A) /\ b \in SharePlansAt(n, A) BY <2>2 DEF SharePlans
    <2>4. a.expected_run_us \in Nat /\ 100 * x <= (prio_for_tokens(m) * A) * SCALE
      BY <2>3, PlanFacts DEF Inv
    <2>5. b.expected_run_us \in Nat /\ (prio_for_tokens(n) * A) * SCALE <= 100 * y
      BY <2>3, PlanFacts DEF Inv
    <2>6. prio_for_tokens(m) \in Nat /\ prio_for_tokens(n) \in Nat
          /\ my_time(m) \in Nat /\ my_time(n) \in Nat
      BY PodFacts DEF Inv
    <2>7. Larger(SCALE, SCALE_DEN) \in Nat BY DEF Larger
    <2>8. x \in Int /\ y \in Int BY <2>4, <2>5, <2>6, <2>7 DEF BaseTokenTime, TokenTime
    <2> HIDE DEF x, y
    <2>9. x * prio_for_tokens(n) <= y * prio_for_tokens(m)
      BY <2>2, <2>4, <2>5, <2>6, <2>8, Proportional
    <2> QED BY <2>9 DEF x, y
  <1> QED BY <1>1, AlwaysInv, PTL

(* In fixed mode a priority in its range is what the tokens are planned with. *)
LEMMA FixedPriority ==
  ASSUME NEW m \in Managers, fixed_share_ratio[m], my_priority[m] \in 100 .. 10000
  PROVE  prio_for_tokens(m) = my_priority[m]
  <1> DEFINE on == my_priority[m]
  <1>1. on \in 100 .. 10000 OBVIOUS
  <1>2. prio_for_tokens(m) = AtLeast(on, 1) BY DEF prio_for_tokens
  <1> HIDE DEF on
  <1>3. on # NaN BY <1>1, NumbersAssumption
  <1>4. AtLeast(on, 1) = on BY <1>1, <1>3 DEF AtLeast, Larger
  <1> QED BY <1>2, <1>4 DEF on

(* The rest of a plan in fixed mode is that of the off-duty share, to a     *)
(* microsecond.                                                             *)
LEMMA RestIs ==
  ASSUME ConfigInv, NEW m \in Managers, NEW anchor \in Nat \ {0},
         fixed_share_ratio[m], my_priority[m] \in 100 .. 10000,
         NEW rest \in RestWait(m, anchor), NEW off \in Nat, off = 10000 - my_priority[m]
  PROVE  /\ rest \in Nat
         /\ 100 * (rest * SCALE_DEN - SCALE_DEN) <= (off * anchor) * SCALE
         /\ (off * anchor) * SCALE <= 100 * (rest * SCALE_DEN + SCALE_DEN)
  <1> USE ConstantFacts
  <1> DEFINE on == my_priority[m]
  <1>0. on \in 100 .. 10000 OBVIOUS
  <1> HIDE DEF on
  <1>2. Clamp(on, 100, 10000) = on BY <1>0 DEF Clamp, Larger, Smaller
  <1>7. on # NaN BY <1>0, NumbersAssumption
  <1>3. rest \in Rounded(off * anchor * SCALE, 100 * SCALE_DEN) BY <1>2, <1>7 DEF RestWait, on
  <1>4. off * anchor * SCALE \in Nat /\ 100 * SCALE_DEN \in Nat \ {0} OBVIOUS
  <1>5. /\ rest \in Nat
        /\ (100 * SCALE_DEN) * rest <= off * anchor * SCALE + 100 * SCALE_DEN
        /\ off * anchor * SCALE <= (100 * SCALE_DEN) * rest + 100 * SCALE_DEN
    BY <1>3, <1>4, RoundedIs
  <1>6. (100 * SCALE_DEN) * rest = 100 * (rest * SCALE_DEN) /\ rest * SCALE_DEN \in Int BY <1>5
  <1> QED BY <1>4, <1>5, <1>6

(* schedule_rest_wait: in fixed mode running and resting are in the ratio   *)
(* of the pod's share, whatever its kernels and those of the others cost,   *)
(* and whoever joins, leaves or runs between the plan and the rest.         *)
THEOREM RestsFollowPriority == Spec => []DutyCycle
  <1>1. Inv => DutyCycle
    <2> SUFFICES ASSUME Inv, NEW m \in Managers,
                        pc[m] = "run", fixed_share_ratio[m], my_priority[m] \in 100 .. 10000
                 PROVE  LET on   == my_priority[m]
                            off  == 10000 - on
                            run  == plan.expected_run_us * SCALE_DEN
                            rest == plan.rest_wait_us * SCALE_DEN
                        IN /\ (run - BaseTokenTime(m)) * off <= (rest + SCALE_DEN) * on
                           /\ \/ Capped(plan)
                              \/ (rest - SCALE_DEN) * on <= (run + TokenTime(m)) * off
      BY DEF DutyCycle
    <2> USE ConstantFacts
    <2> DEFINE on   == my_priority[m]
               off  == 10000 - on
               rest == plan.rest_wait_us * SCALE_DEN
               x == plan.expected_run_us * SCALE_DEN - BaseTokenTime(m)
               y == plan.expected_run_us * SCALE_DEN + TokenTime(m)
    <2>1. PICK A \in Nat \ {0} : plan \in SharePlansAt(m, A) BY DEF Inv, PlanInv, Planned
    <2>10. on \in 100 .. 10000 OBVIOUS
    <2>11. prio_for_tokens(m) = on BY FixedPriority
    <2> HIDE DEF on
    <2>2. prio_for_tokens(m) = on /\ on \in Nat BY <2>10, <2>11
    <2>3. /\ plan.expected_run_us \in Nat /\ 100 * x <= (on * A) * SCALE
          /\ Capped(plan) \/ (on * A) * SCALE <= 100 * y
          /\ plan.rest_wait_us \in RestWait(m, A)
      BY <2>1, <2>2, PlanFacts DEF Inv
    <2>12. off \in Nat BY <2>10
    <2>4. /\ plan.rest_wait_us \in Nat
          /\ 100 * (rest - SCALE_DEN) <= (off * A) * SCALE
          /\ (off * A) * SCALE <= 100 * (rest + SCALE_DEN)
      BY <2>3, <2>12, RestIs DEF Inv, on
    <2>5. my_time(m) \in Nat BY PodFacts DEF Inv
    <2>6. Larger(SCALE, SCALE_DEN) \in Nat BY DEF Larger
    <2>7. x \in Int /\ y \in Int /\ rest - SCALE_DEN \in Int /\ rest + SCALE_DEN \in Int
      BY <2>3, <2>4, <2>5, <2>6 DEF BaseTokenTime, TokenTime
    <2> HIDE DEF on, off, rest, x, y
    <2>8. x * off <= (rest + SCALE_DEN) * on BY <2>2, <2>3, <2>4, <2>7, <2>12, Proportional
    <2>9. Capped(plan) \/ (rest - SCALE_DEN) * on <= y * off
      BY <2>2, <2>3, <2>4, <2>7, <2>12, Proportional
    <2> QED BY <2>8, <2>9 DEF on, off, rest, x, y
  <1> QED BY <1>1, AlwaysInv, PTL

(* update_local_stats: a measured batch moves the average towards its cost. *)
THEOREM AveragesApproach == Spec => AverageApproachesCost
  <1> DEFINE Moves ==
        \A m \in Managers : batch' # batch /\ batch'.pod = m
          => Approaches(current_avg_us[m], current_avg_us'[m], Larger(batch'.cost, 1))
  <1>1. Inv /\ [Next]_vars => Moves \/ UNCHANGED vars
    <2> SUFFICES ASSUME Inv, Next, NEW n \in Managers, batch' # batch, batch'.pod = n
                 PROVE  Approaches(current_avg_us[n], current_avg_us'[n], Larger(batch'.cost, 1))
      OBVIOUS
    <2>1. batch' # NoBatch BY NobodyAssumption DEF NoBatch
    <2>2. PICK m \in Managers, duration \in Durations, used \in 0 .. MAX_TOKENS :
            Round(m, duration, used)
      BY <2>1 DEF Next, Register, StoreDefaultAvg, Leave, TakeTurn, HonorFixedRestWait,
                  CalculateFairShare
    <2>3. used > 0 /\ duration > 0 /\ batch' = [pod |-> m, cost |-> duration \div used]
      BY <2>1, <2>2 DEF Round
    <2>4. n = m /\ batch'.cost = duration \div used BY <2>3
    <2>5. used \in Nat BY ConstantFacts
    <2>6. Approaches(current_avg_us[m], current_avg_us'[m], Larger(duration \div used, 1))
      BY <2>2, <2>3, <2>5, StatsInv DEF Inv, Round
    <2> QED BY <2>4, <2>6
  <1>2. Inv /\ [Next]_vars => [Moves]_vars BY <1>1
  <1> QED BY <1>2, AlwaysInv, PTL DEF Spec, AverageApproachesCost
=============================================================================

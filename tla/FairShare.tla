----------------------------- MODULE FairShare -----------------------------
(***************************************************************************)
(* What a manager grants its pod in a round, and how it learns the cost of  *)
(* a kernel: ManagerConfig::from_env (config.rs), calculate_fair_share,     *)
(* update_local_stats, schedule_rest_wait and honor_fixed_rest_wait         *)
(* (manager.rs), for pods that take turns (GlobalBaton) and see each        *)
(* other's averages in the global slots.                                    *)
(*                                                                         *)
(* f64 values are rationals over named denominators; an operation whose     *)
(* exact result is on a rounding boundary may come out on either side.      *)
(* Priorities, as they are fractions, count hundredths.                     *)
(***************************************************************************)
EXTENDS Integers, FiniteSetsExt

CONSTANTS
  Managers,          \* pods; a pod has its own slot, which its successor reuses
  EnvPriority,       \* what NPU_PRIORITY may hold: hundredths, NaN or Unparsable
  NaN,               \* "NaN", which f64 parses; "inf" is like a very large number
  Unparsable,        \* unset, or nothing that f64 parses
  Durations,         \* what the workers of a batch may report, in microseconds
  ALPHA,             \* ema_alpha in hundredths, 5 .. 95
  SCALE, SCALE_DEN,  \* token_scale as a fraction, at least 1/10
  MAX_TOKENS, DEFAULT_AVG_US,
  GRACE_US,          \* the 50_000 of timeout_us
  U64,               \* 2^64
  Nobody             \* no manager

ASSUME AlphaAssumption == ALPHA \in 5 .. 95
ASSUME ScaleAssumption ==
  SCALE \in Nat \ {0} /\ SCALE_DEN \in Nat \ {0} /\ 10 * SCALE >= SCALE_DEN
ASSUME NumbersAssumption ==
  /\ MAX_TOKENS \in Nat \ {0} /\ DEFAULT_AVG_US \in Nat \ {0}
  /\ GRACE_US \in Nat /\ U64 \in Nat \ {0} /\ Durations \subseteq Nat
  /\ EnvPriority \subseteq Int \cup {NaN, Unparsable} /\ NaN \notin Int
ASSUME NobodyAssumption == Nobody \notin Managers

(* MAX_TOKENS kernels of the longest batch, and half as much again, are     *)
(* within 2^64 us: no batch lasts seventy days.                             *)
Short(us) == 3 * (MAX_TOKENS * us) + 2 * GRACE_US < 2 * U64

ASSUME DurationsAssumption == \A us \in Durations \cup {DEFAULT_AVG_US} : Short(us)

VARIABLES
  pc, holder,            \* place of each manager, and who has the time slice
  is_active,             \* GlobalManagerSlot.is_active
  avg_kernel_time,       \* GlobalManagerSlot.avg_kernel_time
  my_priority, fixed_share_ratio,
  current_avg_us,
  resting,               \* next_run_not_before holds a deadline still ahead
  plan,                  \* the SharePlan of the holder's round
  batch                  \* history: the pod and the cost per token just measured

slots  == <<is_active, avg_kernel_time>>
config == <<my_priority, fixed_share_ratio>>
vars   == <<pc, holder, slots, config, current_avg_us, resting, plan, batch>>

MIN_TOKENS       == 1
DEFAULT_PRIORITY == 100

----------------------------------------------------------------------------
(* Arithmetic. *)

Larger(a, b)     == IF a > b THEN a ELSE b
Smaller(a, b)    == IF a < b THEN a ELSE b
Clamp(x, lo, hi) == Larger(lo, Smaller(x, hi))

(* n/d in f64, then truncated, rounded up or rounded to the nearest.        *)
Truncated(n, d) == {n \div d} \cup (IF d > 1 /\ n % d = 0 /\ n > d THEN {n \div d - 1} ELSE {})
RoundedUp(n, d) == {(n + d - 1) \div d} \cup (IF d > 1 /\ n % d = 0 THEN {n \div d + 1} ELSE {})
Rounded(n, d)   == {(2 * n + d) \div (2 * d)}
                     \cup (IF (2 * n) % d = 0 /\ n % d # 0 THEN {n \div d} ELSE {})

saturating_mul(a, b) == Smaller(a * b, U64 - 1)

----------------------------------------------------------------------------
(* parse_f64: any number is taken, whatever its sign, and NaN too.          *)
PriorityOf(v) == IF v = Unparsable THEN DEFAULT_PRIORITY ELSE v

NoPlan  == [base_tokens |-> 0, tokens |-> 0, expected_run_us |-> 0, time_limit_us |-> 0,
            rest_wait_us |-> 0]

NoBatch == [pod |-> Nobody, cost |-> 0]

Init ==
  /\ pc = [m \in Managers |-> "off"] /\ holder = Nobody
  /\ is_active = [m \in Managers |-> FALSE]
  /\ avg_kernel_time = [m \in Managers |-> 0]
  /\ my_priority \in [Managers -> {PriorityOf(v) : v \in EnvPriority}]
  /\ fixed_share_ratio \in [Managers -> BOOLEAN]
  /\ current_avg_us = [m \in Managers |-> DEFAULT_AVG_US]
  /\ resting = [m \in Managers |-> FALSE]
  /\ plan = NoPlan
  /\ batch = NoBatch

Goto(m, from, to) == pc[m] = from /\ pc' = [pc EXCEPT ![m] = to]

(* register_global_slot: until the second step the slot shows the average   *)
(* of the pod that had it before.                                           *)
Register(m) ==
  /\ Goto(m, "off", "register")
  /\ is_active' = [is_active EXCEPT ![m] = TRUE]
  /\ UNCHANGED <<holder, avg_kernel_time, config, current_avg_us, resting, plan, batch>>

StoreDefaultAvg(m) ==
  /\ Goto(m, "register", "wait")
  /\ avg_kernel_time' = [avg_kernel_time EXCEPT ![m] = DEFAULT_AVG_US]
  /\ current_avg_us' = [current_avg_us EXCEPT ![m] = DEFAULT_AVG_US]
  /\ UNCHANGED <<holder, is_active, config, resting, plan, batch>>

(* The pod fails and its slot is cleared.                                   *)
Leave(m) ==
  /\ pc[m] # "off"
  /\ pc' = [pc EXCEPT ![m] = "off"]
  /\ holder' = IF holder = m THEN Nobody ELSE holder
  /\ is_active' = [is_active EXCEPT ![m] = FALSE]
  /\ resting' = [resting EXCEPT ![m] = FALSE]
  /\ plan' = IF holder = m THEN NoPlan ELSE plan
  /\ batch' = NoBatch
  /\ UNCHANGED <<avg_kernel_time, config, current_avg_us>>

TakeTurn(m) ==
  /\ holder = Nobody
  /\ Goto(m, "wait", "rest")
  /\ holder' = m
  /\ batch' = NoBatch
  /\ UNCHANGED <<slots, config, current_avg_us, resting, plan>>

(* honor_fixed_rest_wait: the rest is taken with the lock held.             *)
HonorFixedRestWait(m) ==
  /\ Goto(m, "rest", "plan")
  /\ resting' = [resting EXCEPT ![m] = FALSE]
  /\ UNCHANGED <<holder, slots, config, current_avg_us, plan, batch>>

----------------------------------------------------------------------------
(* calculate_fair_share. *)

anchor_speed_us == Max({1} \cup {avg_kernel_time[n] : n \in {k \in Managers : is_active[k]}})

my_time(m) == Larger(current_avg_us[m], 1)

(* f64::max: NaN gives way to a number.                                     *)
AtLeast(x, low) == IF x = NaN THEN low ELSE Larger(x, low)

prio_for_tokens(m) == AtLeast(my_priority[m], IF fixed_share_ratio[m] THEN 1 ELSE 100)

(* Mutant: what a kernel of the pod costs is left out. *)
BaseTokensUnpriced(m, anchor) ==
  {Clamp(b, MIN_TOKENS, MAX_TOKENS) : b \in RoundedUp(prio_for_tokens(m) * anchor, 100)}

BaseTokens(m, anchor) ==
  {Clamp(b, MIN_TOKENS, MAX_TOKENS) :
     b \in RoundedUp(prio_for_tokens(m) * anchor, 100 * my_time(m))}

Tokens(base) ==
  {Clamp(t, MIN_TOKENS, MAX_TOKENS) : t \in Truncated(base * SCALE, SCALE_DEN)}

(* Mutant: the rest is not scaled with the tokens. *)
RestUnscaled(m, anchor) ==
  IF fixed_share_ratio[m] /\ my_priority[m] # NaN
    THEN Rounded((10000 - Clamp(my_priority[m], 100, 10000)) * anchor, 100)
    ELSE {0}

(* f64::clamp keeps NaN, whose conversion to u64 is 0.                      *)
RestWait(m, anchor) ==
  IF fixed_share_ratio[m] /\ my_priority[m] # NaN
    THEN Rounded((10000 - Clamp(my_priority[m], 100, 10000)) * anchor * SCALE, 100 * SCALE_DEN)
    ELSE {0}

TimeLimit(run) == (run + run \div 2 + GRACE_US) % U64

(* The plans m may compute with an anchor, and now.                         *)
SharePlansAt(m, anchor) ==
  UNION {{[base_tokens     |-> base,
           tokens          |-> tokens,
           expected_run_us |-> Larger(saturating_mul(tokens, my_time(m)), 1),
           time_limit_us   |-> TimeLimit(saturating_mul(tokens, my_time(m))),
           rest_wait_us    |-> rest] : tokens \in Tokens(base), rest \in RestWait(m, anchor)} :
           base \in BaseTokens(m, anchor)}

SharePlans(m) == SharePlansAt(m, anchor_speed_us)

CalculateFairShare(m) ==
  /\ Goto(m, "plan", "run")
  /\ plan' \in SharePlans(m)
  /\ UNCHANGED <<holder, slots, config, current_avg_us, resting, batch>>

----------------------------------------------------------------------------
(* update_local_stats: the sample is clamped to a quarter and four times    *)
(* the average, then weighted with it.                                      *)
ClampedSample(avg, sample) ==
  Clamp(sample, Larger(avg \div 4, 1), Larger(saturating_mul(avg, 4), 1))

(* Mutants: the sample is not clamped; the weights do not add up to one. *)
NewAvgUnclamped(avg, sample) == Truncated(avg * (100 - ALPHA) + sample * ALPHA, 100)
NewAvgHeavy(avg, sample) == Truncated(avg * 100 + ClampedSample(avg, sample) * ALPHA, 100)

NewAvg(avg, sample) ==
  Truncated(avg * (100 - ALPHA) + ClampedSample(avg, sample) * ALPHA, 100)

(* Mutant: the time is divided by the tokens granted. *)
SampleOfGrant(m, duration, used) == duration \div plan.tokens

Sample(m, duration, used) == duration \div used

UpdateLocalStats(m, duration, used) ==
  \/ /\ used > 0 /\ duration > 0
     /\ \E a \in NewAvg(current_avg_us[m], Sample(m, duration, used)) :
          /\ current_avg_us' = [current_avg_us EXCEPT ![m] = a]
          /\ avg_kernel_time' = [avg_kernel_time EXCEPT ![m] = a]
  \/ /\ used = 0 \/ duration = 0
     /\ UNCHANGED <<current_avg_us, avg_kernel_time>>

ScheduleRestWait(m) ==
  resting' = [resting EXCEPT ![m] = fixed_share_ratio[m] /\ plan.rest_wait_us > 0]

(* A round of run_local_round (TokenRound), then the statistics, the rest   *)
(* and the baton.                                                           *)
Round(m, duration, used) ==
  /\ Goto(m, "run", "wait")
  /\ used <= plan.tokens
  /\ UpdateLocalStats(m, duration, used)
  /\ ScheduleRestWait(m)
  /\ holder' = Nobody /\ plan' = NoPlan
  /\ batch' = IF used > 0 /\ duration > 0 THEN [pod |-> m, cost |-> duration \div used]
               ELSE NoBatch
  /\ UNCHANGED <<is_active, config>>

Next ==
  \E m \in Managers :
    \/ Register(m) \/ StoreDefaultAvg(m) \/ Leave(m)
    \/ TakeTurn(m) \/ HonorFixedRestWait(m) \/ CalculateFairShare(m)
    \/ \E duration \in Durations, used \in 0 .. MAX_TOKENS : Round(m, duration, used)

Spec == Init /\ [][Next]_vars

----------------------------------------------------------------------------
(* Properties. *)

(* Types; the average never reaches 0, where it would stay for good.        *)
TypeOK ==
  /\ pc \in [Managers -> {"off", "register", "wait", "rest", "plan", "run"}]
  /\ holder \in Managers \cup {Nobody}
  /\ is_active \in [Managers -> BOOLEAN] /\ resting \in [Managers -> BOOLEAN]
  /\ current_avg_us \in [Managers -> 1 .. U64 - 1]
  /\ avg_kernel_time \in [Managers -> 0 .. U64 - 1]
  /\ plan.tokens \in 0 .. MAX_TOKENS /\ plan.time_limit_us \in 0 .. U64 - 1

Managing == {m \in Managers : pc[m] \notin {"off", "register"}}
Capped(p) == MAX_TOKENS \in {p.base_tokens, p.tokens}

(* One token, and one base token with its scaling, in SCALE_DEN-ths.        *)
TokenTime(m)     == my_time(m) * SCALE_DEN
BaseTokenTime(m) == my_time(m) * Larger(SCALE, SCALE_DEN)

(* The README's promise, to the grain of a token: of two pods that plan     *)
(* with the same averages, neither runs longer for its priority than the    *)
(* other by more than one base token of its own and one token of the        *)
(* other's, unless the other hits MAX_TOKENS.                               *)
ShareByPriority ==
  \A m, n \in Managing : \A a \in SharePlans(m), b \in SharePlans(n) :
    Capped(b) \/
      (a.expected_run_us * SCALE_DEN - BaseTokenTime(m)) * prio_for_tokens(n)
        <= (b.expected_run_us * SCALE_DEN + TokenTime(n)) * prio_for_tokens(m)

(* With NPU_FIXED_SHARE_RATIO the ratio of running and resting follows the  *)
(* priority alone, whatever the kernels cost, again to the grain of a token *)
(* and below MAX_TOKENS.                                                    *)
DutyCycle ==
  \A m \in Managers :
    pc[m] = "run" /\ fixed_share_ratio[m] /\ my_priority[m] \in 100 .. 10000 =>
      LET on   == my_priority[m]
          off  == 10000 - on
          run  == plan.expected_run_us * SCALE_DEN
          rest == plan.rest_wait_us * SCALE_DEN
      IN /\ (run - BaseTokenTime(m)) * off <= (rest + SCALE_DEN) * on
         /\ Capped(plan) \/ (rest - SCALE_DEN) * on <= (run + TokenTime(m)) * off

(* The time limit of a batch leaves room for its whole budget: no sequence  *)
(* of samples drives the average to where timeout_us wraps around.          *)
TimeoutCoversBudget ==
  plan # NoPlan => plan.time_limit_us >= plan.expected_run_us + GRACE_US

(* A measured batch moves the average towards the cost it showed and not    *)
(* past it, except that an average on the spot may lose 1 to rounding; it   *)
(* stays where it is only within 1/alpha below the cost, or when four times *)
(* the average is that close.                                               *)
Slack == 100 \div ALPHA

Approaches(avg, new, cost) ==
  /\ avg > cost => cost <= new /\ new < avg
  /\ avg < cost => avg <= new /\ new <= cost
  /\ avg = cost => new \in {avg - 1, avg}
  /\ cost - avg > Slack /\ 3 * avg > Slack => avg < new

AverageApproachesCost ==
  [][\A m \in Managers : batch' # batch /\ batch'.pod = m
       => Approaches(current_avg_us[m], current_avg_us'[m], Larger(batch'.cost, 1))]_vars
=============================================================================

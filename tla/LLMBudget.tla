----------------------------- MODULE LLMBudget -----------------------------
(***************************************************************************)
(* What the callers of a language model share in one process: the clock,   *)
(* the budget and the cache of results.  Each operator is one method of    *)
(* LLMBudgetManager or LLMResultCache, all of it under that object's lock. *)
(*                                                                         *)
(* Costs are in multiples of some smallest cost.                           *)
(***************************************************************************)
EXTENDS Naturals

CONSTANTS
  BudgetEnabled, SoftLimit, HardLimit, \* settings.llm_budget_*; 0 is no limit
  Estimate,     \* estimate_llm_cost_usd of a prompt
  ScopeTicks,   \* length of a scope (a day, an hour); longer than MaxTime: global
  CacheEnabled, TTL, \* settings.llm_cache_*; 0 is for ever
  Keys,         \* cache keys
  NoEntry,
  MaxTime       \* bound

ASSUME LLMBudgetAssumption ==
  /\ BudgetEnabled \in BOOLEAN /\ CacheEnabled \in BOOLEAN
  /\ SoftLimit \in Nat /\ HardLimit \in Nat /\ Estimate \in Nat
  /\ ScopeTicks \in Nat \ {0} /\ TTL \in Nat /\ MaxTime \in Nat

VARIABLES
  now,
  spent,  \* _cost_by_scope
  cache   \* _store

ScopeOf(t) == t \div ScopeTicks
Scopes == 0..ScopeOf(MaxTime)

InitBudget ==
  /\ now = 0
  /\ spent = [s \in Scopes |-> 0]
  /\ cache = [k \in Keys |-> NoEntry]

-----------------------------------------------------------------------------
Projected == spent[ScopeOf(now)] + Estimate

\* Faulty: does not count what the call itself is going to cost.
CheckBudgetCurrent ==
  ~BudgetEnabled \/ HardLimit = 0 \/ spent[ScopeOf(now)] < HardLimit

\* check_budget: at the hard limit the caller has to fall back.  (At the soft
\* limit it is warned, which changes nothing.)
CheckBudget == ~BudgetEnabled \/ HardLimit = 0 \/ Projected < HardLimit

\* Faulty: the last cost instead of the sum.
RecordUsageOverwrites(cost) ==
  spent' = IF BudgetEnabled
           THEN [spent EXCEPT ![ScopeOf(now)] = cost] ELSE spent

\* record_usage: into the scope of the moment, not into the one of the check.
RecordUsage(cost) ==
  spent' = IF BudgetEnabled
           THEN [spent EXCEPT ![ScopeOf(now)] = @ + cost] ELSE spent

Entry(value, expires) == [value |-> value, expires |-> expires]

\* Faulty: an entry never expires.
FreshForever(k) == cache[k] # NoEntry

Fresh(k) ==
  /\ cache[k] # NoEntry
  /\ cache[k].expires = 0 \/ cache[k].expires >= now

\* get: a hit, or a miss that drops what has expired.
Hit(k) == CacheEnabled /\ Fresh(k) /\ UNCHANGED cache
Miss(k) ==
  /\ ~(CacheEnabled /\ Fresh(k))
  /\ cache' = IF CacheEnabled THEN [cache EXCEPT ![k] = NoEntry] ELSE cache

\* set
Keep(k, value) ==
  cache' = IF CacheEnabled
           THEN [cache EXCEPT ![k] = Entry(value, IF TTL = 0 THEN 0 ELSE now + TTL)]
           ELSE cache

Tick == now < MaxTime /\ now' = now + 1
=============================================================================

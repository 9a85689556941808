--------------------------- MODULE ResidencyPolicy ---------------------------
(***************************************************************************)
(* The residency policies of src/policy.rs: whether a regenerated page     *)
(* should become hot.  A policy is a record with a `kind`; "custom" stands *)
(* for any implementation of the trait by the embedding runtime and may    *)
(* answer either way.  A decision may depend on `ctx`, the telemetry of    *)
(* ResidencyContext: the cache's bytes and pages and the hit counters.     *)
(***************************************************************************)
EXTENDS Integers

SaturatingSub(a, b) == IF a >= b THEN a - b ELSE 0

NeverAdmit == [kind |-> "never"]
KeepRecent(recent_tokens) == [kind |-> "recent", recent_tokens |-> recent_tokens]
Telemetry(recent_tokens, max_utilization, target_hit_rate) ==
  [kind |-> "telemetry", recent_tokens |-> recent_tokens,
   max_utilization |-> max_utilization, target_hit_rate |-> target_hit_rate]
Custom == [kind |-> "custom"]

(* KeepRecent::decide.  The addition start + page_tokens is checked, and   *)
(* pages end within the context, whose length is a usize.                  *)
NearFrontier(recent_tokens, start, page_tokens, context_tokens) ==
  start + page_tokens >= SaturatingSub(context_tokens, recent_tokens)

UtilizationPerMille(used, max) == IF max = 0 THEN 1000 ELSE (used * 1000) \div max

HitRatePerMille(hits, regenerations) ==
  IF hits + regenerations = 0 THEN 0 ELSE (hits * 1000) \div (hits + regenerations)

(* TelemetryResidencyPolicy::decide_with_context.                          *)
TelemetryAdmits(policy, start, page_tokens, context_tokens, ctx) ==
  /\ NearFrontier(policy.recent_tokens, start, page_tokens, context_tokens)
  /\ ctx.max_bytes # 0
  /\ UtilizationPerMille(ctx.used_bytes, ctx.max_bytes) < policy.max_utilization
  /\ \/ HitRatePerMille(ctx.hot_hits, ctx.cold_regenerations) < policy.target_hit_rate
     \/ ctx.pages = 0

(* The answers policy may give: {TRUE} to admit, {FALSE} to drop.          *)
Admissions(policy, start, page_tokens, context_tokens, ctx) ==
  CASE policy.kind = "never"     -> {FALSE}
    [] policy.kind = "recent"    ->
         {NearFrontier(policy.recent_tokens, start, page_tokens, context_tokens)}
    [] policy.kind = "telemetry" ->
         {TelemetryAdmits(policy, start, page_tokens, context_tokens, ctx)}
    [] policy.kind = "custom"    -> BOOLEAN

=============================================================================

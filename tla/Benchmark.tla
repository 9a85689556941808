----------------------------- MODULE Benchmark ------------------------------
(***************************************************************************)
(* The benchmark programs bench/bench_cfr.rs and bench/bench_transformers_ *)
(* cfr.rs and the example examples/bench_cfr.rs as clients of the atlas,   *)
(* and the memory estimate of src/bench.rs that their numbers are read     *)
(* against.                                                                *)
(*                                                                         *)
(* A benchmark is one thread with a fresh atlas, one stream, the finite    *)
(* query of a corpus and an adapter that does not fail, so of the steps of *)
(* CfrAtlas just the hits and the folded cold pages are left, and what a   *)
(* call does to the cache is a function.                                   *)
(***************************************************************************)
EXTENDS ConfigSchema, Layout, ResidencyPolicy

Lru(o) == INSTANCE LruCache
            WITH PageKeys <- 0 .. o.context_tokens,
                 LayerOf <- [start \in 0 .. o.context_tokens |-> 0],
                 PageValues <- {}, BudgetValues <- {},
                 MaxBytes <- o.hot_cache_bytes, cache <- Unset

OptionFields == {"context_tokens", "head_dim", "page_tokens", "hot_cache_bytes",
                 "recent_tokens", "runs", "admit"}

IsOptions(o) ==
  /\ DOMAIN o = OptionFields /\ o.admit \in BOOLEAN
  /\ \A f \in OptionFields \ {"admit"} : o[f] \in 0 .. UsizeMax

-----------------------------------------------------------------------------
(* attend_exact_with_policy over a context, page by page.                  *)
PageCount(o) == (o.context_tokens + o.page_tokens - 1) \div o.page_tokens

(* A page found hot, or regenerated, and what becomes of the cache.        *)
Hot(s, cache) == [cache |-> cache, hot_hits |-> s.hot_hits + 1,
                  cold_regenerations |-> s.cold_regenerations]
Regenerated(s, cache) == [cache |-> cache, hot_hits |-> s.hot_hits,
                          cold_regenerations |-> s.cold_regenerations + 1]

AttendPage(o, s, start) ==
  LET tokens == Min({o.page_tokens, o.context_tokens - start})
      page   == [bytes |-> KvBytes(tokens, o.head_dim)]
      admit  == o.admit /\ NearFrontier(o.recent_tokens, start, tokens, o.context_tokens)
  IN  IF start \in DOMAIN s.cache.pages
        THEN Hot(s, Lru(o)!Touched(s.cache, start))
      ELSE IF admit /\ ~Lru(o)!TooLarge(s.cache, start, page)
        THEN Regenerated(s, Lru(o)!Inserted(s.cache, start, page))
      ELSE Regenerated(s, s.cache)

Attend(o, s) ==
  FoldLeft(LAMBDA t, page : AttendPage(o, t, (page - 1) * o.page_tokens),
           s, [page \in 1 .. PageCount(o) |-> page])

Uncounted(cache) == [cache |-> cache, hot_hits |-> 0, cold_regenerations |-> 0]

Fresh(o) == Uncounted(Lru(o)!EmptyCache)

(* Mutant: the warm-up stays in the counters.                              *)
WarmUpUnreset(o) == Attend(o, Fresh(o))

(* The warm-up call, and reset_counters.                                   *)
WarmUp(o) == Uncounted(Attend(o, Fresh(o)).cache)

(* The state after n measured runs.                                        *)
Measured(o, n) == FoldLeft(LAMBDA s, run : Attend(o, s), WarmUp(o), [run \in 1 .. n |-> run])

-----------------------------------------------------------------------------
(* parse_options refuses zeroes; the matrices of the whole context and the *)
(* configuration may be too large.                                         *)
OptionsAccepted(o) == 0 \notin {o.context_tokens, o.head_dim, o.page_tokens, o.runs}

ConfigOf(o) ==
  Built([page_tokens |-> o.page_tokens, head_dim |-> o.head_dim,
         hot_cache_bytes |-> o.hot_cache_bytes, scale |-> Unset,
         admit_regenerated_pages |-> IF o.admit THEN 1 ELSE 0,
         max_scratch_tokens |-> Unset, wipe_scratch_after_use |-> 1])

(* measure_full_kv: the whole context is one page, and never kept.         *)
FullKvBytes(o) == CheckedKvBytes(o.context_tokens, o.head_dim)

(* measure_cfr: a method that does not admit has no cache at all.  The     *)
(* states after each run are kept as a history.                            *)
MeasureCfr(o) ==
  LET options == IF o.admit THEN o ELSE [o EXCEPT !.hot_cache_bytes = 0]
      stats   == Measured(options, o.runs)
      used    == Lru(options)!UsedBytes(stats.cache)
  IN  IF \/ ~OptionsAccepted(o) \/ ~Valid(ConfigOf(options))
         \/ FullKvBytes(o) = Failed
        THEN Refused
      ELSE [resident_kv_bytes |-> KvBytes(o.page_tokens, o.head_dim) + used,
            full_kv_bytes |-> FullKvBytes(o),
            hot_hits_per_run |-> stats.hot_hits \div o.runs,
            cold_regenerations_per_run |-> stats.cold_regenerations \div o.runs,
            after |-> [n \in 1 .. o.runs |-> Measured(options, n)]]

(* run_cold of bench_transformers_cfr, and cfr of the example: one call on *)
(* a fresh atlas without a cache.                                          *)
RunCold(o) ==
  LET cold == [o EXCEPT !.hot_cache_bytes = 0, !.admit = FALSE]
  IN  IF Valid(ConfigOf(cold)) /\ o.context_tokens # 0 THEN Attend(cold, Fresh(cold)) ELSE Refused

(* run_hot of bench_transformers_cfr: a budget of one page, a policy that  *)
(* wants the newest one, and one measured run; how its configuration has   *)
(* scratch limited and not wiped changes no counter.                       *)
RunHotOptions(m) ==
  [m EXCEPT !.hot_cache_bytes = KvBytes(m.page_tokens, m.head_dim),
            !.recent_tokens = SaturatingSub(m.page_tokens, 1),
            !.runs = 1, !.admit = TRUE]

(* summarize: median, smallest and largest of the timings, sorted.         *)
Sorted(samples) ==
  CHOOSE s \in {[i \in DOMAIN samples |-> samples[p[i]]] :
                  p \in Bijection(DOMAIN samples, DOMAIN samples)} :
    \A i, j \in DOMAIN samples : i < j => s[i] <= s[j]

Summarized(samples) ==
  LET sorted == Sorted(samples)
  IN  [median_ms |-> sorted[Len(sorted) \div 2 + 1], min_ms |-> sorted[1],
       max_ms |-> sorted[Len(sorted)]]

-----------------------------------------------------------------------------
(* estimate_benchmark_memory; the reduction is kept as a fraction.         *)
Estimate(context_tokens, head_dim, page_tokens, hot_cache_budget_bytes) ==
  LET baseline == CheckedKvBytes(context_tokens, head_dim)
      scratch_bytes == CheckedKvBytes(page_tokens, head_dim)
      resident == CheckedAdd(scratch_bytes, hot_cache_budget_bytes)
  IN  IF \/ context_tokens = 0 \/ head_dim = 0
         \/ page_tokens \notin 1 .. context_tokens
         \/ Failed \in {baseline, scratch_bytes, resident}
        THEN Refused
      ELSE [baseline_kv_bytes |-> baseline, cfr_scratch_bytes |-> scratch_bytes,
            cfr_resident_budget_bytes |-> resident,
            estimated_memory_reduction |-> <<baseline, resident>>]

=============================================================================

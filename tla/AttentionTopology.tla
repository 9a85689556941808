-------------------------- MODULE AttentionTopology --------------------------
(***************************************************************************)
(* AttentionTopology of src/topology.rs: which KV head serves a query head *)
(* under MHA, MQA and GQA.                                                 *)
(***************************************************************************)
EXTENDS Naturals, FiniteSets

Kinds == {"Mha", "Mqa", "Gqa"}

Topology(kind, query_heads, kv_heads) ==
  [kind |-> kind, query_heads |-> query_heads, kv_heads |-> kv_heads]

(* AttentionTopology::new.                                                 *)
Accepted(t) ==
  /\ t.query_heads # 0 /\ t.kv_heads # 0 /\ t.kv_heads <= t.query_heads
  /\ t.kind = "Mha" => t.query_heads = t.kv_heads
  /\ t.kind = "Mqa" => t.kv_heads = 1
  /\ t.kind = "Gqa" => t.query_heads % t.kv_heads = 0

GroupSize(t) == t.query_heads \div t.kv_heads

(* map_query_head, for a head in range.                                    *)
HeadInRange(t, query_head) == query_head < t.query_heads

(* Mutant: heads are dealt out in turn.                                    *)
KvHeadInterleaved(t, query_head) ==
  IF t.kind = "Mha" THEN query_head
  ELSE IF t.kind = "Mqa" THEN 0
  ELSE query_head % t.kv_heads

KvHead(t, query_head) ==
  IF t.kind = "Mha" THEN query_head
  ELSE IF t.kind = "Mqa" THEN 0
  ELSE query_head \div GroupSize(t)

Mapping(t, query_head) ==
  LET kv_head == KvHead(t, query_head)
  IN  [query_head |-> query_head, kv_head |-> kv_head,
       group_start |-> kv_head * GroupSize(t),
       group_end |-> kv_head * GroupSize(t) + GroupSize(t)]

-----------------------------------------------------------------------------
(* What the rest of the crate relies on.                                   *)

(* A query head is mapped to a KV head that exists and lies in the group   *)
(* that the mapping names; no product or sum in it exceeds the number of   *)
(* query heads, so none wraps in u32.                                      *)
MappingSound(t, query_head) ==
  LET m == Mapping(t, query_head)
  IN  /\ m.kv_head < t.kv_heads
      /\ m.group_start <= query_head /\ query_head < m.group_end
      /\ m.group_end <= t.query_heads

(* The group named by a mapping is the set of the heads that share its KV  *)
(* head: a page regenerated for one of them serves them all, and no other. *)
GroupIsShared(t, query_head) ==
  LET m == Mapping(t, query_head)
  IN  \A other \in 0 .. t.query_heads - 1 :
        KvHead(t, other) = m.kv_head <=> m.group_start <= other /\ other < m.group_end

=============================================================================

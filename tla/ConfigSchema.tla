---------------------------- MODULE ConfigSchema ----------------------------
(***************************************************************************)
(* Configurations: ConfigBuilder::build and Config::validate of            *)
(* src/config.rs, and their text form, VersionedConfig of src/schema.rs.   *)
(*                                                                         *)
(* Values of every field are naturals: a boolean is 0 or 1, a scale counts *)
(* some unit.  A value in the text is a number and the form it is written  *)
(* in: as encode writes it, another way that parses too ("08", "+8"), or   *)
(* one that does not parse.  Blank space around lines, keys and values is  *)
(* trimmed, and a blank line leaves no trace: neither is modelled.         *)
(***************************************************************************)
EXTENDS MachineInts, Sequences, SequencesExt

CONSTANTS
  VersionMax,      (* u32::MAX                                               *)
  MaxScale,        (* f32::MAX; what is larger is infinite                   *)
  EditValues,      (* numbers that an edit of a text may write               *)
  Unset            (* None                                                   *)

ASSUME SchemaAssumption ==
  /\ VersionMax \in Nat \ {0} /\ MaxScale \in Nat \ {0}
  /\ EditValues \subseteq Nat
  /\ Unset \notin Nat

Sizes == {"page_tokens", "head_dim", "hot_cache_bytes", "max_scratch_tokens"}
Flags == {"admit_regenerated_pages", "wipe_scratch_after_use"}
ConfigFields == Sizes \cup Flags \cup {"scale"}
CONFIG_SCHEMA_VERSION == 1

(* The fields in the order in which encode writes them.                    *)
FieldOrder ==
  <<"schema_version", "page_tokens", "head_dim", "hot_cache_bytes", "scale",
    "admit_regenerated_pages", "max_scratch_tokens", "wipe_scratch_after_use">>
TextFields == ToSet(FieldOrder)

-----------------------------------------------------------------------------
(* src/config.rs                                                           *)
Valid(c) ==
  /\ c.page_tokens # 0 /\ c.head_dim # 0 /\ c.max_scratch_tokens # 0
  /\ c.page_tokens <= c.max_scratch_tokens
  /\ c.scale \in 1 .. MaxScale
  /\ c.max_scratch_tokens * c.head_dim <= UsizeMax
  /\ KvBytes(c.page_tokens, c.head_dim) <= UsizeMax

(* What a ConfigBuilder may hold.                                          *)
IsBuilder(b) ==
  /\ b \in [ConfigFields -> Nat \cup {Unset}]
  /\ \A f \in ConfigFields \ {"scale", "max_scratch_tokens"} : b[f] # Unset
  /\ \A f \in Sizes : b[f] # Unset => b[f] <= UsizeMax
  /\ \A f \in Flags : b[f] \in {0, 1}

(* 1 / sqrt(head_dim): positive, and infinite for zero.                    *)
DefaultScale(head_dim) ==
  IF head_dim = 0 THEN MaxScale + 1 ELSE 1 + (MaxScale - 1) \div head_dim

Built(b) ==
  [b EXCEPT !.scale = IF @ = Unset THEN DefaultScale(b.head_dim) ELSE @,
            !.max_scratch_tokens = IF @ = Unset THEN b.page_tokens ELSE @]

-----------------------------------------------------------------------------
(* src/schema.rs                                                           *)
Line(f, n, form) == [field |-> f, value |-> n, form |-> form]
NoEquals == Line("no '='", 0, "plain")
UnknownField == Line("unknown", 0, "plain")

(* The lines that an edit may leave in a text.                             *)
Lines ==
  {Line(f, n, form) : f \in TextFields, n \in EditValues, form \in {"plain", "other"}}
    \cup {Line(f, 0, "junk") : f \in TextFields}
    \cup {NoEquals, UnknownField}

Versioned(c) ==
  [f \in TextFields |-> IF f = "schema_version" THEN CONFIG_SCHEMA_VERSION ELSE c[f]]

Encode(c) ==
  [i \in DOMAIN FieldOrder |-> Line(FieldOrder[i], Versioned(c)[FieldOrder[i]], "plain")]

(* parse_u32, parse_usize, parse_f32 and parse_bool.                       *)
Parses(line) ==
  /\ line.form # "junk"
  /\ line.field \in Flags => line.form = "plain" /\ line.value \in {0, 1}
  /\ line.field \in Sizes => line.value <= UsizeMax
  /\ line.field = "schema_version" => line.value <= VersionMax
  /\ line.field = "scale" => line.value \in 1 .. MaxScale

Refused == [refused |-> TRUE]

(* Mutant: a field that is given twice keeps the last value.               *)
AcceptableTwice(parsed, line) == line.field \in TextFields /\ Parses(line)

(* accept_field and set_once.                                              *)
Acceptable(parsed, line) ==
  /\ line.field \in TextFields
  /\ Parses(line)
  /\ parsed[line.field] = Unset

(* One line of decode's loop; parsed is ParsedConfig, or Refused.          *)
ReadLine(parsed, line) ==
  IF parsed # Refused /\ Acceptable(parsed, line)
    THEN [parsed EXCEPT ![line.field] = line.value] ELSE Refused

Complete(parsed) == \A f \in TextFields : parsed[f] # Unset

Loaded(parsed) == [f \in ConfigFields |-> parsed[f]]

(* into_versioned and validate.                                            *)
Finished(parsed) ==
  IF /\ parsed # Refused
     /\ Complete(parsed) /\ parsed["schema_version"] = CONFIG_SCHEMA_VERSION
     /\ Valid(Loaded(parsed))
    THEN Loaded(parsed) ELSE Refused

Decoded(text) == Finished(FoldLeft(ReadLine, [f \in TextFields |-> Unset], text))

=============================================================================

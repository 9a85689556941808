-------------------------- MODULE AdapterProofs --------------------------
(***************************************************************************)
(* Theorems about the adapters: AdapterGate and the pipeline in it, for    *)
(* pages of any size and adapters of any kind, and ReferenceBackend, for   *)
(* ledgers and pages of any length.                                        *)
(***************************************************************************)
EXTENDS AdapterGate, ReferenceBackend, Integers, SequenceTheorems, TLAPS

Calls ==
  [pc : {"write"}, by : {"pipeline", "gate", "atlas"}, r : Requests, next : Nat \ {0}]

(* The local of the pipeline, or of the conformance helper, holds the page *)
(* up to the current cell.                                                 *)
WrittenInv ==
  Serving("pipeline") \/ Serving("gate") =>
    /\ {"key", "first", "end", "kv"} \subseteq DOMAIN regenerated
    /\ regenerated.kv = [i \in 1 .. Size(call.r) |->
                           IF i < call.next THEN Made(call.r)[i] ELSE ZeroCell]

SlotInv ==
  /\ next_slot \in Slots /\ DOMAIN buffers = Slots
  /\ history \in Seq(Requests) /\ Len(history) <= 2
  /\ Len(history) = 0 => next_slot = 0

Inv ==
  /\ call = NoCall \/ call \in Calls
  /\ WrittenInv /\ SlotInv /\ SlotsHoldLastPages

-----------------------------------------------------------------------------
LEMMA SizeIsNat ==
  ASSUME NEW r \in Requests
  PROVE  Size(r) \in Nat
<1>1. PICK n \in Nat : n = r.end - r.first
  BY DEF Requests
<1>2. r.head_dim \in Nat
  BY PipelineAssumption DEF Requests
<1> QED
  BY <1>1, <1>2 DEF Size

LEMMA CallFacts ==
  ASSUME Inv, NEW by, Serving(by)
  PROVE  call \in Calls /\ call # NoCall /\ call.r \in Requests /\ call.next \in Nat \ {0}
BY DEF Inv, Serving, Calls, NoCall

(* An adapter does not change, nor what it makes of a page.                *)
LEMMA SameAdapter ==
  ASSUME UNCHANGED adapter
  PROVE  /\ \A old, r, i : PutCell(old, r, i)' = PutCell(old, r, i)
         /\ \A r : Made(r)' = Made(r)
<1>1. \A old, r, i : PutCell(old, r, i)' = PutCell(old, r, i)
  BY DEF PutCell
<1> QED
  BY <1>1 DEF Made

(* The slots do not depend on what else is going on.                       *)
LEMMA SlotsKept ==
  ASSUME Inv, UNCHANGED <<adapter, pipelineVars>>
  PROVE  SlotInv' /\ SlotsHoldLastPages'
BY SameAdapter DEF Inv, SlotInv, SlotsHoldLastPages, Holds, pipelineVars

LEMMA IdleKeeps ==
  ASSUME Inv, UNCHANGED <<adapter, pipelineVars>>, call' = NoCall
  PROVE  Inv'
BY SlotsKept DEF Inv, WrittenInv, Serving, NoCall

LEMMA OtherCallKeeps ==
  ASSUME Inv, UNCHANGED <<adapter, pipelineVars>>, call' \in Calls, call'.by = "atlas"
  PROVE  Inv'
BY SlotsKept DEF Inv, WrittenInv, Serving

LEMMA ServeCall ==
  ASSUME NEW by \in {"pipeline", "gate", "atlas"}, NEW r \in Requests, Serve(by, r)
  PROVE  call' \in Calls /\ call'.by = by /\ call'.r = r /\ call'.next = 1
BY DEF Serve, Calls

(* The local starts with zeroes, wherever it comes from.                   *)
LEMMA LocalBegins ==
  ASSUME Inv, NEW by \in {"pipeline", "gate"}, NEW r \in Requests, Serve(by, r),
         UNCHANGED <<adapter, pipelineVars>>,
         regenerated' = [Empty EXCEPT !.kv = [i \in 1 .. Size(r) |-> ZeroCell]]
  PROVE  Inv'
<1>1. call' \in Calls /\ call'.by = by /\ call'.r = r /\ call'.next = 1
  BY ServeCall
<1>2. /\ {"key", "first", "end", "kv"} \subseteq DOMAIN regenerated'
      /\ regenerated'.kv = [i \in 1 .. Size(r) |-> ZeroCell]
  BY DEF Empty
<1>3. WrittenInv'
  BY <1>1, <1>2, SizeIsNat DEF WrittenInv
<1> QED
  BY <1>1, <1>3, SlotsKept DEF Inv

LEMMA BeginKeeps ==
  ASSUME Inv, NEW r \in Requests, Begin(r)
  PROVE  Inv'
<1>1. EnsureCapacity(<< >>, Size(r)) = [i \in 1 .. Size(r) |-> ZeroCell]
  BY SizeIsNat DEF EnsureCapacity
<1>2. regenerated' = [Empty EXCEPT !.kv = [i \in 1 .. Size(r) |-> ZeroCell]]
  BY <1>1 DEF Begin, Empty
<1> QED
  BY <1>2, LocalBegins DEF Begin

LEMMA NextCell ==
  ASSUME Inv, NEW by, Serving(by), call' = [call EXCEPT !.next = @ + 1]
  PROVE  call' \in Calls /\ call'.by = call.by /\ call'.r = call.r /\ call'.next = call.next + 1
BY CallFacts DEF Calls

(* The next cell is written over a zero.                                   *)
LEMMA WriteKeeps ==
  ASSUME Inv, NEW by \in {"pipeline", "gate"}, Write(by)
  PROVE  Inv'
<1>1. /\ Serving(by) /\ call.next <= Size(call.r)
      /\ regenerated' = [regenerated EXCEPT !.kv[call.next] = PutCell(@, call.r, call.next)]
      /\ call' = [call EXCEPT !.next = @ + 1]
      /\ UNCHANGED <<adapter, pipelineVars>>
  BY CallFacts, SizeIsNat DEF Write, Complete
<1>2. /\ call \in Calls /\ call.r \in Requests
      /\ Size(call.r) \in Nat /\ call.next \in 1 .. Size(call.r)
  BY <1>1, CallFacts, SizeIsNat
<1>3. call' \in Calls /\ call'.by = call.by /\ call'.r = call.r /\ call'.next = call.next + 1
  BY <1>1, NextCell
<1> DEFINE kv == regenerated.kv
           n == call.next
           m == Size(call.r)
           page == Made(call.r)
<1>4. /\ {"key", "first", "end", "kv"} \subseteq DOMAIN regenerated
      /\ kv = [i \in 1 .. m |-> IF i < n THEN page[i] ELSE ZeroCell]
  BY <1>1 DEF Inv, WrittenInv
<1>5. kv[n] = ZeroCell /\ page[n] = PutCell(ZeroCell, call.r, n)
  BY <1>2, <1>4 DEF Made
<1>6. /\ DOMAIN regenerated' = DOMAIN regenerated
      /\ regenerated'.kv = [kv EXCEPT ![n] = page[n]]
  <2> HIDE DEF page
  <2> QED
    BY <1>1, <1>4, <1>5
<1>7. regenerated'.kv = [i \in 1 .. m |-> IF i < n + 1 THEN page[i] ELSE ZeroCell]
  <2>1. n \in 1 .. m /\ m \in Nat
    BY <1>2
  <2> HIDE DEF kv, n, m, page
  <2> DEFINE after == [kv EXCEPT ![n] = page[n]]
  <2>2. after = [i \in 1 .. m |-> after[i]]
    BY <1>4
  <2>3. ASSUME NEW i \in 1 .. m
        PROVE  after[i] = IF i < n + 1 THEN page[i] ELSE ZeroCell
    BY <1>4, <2>1
  <2> HIDE DEF after
  <2>4. after = [i \in 1 .. m |-> IF i < n + 1 THEN page[i] ELSE ZeroCell]
    BY <2>2, <2>3
  <2> QED
    BY <1>6, <2>4 DEF after
<1>8. WrittenInv'
  <2>1. Made(call.r)' = page
    BY <1>1, <1>3 DEF Made, PutCell
  <2>2. /\ call'.r = call.r /\ call'.next = n + 1 /\ Size(call'.r) = m
    BY <1>3
  <2>3. regenerated'.kv = [i \in 1 .. Size(call.r)' |->
                             IF i < call'.next THEN Made(call.r)'[i] ELSE ZeroCell]
    <3> HIDE DEF kv, n, m, page
    <3> QED
      BY <1>7, <2>1, <2>2 DEF Size
  <2> QED
    BY <1>4, <1>6, <2>3 DEF WrittenInv
<1> QED
  BY <1>1, <1>3, <1>8, SlotsKept DEF Inv

(* The page takes the place of the older of the two.                       *)
LEMMA SwapKeeps ==
  ASSUME Inv, Swap
  PROVE  Inv'
<1> DEFINE page == [key |-> call.r.key, first |-> call.r.first, end |-> call.r.end,
                    kv |-> regenerated.kv]
           recent == IF Len(history) < 2 THEN history ELSE Tail(history)
<1>1. /\ Serving("pipeline") /\ call.next > Size(call.r)
      /\ buffers' = [buffers EXCEPT ![next_slot] = page]
      /\ next_slot' = 1 - next_slot
      /\ history' = Append(recent, call.r)
      /\ call' = NoCall /\ UNCHANGED adapter
  BY DEF Swap, Complete
<1>2. call \in Calls /\ call.r \in Requests /\ call.next \in Nat /\ Size(call.r) \in Nat
  BY <1>1, CallFacts, SizeIsNat
<1>3. regenerated.kv = Made(call.r)
  BY <1>1, <1>2 DEF Inv, WrittenInv, Made
<1>4. /\ next_slot \in {0, 1} /\ DOMAIN buffers = {0, 1}
      /\ history \in Seq(Requests) /\ Len(history) \in {0, 1, 2}
  BY DEF Inv, SlotInv, Slots
<1>5. /\ recent \in Seq(Requests) /\ Len(recent) \in {0, 1}
      /\ Len(recent) = 0 <=> Len(history) = 0
      /\ Len(recent) = 1 => recent[1] = history[Len(history)]
  <2>1. CASE Len(history) < 2
    BY <1>4, <2>1
  <2>2. CASE Len(history) = 2
    <3>1. recent = Tail(history)
      BY <2>2
    <3>2. /\ Tail(history) \in Seq(Requests) /\ Len(Tail(history)) = 1
          /\ Tail(history)[1] = history[2]
      BY <1>4, <2>2
    <3>3. recent \in Seq(Requests) /\ Len(recent) = 1 /\ recent[1] = history[2]
      BY <3>1, <3>2
    <3> HIDE DEF recent
    <3>4. recent[1] = history[Len(history)] /\ Len(history) # 0
      BY <2>2, <3>3
    <3> QED
      BY <3>3, <3>4
  <2> QED
    BY <1>4, <2>1, <2>2
<1> HIDE DEF recent
<1>6. /\ history' \in Seq(Requests) /\ Len(history') = Len(recent) + 1
      /\ history'[Len(history')] = call.r
      /\ Len(recent) = 1 => Len(history') = 2 /\ history'[1] = history[Len(history)]
  BY <1>1, <1>2, <1>5
<1>7. /\ DOMAIN buffers' = {0, 1} /\ next_slot' \in {0, 1}
      /\ 1 - next_slot' = next_slot
      /\ buffers'[next_slot] = page
      /\ buffers'[1 - next_slot] = buffers[1 - next_slot]
  BY <1>1, <1>4
<1>8. SlotInv'
  BY <1>5, <1>6, <1>7 DEF SlotInv, Slots
<1> DEFINE WillHold(s, r) ==
             /\ buffers'[s].key = r.key /\ buffers'[s].first = r.first /\ buffers'[s].end = r.end
             /\ buffers'[s].kv = Made(r)
<1>9. ASSUME NEW s \in {0, 1}, NEW r, Holds(s, r), buffers'[s] = buffers[s]
      PROVE  WillHold(s, r)
  BY <1>9 DEF Holds
<1>10. PICK s \in {0, 1}, r \in Requests, n \in {0, 1, 2}, m \in {1, 2} :
         s = next_slot /\ r = call.r /\ n = Len(history) /\ m = Len(history')
  BY <1>2, <1>4, <1>5, <1>6
<1>11. WillHold(s, r)
  BY <1>1, <1>3, <1>7, <1>10
<1>12. ASSUME n = 0
       PROVE  m = 1 /\ buffers'[1 - s] = Empty
  <2>1. buffers[1] = Empty /\ s = 0
    BY <1>10, <1>12 DEF Inv, SlotInv, SlotsHoldLastPages
  <2> QED
    BY <1>5, <1>6, <1>7, <1>10, <1>12, <2>1 DEF SlotInv
<1>13. ASSUME n # 0
       PROVE  m = 2 /\ WillHold(1 - s, history'[1])
  <2>1. PICK q \in Requests : q = history[n]
    BY <1>4, <1>10, <1>13
  <2>2. Holds(1 - s, q)
    BY <1>10, <1>13, <2>1 DEF Inv, SlotsHoldLastPages
  <2>3. WillHold(1 - s, q)
    BY <1>7, <1>9, <1>10, <2>2
  <2>4. m = 2 /\ history'[1] = q
    BY <1>5, <1>6, <1>10, <1>13, <2>1
  <2> QED
    BY <2>3, <2>4
<1>14. SlotsHoldLastPages'
  <2>1. 1 - (1 - s) = s
    BY <1>10
  <2>2. Len(history') = m /\ next_slot' = 1 - s /\ history'[m] = r
    BY <1>1, <1>6, <1>10
  <2>3. ASSUME NEW slot, NEW q, WillHold(slot, q)
        PROVE  /\ buffers'[slot].key = q.key /\ buffers'[slot].first = q.first
               /\ buffers'[slot].end = q.end /\ buffers'[slot].kv = Made(q)'
    BY <1>1, <2>3, SameAdapter
  <2>4. CASE n = 0
    BY <1>11, <1>12, <2>1, <2>2, <2>3, <2>4 DEF SlotsHoldLastPages, Holds
  <2>5. CASE n # 0
    BY <1>11, <1>13, <2>1, <2>2, <2>3, <2>5 DEF SlotsHoldLastPages, Holds
  <2> QED
    BY <2>4, <2>5
<1> QED
  BY <1>1, <1>8, <1>14 DEF Inv, WrittenInv, Serving, NoCall

LEMMA PipelineKeeps ==
  ASSUME Inv, PipelineNext
  PROVE  Inv'
<1>1. ASSUME NEW r \in Requests, Begin(r)
      PROVE  Inv'
  BY <1>1, BeginKeeps
<1>2. CASE RegeneratorFails("pipeline")
  BY <1>2, IdleKeeps DEF RegeneratorFails
<1> QED
  BY <1>1, <1>2, WriteKeeps, SwapKeeps DEF PipelineNext

LEMMA GateKeeps ==
  ASSUME Inv, GateNext
  PROVE  Inv'
<1>1. ASSUME NEW r \in Requests, GateBegin(r)
      PROVE  Inv'
  BY <1>1, LocalBegins DEF GateBegin
<1>2. CASE Write("gate")
  BY <1>2, WriteKeeps
<1>3. CASE RegeneratorFails("gate")
  BY <1>3, IdleKeeps DEF RegeneratorFails
<1>4. CASE GateReports
  BY <1>4, IdleKeeps DEF GateReports
<1> QED
  BY <1>1, <1>2, <1>3, <1>4 DEF GateNext

LEMMA AtlasKeeps ==
  ASSUME Inv, AtlasNext
  PROVE  Inv'
<1>1. ASSUME NEW r \in Requests, PageBegin(r)
      PROVE  Inv'
  <2>1. call' \in Calls /\ call'.by = "atlas"
    BY <1>1, ServeCall DEF PageBegin
  <2> QED
    BY <1>1, <2>1, OtherCallKeeps DEF PageBegin
<1>2. CASE PageWrite
  <2>1. call' \in Calls /\ call'.by = "atlas"
    BY <1>2, NextCell DEF PageWrite, Serving
  <2> QED
    BY <1>2, <2>1, OtherCallKeeps DEF PageWrite
<1>3. CASE PageError \/ PagePanic \/ PageUsed
  BY <1>3, IdleKeeps DEF PageError, PagePanic, PageUsed
<1> QED
  BY <1>1, <1>2, <1>3 DEF AtlasNext

LEMMA InitInv == Init => Inv
BY DEF Init, PipelineInit, Inv, WrittenInv, SlotInv, SlotsHoldLastPages, Slots, Serving, NoCall

LEMMA NextInv == Inv /\ [Next]_vars => Inv'
<1> SUFFICES ASSUME Inv, [Next]_vars PROVE Inv'
  OBVIOUS
<1>1. CASE UNCHANGED vars
  <2>1. /\ UNCHANGED <<adapter, pipelineVars>>
        /\ UNCHANGED <<call, regenerated>>
    BY <1>1 DEF vars
  <2>2. WrittenInv'
    BY <2>1, SameAdapter DEF Inv, WrittenInv, Serving, PutCell
  <2> QED
    BY <2>1, <2>2, SlotsKept DEF Inv
<1> QED
  BY <1>1, PipelineKeeps, GateKeeps, AtlasKeeps DEF Next

(* The slots hold the last two pages that were regenerated, exactly as the *)
(* adapter makes them of zeroes, in whatever order pages of any size and   *)
(* failed calls come, and whoever else calls the adapter.                  *)
THEOREM SlotsAlwaysHold == Spec => []SlotsHoldLastPages
<1>1. Inv => SlotsHoldLastPages
  BY DEF Inv
<1> QED
  BY <1>1, InitInv, NextInv, PTL DEF Spec

-----------------------------------------------------------------------------
(* The gate.  What it and the atlas know of the adapter.                   *)

Sound == {"overwrites", "accumulates", "skips_zeroes", "near"}

VerdictInv ==
  verdict.passed =>
    verdict.r \in Requests /\ adapter.k \in Sound /\ adapter.v \in Sound

(* A wiped scratch is zero beyond what the adapter has written.            *)
ScratchInv ==
  /\ scratch \in Seq({scratch[i] : i \in DOMAIN scratch})
  /\ Serving("atlas") => Size(call.r) <= Len(scratch)
  /\ wipe_scratch_after_use /\ ~unwound =>
       \A i \in DOMAIN scratch :
         scratch[i] = IF Serving("atlas") /\ i < call.next
                        THEN PutCell(ZeroCell, call.r, i) ELSE ZeroCell

UsedInv ==
  wipe_scratch_after_use /\ used # NoPage =>
    (used.clean =>
       /\ used.r \in Requests
       /\ \A i \in 1 .. Size(used.r) : used.kv[i] = PutCell(ZeroCell, used.r, i))

TypeInv ==
  /\ adapter \in [k : Adapters, v : Adapters]
  /\ wipe_scratch_after_use \in BOOLEAN /\ unwound \in BOOLEAN
  /\ Serving("gate") \/ Serving("atlas") => Size(call.r) > 0

GateInv == TypeInv /\ VerdictInv /\ ScratchInv /\ UsedInv

LEMMA SizeIsPositive ==
  ASSUME NEW r \in Requests, r.head_dim # 0
  PROVE  Size(r) > 0
<1>1. PICK n \in Nat \ {0} : n = r.end - r.first
  BY DEF Requests
<1>2. PICK d \in Nat \ {0} : d = r.head_dim
  BY PipelineAssumption DEF Requests
<1>3. n * d > 0
  OBVIOUS
<1> QED
  BY <1>1, <1>2, <1>3 DEF Size

LEMMA TruthFacts ==
  ASSUME NEW r, NEW i
  PROVE  Truth(r, i).off = "none" /\ {"of", "off"} \subseteq DOMAIN Truth(r, i)
BY DEF Truth, Zero

(* What an adapter makes of a zero.                                        *)
LEMMA PutFacts ==
  ASSUME NEW kind \in Adapters, NEW true, true.off = "none", {"of", "off"} \subseteq DOMAIN true
  PROVE  /\ Put(kind, Zero, true).off \in {"none", "near", "far", "non_finite"}
         /\ Within(Put(kind, Zero, true), true) <=> kind \in Sound
<1> USE DEF Put, Within, Sound
<1>1. CASE kind \in {"overwrites", "accumulates", "skips_zeroes"}
  BY <1>1
<1>2. CASE kind \in {"near", "far", "non_finite"}
  <2>1. Put(kind, Zero, true) = [true EXCEPT !.off = kind]
    BY <1>2
  <2>2. Put(kind, Zero, true).of = true.of /\ Put(kind, Zero, true).off = kind
    BY <2>1
  <2> HIDE DEF Put
  <2> QED
    BY <1>2, <2>2
<1> QED
  BY <1>1, <1>2, PipelineAssumption

(* A cell tells of the adapter, whichever it is.                           *)
LEMMA CellFacts ==
  ASSUME adapter \in [k : Adapters, v : Adapters], NEW r, NEW i
  PROVE  LET cell == PutCell(ZeroCell, r, i)
         IN  /\ Within(cell.k, Truth(r, i)) <=> adapter.k \in Sound
             /\ Within(cell.v, Truth(r, i)) <=> adapter.v \in Sound
             /\ cell.k.off \in {"none", "near", "far", "non_finite"}
             /\ cell.v.off \in {"none", "near", "far", "non_finite"}
<1>1. /\ PutCell(ZeroCell, r, i).k = Put(adapter.k, Zero, Truth(r, i))
      /\ PutCell(ZeroCell, r, i).v = Put(adapter.v, Zero, Truth(r, i))
  BY DEF PutCell, ZeroCell
<1>2. adapter.k \in Adapters /\ adapter.v \in Adapters
  OBVIOUS
<1> QED
  BY <1>1, <1>2, TruthFacts, PutFacts

(* Maxima within the tolerance are those of an adapter that is sound.      *)
LEMMA ReportFacts ==
  ASSUME Inv, GateInv, Serving("gate"), Complete, NEW reference \in References
  PROVE  /\ MaxAbsDiff(Matrix("k"), call.r, reference) = "within" => adapter.k \in Sound
         /\ MaxAbsDiff(Matrix("v"), call.r, reference) = "within" => adapter.v \in Sound
<1>1. call.r \in Requests /\ call.next \in Nat /\ call.next > Size(call.r) /\ Size(call.r) \in Nat \ {0}
  BY CallFacts, SizeIsNat DEF Complete, GateInv, TypeInv
<1>2. regenerated.kv = Made(call.r)
  BY <1>1 DEF Inv, WrittenInv, Made
<1>3. 1 \in DOMAIN regenerated.kv /\ regenerated.kv[1] = PutCell(ZeroCell, call.r, 1)
  BY <1>1, <1>2 DEF Made
<1>4. ASSUME NEW part \in {"k", "v"}, MaxAbsDiff(Matrix(part), call.r, reference) = "within"
      PROVE  LET value == PutCell(ZeroCell, call.r, 1)[part]
             IN  value.of = Truth(call.r, 1).of /\ value.off \notin {"far", "non_finite"}
  <2> DEFINE matrix == Matrix(part)
  <2>1. 1 \in DOMAIN matrix /\ matrix[1] = PutCell(ZeroCell, call.r, 1)[part]
    BY <1>3 DEF Matrix
  <2> HIDE DEF matrix
  <2>2. MaxAbsDiff(matrix, call.r, reference) = "within"
    BY <1>4 DEF matrix
  <2>3. matrix[1].off # "non_finite"
    BY <2>1, <2>2 DEF MaxAbsDiff
  <2>4. matrix[1].of = Truth(call.r, 1).of /\ matrix[1].off # "far"
    BY <2>1, <2>2 DEF MaxAbsDiff
  <2> QED
    BY <2>1, <2>3, <2>4
<1> DEFINE cell == PutCell(ZeroCell, call.r, 1)
<1>5. /\ Within(cell.k, Truth(call.r, 1)) <=> adapter.k \in Sound
      /\ Within(cell.v, Truth(call.r, 1)) <=> adapter.v \in Sound
      /\ cell.k.off \in {"none", "near", "far", "non_finite"}
      /\ cell.v.off \in {"none", "near", "far", "non_finite"}
  BY CellFacts DEF GateInv, TypeInv
<1>6. ASSUME MaxAbsDiff(Matrix("k"), call.r, reference) = "within"
      PROVE  Within(cell.k, Truth(call.r, 1))
  BY <1>4, <1>5, <1>6 DEF Within
<1>7. ASSUME MaxAbsDiff(Matrix("v"), call.r, reference) = "within"
      PROVE  Within(cell.v, Truth(call.r, 1))
  BY <1>4, <1>5, <1>7 DEF Within
<1> QED
  BY <1>5, <1>6, <1>7

-----------------------------------------------------------------------------
(* The steps of the gate and of the atlas.                                 *)

(* While someone else is served, scratch is as the last page left it.      *)
LEMMA AtlasRests ==
  ASSUME GateInv, UNCHANGED <<adapter, wipe_scratch_after_use, scratch, unwound>>,
         ~Serving("atlas"), ~Serving("atlas")'
  PROVE  ScratchInv'
BY DEF GateInv, ScratchInv

LEMMA VerdictStays ==
  ASSUME GateInv, UNCHANGED <<adapter, verdict>>
  PROVE  VerdictInv'
BY DEF GateInv, VerdictInv

LEMMA UsedStays ==
  ASSUME GateInv, UNCHANGED <<adapter, wipe_scratch_after_use, used>>
  PROVE  UsedInv'
BY DEF GateInv, UsedInv, PutCell

LEMMA PipelineKeepsGate ==
  ASSUME Inv, GateInv, PipelineNext, UNCHANGED <<atlasVars, verdict>>
  PROVE  GateInv'
<1>1. UNCHANGED <<adapter, verdict, wipe_scratch_after_use, scratch, unwound, used>>
  BY DEF PipelineNext, Begin, Write, RegeneratorFails, Swap, atlasVars
<1>2. ~Serving("atlas") /\ ~Serving("atlas")' /\ ~Serving("gate")'
  <2>1. ASSUME NEW r \in Requests, Begin(r)
        PROVE  ~Serving("atlas") /\ ~Serving("atlas")' /\ ~Serving("gate")'
    BY <2>1 DEF Begin, Serve, Serving, NoCall
  <2>2. CASE Write("pipeline")
    <3>1. call'.by = call.by /\ call.by = "pipeline"
      BY <2>2, NextCell DEF Write, Serving
    <3> QED
      BY <3>1 DEF Serving
  <2>3. CASE RegeneratorFails("pipeline") \/ Swap
    BY <2>3 DEF RegeneratorFails, Swap, Serving, NoCall
  <2> QED
    BY <2>1, <2>2, <2>3 DEF PipelineNext
<1>3. TypeInv'
  BY <1>1, <1>2 DEF GateInv, TypeInv
<1> QED
  BY <1>1, <1>2, <1>3, AtlasRests, VerdictStays, UsedStays DEF GateInv

LEMMA GateKeepsGate ==
  ASSUME Inv, GateInv, GateNext
  PROVE  GateInv'
<1>1. ASSUME NEW r \in Requests, GateBegin(r)
      PROVE  GateInv'
  <2>1. /\ UNCHANGED <<adapter, wipe_scratch_after_use, scratch, unwound>>
        /\ call'.r = r /\ Size(r) > 0 /\ ~Serving("atlas") /\ ~Serving("atlas")'
    BY <1>1, SizeIsPositive DEF GateBegin, Serve, Serving, NoCall
  <2>2. TypeInv'
    BY <2>1 DEF GateInv, TypeInv
  <2>3. VerdictInv' /\ UsedInv'
    BY <1>1 DEF GateBegin, VerdictInv, UsedInv, NoReport
  <2> QED
    BY <2>1, <2>2, <2>3, AtlasRests DEF GateInv
<1>2. CASE Write("gate") /\ UNCHANGED <<atlasVars, verdict>>
  <2>1. /\ UNCHANGED <<adapter, verdict, wipe_scratch_after_use, scratch, unwound, used>>
        /\ call'.by = "gate" /\ call.by = "gate" /\ call'.r = call.r /\ Serving("gate")
    BY <1>2, NextCell DEF Write, Serving, atlasVars
  <2>2. TypeInv'
    BY <2>1 DEF GateInv, TypeInv, Serving
  <2>3. ScratchInv'
    BY <2>1, AtlasRests DEF Serving
  <2> QED
    BY <2>1, <2>2, <2>3, VerdictStays, UsedStays DEF GateInv
<1>3. CASE RegeneratorFails("gate") /\ UNCHANGED <<atlasVars, verdict>>
  <2>1. /\ UNCHANGED <<adapter, verdict, wipe_scratch_after_use, scratch, unwound, used>>
        /\ ~Serving("atlas") /\ ~Serving("atlas")' /\ ~Serving("gate")'
    BY <1>3 DEF RegeneratorFails, Serving, atlasVars, NoCall
  <2>2. TypeInv'
    BY <2>1 DEF GateInv, TypeInv
  <2> QED
    BY <2>1, <2>2, AtlasRests, VerdictStays, UsedStays DEF GateInv
<1>4. CASE GateReports
  <2>1. /\ UNCHANGED <<adapter, wipe_scratch_after_use, scratch, unwound, used>>
        /\ Serving("gate") /\ Complete
        /\ ~Serving("atlas") /\ ~Serving("atlas")' /\ ~Serving("gate")'
    BY <1>4 DEF GateReports, Serving, atlasVars, NoCall
  <2>2. TypeInv'
    BY <2>1 DEF GateInv, TypeInv
  <2>3. VerdictInv'
    <3>1. PICK reference \in References :
            \/ verdict' = NoReport
            \/ verdict' = [passed |-> /\ MaxAbsDiff(Matrix("k"), call.r, reference) = "within"
                                      /\ MaxAbsDiff(Matrix("v"), call.r, reference) = "within",
                           r |-> call.r]
      BY <1>4 DEF GateReports
    <3>2. verdict'.passed => /\ verdict'.r = call.r
                             /\ MaxAbsDiff(Matrix("k"), call.r, reference) = "within"
                             /\ MaxAbsDiff(Matrix("v"), call.r, reference) = "within"
      BY <3>1 DEF NoReport
    <3>3. verdict'.passed => adapter.k \in Sound /\ adapter.v \in Sound
      BY <2>1, <3>2, ReportFacts
    <3>4. call.r \in Requests
      BY <2>1, CallFacts
    <3> QED
      BY <2>1, <3>2, <3>3, <3>4 DEF VerdictInv
  <2> QED
    BY <2>1, <2>2, <2>3, AtlasRests, UsedStays DEF GateInv
<1> QED
  BY <1>1, <1>2, <1>3, <1>4 DEF GateNext

(* Growing, wiping and writing leave a sequence of cells.                  *)
LEMMA ScratchFacts ==
  ASSUME ScratchInv
  PROVE  /\ Len(scratch) \in Nat /\ DOMAIN scratch = 1 .. Len(scratch)
BY DEF ScratchInv

LEMMA SequenceOf ==
  ASSUME NEW s, NEW n \in Nat, DOMAIN s = 1 .. n, s = [i \in 1 .. n |-> s[i]]
  PROVE  s \in Seq({s[i] : i \in DOMAIN s}) /\ Len(s) = n
<1> DEFINE T == {s[i] : i \in 1 .. n}
<1>1. s \in [1 .. n -> T]
  <2>1. \A i \in 1 .. n : s[i] \in T
    OBVIOUS
  <2> HIDE DEF T
  <2> QED
    BY <2>1
<1>2. s \in Seq(T)
  <2> HIDE DEF T
  <2> QED
    BY <1>1
<1>3. T = {s[i] : i \in DOMAIN s}
  OBVIOUS
<1> HIDE DEF T
<1> QED
  BY <1>1, <1>2, <1>3

LEMMA PageBeginKeepsGate ==
  ASSUME Inv, GateInv, NEW r \in Requests, PageBegin(r)
  PROVE  GateInv'
<1>1. /\ UNCHANGED <<adapter, wipe_scratch_after_use, unwound, verdict>>
      /\ call'.r = r /\ call'.next = 1 /\ call' \in Calls /\ ~Serving("atlas") /\ Serving("atlas")'
      /\ scratch' = EnsureCapacity(scratch, Size(r)) /\ used' = NoPage
  BY ServeCall DEF PageBegin, Serve, Serving, NoCall
<1>2. Size(r) \in Nat \ {0} /\ Len(scratch) \in Nat /\ DOMAIN scratch = 1 .. Len(scratch)
  <2>1. Size(r) > 0 /\ Size(r) \in Nat
    BY SizeIsPositive, SizeIsNat DEF PageBegin
  <2>2. Len(scratch) \in Nat /\ DOMAIN scratch = 1 .. Len(scratch)
    BY ScratchFacts DEF GateInv
  <2> QED
    BY <2>1, <2>2
<1> DEFINE m == Size(r)
           l == Len(scratch)
<1>3. PICK n \in Nat : /\ n >= m /\ n >= l
                       /\ scratch' = [i \in 1 .. n |-> IF i <= l THEN scratch[i] ELSE ZeroCell]
  BY <1>1, <1>2 DEF EnsureCapacity
<1>4. scratch' \in Seq({scratch'[i] : i \in DOMAIN scratch'}) /\ Len(scratch') = n
  BY <1>3, SequenceOf
<1>5. wipe_scratch_after_use /\ ~unwound => \A i \in DOMAIN scratch' : scratch'[i] = ZeroCell
  BY <1>1, <1>2, <1>3 DEF GateInv, ScratchInv
<1>6. ScratchInv'
  BY <1>1, <1>2, <1>3, <1>4, <1>5 DEF ScratchInv
<1>7. TypeInv'
  BY <1>1, <1>2 DEF GateInv, TypeInv
<1>8. UsedInv'
  BY <1>1 DEF UsedInv
<1> QED
  BY <1>1, <1>6, <1>7, <1>8, VerdictStays DEF GateInv

LEMMA PageWriteKeepsGate ==
  ASSUME Inv, GateInv, PageWrite
  PROVE  GateInv'
<1>1. /\ UNCHANGED <<adapter, wipe_scratch_after_use, unwound, verdict, used>>
      /\ Serving("atlas") /\ call.next <= Size(call.r) /\ call.next \in Nat \ {0}
      /\ call' \in Calls /\ call'.by = "atlas" /\ call'.r = call.r /\ call'.next = call.next + 1
      /\ scratch' = [scratch EXCEPT ![call.next] = PutCell(@, call.r, call.next)]
  BY CallFacts, NextCell, SizeIsNat DEF PageWrite, Complete, Serving
<1>2. PICK n \in Nat \ {0}, m \in Nat, l \in Nat :
        /\ n = call.next /\ m = Size(call.r) /\ l = Len(scratch) /\ DOMAIN scratch = 1 .. l
        /\ n <= m /\ m <= l
  <2>1. Size(call.r) \in Nat
    BY <1>1, CallFacts, SizeIsNat
  <2> QED
    BY <1>1, <2>1, ScratchFacts DEF GateInv, ScratchInv
<1>3. scratch' = [scratch EXCEPT ![n] = PutCell(scratch[n], call.r, n)]
  BY <1>1, <1>2
<1>4. DOMAIN scratch' = 1 .. l /\ scratch' = [i \in 1 .. l |-> scratch'[i]]
  BY <1>2, <1>3
<1>5. scratch' \in Seq({scratch'[i] : i \in DOMAIN scratch'}) /\ Len(scratch') = l
  BY <1>4, SequenceOf
<1>6. ASSUME wipe_scratch_after_use, ~unwound, NEW i \in DOMAIN scratch'
      PROVE  scratch'[i] = IF i < n + 1 THEN PutCell(ZeroCell, call.r, i) ELSE ZeroCell
  <2>1. i \in 1 .. l
    BY <1>4
  <2>2. scratch[i] = IF i < n THEN PutCell(ZeroCell, call.r, i) ELSE ZeroCell
    BY <1>1, <1>2, <1>6, <2>1 DEF GateInv, ScratchInv
  <2>3. CASE i = n
    BY <1>2, <1>3, <2>1, <2>2, <2>3
  <2>4. CASE i # n
    BY <1>2, <1>3, <2>1, <2>2, <2>4
  <2> QED
    BY <2>3, <2>4
<1>7. ASSUME wipe_scratch_after_use', ~unwound', NEW i \in DOMAIN scratch'
      PROVE  scratch'[i] = IF Serving("atlas")' /\ i < call'.next
                             THEN PutCell(ZeroCell, call.r, i) ELSE ZeroCell
  <2>1. Serving("atlas")'
    BY <1>1 DEF Serving, Calls
  <2> QED
    BY <1>1, <1>2, <1>6, <1>7, <2>1
<1>8. ScratchInv'
  <2>1. Size(call.r)' <= Len(scratch')
    BY <1>1, <1>2, <1>5 DEF Size
  <2> QED
    BY <1>1, <1>5, <1>7, <2>1 DEF ScratchInv, PutCell
<1>9. TypeInv'
  BY <1>1 DEF GateInv, TypeInv, Size
<1> QED
  BY <1>1, <1>8, <1>9, VerdictStays, UsedStays DEF GateInv

(* Whatever ends a page, scratch is wiped, or a panic went past that.      *)
LEMMA WipeKeeps ==
  ASSUME GateInv, WipeIfEnabled, call' = NoCall, UNCHANGED <<adapter, wipe_scratch_after_use>>
  PROVE  ScratchInv' /\ TypeInv'
<1>1. ~Serving("atlas")' /\ ~Serving("gate")'
  BY DEF Serving, NoCall
<1>2. PICK l \in Nat : l = Len(scratch) /\ DOMAIN scratch = 1 .. l
  BY ScratchFacts DEF GateInv
<1>3. CASE wipe_scratch_after_use
  <2>1. scratch' = [i \in 1 .. l |-> ZeroCell] /\ unwound' = FALSE
    BY <1>2, <1>3 DEF WipeIfEnabled, Wiped
  <2>2. scratch' \in Seq({scratch'[i] : i \in DOMAIN scratch'})
    BY <2>1, SequenceOf
  <2> QED
    BY <1>1, <2>1, <2>2 DEF ScratchInv, GateInv, TypeInv
<1>4. CASE ~wipe_scratch_after_use
  BY <1>1, <1>4 DEF WipeIfEnabled, ScratchInv, GateInv, TypeInv
<1> QED
  BY <1>3, <1>4

LEMMA PageUsedKeepsGate ==
  ASSUME Inv, GateInv, PageUsed
  PROVE  GateInv'
<1>1. /\ Serving("atlas") /\ call.r \in Requests /\ call.next \in Nat
      /\ call.next > Size(call.r) /\ Size(call.r) \in Nat
      /\ UNCHANGED <<adapter, wipe_scratch_after_use, verdict>> /\ call' = NoCall
      /\ used' = [pc |-> "used", r |-> call.r, kv |-> SubSeq(scratch, 1, Size(call.r)),
                  clean |-> ~unwound]
  BY CallFacts, SizeIsNat DEF PageUsed, Complete
<1>2. PICK m \in Nat, l \in Nat :
        m = Size(call.r) /\ l = Len(scratch) /\ DOMAIN scratch = 1 .. l /\ m <= l
  BY <1>1, ScratchFacts DEF GateInv, ScratchInv
<1>3. \A i \in 1 .. m : SubSeq(scratch, 1, m)[i] = scratch[i]
  <2> DEFINE T == {scratch[i] : i \in 1 .. m}
  <2>1. \A i \in 1 .. m : scratch[i] \in T
    OBVIOUS
  <2> HIDE DEF T
  <2>2. \A i \in 1 .. m - 1 + 1 : SubSeq(scratch, 1, m)[i] = scratch[1 + i - 1]
    BY <2>1, SubSeqProperties
  <2> QED
    BY <2>2
<1>4. ASSUME wipe_scratch_after_use, ~unwound, NEW i \in 1 .. m
      PROVE  used'.kv[i] = PutCell(ZeroCell, call.r, i)
  <2>1. i \in DOMAIN scratch /\ i < call.next
    BY <1>1, <1>2
  <2>2. scratch[i] = IF Serving("atlas") /\ i < call.next
                       THEN PutCell(ZeroCell, call.r, i) ELSE ZeroCell
    BY <1>4, <2>1 DEF GateInv, ScratchInv
  <2> QED
    BY <1>1, <1>2, <1>3, <2>1, <2>2
<1>5. UsedInv'
  <2>1. used'.r = call.r /\ used'.clean = ~unwound
    BY <1>1
  <2> QED
    BY <1>1, <1>2, <1>4, <2>1 DEF UsedInv, PutCell
<1> QED
  BY <1>1, <1>5, WipeKeeps, VerdictStays DEF PageUsed, GateInv

LEMMA AtlasKeepsGate ==
  ASSUME Inv, GateInv, AtlasNext
  PROVE  GateInv'
<1>1. CASE PageError
  BY <1>1, WipeKeeps, VerdictStays, UsedStays DEF PageError, GateInv
<1>2. CASE PagePanic
  <2>1. /\ UNCHANGED <<adapter, wipe_scratch_after_use, scratch, verdict, used>>
        /\ unwound' = TRUE /\ ~Serving("atlas")' /\ ~Serving("gate")'
    BY <1>2 DEF PagePanic, Serving, NoCall
  <2>2. TypeInv' /\ ScratchInv'
    BY <2>1 DEF GateInv, TypeInv, ScratchInv
  <2> QED
    BY <2>1, <2>2, VerdictStays, UsedStays DEF GateInv
<1> QED
  BY <1>1, <1>2, PageBeginKeepsGate, PageWriteKeepsGate, PageUsedKeepsGate DEF AtlasNext

LEMMA InitGate == Init => GateInv
<1> SUFFICES ASSUME Init PROVE GateInv
  OBVIOUS
<1>1. ~Serving("atlas") /\ ~Serving("gate") /\ scratch = << >> /\ used = NoPage
  BY DEF Init, PipelineInit, Serving, NoCall
<1>2. TypeInv
  BY <1>1 DEF Init, PipelineInit, TypeInv, OneFault
<1>3. VerdictInv /\ UsedInv
  BY <1>1 DEF Init, VerdictInv, UsedInv, NoReport
<1>4. ScratchInv
  BY <1>1 DEF ScratchInv
<1> QED
  BY <1>2, <1>3, <1>4 DEF GateInv

LEMMA NextGate == Inv /\ GateInv /\ [Next]_vars => GateInv'
<1> SUFFICES ASSUME Inv, GateInv, [Next]_vars PROVE GateInv'
  OBVIOUS
<1>1. CASE UNCHANGED vars
  BY <1>1 DEF vars, pipelineVars, atlasVars, GateInv, TypeInv, VerdictInv, ScratchInv, UsedInv,
     Serving, PutCell
<1> QED
  BY <1>1, PipelineKeepsGate, GateKeepsGate, AtlasKeepsGate DEF Next

LEMMA GateInductive == Spec => [](Inv /\ GateInv)
BY InitInv, InitGate, NextInv, NextGate, PTL DEF Spec

(* Every page that a sound adapter makes of zeroes is within the tolerance. *)
LEMMA SoundPage ==
  ASSUME adapter \in [k : Adapters, v : Adapters], adapter.k \in Sound, adapter.v \in Sound,
         NEW r \in Requests
  PROVE  \A i \in 1 .. Size(r) :
           /\ Within(PutCell(ZeroCell, r, i).k, Truth(r, i))
           /\ Within(PutCell(ZeroCell, r, i).v, Truth(r, i))
BY CellFacts

(* A report that passes is true of every key and value of its page.        *)
THEOREM VerdictAlwaysTrue == Spec => []VerdictIsTrue
<1>1. GateInv => VerdictIsTrue
  <2> SUFFICES ASSUME GateInv, verdict.passed
               PROVE  PageWithin(Made(verdict.r), verdict.r)
    BY DEF VerdictIsTrue
  <2>1. /\ verdict.r \in Requests /\ adapter.k \in Sound /\ adapter.v \in Sound
        /\ adapter \in [k : Adapters, v : Adapters]
    BY DEF GateInv, VerdictInv, TypeInv
  <2> QED
    BY <2>1, SoundPage DEF PageWithin, Made
<1> QED
  BY <1>1, GateInductive, PTL

(* One page that passed the gate, of whatever size, is enough: with the    *)
(* scratch wiped, every page the atlas uses is within the tolerance.       *)
THEOREM GateAlwaysHolds == Spec => []GateHolds
<1>1. GateInv => GateHolds
  <2> SUFFICES ASSUME GateInv, verdict.passed, wipe_scratch_after_use, used # NoPage, used.clean
               PROVE  PageWithin(used.kv, used.r)
    BY DEF GateHolds
  <2>1. /\ adapter.k \in Sound /\ adapter.v \in Sound
        /\ adapter \in [k : Adapters, v : Adapters]
    BY DEF GateInv, VerdictInv, TypeInv
  <2>2. /\ used.r \in Requests
        /\ \A i \in 1 .. Size(used.r) : used.kv[i] = PutCell(ZeroCell, used.r, i)
    BY DEF GateInv, UsedInv
  <2> QED
    BY <2>1, <2>2, SoundPage DEF PageWithin
<1> QED
  BY <1>1, GateInductive, PTL

-----------------------------------------------------------------------------
(* The reference backend.                                                  *)
TokenRecords == [token_id : TokenIds, position : Nat]

AnyRequest ==
  [layer : Nat, head : Nat, start_token : Nat, start : Nat, end : Nat,
   head_dim : BackendDims, out_len : Nat]

Frames ==
  [pc : {"rows"}, slices : {"caller", "stored", "regenerated"}, r : AnyRequest, row : Nat \ {0}]

(* The rows that a request is owed, from the ledger as it is.              *)
RowsOf(r) == [i \in 1 .. r.end - r.start |-> RowOf(r, records[r.start + i])]

(* The backend's ledger is what the runtime's was at some time.            *)
LedgerInv ==
  /\ records \in Seq(TokenRecords)
  /\ ledger \in Seq(TokenRecords)
  /\ Len(ledger) <= Len(records)
  /\ \A i \in 1 .. Len(ledger) : ledger[i] = records[i]
  /\ PositionsIncrease

(* Within a call, the rows before the current one are written.             *)
CallInv ==
  /\ frame = NoFrame \/ frame \in Frames
  /\ frame # NoFrame =>
       /\ frame.r.start < frame.r.end /\ frame.r.end <= Len(ledger)
       /\ frame.row <= frame.r.end - frame.r.start + 1
       /\ DOMAIN out = 1 .. frame.r.end - frame.r.start
       /\ out = [i \in DOMAIN out |-> out[i]]
       /\ \A i \in DOMAIN out : i < frame.row => out[i] = RowsOf(frame.r)[i]
       /\ frame.slices = "caller" => stored = WipedRows(stored)
       /\ frame.slices = "stored" => stored = << >>
       /\ frame.slices = "regenerated" => stored = RowsOf(frame.r)

(* After a call, there is nothing or a whole page.                         *)
ResultInv ==
  /\ result.status = "report" => result.passed
  /\ frame = NoFrame =>
       /\ stored = WipedRows(stored)
       /\ result.status = "report" => out = WipedRows(out)
       /\ result.status = "ok" =>
            /\ result.r \in AnyRequest /\ result.r.end <= Len(records)
            /\ result.r.start < result.r.end
            /\ out = RowsOf(result.r)
       /\ result.status = "error" => \A i \in DOMAIN out : out[i] = ZeroRow

KeptInv ==
  kept # NothingKept =>
    /\ kept.r \in AnyRequest /\ kept.r.end <= Len(records)
    /\ kept.r.start < kept.r.end
    /\ kept.rows = RowsOf(kept.r)

BackendInv == LedgerInv /\ CallInv /\ ResultInv /\ KeptInv

-----------------------------------------------------------------------------
(* A wiped page is zero, stays so, and an empty one is wiped.              *)
LEMMA WipedFacts ==
  /\ \A rows : /\ DOMAIN WipedRows(rows) = DOMAIN rows
               /\ \A i \in DOMAIN rows : WipedRows(rows)[i] = ZeroRow
               /\ WipedRows(WipedRows(rows)) = WipedRows(rows)
  /\ WipedRows(<< >>) = << >>
BY DEF WipedRows

(* A row that is written is neither zero nor stale.                        *)
LEMMA RowIsData ==
  ASSUME NEW key, NEW record
  PROVE  RowOf(key, record) \notin {ZeroRow, Stale}
<1>1. Len(RowOf(key, record)) = 4 /\ Len(ZeroRow) = 0 /\ Len(Stale) = 1
  BY DEF RowOf, ZeroRow, Stale
<1> QED
  BY <1>1

(* Pushing a record leaves those before it, and positions in order.        *)
LEMMA LedgerGrows ==
  ASSUME LedgerInv, LedgerNext
  PROVE  /\ records' \in Seq(TokenRecords)
         /\ Len(records') = Len(records) + 1
         /\ \A i \in 1 .. Len(records) : records'[i] = records[i]
         /\ PositionsIncrease'
<1>0. ASSUME NEW k \in 1 .. Len(records)
      PROVE  records[k] \in TokenRecords /\ records[k].position \in Nat
  <2>1. records[k] \in TokenRecords
    BY DEF LedgerInv
  <2> QED
    BY <2>1 DEF TokenRecords
<1>1. PICK id \in TokenIds, p \in Nat :
        /\ records' = Append(records, [token_id |-> id, position |-> p])
        /\ records # << >> => records[Len(records)].position < p
  <2>0. records # << >> => records[Len(records)].position \in Nat
    <3>1. records # << >> => Len(records) \in 1 .. Len(records)
      BY DEF LedgerInv
    <3> QED
      BY <1>0, <3>1
  <2>1. PICK id \in TokenIds : \/ Push(id)
                               \/ \E p \in 0 .. MaxPosition : PushWithPosition(id, p)
    BY DEF LedgerNext
  <2>2. CASE Push(id)
    BY <2>0, <2>2 DEF Push, Appended, LastPosition
  <2>3. ASSUME NEW p \in 0 .. MaxPosition, PushWithPosition(id, p)
        PROVE  /\ p \in Nat
               /\ records' = Append(records, [token_id |-> id, position |-> p])
               /\ records # << >> => records[Len(records)].position < p
    BY <2>0, <2>3, LedgerAssumption
    DEF PushWithPosition, Appended, LastPosition
  <2> QED
    BY <2>1, <2>2, <2>3
<1>2. /\ records' \in Seq(TokenRecords) /\ Len(records') = Len(records) + 1
      /\ \A i \in 1 .. Len(records) : records'[i] = records[i]
      /\ records'[Len(records) + 1].position = p
  <2> DEFINE e == [token_id |-> id, position |-> p]
  <2>1. e \in TokenRecords /\ e.position = p
    BY DEF TokenRecords
  <2>2. records \in Seq(TokenRecords) /\ records' = Append(records, e)
    BY <1>1 DEF LedgerInv
  <2> HIDE DEF e
  <2> QED
    BY <2>1, <2>2
<1>3. ASSUME NEW i \in DOMAIN records', NEW j \in DOMAIN records', i < j
      PROVE  records'[i].position < records'[j].position
  <2>0. records \in Seq(TokenRecords) /\ DOMAIN records = 1 .. Len(records) /\ Len(records) \in Nat
    BY DEF LedgerInv
  <2>1. i \in 1 .. Len(records) /\ j \in 1 .. Len(records) + 1 /\ Len(records) \in DOMAIN records
    BY <1>2, <1>3, <2>0
  <2>2. CASE j <= Len(records)
    <3>1. j \in DOMAIN records /\ i \in DOMAIN records
      BY <2>0, <2>1, <2>2
    <3>2. records[i].position < records[j].position
      BY <1>3, <3>1 DEF LedgerInv, PositionsIncrease
    <3> QED
      BY <1>2, <2>0, <3>1, <3>2
  <2>3. CASE j = Len(records) + 1
    <3>1. records[Len(records)].position < p
      BY <1>1, <2>0, <2>1
    <3>2. i = Len(records) \/ records[i].position < records[Len(records)].position
      BY <2>0, <2>1 DEF LedgerInv, PositionsIncrease
    <3>3. records[i].position \in Nat /\ records[Len(records)].position \in Nat
      BY <1>0, <2>0, <2>1
    <3>4. records[i].position < p
      BY <1>1, <3>1, <3>2, <3>3
    <3> QED
      BY <1>2, <2>1, <2>3, <3>4
  <2> QED
    BY <2>0, <2>1, <2>2, <2>3
<1> QED
  BY <1>2, <1>3 DEF PositionsIncrease

(* So the rows of a page that was in the ledger stay what they were.       *)
LEMMA RowsStay ==
  ASSUME NEW r \in AnyRequest, LedgerInv, r.end <= Len(records),
         \A i \in 1 .. Len(records) : records'[i] = records[i]
  PROVE  RowsOf(r)' = RowsOf(r)
<1>1. ASSUME NEW i \in 1 .. r.end - r.start
      PROVE  r.start + i \in 1 .. Len(records)
  BY DEF AnyRequest, LedgerInv
<1> QED
  BY <1>1 DEF RowsOf

-----------------------------------------------------------------------------
LEMMA FrameFields ==
  ASSUME frame \in Frames
  PROVE  /\ frame.r \in AnyRequest /\ frame.row \in Nat \ {0} /\ frame # NoFrame
         /\ frame.r.start \in Nat /\ frame.r.end \in Nat
BY DEF Frames, AnyRequest, NoFrame

LEMMA RequestFields ==
  ASSUME NEW r \in PageRequests
  PROVE  r \in AnyRequest
BY DEF PageRequests, AnyRequest

LEMMA BackendBegins == BackendInit => BackendInv
<1> SUFFICES ASSUME BackendInit PROVE BackendInv
  OBVIOUS
<1>1. LedgerInv
  BY DEF BackendInit, LedgerInit, LedgerInv, PositionsIncrease
<1>2. CallInv /\ ResultInv /\ KeptInv
  BY WipedFacts DEF BackendInit, CallInv, ResultInv, KeptInv
<1> QED
  BY <1>1, <1>2 DEF BackendInv

(* The runtime's ledger grows under a call, and what the call has written, *)
(* the last page and the page that was kept stay right.                    *)
LEMMA AppendTokenKeeps ==
  ASSUME BackendInv, AppendToken
  PROVE  BackendInv'
<1> USE DEF BackendInv
<1>1. /\ records' \in Seq(TokenRecords) /\ Len(records') >= Len(records)
      /\ \A i \in 1 .. Len(records) : records'[i] = records[i]
      /\ PositionsIncrease'
      /\ UNCHANGED <<ledger, out, stored, frame, result, kept>>
  <2>1. CASE LedgerNext
    BY <2>1, LedgerGrows DEF AppendToken, LedgerInv
  <2>2. CASE PushRefused
    BY <2>2 DEF AppendToken, PushRefused, LedgerInv, PositionsIncrease
  <2> QED
    BY <2>1, <2>2 DEF AppendToken
<1>2. ASSUME NEW r \in AnyRequest, r.end <= Len(records)
      PROVE  RowsOf(r)' = RowsOf(r)
  BY <1>1, <1>2, RowsStay
<1>3. LedgerInv'
  BY <1>1 DEF LedgerInv
<1>4. CallInv'
  <2>1. CASE frame = NoFrame
    BY <1>1, <2>1 DEF CallInv
  <2>2. CASE frame \in Frames
    <3>1. frame.r \in AnyRequest /\ frame # NoFrame
      BY <2>2, FrameFields
    <3>2. frame.r.end <= Len(records)
      BY <2>2, <3>1, FrameFields DEF CallInv, LedgerInv
    <3>3. RowsOf(frame.r)' = RowsOf(frame.r)
      BY <1>1, <1>2, <3>1, <3>2 DEF RowsOf
    <3> QED
      BY <1>1, <3>1, <3>3 DEF CallInv, WipedRows
  <2> QED
    BY <2>1, <2>2 DEF CallInv
<1>5. ResultInv'
  <2>0. CASE frame # NoFrame
    BY <1>1, <2>0 DEF ResultInv
  <2>1. ASSUME frame = NoFrame, result.status = "ok"
        PROVE  RowsOf(result.r)' = RowsOf(result.r)
    <3>1. result.r \in AnyRequest /\ result.r.end <= Len(records)
      BY <2>1 DEF BackendInv, ResultInv
    <3> QED
      BY <1>1, <1>2, <3>1 DEF RowsOf
  <2> QED
    BY <1>1, <2>0, <2>1 DEF ResultInv, WipedRows, LedgerInv, AnyRequest
<1>6. KeptInv'
  <2>1. ASSUME kept # NothingKept
        PROVE  RowsOf(kept.r)' = RowsOf(kept.r)
    BY <1>1, <1>2, <2>1 DEF KeptInv, RowsOf
  <2> QED
    BY <1>1, <2>1 DEF KeptInv, LedgerInv, AnyRequest
<1> QED
  BY <1>3, <1>4, <1>5, <1>6

(* What a step leaves of the ledgers and of the page that was kept.        *)
LEMMA StillKept ==
  ASSUME BackendInv, UNCHANGED <<records, ledger>>
  PROVE  /\ LedgerInv'
         /\ UNCHANGED kept => KeptInv'
         /\ \A r : RowsOf(r)' = RowsOf(r)
BY DEF BackendInv, LedgerInv, PositionsIncrease, KeptInv, RowsOf

LEMMA FailKeeps ==
  ASSUME BackendInv, UNCHANGED <<records, ledger, kept>>, Fail,
         stored' = WipedRows(stored'), \A i \in DOMAIN out' : out'[i] = ZeroRow
  PROVE  BackendInv'
<1>1. CallInv'
  BY DEF CallInv, Fail
<1>2. ResultInv'
  BY DEF ResultInv, Fail, WipedRows
<1> QED
  BY <1>1, <1>2, StillKept DEF BackendInv

LEMMA NewKeeps ==
  ASSUME BackendInv, New
  PROVE  BackendInv'
<1>1. LedgerInv'
  BY DEF BackendInv, New, LedgerInv, PositionsIncrease
<1>2. CallInv'
  BY DEF New, CallInv
<1>3. ResultInv' /\ KeptInv'
  BY DEF BackendInv, New, ResultInv, KeptInv, RowsOf, WipedRows
<1> QED
  BY <1>1, <1>2, <1>3 DEF BackendInv

LEMMA PageBeginKeeps ==
  ASSUME BackendInv, NEW r \in PageRequests, GenerateBegin(r)
  PROVE  BackendInv'
<1>1. /\ r \in AnyRequest /\ r.start \in Nat /\ r.end \in Nat
      /\ r.start < r.end /\ r.end <= Len(ledger) /\ r.out_len = r.end - r.start
  BY RequestFields DEF AnyRequest, GenerateBegin, RequestValid, RangeValid
<1>2. /\ frame' \in Frames /\ frame' # NoFrame
      /\ frame'.r = r /\ frame'.row = 1 /\ frame'.slices = "caller"
  BY <1>1 DEF GenerateBegin, Frames, NoFrame
<1>3. stored' = WipedRows(stored')
  BY DEF BackendInv, GenerateBegin, ResultInv, WipedRows
<1>4. DOMAIN out' = 1 .. r.end - r.start
  BY <1>1 DEF GenerateBegin
<1>5. CallInv'
  BY <1>1, <1>2, <1>3, <1>4 DEF CallInv, GenerateBegin, WipedRows
<1>6. ResultInv'
  BY <1>2 DEF ResultInv, GenerateBegin, BackendInv
<1> QED
  BY <1>5, <1>6, StillKept DEF BackendInv, GenerateBegin

LEMMA ConformBeginKeeps ==
  ASSUME BackendInv, NEW r \in Pages, ConformBegin(r)
  PROVE  BackendInv'
<1>1. /\ r \in AnyRequest /\ r.start \in Nat /\ r.end \in Nat
      /\ r.start < r.end /\ r.end <= Len(ledger)
  BY RequestFields DEF Pages, AnyRequest, ConformBegin, RangeValid
<1>2. /\ Expected(r) \in AnyRequest
      /\ Expected(r).start = r.start /\ Expected(r).end = r.end
  <2>1. PICK n \in Nat : n = r.end - r.start
    BY <1>1
  <2>2. HeadDim \in BackendDims
    BY BackendAssumption
  <2> QED
    BY <1>1, <2>1, <2>2 DEF Expected, AnyRequest
<1>3. /\ frame' \in Frames /\ frame' # NoFrame
      /\ frame'.r = Expected(r) /\ frame'.row = 1
      /\ frame'.slices = "stored"
  BY <1>2 DEF ConformBegin, Frames, NoFrame
<1>4. CallInv'
  BY <1>1, <1>2, <1>3 DEF CallInv, ConformBegin
<1>5. ResultInv'
  BY <1>3 DEF ResultInv, ConformBegin, BackendInv
<1> QED
  BY <1>4, <1>5, StillKept DEF BackendInv, ConformBegin

(* The frame of a call that has a row left, or none.                       *)
LEMMA FrameFacts ==
  ASSUME BackendInv, frame.pc = "rows"
  PROVE  /\ frame \in Frames /\ frame # NoFrame
         /\ frame.r \in AnyRequest /\ frame.row \in Nat \ {0}
         /\ frame.r.start \in Nat /\ frame.r.end \in Nat
         /\ frame.r.start < frame.r.end /\ frame.r.end <= Len(ledger) /\ Len(ledger) \in Nat
         /\ DOMAIN out = 1 .. frame.r.end - frame.r.start
<1>1. frame \in Frames
  BY DEF BackendInv, CallInv, NoFrame
<1> QED
  BY <1>1, FrameFields DEF BackendInv, CallInv, LedgerInv

(* A row is written from the backend's ledger, which has what the          *)
(* runtime's has.                                                          *)
LEMMA GenerateRowKeeps ==
  ASSUME BackendInv, GenerateRow
  PROVE  BackendInv'
<1> DEFINE n == frame.r.end - frame.r.start
<1>0. frame.pc = "rows"
  BY DEF GenerateRow
<1>1. /\ frame \in Frames /\ frame # NoFrame /\ frame.row \in 1 .. n /\ n \in Nat
      /\ DOMAIN out = 1 .. n
  <2>1. PICK m \in Nat : m = n
    BY <1>0, FrameFacts
  <2> QED
    BY <1>0, FrameFacts, <2>1 DEF GenerateRow, BackendInv, CallInv
<1>2. Record = records[frame.r.start + frame.row]
  <2>1. frame.r.start + frame.row \in 1 .. Len(ledger)
    BY <1>0, <1>1, FrameFacts
  <2>2. Record = ledger[frame.r.start + frame.row]
    BY DEF Record
  <2> QED
    BY <2>1, <2>2 DEF BackendInv, LedgerInv
<1>3. RowOf(frame.r, Record) = RowsOf(frame.r)[frame.row]
  <2>1. RowsOf(frame.r)[frame.row] = RowOf(frame.r, records[frame.r.start + frame.row])
    BY <1>1 DEF RowsOf
  <2> QED
    BY <1>2, <2>1 DEF RowOf
<1>4. /\ frame' \in Frames /\ frame' # NoFrame
      /\ frame'.r = frame.r /\ frame'.row = frame.row + 1
      /\ frame'.slices = frame.slices
  BY <1>1 DEF GenerateRow, Frames, NoFrame
<1>5. RowsOf(frame.r)' = RowsOf(frame.r) /\ LedgerInv' /\ KeptInv'
  <2>1. \A r : RowsOf(r)' = RowsOf(r)
    BY StillKept DEF GenerateRow
  <2> QED
    BY <1>4, <2>1, StillKept DEF GenerateRow, RowsOf
<1>6. CallInv'
  <2>1. DOMAIN out' = 1 .. n /\ out' = [i \in DOMAIN out' |-> out'[i]]
    BY <1>1 DEF GenerateRow
  <2>2. ASSUME NEW i \in 1 .. n, i < frame.row + 1
        PROVE  out'[i] = RowsOf(frame.r)[i]
    BY <1>1, <1>3, <2>2 DEF GenerateRow, BackendInv, CallInv
  <2>3. /\ frame.slices = "caller" => stored' = WipedRows(stored')
        /\ frame.slices = "stored" => stored' = << >>
        /\ frame.slices = "regenerated" => stored' = RowsOf(frame.r)
    BY <1>1 DEF CallInv, BackendInv, GenerateRow, WipedRows
  <2>4. frame.row + 1 <= n + 1 /\ ledger' = ledger
    BY <1>1 DEF GenerateRow
  <2> QED
    BY <1>0, <1>1, <1>4, <1>5, <2>1, <2>2, <2>3, <2>4, FrameFacts DEF CallInv
<1>7. ResultInv'
  BY <1>4 DEF ResultInv, GenerateRow, BackendInv
<1> QED
  BY <1>5, <1>6, <1>7 DEF BackendInv

(* At the end of a call, the slices hold the page.                         *)
LEMMA WholePage ==
  ASSUME BackendInv, frame.pc = "rows", frame.row > Len(out)
  PROVE  /\ out = RowsOf(frame.r)
         /\ frame.slices = "caller" => stored = WipedRows(stored)
         /\ frame.slices = "stored" => stored = << >>
         /\ frame.slices = "regenerated" => stored = out
<1>1. PICK n \in Nat : n = frame.r.end - frame.r.start
  BY FrameFacts
<1>2. /\ DOMAIN out = 1 .. n /\ out = [i \in 1 .. n |-> out[i]]
      /\ \A i \in 1 .. n : i < frame.row => out[i] = RowsOf(frame.r)[i]
  BY <1>1, FrameFacts DEF BackendInv, CallInv
<1>3. Len(out) = n
  BY <1>2
<1>4. RowsOf(frame.r) = [i \in 1 .. n |-> RowsOf(frame.r)[i]]
  BY <1>1 DEF RowsOf
<1>5. out = RowsOf(frame.r)
  BY <1>2, <1>3, <1>4, FrameFacts
<1> QED
  BY <1>5, FrameFacts DEF BackendInv, CallInv

LEMMA RowFailsKeeps ==
  ASSUME BackendInv, RowFails
  PROVE  BackendInv'
<1>1. stored' = WipedRows(stored') /\ \A i \in DOMAIN out' : out'[i] = ZeroRow
  BY WipedFacts DEF RowFails
<1> QED
  BY <1>1, FailKeeps DEF RowFails

LEMMA DoneKeeps ==
  ASSUME BackendInv, Done
  PROVE  BackendInv'
<1>1. out = RowsOf(frame.r) /\ stored = WipedRows(stored)
  BY WholePage DEF Done
<1>2. frame.r \in AnyRequest /\ frame.r.start < frame.r.end /\ frame.r.end <= Len(records)
  BY FrameFacts DEF Done, BackendInv, LedgerInv
<1>3. \A r : RowsOf(r)' = RowsOf(r)
  BY StillKept DEF Done
<1>4. ResultInv'
  BY <1>1, <1>2, <1>3 DEF Done, ResultInv, WipedRows
<1>5. KeptInv'
  BY <1>1, <1>2, <1>3, StillKept DEF Done, KeptInv
<1> QED
  BY <1>4, <1>5, StillKept DEF Done, BackendInv, CallInv

LEMMA ToleranceRefusedKeeps ==
  ASSUME BackendInv, ToleranceRefused
  PROVE  BackendInv'
<1>1. stored' = WipedRows(stored') /\ \A i \in DOMAIN out' : out'[i] = ZeroRow
  BY WholePage, WipedFacts DEF ToleranceRefused
<1> QED
  BY <1>1, FailKeeps DEF ToleranceRefused

LEMMA RegenerateKeeps ==
  ASSUME BackendInv, Regenerate
  PROVE  BackendInv'
<1>1. /\ frame.pc = "rows" /\ stored' = RowsOf(frame.r)
      /\ UNCHANGED <<records, ledger, kept>>
  BY WholePage DEF Regenerate
<1>2. /\ frame' \in Frames /\ frame' # NoFrame /\ frame'.r = frame.r /\ frame'.row = 1
      /\ frame'.slices = "regenerated"
  <2>1. frame \in Frames
    BY <1>1, FrameFacts
  <2>2. frame' = [frame EXCEPT !.slices = "regenerated", !.row = 1]
    BY DEF Regenerate
  <2>3. frame' = [pc |-> "rows", slices |-> "regenerated", r |-> frame.r, row |-> 1]
    BY <2>1, <2>2 DEF Frames
  <2> QED
    BY <1>1, <2>3, FrameFacts DEF Frames, NoFrame
<1>3. RowsOf(frame.r)' = RowsOf(frame.r)
  <2>1. \A r : RowsOf(r)' = RowsOf(r)
    BY <1>1, StillKept
  <2> QED
    BY <1>2, <2>1 DEF RowsOf
<1>4. DOMAIN out' = DOMAIN out /\ out' = [i \in DOMAIN out' |-> out'[i]]
  BY DEF Regenerate, WipedRows
<1>5. CallInv'
  BY <1>1, <1>2, <1>3, <1>4, FrameFacts DEF CallInv, Regenerate
<1>6. ResultInv'
  BY <1>2 DEF ResultInv, Regenerate, BackendInv
<1> QED
  BY <1>1, <1>5, <1>6, StillKept DEF BackendInv

LEMMA CompareKeeps ==
  ASSUME BackendInv, Compare
  PROVE  BackendInv'
<1>1. stored = out
  BY WholePage DEF Compare
<1>2. ResultInv'
  BY <1>1, WipedFacts DEF Compare, ResultInv
<1> QED
  BY <1>2, StillKept DEF Compare, BackendInv, CallInv

LEMMA BackendKeeps ==
  ASSUME BackendInv, [BackendNext]_backendVars
  PROVE  BackendInv'
<1>1. CASE AppendToken
  BY <1>1, AppendTokenKeeps
<1>2. CASE New
  BY <1>2, NewKeeps
<1>3. ASSUME NEW r \in PageRequests, Refuse(r)
      PROVE  BackendInv'
  <2>1. stored' = WipedRows(stored') /\ \A i \in DOMAIN out' : out'[i] = ZeroRow
    BY <1>3 DEF Refuse, BackendInv, ResultInv, WipedRows
  <2> QED
    BY <1>3, <2>1, FailKeeps DEF Refuse
<1>4. ASSUME NEW r \in PageRequests, GenerateBegin(r)
      PROVE  BackendInv'
  BY <1>4, PageBeginKeeps
<1>5. CASE RowFails
  BY <1>5, RowFailsKeeps
<1>6. CASE GenerateRow
  BY <1>6, GenerateRowKeeps
<1>7. CASE Done
  BY <1>7, DoneKeeps
<1>8. ASSUME NEW r \in Pages, ConformRefused(r)
      PROVE  BackendInv'
  <2>1. stored' = WipedRows(stored') /\ \A i \in DOMAIN out' : out'[i] = ZeroRow
    BY <1>8, WipedFacts DEF ConformRefused
  <2> QED
    BY <1>8, <2>1, FailKeeps DEF ConformRefused
<1>9. ASSUME NEW r \in Pages, ConformBegin(r)
      PROVE  BackendInv'
  BY <1>9, ConformBeginKeeps
<1>10. CASE ToleranceRefused
  BY <1>10, ToleranceRefusedKeeps
<1>11. CASE Regenerate
  BY <1>11, RegenerateKeeps
<1>12. CASE Compare
  BY <1>12, CompareKeeps
<1>13. CASE UNCHANGED backendVars
  BY <1>13 DEF backendVars, BackendInv, LedgerInv, PositionsIncrease, CallInv,
               ResultInv, KeptInv, RowsOf, WipedRows
<1> QED
  BY <1>1, <1>2, <1>3, <1>4, <1>5, <1>6, <1>7, <1>8, <1>9, <1>10, <1>11, <1>12, <1>13 DEF BackendNext

LEMMA BackendAlways ==
  BackendSpec => []BackendInv
<1>1. BackendInv /\ [BackendNext]_backendVars => BackendInv'
  BY BackendKeeps
<1> QED
  BY <1>1, BackendBegins, PTL DEF BackendSpec

-----------------------------------------------------------------------------
(* A page is written in full or not at all, whatever its length and        *)
(* whichever row fails: a call that succeeds has overwritten every row of  *)
(* its slices, and one that fails has left zeroes.                         *)
THEOREM PageIsAllOrNothing ==
  BackendSpec => []AllOrNothing
<1>1. BackendInv => AllOrNothing
  <2> SUFFICES ASSUME BackendInv, frame = NoFrame
               PROVE  /\ stored = WipedRows(stored)
                      /\ result.status = "report" => out = WipedRows(out)
                      /\ result.status = "ok" =>
                           \A i \in DOMAIN out : out[i] \notin {ZeroRow, Stale}
                      /\ result.status = "error" => \A i \in DOMAIN out : out[i] = ZeroRow
    BY DEF AllOrNothing
  <2>1. ASSUME result.status = "ok", NEW i \in DOMAIN out
        PROVE  out[i] \notin {ZeroRow, Stale}
    <3>1. out[i] = RowOf(result.r, records[result.r.start + i])
      BY <2>1 DEF BackendInv, ResultInv, RowsOf
    <3> QED
      BY <3>1, RowIsData
  <2> QED
    BY <2>1 DEF BackendInv, ResultInv
<1> QED
  BY <1>1, BackendAlways, PTL

(* Regeneration is replay: however the ledger grew and the backend was     *)
(* created anew in between, two pages of one layer and head agree on the   *)
(* tokens they share, and a comparison passes.                             *)
THEOREM PagesAlwaysAgree ==
  BackendSpec => []PagesAgree
<1>1. BackendInv => PagesAgree
  <2> SUFFICES ASSUME BackendInv PROVE PagesAgree
    OBVIOUS
  <2>1. PositionsIncrease
    BY DEF BackendInv, LedgerInv
  <2>2. ASSUME frame = NoFrame, result.status = "ok", kept # NothingKept,
               kept.r.layer = result.r.layer, kept.r.head = result.r.head,
               NEW token \in (kept.r.start .. kept.r.end - 1)
                               \cap (result.r.start .. result.r.end - 1)
        PROVE  kept.rows[token - kept.r.start + 1] = out[token - result.r.start + 1]
    <3>1. ASSUME NEW r \in AnyRequest, token \in r.start .. r.end - 1
          PROVE  RowsOf(r)[token - r.start + 1] = RowOf(r, records[token + 1])
      <4>1. /\ token - r.start + 1 \in 1 .. r.end - r.start
            /\ r.start + (token - r.start + 1) = token + 1
        BY <3>1 DEF AnyRequest
      <4> QED
        BY <4>1 DEF RowsOf
    <3>2. kept.rows[token - kept.r.start + 1] = RowOf(kept.r, records[token + 1])
      BY <2>2, <3>1 DEF BackendInv, KeptInv
    <3>3. out[token - result.r.start + 1] = RowOf(result.r, records[token + 1])
      BY <2>2, <3>1 DEF BackendInv, ResultInv
    <3> QED
      BY <2>2, <3>2, <3>3 DEF RowOf
  <2> QED
    BY <2>1, <2>2 DEF PagesAgree, BackendInv, ResultInv
<1> QED
  BY <1>1, BackendAlways, PTL

==============================================================================

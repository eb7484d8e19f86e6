------------------------- MODULE TracePagingProofs -------------------------
(***************************************************************************)
(* Proof that the answer of trace_filter is the window its request         *)
(* describes, for any chain, any request and any limit. PageInv is the     *)
(* inductive invariant: the counter says how many matching traces the loop *)
(* has left behind, the answer is the part of them that follows "after".   *)
(***************************************************************************)
EXTENDS TracePaging, SequenceTheorems, TLAPS

USE AddressAssumption, ActionsAssumption, MaxCountAssumption, LimitsAssumption

\* The fields of a request.
LEMMA RequestFields ==
    ASSUME TypeOK
    PROVE  /\ req.after \in Nat
           /\ req.count \in Int
           /\ Count \in Nat
           /\ req.count # None => Count = req.count
           /\ req.count = None => Count = MaxCount
  BY DEF TypeOK, FilterRequest, Count, None

\* The elements of a block that Skipped keeps are its last ones, as many as
\* the counter allows.
LEMMA SkippedLast ==
    ASSUME TypeOK, NEW amount \in Nat, amount > 0
    PROVE  LET n == Len(block_traces)
               kept == IF amount < n THEN amount ELSE n
           IN  /\ Skipped(amount) \in Seq(TransactionTrace)
               /\ Len(Skipped(amount)) = kept
               /\ \A k \in 1..kept : Skipped(amount)[k] = block_traces[n - kept + k]
<1> DEFINE n == Len(block_traces)
<1>1. n \in Nat /\ block_traces \in Seq(TransactionTrace)
  BY DEF TypeOK
<1>2. CASE amount < n
  <2>1. Skipped(amount) = SubSeq(block_traces, n - amount + 1, n)
    BY <1>2 DEF Skipped
  <2>2. n - amount + 1 \in 1..(n + 1) /\ n \in (n - amount)..n
    BY <1>1, <1>2
  <2> QED BY <1>1, <1>2, <2>1, <2>2, SubSeqProperties
<1>3. CASE ~(amount < n)
  BY <1>1, <1>3 DEF Skipped
<1> QED BY <1>2, <1>3

\* take(count) keeps the first elements.
LEMMA TakeFirst ==
    ASSUME NEW s \in Seq(TransactionTrace), NEW n \in Nat
    PROVE  LET m == IF n < Len(s) THEN n ELSE Len(s)
           IN  /\ Take(s, n) \in Seq(TransactionTrace)
               /\ Len(Take(s, n)) = m
               /\ \A k \in 1..m : Take(s, n)[k] = s[k]
<1> DEFINE m == IF n < Len(s) THEN n ELSE Len(s)
<1>1. m \in Nat /\ m <= Len(s) /\ Len(s) \in Nat
  OBVIOUS
<1> QED BY <1>1, SubSeqProperties DEF Take

\* What the answer becomes when a block is appended: the window over all the
\* matched traces.
LEMMA AppendWindow ==
    ASSUME PageInv, pc = "filtering",
           NEW amount, amount = traces_amount + Len(block_traces), amount > 0
    PROVE  LET all == traces \o Skipped(amount)
           IN  /\ amount \in Nat
               /\ amount = Len(matched) - req.after
               /\ all \in Seq(TransactionTrace)
               /\ Len(all) = amount
               /\ \A k \in 1..amount : all[k] = matched[req.after + k]
<1> DEFINE n == Len(block_traces)
           kept == IF amount < n THEN amount ELSE n
           all == traces \o Skipped(amount)
<1>1. /\ n \in Nat /\ traces_amount \in Int /\ req.after \in Nat
      /\ Len(matched) \in Nat /\ Len(traces) \in Nat
      /\ traces \in Seq(TransactionTrace)
  BY RequestFields DEF PageInv, TypeOK
<1>2. /\ traces_amount = Len(matched) - n - req.after
      /\ Len(traces) = IF traces_amount > 0 THEN traces_amount ELSE 0
  BY DEF PageInv, CounterInv, Reading, Behind, Pending
<1>3. amount \in Nat /\ amount = Len(matched) - req.after
  BY <1>1, <1>2
<1>4. /\ Skipped(amount) \in Seq(TransactionTrace)
      /\ Len(Skipped(amount)) = kept
      /\ \A k \in 1..kept : Skipped(amount)[k] = block_traces[n - kept + k]
  BY <1>3, SkippedLast DEF PageInv
<1>5. kept \in Int /\ kept <= n /\ kept = amount - Len(traces)
  BY <1>1, <1>2
<1>lens. /\ n \in Int /\ Len(traces) \in Int /\ Len(traces) >= 0
         /\ Len(matched) \in Int /\ req.after \in Int /\ amount \in Int
  BY <1>1, <1>3
<1> HIDE DEF n, kept
<1>6. /\ all \in Seq(TransactionTrace)
      /\ Len(all) = amount
      /\ \A k \in 1..Len(traces) : all[k] = traces[k]
      /\ \A k \in (Len(traces) + 1)..amount : all[k] = Skipped(amount)[k - Len(traces)]
  <2> DEFINE t == Skipped(amount)
  <2>1. /\ all \in Seq(TransactionTrace)
        /\ Len(all) = Len(traces) + Len(t)
        /\ \A k \in 1..(Len(traces) + Len(t)) :
              all[k] = IF k <= Len(traces) THEN traces[k] ELSE t[k - Len(traces)]
    BY <1>1, <1>4, ConcatProperties
  <2>2. Len(traces) + Len(t) = amount /\ Len(traces) <= amount
    <3>1. Len(t) = kept /\ kept >= 0
      BY <1>4, <1>1, <1>3 DEF kept
    <3> QED BY <1>5, <1>lens, <3>1
  <2> HIDE DEF t, all
  <2> QED BY <1>lens, <2>1, <2>2 DEF t
<1>7. \A k \in 1..Len(traces) : all[k] = matched[req.after + k]
  BY <1>6 DEF PageInv, WindowInv, Reading
<1>8. ASSUME NEW k \in (Len(traces) + 1)..amount
      PROVE  all[k] = matched[req.after + k]
  <2>1. k - Len(traces) \in 1..kept
    BY <1>lens, <1>5
  <2>2. all[k] = block_traces[n - kept + (k - Len(traces))]
    BY <1>4, <1>6, <2>1
  <2>k. k \in Int
    BY <1>lens
  <2>3. n - kept + (k - Len(traces)) \in 1..n
    <3> DEFINE j == k - Len(traces)
    <3>1. j \in Int /\ 1 <= j /\ j <= kept
      BY <1>5, <2>1
    <3> HIDE DEF j
    <3>2. n - kept + j \in 1..n
      <4>1. n \in Int /\ kept \in Int /\ kept <= n
        BY <1>lens, <1>5
      <4> QED
        BY <3>1, <4>1
    <3> QED BY <3>2 DEF j
  <2>4. all[k] = matched[(Len(matched) - n) + (n - kept + (k - Len(traces)))]
    BY <2>2, <2>3 DEF PageInv, PendingInv, Behind, Pending, n
  <2>5. (Len(matched) - n) + (n - kept + (k - Len(traces))) = req.after + k
    <3> DEFINE m == Len(matched)
               t == Len(traces)
               a == req.after
    <3>1. kept = m - a - t
      BY <1>3, <1>5
    <3>2. m \in Int /\ t \in Int /\ a \in Int
      BY <1>lens
    <3> HIDE DEF m, t, a
    <3>3. (m - n) + (n - kept + (k - t)) = a + k
      BY <1>lens, <2>k, <3>1, <3>2
    <3> QED BY <3>3 DEF m, t, a
  <2> QED BY <2>4, <2>5
<1> QED BY <1>1, <1>3, <1>6, <1>7, <1>8

-----------------------------------------------------------------------------
\* The request is well typed at first and nothing has been read.
LEMMA PageInit == Init => PageInv
<1> SUFFICES ASSUME Init PROVE PageInv
  OBVIOUS
<1>1. TypeOK
  BY DEF Init, TypeOK, FilterRequest
<1> QED
  BY <1>1 DEF Init, PageInv, CallInv, CounterInv, PendingInv, WindowInv,
              AnswerIsTheWindow, UnboundedIsComplete, Reading

\* The request cannot change, so the bound on the answer does not either.
LEMMA FilterStep == ASSUME PageInv, Filter PROVE PageInv'
<1>1. TypeOK /\ req.after \in Nat /\ Count \in Nat
  BY RequestFields DEF PageInv
<1>2. TypeOK'
  <2>1. traces_amount' \in Int /\ traces_amount' >= -req.after
    BY <1>1 DEF Filter, TypeOK, StartAmount
  <2> QED BY <1>1, <2>1 DEF Filter, TypeOK, Ended
<1>3. matched = <<>> /\ traces = <<>>
  BY DEF PageInv, CallInv, Filter
<1>4. CASE CountAccepted
  <2>1. pc' = "block" /\ traces_amount' = -req.after
    BY <1>4 DEF Filter, StartAmount
  <2>2. CounterInv'
    BY <1>1, <1>3, <1>4, <2>1
    DEF CounterInv, Behind, Pending, Filter, CountAccepted, Count
  <2> QED
    BY <1>2, <1>3, <2>1, <2>2
    DEF PageInv, CallInv, PendingInv, WindowInv, AnswerIsTheWindow,
        UnboundedIsComplete, Filter
<1>5. CASE ~CountAccepted
  BY <1>2, <1>5
  DEF Filter, PageInv, CallInv, CounterInv, PendingInv, WindowInv, Reading,
      AnswerIsTheWindow, UnboundedIsComplete
<1> QED BY <1>4, <1>5

LEMMA GetTracesStep == ASSUME PageInv, GetTraces PROVE PageInv'
<1>1. TypeOK /\ blocks \in Nat
  BY DEF PageInv, TypeOK
<1>2. TypeOK'
  BY <1>1 DEF GetTraces, TypeOK, Ended
<1>3. CASE pc' = "filtering"
  <2>1. CounterInv'
    BY <1>1, <1>3
    DEF PageInv, CounterInv, Behind, Pending, GetTraces, Reading, Count, TypeOK
  <2>2. PendingInv'
    BY <1>3 DEF PendingInv, GetTraces
  <2> QED
    BY <1>2, <1>3, <2>1, <2>2
    DEF GetTraces, PageInv, CallInv, WindowInv, Reading, AnswerIsTheWindow,
        UnboundedIsComplete
<1>4. CASE pc' = "CacheErr"
  BY <1>2, <1>4
  DEF GetTraces, PageInv, CallInv, CounterInv, PendingInv, WindowInv, Reading,
      AnswerIsTheWindow, UnboundedIsComplete
<1> QED BY <1>3, <1>4 DEF GetTraces

LEMMA FilterTraceStep ==
    ASSUME PageInv, NEW action \in Actions, FilterTrace(action)
    PROVE  PageInv'
<1> DEFINE trace == [at |-> <<blocks, read + 1>>, action |-> action]
<1>1. /\ TypeOK /\ req.after \in Nat /\ traces_amount \in Int
      /\ matched \in Seq(TransactionTrace) /\ block_traces \in Seq(TransactionTrace)
      /\ Len(matched) \in Nat /\ Len(block_traces) \in Nat
  BY RequestFields DEF PageInv, TypeOK
<1>lens. Len(matched) \in Int /\ Len(block_traces) \in Int /\ req.after \in Int
  BY <1>1
<1>2. /\ pc = "filtering" /\ pc' = pc
      /\ UNCHANGED <<req, blocks, traces_amount, traces>>
      /\ read < MaxTraces /\ read' = read + 1
  BY DEF FilterTrace
<1>3. CASE ~AddressFilter(action)
  <2>1. UNCHANGED <<block_traces, matched>>
    BY <1>3 DEF FilterTrace
  <2>2. TypeOK'
    BY <1>1, <1>2, <2>1 DEF TypeOK
  <2> QED
    BY <1>2, <2>1, <2>2
    DEF PageInv, CallInv, CounterInv, PendingInv, WindowInv, Reading, Behind,
        Pending, Count, AnswerIsTheWindow, UnboundedIsComplete
<1>4. CASE AddressFilter(action)
  <2>1. /\ block_traces' = Append(block_traces, trace)
        /\ matched' = Append(matched, trace)
    BY <1>4 DEF FilterTrace
  <2>2. trace \in TransactionTrace
    BY <1>1, <1>2 DEF TransactionTrace, TypeOK
  <2>3. /\ block_traces' \in Seq(TransactionTrace)
        /\ matched' \in Seq(TransactionTrace)
        /\ Len(block_traces') = Len(block_traces) + 1
        /\ Len(matched') = Len(matched) + 1
        /\ \A k \in 1..Len(block_traces) : block_traces'[k] = block_traces[k]
        /\ block_traces'[Len(block_traces) + 1] = trace
        /\ \A k \in 1..Len(matched) : matched'[k] = matched[k]
        /\ matched'[Len(matched) + 1] = trace
    BY <1>1, <2>1, <2>2, AppendProperties
  <2>4. TypeOK'
    <3>1. block_traces' \in Seq(TransactionTrace) /\ matched' \in Seq(TransactionTrace)
      BY <2>3
    <3> QED
      BY <1>1, <1>2, <3>1 DEF TypeOK
  <2>5. Behind' = Behind /\ Behind = traces_amount + req.after /\ Behind \in Int
    BY <1>1, <1>2, <2>3 DEF PageInv, CounterInv, Reading, Behind, Pending
  <2>6. CounterInv'
    BY <1>2, <2>5 DEF PageInv, CounterInv, Reading, Count
  <2>7. /\ Behind \in Int /\ Behind >= 0
        /\ Behind + Len(block_traces) = Len(matched)
    BY <1>1, <1>2, <2>5 DEF TypeOK, Behind, Pending
  <2>8. PendingInv'
    <3> SUFFICES ASSUME NEW k \in 1..(Len(block_traces) + 1)
                 PROVE  block_traces'[k] = matched'[Behind + k]
      BY <2>3, <2>5 DEF PendingInv
    <3>1. CASE k \in 1..Len(block_traces)
      <4>1. Behind + k \in 1..Len(matched)
        BY <1>lens, <2>7, <3>1
      <4> QED BY <1>2, <2>3, <3>1, <4>1 DEF PageInv, PendingInv
    <3>2. CASE k = Len(block_traces) + 1
      <4>1. Behind + k = Len(matched) + 1
        BY <1>lens, <2>7, <3>2
      <4> QED BY <2>3, <3>2, <4>1
    <3> QED BY <1>1, <3>1, <3>2
  <2>9. WindowInv'
    <3> SUFFICES ASSUME NEW k \in 1..Len(traces)
                 PROVE  traces[k] = matched'[req.after + k]
      BY <1>2 DEF WindowInv
    <3>1. Len(traces) = IF traces_amount > 0 THEN traces_amount ELSE 0
      BY <1>2 DEF PageInv, CounterInv, Reading
    <3>2. req.after + k \in 1..Len(matched)
      <4>1. k \in 1..traces_amount
        BY <1>1, <3>1
      <4>2. traces_amount \in Int /\ traces_amount + req.after <= Len(matched)
        BY <1>1, <2>5, <2>7
      <4>3. req.after >= 0
        BY <1>1
      <4> QED BY <1>lens, <4>1, <4>2, <4>3
    <3> QED BY <1>2, <2>3, <3>2 DEF PageInv, WindowInv, Reading
  <2> QED
    BY <1>2, <2>4, <2>6, <2>8, <2>9
    DEF PageInv, CallInv, AnswerIsTheWindow, UnboundedIsComplete
<1> QED BY <1>3, <1>4

LEMMA AppendBlockStep == ASSUME PageInv, AppendBlock PROVE PageInv'
<1> DEFINE amount == traces_amount + Len(block_traces)
           all == traces \o Skipped(amount)
<1>1. /\ TypeOK /\ req.after \in Nat /\ traces_amount \in Int /\ Count \in Nat
      /\ Len(matched) \in Nat /\ Len(block_traces) \in Nat
      /\ traces_amount >= -req.after /\ traces \in Seq(TransactionTrace)
  BY RequestFields DEF PageInv, TypeOK
<1>2. /\ pc = "filtering" /\ traces_amount' = amount
      /\ UNCHANGED <<req, blocks, read, block_traces, matched>>
  BY DEF AppendBlock
<1>3. /\ Count <= MaxCount
      /\ amount = Len(matched) - req.after
      /\ traces_amount <= 0 => Len(traces) = 0
  BY <1>1, <1>2 DEF PageInv, CounterInv, Reading, Behind, Pending
<1>4. traces_amount' \in Int /\ traces_amount' >= -req.after
  BY <1>1, <1>2
<1>5. CASE ~(amount > 0)
  <2>1. pc' = "block" /\ traces' = traces
    BY <1>5 DEF AppendBlock
  <2>2. TypeOK'
    BY <1>1, <1>2, <1>4, <2>1 DEF TypeOK
  <2>3. Len(traces) = 0
    BY <1>1, <1>3, <1>5
  <2>4. CounterInv'
    BY <1>1, <1>2, <1>3, <1>5, <2>1, <2>3 DEF CounterInv, Behind, Pending, Count
  <2>5. WindowInv'
    BY <1>2, <2>1, <2>3 DEF WindowInv
  <2> QED
    BY <2>1, <2>2, <2>4, <2>5
    DEF PageInv, CallInv, PendingInv, AnswerIsTheWindow, UnboundedIsComplete
<1>6. CASE amount > 0
  <2>1. /\ amount \in Nat
        /\ all \in Seq(TransactionTrace)
        /\ Len(all) = amount
        /\ \A k \in 1..amount : all[k] = matched[req.after + k]
    BY <1>2, <1>6, AppendWindow
  <2>2. Limit(all, amount)
    BY <1>6 DEF AppendBlock
  <2> HIDE DEF amount, all
  <2>3. CASE amount < Count
    <3>1. pc' = "block" /\ traces' = all
      BY <1>1, <2>1, <2>2, <2>3 DEF Limit
    <3>2. TypeOK'
      BY <1>1, <1>2, <1>4, <2>1, <3>1 DEF TypeOK
    <3>3. CounterInv'
      BY <1>1, <1>2, <1>3, <1>6, <2>1, <2>3, <3>1
      DEF CounterInv, Behind, Pending, Count
    <3>4. WindowInv'
      BY <1>2, <2>1, <3>1 DEF WindowInv
    <3> QED
      BY <3>1, <3>2, <3>3, <3>4
      DEF PageInv, CallInv, PendingInv, AnswerIsTheWindow, UnboundedIsComplete
  <2>4. CASE amount >= Count /\ req.count = None
    <3>1. pc' = "OverErr" /\ traces' = all
      BY <1>1, <2>1, <2>2, <2>4 DEF Limit
    <3>2. TypeOK'
      BY <1>1, <1>2, <1>4, <2>1, <3>1 DEF TypeOK, Ended
    <3> QED
      BY <1>2, <3>1, <3>2
      DEF PageInv, CallInv, CounterInv, PendingInv, WindowInv, Reading,
          AnswerIsTheWindow, UnboundedIsComplete
  <2>5. CASE amount >= Count /\ req.count # None
    <3>1. pc' = "Ok" /\ traces' = Take(all, Count)
      BY <1>1, <2>1, <2>2, <2>5 DEF Limit
    <3>2. /\ traces' \in Seq(TransactionTrace)
          /\ Len(traces') = Count
          /\ \A k \in 1..Count : traces'[k] = all[k]
      <4>1. (IF Count < Len(all) THEN Count ELSE Len(all)) = Count
        BY <1>1, <2>1, <2>5
      <4>2. /\ Take(all, Count) \in Seq(TransactionTrace)
            /\ Len(Take(all, Count)) = Count
            /\ \A k \in 1..Count : Take(all, Count)[k] = all[k]
        <5>1. Count \in Nat /\ all \in Seq(TransactionTrace)
          BY <1>1, <2>1
        <5> HIDE DEF all
        <5> QED BY <4>1, <5>1, TakeFirst
      <4> QED BY <3>1, <4>2
    <3>3. TypeOK'
      BY <1>1, <1>2, <1>4, <3>1, <3>2 DEF TypeOK, Ended
    <3>4. \A k \in 1..Count : traces'[k] = matched[req.after + k]
      BY <1>1, <2>1, <2>5, <3>2
    <3>5. Count' = Count
      BY <1>2 DEF Count
    <3>6. AnswerIsTheWindow'
      <4>1. \A k \in 1..Len(traces') : traces'[k] = matched'[req'.after + k]
        BY <1>2, <3>2, <3>4
      <4>2. /\ Len(traces') <= Count'
            /\ ~(Len(traces') < Count')
            /\ Len(traces') <= MaxCount
        BY <1>1, <1>3, <3>2, <3>5
      <4> QED BY <4>1, <4>2 DEF AnswerIsTheWindow
    <3>7. UnboundedIsComplete'
      BY <1>2, <2>5 DEF UnboundedIsComplete
    <3> QED
      BY <3>1, <3>3, <3>6, <3>7
      DEF PageInv, CallInv, CounterInv, PendingInv, WindowInv, Reading
  <2> QED BY <1>1, <2>1, <2>3, <2>4, <2>5
<1> QED BY <1>5, <1>6

LEMMA ReturnStep == ASSUME PageInv, Return PROVE PageInv'
<1>1. /\ TypeOK /\ req.after \in Nat /\ Count \in Nat /\ traces_amount \in Int
      /\ Len(matched) \in Nat /\ Len(traces) \in Nat
  BY RequestFields DEF PageInv, TypeOK
<1>2. pc = "block" /\ pc' = "Ok" /\ blocks = 0
      /\ UNCHANGED <<req, blocks, read, block_traces, traces_amount, traces, matched>>
  BY DEF Return
<1>3. TypeOK'
  BY <1>1, <1>2 DEF TypeOK, Ended
<1>4. /\ Count <= MaxCount
      /\ Len(traces) <= Count
      /\ Len(matched) <= req.after + Len(traces)
  BY <1>1, <1>2 DEF PageInv, CounterInv, Reading, Behind, Pending
<1>5. \A k \in 1..Len(traces) : traces[k] = matched[req.after + k]
  BY <1>2 DEF PageInv, WindowInv, Reading
<1>6. Count' = Count
  BY <1>2 DEF Count
<1>7. AnswerIsTheWindow'
  BY <1>1, <1>2, <1>4, <1>5, <1>6 DEF AnswerIsTheWindow
<1>8. UnboundedIsComplete'
  BY <1>2, <1>4, <1>5 DEF UnboundedIsComplete
<1> QED
  BY <1>2, <1>3, <1>7, <1>8
  DEF PageInv, CallInv, CounterInv, PendingInv, WindowInv, Reading

LEMMA PageStep == ASSUME PageInv, [Next]_vars PROVE PageInv'
<1>1. CASE Filter
  BY <1>1, FilterStep
<1>2. CASE GetTraces
  BY <1>2, GetTracesStep
<1>3. CASE \E action \in Actions : FilterTrace(action)
  BY <1>3, FilterTraceStep
<1>4. CASE AppendBlock
  BY <1>4, AppendBlockStep
<1>5. CASE Return
  BY <1>5, ReturnStep
<1>6. CASE UNCHANGED vars
  BY <1>6
  DEF PageInv, TypeOK, CallInv, CounterInv, PendingInv, WindowInv, Reading,
      Behind, Pending, Count, AnswerIsTheWindow, UnboundedIsComplete, vars
<1> QED BY <1>1, <1>2, <1>3, <1>4, <1>5, <1>6 DEF Next

-----------------------------------------------------------------------------
\* Every call of trace_filter keeps its variables in their types, the i64
\* counter never below the request's offset.
THEOREM PagingTypeCorrect == Spec => []TypeOK
<1>1. PageInv => TypeOK
  BY DEF PageInv
<1> QED BY <1>1, PageInit, PageStep, PTL DEF Spec

\* The answer is the requested window of the matching traces, for every
\* chain, every request and every --ethapi-trace-max-count.
THEOREM WindowCorrect == Spec => []AnswerIsTheWindow
<1>1. PageInv => AnswerIsTheWindow
  BY DEF PageInv
<1> QED BY <1>1, PageInit, PageStep, PTL DEF Spec

\* A request without a count is answered with all its traces or with an
\* error, never with a part of them, for every chain and every maximum.
THEOREM UnboundedCorrect == Spec => []UnboundedIsComplete
<1>1. PageInv => UnboundedIsComplete
  BY DEF PageInv
<1> QED BY <1>1, PageInit, PageStep, PTL DEF Spec
=============================================================================

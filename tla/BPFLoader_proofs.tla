--------------------------- MODULE BPFLoader_proofs ---------------------------
(***************************************************************************)
(* Delivery by BCCBPFLoader, for any number of CPUs, pollers and events    *)
(* and any ring capacity: the inductive invariant, exactly-once delivery,  *)
(* and the step-by-step implementation of FlowSource.                      *)
(***************************************************************************)
EXTENDS BPFLoader, SequenceTheorems, TLAPS

-----------------------------------------------------------------------------
(* What the sequence operators do to the set of elements of a sequence and   *)
(* to the absence of repetitions.                                            *)

LEMMA RangeEmpty == Range(<<>>) = {} /\ IsInjective(<<>>)
  BY DEF Range, IsInjective

LEMMA RangeOne == ASSUME NEW e PROVE Range(<<e>>) = {e} /\ Head(<<e>>) = e
  BY DEF Range

LEMMA RangeInS == ASSUME NEW S, NEW s \in Seq(S) PROVE Range(s) \subseteq S
  BY DEF Range

(* Appending adds the element, and no repetition if it is new. *)
LEMMA AppendRange ==
  ASSUME NEW S, NEW s \in Seq(S), NEW e \in S
  PROVE  /\ Append(s, e) \in Seq(S)
         /\ Range(Append(s, e)) = Range(s) \union {e}
         /\ IsInjective(s) /\ e \notin Range(s) => IsInjective(Append(s, e))
<1>1. /\ Append(s, e) \in Seq(S)
      /\ Len(Append(s, e)) = Len(s) + 1
      /\ \A i \in 1 .. Len(s) : Append(s, e)[i] = s[i]
      /\ Append(s, e)[Len(s) + 1] = e
  BY AppendProperties
<1>2. DOMAIN s = 1 .. Len(s) /\ Len(s) \in Nat
  BY LenProperties
<1>3. DOMAIN Append(s, e) = 1 .. (Len(s) + 1)
  BY <1>1, LenProperties
<1>4. Range(Append(s, e)) = Range(s) \union {e}
  <2>1. \A x \in Range(s) \union {e} : x \in Range(Append(s, e))
    <3>1. e \in Range(Append(s, e))
      BY <1>1, <1>2, <1>3 DEF Range
    <3>2. ASSUME NEW i \in 1 .. Len(s) PROVE s[i] \in Range(Append(s, e))
      <4>1. i \in 1 .. (Len(s) + 1) /\ Append(s, e)[i] = s[i]
        BY <1>1, <1>2
      <4> QED BY <4>1, <1>3 DEF Range
    <3> QED BY <3>1, <3>2, <1>2 DEF Range
  <2>2. ASSUME NEW i \in 1 .. (Len(s) + 1) PROVE Append(s, e)[i] \in Range(s) \union {e}
    <3>1. CASE i = Len(s) + 1 BY <3>1, <1>1
    <3>2. CASE i # Len(s) + 1
      <4>1. i \in 1 .. Len(s) BY <3>2, <1>2
      <4> QED BY <4>1, <1>1, <1>2 DEF Range
    <3> QED BY <3>1, <3>2
  <2> QED BY <2>1, <2>2, <1>3 DEF Range
<1>5. ASSUME IsInjective(s), e \notin Range(s) PROVE IsInjective(Append(s, e))
  <2> SUFFICES ASSUME NEW i \in 1 .. (Len(s) + 1), NEW j \in 1 .. (Len(s) + 1),
                      Append(s, e)[i] = Append(s, e)[j]
               PROVE  i = j
    BY <1>3 DEF IsInjective
  <2>1. \A k \in 1 .. Len(s) : s[k] # e
    BY <1>5, <1>2 DEF Range
  <2>2. \A k, l \in 1 .. Len(s) : s[k] = s[l] => k = l
    BY <1>5, <1>2 DEF IsInjective
  <2> QED BY <2>1, <2>2, <1>1, <1>2
<1> QED BY <1>1, <1>4, <1>5

(* Taking the head removes it, and it is not in the rest. *)
LEMMA TailRange ==
  ASSUME NEW S, NEW s \in Seq(S), s # <<>>
  PROVE  /\ Tail(s) \in Seq(S)
         /\ Head(s) \in S
         /\ Range(s) = {Head(s)} \union Range(Tail(s))
         /\ IsInjective(s) => IsInjective(Tail(s)) /\ Head(s) \notin Range(Tail(s))
<1>1. /\ Head(s) \in S
      /\ Tail(s) \in Seq(S)
      /\ Len(Tail(s)) = Len(s) - 1
      /\ \A i \in 1 .. Len(Tail(s)) : Tail(s)[i] = s[i + 1]
  BY HeadTailProperties
<1>2. DOMAIN s = 1 .. Len(s) /\ Len(s) \in Nat \ {0}
  BY LenProperties, EmptySeq
<1>3. DOMAIN Tail(s) = 1 .. (Len(s) - 1)
  BY <1>1, LenProperties
<1>4. Head(s) = s[1]
  OBVIOUS
<1>5. Range(s) = {Head(s)} \union Range(Tail(s))
  <2>1. ASSUME NEW i \in 1 .. Len(s) PROVE s[i] \in {Head(s)} \union Range(Tail(s))
    <3>1. CASE i = 1 BY <3>1, <1>4
    <3>2. CASE i # 1
      <4>1. i - 1 \in 1 .. (Len(s) - 1) /\ (i - 1) + 1 = i BY <3>2, <1>2
      <4>2. Tail(s)[i - 1] = s[i] BY <4>1, <1>1
      <4> QED BY <4>1, <4>2, <1>3 DEF Range
    <3> QED BY <3>1, <3>2
  <2>2. ASSUME NEW i \in 1 .. (Len(s) - 1) PROVE Tail(s)[i] \in Range(s)
    <3>1. i + 1 \in 1 .. Len(s) /\ Tail(s)[i] = s[i + 1] BY <1>1, <1>2
    <3> QED BY <3>1, <1>2 DEF Range
  <2>3. Head(s) \in Range(s)
    <3>1. 1 \in DOMAIN s BY <1>2
    <3> QED BY <3>1, <1>4 DEF Range
  <2> QED BY <2>1, <2>2, <2>3, <1>2, <1>3 DEF Range
<1>6. ASSUME IsInjective(s) PROVE IsInjective(Tail(s)) /\ Head(s) \notin Range(Tail(s))
  <2>1. \A k, l \in 1 .. Len(s) : s[k] = s[l] => k = l
    BY <1>6, <1>2 DEF IsInjective
  <2>2. \A k \in 1 .. (Len(s) - 1) : k + 1 \in 1 .. Len(s) /\ Tail(s)[k] = s[k + 1]
    BY <1>1, <1>2
  <2>3. IsInjective(Tail(s))
    <3> SUFFICES ASSUME NEW i \in 1 .. (Len(s) - 1), NEW j \in 1 .. (Len(s) - 1),
                        Tail(s)[i] = Tail(s)[j]
                 PROVE  i = j
      BY <1>3 DEF IsInjective
    <3>1. i + 1 = j + 1 BY <2>1, <2>2
    <3> QED BY <3>1, <1>2
  <2>4. \A k \in 1 .. (Len(s) - 1) : Tail(s)[k] # Head(s)
    BY <2>1, <2>2, <1>2, <1>4
  <2> QED BY <2>3, <2>4, <1>3 DEF Range
<1> QED BY <1>1, <1>5, <1>6

(* Concatenation joins the elements, and repeats none of two disjoint ones.  *)
LEMMA ConcatRange ==
  ASSUME NEW S, NEW s \in Seq(S), NEW t \in Seq(S)
  PROVE  /\ s \o t \in Seq(S)
         /\ Range(s \o t) = Range(s) \union Range(t)
         /\ IsInjective(s) /\ IsInjective(t) /\ Range(s) \intersect Range(t) = {}
              => IsInjective(s \o t)
<1>1. /\ s \o t \in Seq(S)
      /\ Len(s \o t) = Len(s) + Len(t)
      /\ \A i \in 1 .. Len(s) + Len(t) :
           (s \o t)[i] = IF i <= Len(s) THEN s[i] ELSE t[i - Len(s)]
  BY ConcatProperties
<1>2. /\ DOMAIN s = 1 .. Len(s) /\ Len(s) \in Nat
      /\ DOMAIN t = 1 .. Len(t) /\ Len(t) \in Nat
      /\ DOMAIN (s \o t) = 1 .. Len(s) + Len(t)
  BY <1>1, LenProperties
<1>3. Range(s \o t) = Range(s) \union Range(t)
  BY RangeConcatenation
<1>4. ASSUME IsInjective(s), IsInjective(t), Range(s) \intersect Range(t) = {}
      PROVE  IsInjective(s \o t)
  <2> SUFFICES ASSUME NEW i \in 1 .. Len(s) + Len(t), NEW j \in 1 .. Len(s) + Len(t),
                      (s \o t)[i] = (s \o t)[j]
               PROVE  i = j
    BY <1>2 DEF IsInjective
  <2>1. \A k, l \in 1 .. Len(s) : s[k] = s[l] => k = l
    BY <1>2, <1>4 DEF IsInjective
  <2>2. \A k, l \in 1 .. Len(t) : t[k] = t[l] => k = l
    BY <1>2, <1>4 DEF IsInjective
  <2>3. \A k \in 1 .. Len(s), l \in 1 .. Len(t) : s[k] # t[l]
    BY <1>2, <1>4 DEF Range
  <2>4. \A k \in 1 .. Len(s) + Len(t) :
          \/ k \in 1 .. Len(s) /\ (s \o t)[k] = s[k]
          \/ k - Len(s) \in 1 .. Len(t) /\ k > Len(s) /\ (s \o t)[k] = t[k - Len(s)]
    BY <1>1, <1>2
  <2>5. CASE i \in 1 .. Len(s) /\ (s \o t)[i] = s[i]
    BY <2>1, <2>3, <2>4, <2>5
  <2>6. CASE i - Len(s) \in 1 .. Len(t) /\ i > Len(s) /\ (s \o t)[i] = t[i - Len(s)]
    <3>1. CASE j \in 1 .. Len(s) /\ (s \o t)[j] = s[j]
      BY <2>3, <2>6, <3>1
    <3>2. CASE j - Len(s) \in 1 .. Len(t) /\ (s \o t)[j] = t[j - Len(s)]
      <4>1. i - Len(s) = j - Len(s) BY <2>2, <2>6, <3>2
      <4> QED BY <4>1, <1>2
    <3> QED BY <2>4, <3>1, <3>2
  <2> QED BY <2>4, <2>5, <2>6
<1> QED BY <1>1, <1>3, <1>4

-----------------------------------------------------------------------------
(* Delivery. *)

(* A ring holds events of its own CPU, none twice. *)
RingsOK == \A c \in CPUs : /\ IsInjective(ring[c])
                           /\ \A e \in Range(ring[c]) : e[1] = c

(* Two callbacks never hold the same event. *)
CallbacksOK == \A p, q \in Pollers :
                 p # q => Range(inflight[p]) \intersect Range(inflight[q]) = {}

(* The five places an event can be in do not overlap. *)
Disjoint == /\ Ringed \intersect Inflight = {}
            /\ Ringed \intersect Range(queue) = {}
            /\ Ringed \intersect Range(delivered) = {}
            /\ Inflight \intersect Range(queue) = {}
            /\ Inflight \intersect Range(delivered) = {}

IInv == /\ TypeOK
        /\ RingsOK
        /\ CallbacksOK
        /\ Disjoint
        /\ AtMostOnce
        /\ Accounted
        /\ LostForGood

(* TypeOK is inductive by itself. *)
LEMMA TypeInit == Init => TypeOK
  BY CapacityAssumption DEF Init, TypeOK, Phases, PCs

LEMMA TypeNext == TypeOK /\ [Next]_vars => TypeOK'
<1> SUFFICES ASSUME TypeOK, [Next]_vars PROVE TypeOK'
  OBVIOUS
<1> USE DEF TypeOK
<1>1. ASSUME Attach \/ OpenBuffer \/ CleanupEnd PROVE TypeOK'
  BY <1>1 DEF Attach, OpenBuffer, CleanupEnd, Phases
<1>2. ASSUME CleanupBegin PROVE TypeOK'
  <2>1. Ringed \subseteq Events
    BY RangeInS DEF Ringed
  <2>2. ring' \in [CPUs -> Seq(Events)]
    BY <1>2 DEF CleanupBegin
  <2> QED BY <1>2, <2>1, <2>2 DEF CleanupBegin, Phases
<1>3. ASSUME NEW c \in CPUs, Submit(c) PROVE TypeOK'
  <2>1. emitted[c] + 1 \in 1 .. MaxEvents /\ emitted' \in [CPUs -> 0 .. MaxEvents]
    BY <1>3, CapacityAssumption DEF Submit
  <2>2. <<c, emitted[c] + 1>> \in Events
    BY <2>1 DEF Events
  <2>3. Append(ring[c], <<c, emitted[c] + 1>>) \in Seq(Events)
    BY <2>2, AppendRange
  <2>4. ring' \in [CPUs -> Seq(Events)] /\ lost' \subseteq Events
    BY <1>3, <2>2, <2>3 DEF Submit
  <2> QED BY <1>3, <2>1, <2>4 DEF Submit
<1>4. ASSUME NEW p \in Pollers, PollStep(p) PROVE TypeOK'
  <2>1. CASE PollClosed(p) BY <2>1 DEF PollClosed, vars
  <2>2. CASE PollBegin(p) \/ Timeout(p) \/ PollReturns(p)
    BY <2>2 DEF PollBegin, Timeout, PollReturns, PCs
  <2>3. CASE Wake(p)
    <3>1. {c \in CPUs : ring[c] # <<>>} \in SUBSET CPUs
      OBVIOUS
    <3> QED BY <2>3, <3>1 DEF Wake, PCs
  <2>4. ASSUME NEW c \in CPUs, TakeSample(p, c) PROVE TypeOK'
    <3>1. Head(ring[c]) \in Events /\ Tail(ring[c]) \in Seq(Events)
      BY <2>4, TailRange DEF TakeSample
    <3>2. ring' \in [CPUs -> Seq(Events)]
      BY <2>4, <3>1 DEF TakeSample
    <3>3. inflight' \in [Pollers -> {<<>>} \union {<<e>> : e \in Events}]
      BY <2>4, <3>1 DEF TakeSample
    <3> QED BY <2>4, <3>2, <3>3 DEF TakeSample
  <2>5. ASSUME NEW c \in CPUs, RingRead(p, c) PROVE TypeOK'
    BY <2>5 DEF RingRead
  <2>6. CASE EventCb(p)
    <3>1. PICK e \in Events : inflight[p] = <<e>>
      BY <2>6 DEF EventCb
    <3>2. queue' \in Seq(Events)
      BY <2>6, <3>1, AppendRange, RangeOne DEF EventCb
    <3> QED BY <2>6, <3>2 DEF EventCb
  <2>7. CASE EventCbRaises(p)
    <3>1. PICK e \in Events : inflight[p] = <<e>>
      BY <2>7 DEF EventCbRaises
    <3>2. lost' \subseteq Events
      BY <2>7, <3>1, RangeOne DEF EventCbRaises
    <3> QED BY <2>7, <3>2 DEF EventCbRaises
  <2>8. CASE Drain(p)
    <3>1. delivered' \in Seq(Events) /\ queue' \in Seq(Events)
      BY <2>8, ConcatRange DEF Drain
    <3> QED BY <2>8, <3>1 DEF Drain, PCs
  <2> QED BY <1>4, <2>1, <2>2, <2>3, <2>4, <2>5, <2>6, <2>7, <2>8 DEF PollStep
<1>5. CASE UNCHANGED vars
  BY <1>5 DEF vars
<1> QED BY <1>1, <1>2, <1>3, <1>4, <1>5 DEF Next

(* The loader's state stays well-formed in every run of any size.            *)
THEOREM TypeCorrect == Spec => []TypeOK
  BY TypeInit, TypeNext, PTL DEF Spec

-----------------------------------------------------------------------------
(* What each step that moves an event does to the places events can be in.   *)

LEMMA SubmitMoves ==
  ASSUME IInv, NEW c \in CPUs, Submit(c)
  PROVE  \E e \in Events :
           /\ e \notin Emitted /\ Emitted' = Emitted \union {e}
           /\ \/ /\ phase = "open"
                 /\ Ringed' = Ringed \union {e} /\ lost' = lost
                 /\ RingsOK'
              \/ /\ Ringed' = Ringed /\ lost' = lost \union {e}
                 /\ RingsOK'
           /\ phase' = phase /\ phase \in {"attached", "open"}
           /\ Inflight' = Inflight /\ queue' = queue /\ delivered' = delivered
<1> DEFINE e == <<c, emitted[c] + 1>>
<1>1. /\ emitted \in [CPUs -> 0 .. MaxEvents] /\ ring \in [CPUs -> Seq(Events)]
      /\ emitted[c] + 1 \in 1 .. MaxEvents
  BY CapacityAssumption DEF IInv, TypeOK, Submit
<1>2. e \in Events /\ e[1] = c /\ e[2] = emitted[c] + 1
  BY <1>1 DEF Events
<1>3. e \notin Emitted
  BY <1>1, <1>2 DEF Emitted
<1>4. Emitted' = Emitted \union {e}
  <2>1. ASSUME NEW x \in Events PROVE x[2] <= emitted'[x[1]] <=> x[2] <= emitted[x[1]] \/ x = e
    <3>1. x[1] \in CPUs /\ x[2] \in 1 .. MaxEvents /\ x = <<x[1], x[2]>>
      BY DEF Events
    <3>2. emitted'[x[1]] = IF x[1] = c THEN emitted[c] + 1 ELSE emitted[x[1]]
      BY <1>1, <3>1 DEF Submit
    <3>3. CASE x[1] = c
      <4>1. x = e <=> x[2] = emitted[c] + 1
        BY <3>1, <3>3, <1>2
      <4> QED BY <3>1, <3>2, <3>3, <4>1, <1>1
    <3>4. CASE x[1] # c
      BY <3>2, <3>4, <1>2
    <3> QED BY <3>3, <3>4
  <2> QED BY <2>1, <1>2 DEF Emitted
<1>5. /\ phase' = phase /\ phase \in {"attached", "open"}
      /\ Inflight' = Inflight /\ queue' = queue /\ delivered' = delivered
  BY DEF Submit, Inflight
<1>6. CASE phase = "open" /\ Len(ring[c]) < Capacity
  <2>1. ring' = [ring EXCEPT ![c] = Append(@, e)] /\ lost' = lost
    BY <1>6 DEF Submit
  <2>2. Range(ring'[c]) = Range(ring[c]) \union {e}
    BY <2>1, <1>1, <1>2, AppendRange
  <2>3. \A d \in CPUs : d # c => ring'[d] = ring[d]
    BY <2>1, <1>1
  <2>4. Ringed' = Ringed \union {e}
    BY <2>2, <2>3 DEF Ringed
  <2>5. e \notin Range(ring[c])
    BY <1>3 DEF IInv, Accounted, Ringed
  <2>6. IsInjective(ring'[c])
    BY <2>1, <2>5, <1>1, <1>2, AppendRange DEF IInv, RingsOK
  <2>7. RingsOK'
    BY <2>2, <2>3, <2>6, <1>2 DEF IInv, RingsOK
  <2> QED BY <1>2, <1>3, <1>4, <1>5, <1>6, <2>1, <2>4, <2>7
<1>7. CASE ~(phase = "open" /\ Len(ring[c]) < Capacity)
  <2>1. ring' = ring /\ lost' = lost \union {e}
    BY <1>7 DEF Submit
  <2>2. Ringed' = Ringed /\ RingsOK'
    BY <2>1 DEF Ringed, IInv, RingsOK
  <2> QED BY <1>2, <1>3, <1>4, <1>5, <2>1, <2>2
<1> QED BY <1>6, <1>7

LEMMA TakeMoves ==
  ASSUME IInv, NEW p \in Pollers, NEW c \in CPUs, TakeSample(p, c)
  PROVE  \E e \in Events :
           /\ e \in Ringed /\ Ringed' = Ringed \ {e}
           /\ Inflight' = Inflight \union {e}
           /\ RingsOK' /\ CallbacksOK'
<1> DEFINE e == Head(ring[c])
<1>1. /\ ring \in [CPUs -> Seq(Events)] /\ ring[c] # <<>>
      /\ inflight \in [Pollers -> {<<>>} \union {<<x>> : x \in Events}]
      /\ inflight[p] = <<>>
      /\ ring' = [ring EXCEPT ![c] = Tail(@)]
      /\ inflight' = [inflight EXCEPT ![p] = <<e>>]
  BY DEF IInv, TypeOK, TakeSample
<1>2. /\ e \in Events
      /\ Range(ring[c]) = {e} \union Range(ring'[c])
      /\ IsInjective(ring'[c]) /\ e \notin Range(ring'[c])
  BY <1>1, TailRange DEF IInv, RingsOK
<1>3. \A d \in CPUs : d # c => ring'[d] = ring[d] /\ e \notin Range(ring[d])
  BY <1>1, <1>2 DEF IInv, RingsOK
<1>4. e \in Ringed /\ Ringed' = Ringed \ {e}
  BY <1>2, <1>3 DEF Ringed
<1>5. Range(inflight'[p]) = {e} /\ Range(inflight[p]) = {}
  BY <1>1, RangeOne, RangeEmpty
<1>6. \A q \in Pollers : q # p => inflight'[q] = inflight[q]
  BY <1>1
<1>7. Inflight' = Inflight \union {e}
  BY <1>5, <1>6 DEF Inflight
<1>8. RingsOK'
  BY <1>2, <1>3 DEF IInv, RingsOK
<1>9. \A q \in Pollers : e \notin Range(inflight[q])
  BY <1>4 DEF IInv, Disjoint, Inflight
<1>10. CallbacksOK'
  BY <1>5, <1>6, <1>9 DEF IInv, CallbacksOK
<1> QED BY <1>2, <1>4, <1>7, <1>8, <1>10

LEMMA CallbackMoves ==
  ASSUME IInv, NEW p \in Pollers, inflight[p] # <<>>,
         inflight' = [inflight EXCEPT ![p] = <<>>]
  PROVE  \E e \in Events :
           /\ inflight[p] = <<e>>
           /\ e \in Inflight /\ Inflight' = Inflight \ {e}
           /\ CallbacksOK'
<1>1. inflight \in [Pollers -> {<<>>} \union {<<x>> : x \in Events}]
  BY DEF IInv, TypeOK
<1>2. PICK e \in Events : inflight[p] = <<e>>
  BY <1>1
<1>3. Range(inflight[p]) = {e} /\ Range(inflight'[p]) = {}
  BY <1>1, <1>2, RangeOne, RangeEmpty
<1>4. \A q \in Pollers : q # p => inflight'[q] = inflight[q]
  BY <1>1
<1>5. \A q \in Pollers : q # p => e \notin Range(inflight[q])
  BY <1>3 DEF IInv, CallbacksOK
<1>6. e \in Inflight /\ Inflight' = Inflight \ {e}
  BY <1>3, <1>4, <1>5 DEF Inflight
<1>7. CallbacksOK'
  BY <1>3, <1>4 DEF IInv, CallbacksOK
<1> QED BY <1>2, <1>6, <1>7

LEMMA DrainMoves ==
  ASSUME IInv, NEW p \in Pollers, Drain(p)
  PROVE  /\ Range(delivered') = Range(delivered) \union Range(queue)
         /\ Range(queue') = {}
         /\ IsInjective(delivered') /\ IsInjective(queue')
<1>1. queue \in Seq(Events) /\ delivered \in Seq(Events)
  BY DEF IInv, TypeOK
<1>2. delivered' = delivered \o queue /\ queue' = <<>>
  BY DEF Drain
<1>3. /\ IsInjective(queue) /\ IsInjective(delivered)
      /\ Range(delivered) \intersect Range(queue) = {}
  BY DEF IInv, AtMostOnce
<1> QED BY <1>1, <1>2, <1>3, ConcatRange, RangeEmpty

LEMMA CleanupMoves ==
  ASSUME IInv, CleanupBegin
  PROVE  /\ Ringed' = {} /\ lost' = lost \union Ringed
         /\ RingsOK'
<1>1. ring' = [c \in CPUs |-> <<>>]
  BY DEF CleanupBegin
<1>2. \A c \in CPUs : Range(ring'[c]) = {} /\ IsInjective(ring'[c])
  BY <1>1, RangeEmpty
<1> QED BY <1>2 DEF CleanupBegin, Ringed, RingsOK

-----------------------------------------------------------------------------
(* The inductive invariant. *)

(* Steps that move no event. *)
LEMMA StillInv ==
  ASSUME IInv, TypeOK',
         UNCHANGED <<emitted, ring, lost, queue, delivered, inflight>>
  PROVE  IInv'
  BY DEF IInv, RingsOK, CallbacksOK, Disjoint, AtMostOnce, Accounted, LostForGood,
         Ringed, Inflight, Emitted

LEMMA InvInit == Init => IInv
<1> SUFFICES ASSUME Init PROVE IInv
  OBVIOUS
<1>1. TypeOK
  BY TypeInit
<1>2. /\ Ringed = {} /\ Inflight = {} /\ Range(queue) = {} /\ Range(delivered) = {}
      /\ lost = {}
  BY RangeEmpty DEF Init, Ringed, Inflight
<1>3. Emitted = {}
  BY CapacityAssumption DEF Init, Emitted, Events
<1>4. RingsOK /\ CallbacksOK /\ AtMostOnce
  BY RangeEmpty DEF Init, RingsOK, CallbacksOK, AtMostOnce
<1> QED BY <1>1, <1>2, <1>3, <1>4 DEF IInv, Disjoint, Accounted, LostForGood

LEMMA InvNext == IInv /\ [Next]_vars => IInv'
<1> SUFFICES ASSUME IInv, [Next]_vars PROVE IInv'
  OBVIOUS
<1>1. TypeOK'
  BY TypeNext DEF IInv
<1>2. /\ Disjoint /\ AtMostOnce /\ Accounted /\ LostForGood /\ RingsOK /\ CallbacksOK
  BY DEF IInv
<1>3. CASE Attach \/ OpenBuffer \/ CleanupEnd \/ UNCHANGED vars
  BY <1>1, <1>3, StillInv DEF Attach, OpenBuffer, CleanupEnd, vars
<1>4. CASE CleanupBegin
  <2>1. Ringed' = {} /\ lost' = lost \union Ringed /\ RingsOK'
    BY <1>4, CleanupMoves
  <2>2. /\ Inflight' = Inflight /\ Emitted' = Emitted /\ CallbacksOK'
        /\ queue' = queue /\ delivered' = delivered
    BY <1>2, <1>4 DEF CleanupBegin, Inflight, Emitted, CallbacksOK
  <2>3. Disjoint' /\ AtMostOnce' /\ Accounted' /\ LostForGood'
    BY <1>2, <2>1, <2>2 DEF Disjoint, AtMostOnce, Accounted, LostForGood
  <2> QED BY <1>1, <2>1, <2>2, <2>3 DEF IInv
<1>5. ASSUME NEW c \in CPUs, Submit(c) PROVE IInv'
  <2>1. PICK e \in Events :
           /\ e \notin Emitted /\ Emitted' = Emitted \union {e}
           /\ \/ Ringed' = Ringed \union {e} /\ lost' = lost /\ RingsOK'
              \/ Ringed' = Ringed /\ lost' = lost \union {e} /\ RingsOK'
           /\ Inflight' = Inflight /\ queue' = queue /\ delivered' = delivered
    BY <1>5, SubmitMoves
  <2>2. CallbacksOK'
    BY <1>2, <1>5 DEF Submit, CallbacksOK
  <2>3. Disjoint' /\ AtMostOnce' /\ Accounted' /\ LostForGood'
    BY <1>2, <2>1 DEF Disjoint, AtMostOnce, Accounted, LostForGood
  <2> QED BY <1>1, <2>1, <2>2, <2>3 DEF IInv
<1>6. ASSUME NEW p \in Pollers, PollStep(p) PROVE IInv'
  <2>1. CASE PollClosed(p) \/ PollBegin(p) \/ Wake(p) \/ Timeout(p) \/ PollReturns(p)
    BY <1>1, <2>1, StillInv
       DEF PollClosed, PollBegin, Wake, Timeout, PollReturns, vars
  <2>2. ASSUME NEW c \in CPUs, RingRead(p, c) PROVE IInv'
    BY <1>1, <2>2, StillInv DEF RingRead
  <2>3. ASSUME NEW c \in CPUs, TakeSample(p, c) PROVE IInv'
    <3>1. PICK e \in Events :
             /\ e \in Ringed /\ Ringed' = Ringed \ {e}
             /\ Inflight' = Inflight \union {e}
             /\ RingsOK' /\ CallbacksOK'
      BY <2>3, TakeMoves
    <3>2. /\ Emitted' = Emitted /\ lost' = lost
          /\ queue' = queue /\ delivered' = delivered
      BY <2>3 DEF TakeSample, Emitted
    <3>3. Disjoint' /\ AtMostOnce' /\ Accounted' /\ LostForGood'
      BY <1>2, <3>1, <3>2 DEF Disjoint, AtMostOnce, Accounted, LostForGood
    <3> QED BY <1>1, <3>1, <3>3 DEF IInv
  <2>4. CASE EventCb(p)
    <3>1. PICK e \in Events :
             /\ inflight[p] = <<e>>
             /\ e \in Inflight /\ Inflight' = Inflight \ {e}
             /\ CallbacksOK'
      BY <2>4, CallbackMoves DEF EventCb
    <3>2. /\ Emitted' = Emitted /\ lost' = lost /\ Ringed' = Ringed /\ RingsOK'
          /\ delivered' = delivered /\ queue' = Append(queue, e)
      BY <1>2, <2>4, <3>1, RangeOne DEF EventCb, Emitted, Ringed, RingsOK
    <3>3. queue \in Seq(Events) /\ e \notin Range(queue)
      BY <1>2, <3>1 DEF Disjoint, IInv, TypeOK
    <3>4. Range(queue') = Range(queue) \union {e} /\ IsInjective(queue')
      BY <1>2, <3>2, <3>3, AppendRange DEF AtMostOnce
    <3>5. Disjoint' /\ AtMostOnce' /\ Accounted' /\ LostForGood'
      BY <1>2, <3>1, <3>2, <3>4 DEF Disjoint, AtMostOnce, Accounted, LostForGood
    <3> QED BY <1>1, <3>1, <3>2, <3>5 DEF IInv
  <2>5. CASE EventCbRaises(p)
    <3>1. PICK e \in Events :
             /\ inflight[p] = <<e>>
             /\ e \in Inflight /\ Inflight' = Inflight \ {e}
             /\ CallbacksOK'
      BY <2>5, CallbackMoves DEF EventCbRaises
    <3>2. /\ Emitted' = Emitted /\ Ringed' = Ringed /\ RingsOK'
          /\ delivered' = delivered /\ queue' = queue
          /\ lost' = lost \union {e}
      BY <1>2, <2>5, <3>1, RangeOne DEF EventCbRaises, Emitted, Ringed, RingsOK
    <3>3. Disjoint' /\ AtMostOnce' /\ Accounted' /\ LostForGood'
      BY <1>2, <3>1, <3>2 DEF Disjoint, AtMostOnce, Accounted, LostForGood
    <3> QED BY <1>1, <3>1, <3>2, <3>3 DEF IInv
  <2>6. CASE Drain(p)
    <3>1. /\ Range(delivered') = Range(delivered) \union Range(queue)
          /\ Range(queue') = {}
          /\ IsInjective(delivered') /\ IsInjective(queue')
      BY <2>6, DrainMoves
    <3>2. /\ Emitted' = Emitted /\ Ringed' = Ringed /\ RingsOK'
          /\ Inflight' = Inflight /\ CallbacksOK' /\ lost' = lost
      BY <1>2, <2>6 DEF Drain, Emitted, Ringed, RingsOK, Inflight, CallbacksOK
    <3>3. Disjoint' /\ AtMostOnce' /\ Accounted' /\ LostForGood'
      BY <1>2, <3>1, <3>2 DEF Disjoint, AtMostOnce, Accounted, LostForGood
    <3> QED BY <1>1, <3>2, <3>3 DEF IInv
  <2> QED BY <1>6, <2>1, <2>2, <2>3, <2>4, <2>5, <2>6 DEF PollStep
<1> QED BY <1>3, <1>4, <1>5, <1>6 DEF Next

(* No event is ever returned twice, whatever threads poll and wherever their *)
(* callbacks fall.                                                           *)
THEOREM DeliveredAtMostOnce == Spec => []AtMostOnce
<1>1. IInv => AtMostOnce
  BY DEF IInv
<1> QED BY <1>1, InvInit, InvNext, PTL DEF Spec

(* Every accepted call is in a ring, a callback, the queue, a poll's result, *)
(* or among the losses: no byte disappears unseen.                           *)
THEOREM EveryEventAccounted == Spec => []Accounted
<1>1. IInv => Accounted
  BY DEF IInv
<1> QED BY <1>1, InvInit, InvNext, PTL DEF Spec

(* What a full ring, a missing buffer or cleanup() has lost never comes back *)
(* through a buffer that outlives it.                                        *)
THEOREM LostEventsStayLost == Spec => []LostForGood
<1>1. IInv => LostForGood
  BY DEF IInv
<1> QED BY <1>1, InvInit, InvNext, PTL DEF Spec

-----------------------------------------------------------------------------
(* One polling thread: the events of a CPU keep their order from the ring    *)
(* through the callback and the queue to what the polls return.              *)

(* Every event of T is later than those of S of the same CPU. *)
Before(S, T) == \A d \in S, e \in T : d[1] = e[1] => d[2] < e[2]

InOrder(s) == \A i, j \in DOMAIN s : i < j /\ s[i][1] = s[j][1] => s[i][2] < s[j][2]

Ordered == /\ InOrder(delivered) /\ InOrder(queue) /\ \A c \in CPUs : InOrder(ring[c])
           /\ Before(Range(delivered), Range(queue) \union Inflight \union Ringed)
           /\ Before(Range(queue), Inflight \union Ringed)
           /\ Before(Inflight, Ringed)

LEMMA AppendInOrder ==
  ASSUME NEW s \in Seq(Events), NEW e \in Events, InOrder(s), Before(Range(s), {e})
  PROVE  InOrder(Append(s, e))
<1>1. /\ Len(Append(s, e)) = Len(s) + 1 /\ Append(s, e) \in Seq(Events)
      /\ \A i \in 1 .. Len(s) : Append(s, e)[i] = s[i]
      /\ Append(s, e)[Len(s) + 1] = e
  BY AppendProperties
<1>2. /\ DOMAIN s = 1 .. Len(s) /\ Len(s) \in Nat
      /\ DOMAIN Append(s, e) = 1 .. (Len(s) + 1)
  BY <1>1, LenProperties
<1>3. \A i \in 1 .. Len(s) : s[i] \in Range(s)
  BY <1>2 DEF Range
<1> SUFFICES ASSUME NEW i \in 1 .. (Len(s) + 1), NEW j \in 1 .. (Len(s) + 1), i < j,
                    Append(s, e)[i][1] = Append(s, e)[j][1]
             PROVE  Append(s, e)[i][2] < Append(s, e)[j][2]
  BY <1>2 DEF InOrder
<1>4. i \in 1 .. Len(s) /\ Append(s, e)[i] = s[i]
  BY <1>1, <1>2
<1>5. CASE j = Len(s) + 1
  BY <1>1, <1>3, <1>4, <1>5 DEF Before
<1>6. CASE j \in 1 .. Len(s)
  BY <1>1, <1>2, <1>4, <1>6 DEF InOrder
<1> QED BY <1>2, <1>5, <1>6

LEMMA TailInOrder ==
  ASSUME NEW s \in Seq(Events), s # <<>>, InOrder(s)
  PROVE  InOrder(Tail(s)) /\ Before({Head(s)}, Range(Tail(s)))
<1>1. /\ Tail(s) \in Seq(Events) /\ Len(Tail(s)) = Len(s) - 1
      /\ \A i \in 1 .. Len(Tail(s)) : Tail(s)[i] = s[i + 1]
  BY HeadTailProperties
<1>2. /\ DOMAIN s = 1 .. Len(s) /\ Len(s) \in Nat \ {0}
      /\ DOMAIN Tail(s) = 1 .. (Len(s) - 1) /\ Head(s) = s[1]
  BY <1>1, LenProperties, EmptySeq
<1>3. \A i \in 1 .. (Len(s) - 1) :
        i + 1 \in 1 .. Len(s) /\ 1 < i + 1 /\ Tail(s)[i] = s[i + 1]
  BY <1>1, <1>2
<1>4. InOrder(Tail(s))
  <2> SUFFICES ASSUME NEW i \in 1 .. (Len(s) - 1), NEW j \in 1 .. (Len(s) - 1), i < j,
                      Tail(s)[i][1] = Tail(s)[j][1]
               PROVE  Tail(s)[i][2] < Tail(s)[j][2]
    BY <1>2 DEF InOrder
  <2>1. i + 1 < j + 1
    BY <1>2
  <2> QED BY <1>2, <1>3, <2>1 DEF InOrder
<1>5. Before({Head(s)}, Range(Tail(s)))
  <2> SUFFICES ASSUME NEW j \in 1 .. (Len(s) - 1), s[1][1] = Tail(s)[j][1]
               PROVE  s[1][2] < Tail(s)[j][2]
    BY <1>2 DEF Before, Range
  <2>1. 1 \in 1 .. Len(s)
    BY <1>2
  <2> QED BY <1>2, <1>3, <2>1 DEF InOrder
<1> QED BY <1>4, <1>5

LEMMA ConcatInOrder ==
  ASSUME NEW s \in Seq(Events), NEW t \in Seq(Events), InOrder(s), InOrder(t),
         Before(Range(s), Range(t))
  PROVE  InOrder(s \o t)
<1>1. /\ s \o t \in Seq(Events) /\ Len(s \o t) = Len(s) + Len(t)
      /\ \A i \in 1 .. Len(s) + Len(t) :
           (s \o t)[i] = IF i <= Len(s) THEN s[i] ELSE t[i - Len(s)]
  BY ConcatProperties
<1>2. /\ DOMAIN s = 1 .. Len(s) /\ Len(s) \in Nat
      /\ DOMAIN t = 1 .. Len(t) /\ Len(t) \in Nat
      /\ DOMAIN (s \o t) = 1 .. Len(s) + Len(t)
  BY <1>1, LenProperties
<1>3. /\ \A i \in 1 .. Len(s) : s[i] \in Range(s)
      /\ \A i \in 1 .. Len(t) : t[i] \in Range(t)
  BY <1>2 DEF Range
<1> SUFFICES ASSUME NEW i \in 1 .. Len(s) + Len(t), NEW j \in 1 .. Len(s) + Len(t), i < j,
                    (s \o t)[i][1] = (s \o t)[j][1]
             PROVE  (s \o t)[i][2] < (s \o t)[j][2]
  BY <1>2 DEF InOrder
<1>4. CASE j <= Len(s)
  <2>1. /\ i \in 1 .. Len(s) /\ j \in 1 .. Len(s)
        /\ (s \o t)[i] = s[i] /\ (s \o t)[j] = s[j]
    BY <1>1, <1>2, <1>4
  <2> QED BY <1>2, <2>1 DEF InOrder
<1>5. CASE i > Len(s)
  <2>1. /\ i - Len(s) \in 1 .. Len(t) /\ j - Len(s) \in 1 .. Len(t)
        /\ i - Len(s) < j - Len(s)
        /\ (s \o t)[i] = t[i - Len(s)] /\ (s \o t)[j] = t[j - Len(s)]
    BY <1>1, <1>2, <1>5
  <2> QED BY <1>2, <2>1 DEF InOrder
<1>6. CASE i <= Len(s) /\ j > Len(s)
  <2>1. /\ i \in 1 .. Len(s) /\ j - Len(s) \in 1 .. Len(t)
        /\ (s \o t)[i] = s[i] /\ (s \o t)[j] = t[j - Len(s)]
    BY <1>1, <1>2, <1>6
  <2> QED BY <1>3, <2>1 DEF Before
<1> QED BY <1>2, <1>4, <1>5, <1>6

LEMMA OrderInit == Init => Ordered
<1> SUFFICES ASSUME Init PROVE Ordered
  OBVIOUS
<1>1. Ringed = {} /\ Inflight = {} /\ Range(queue) = {} /\ Range(delivered) = {}
  BY RangeEmpty DEF Init, Ringed, Inflight
<1>2. InOrder(<<>>)
  BY DEF InOrder
<1> QED BY <1>1, <1>2 DEF Init, Ordered, Before

LEMMA OrderNext ==
  ASSUME \A p, q \in Pollers : p = q
  PROVE  IInv /\ Ordered /\ [Next]_vars => Ordered'
<1> SUFFICES ASSUME IInv, Ordered, [Next]_vars PROVE Ordered'
  OBVIOUS
<1>1. /\ ring \in [CPUs -> Seq(Events)] /\ queue \in Seq(Events) /\ delivered \in Seq(Events)
      /\ emitted \in [CPUs -> 0 .. MaxEvents]
  BY DEF IInv, TypeOK
<1>2. CASE UNCHANGED <<ring, queue, delivered, inflight>>
  BY <1>2 DEF Ordered, Ringed, Inflight
<1>3. CASE CleanupBegin
  <2>1. Ringed' = {} /\ Inflight' = Inflight
    BY <1>3, CleanupMoves DEF CleanupBegin, Inflight
  <2>2. \A c \in CPUs : InOrder(ring'[c])
    BY <1>3 DEF CleanupBegin, InOrder
  <2> QED BY <1>3, <2>1, <2>2 DEF CleanupBegin, Ordered, Before
<1>4. ASSUME NEW c \in CPUs, Submit(c) PROVE Ordered'
  <2> DEFINE e == <<c, emitted[c] + 1>>
  <2>1. /\ Inflight' = Inflight /\ queue' = queue /\ delivered' = delivered
        /\ emitted[c] + 1 \in 1 .. MaxEvents
    BY <1>1, <1>4, CapacityAssumption DEF Submit, Inflight
  <2>2. e \in Events
    BY <2>1 DEF Events
  <2>3. CASE ring' = ring
    BY <1>2, <1>4, <2>3 DEF Submit
  <2>4. CASE ring' = [ring EXCEPT ![c] = Append(@, e)]
    <3>1. Before(Emitted, {e})
      BY <1>1, <2>1 DEF Before, Emitted, Events
    <3>2. /\ Range(ring[c]) \subseteq Emitted
          /\ Range(delivered) \union Range(queue) \union Inflight \subseteq Emitted
      BY DEF IInv, Accounted, Ringed
    <3>3. InOrder(ring'[c])
      BY <1>1, <2>2, <2>4, <3>1, <3>2, AppendInOrder DEF Ordered, Before
    <3>4. \A d \in CPUs : InOrder(ring'[d])
      BY <1>1, <2>4, <3>3 DEF Ordered
    <3>5. Ringed' = Ringed \union {e}
      <4>1. Range(ring'[c]) = Range(ring[c]) \union {e}
        BY <1>1, <2>2, <2>4, AppendRange
      <4>2. \A d \in CPUs : d # c => ring'[d] = ring[d]
        BY <1>1, <2>4
      <4> QED BY <4>1, <4>2 DEF Ringed
    <3> QED BY <2>1, <3>1, <3>2, <3>4, <3>5 DEF Ordered, Before
  <2> QED BY <1>4, <2>3, <2>4 DEF Submit
<1>5. ASSUME NEW p \in Pollers, PollStep(p) PROVE Ordered'
  <2>1. CASE PollClosed(p) \/ PollBegin(p) \/ Wake(p) \/ Timeout(p) \/ PollReturns(p)
    BY <1>2, <2>1 DEF PollClosed, PollBegin, Wake, Timeout, PollReturns, vars
  <2>2. ASSUME NEW c \in CPUs, RingRead(p, c) PROVE Ordered'
    BY <1>2, <2>2 DEF RingRead
  <2>3. ASSUME NEW c \in CPUs, TakeSample(p, c) PROVE Ordered'
    <3> DEFINE e == Head(ring[c])
    <3>1. /\ Inflight = {} /\ Inflight' = {e}
      <4>1. /\ \A q \in Pollers : q = p
            /\ inflight[p] = <<>> /\ inflight'[p] = <<e>>
        BY <2>3 DEF TakeSample, IInv, TypeOK
      <4>2. Range(inflight[p]) = {} /\ Range(inflight'[p]) = {e}
        BY <4>1, RangeOne, RangeEmpty
      <4> QED BY <4>1, <4>2 DEF Inflight
    <3>2. /\ ring[c] # <<>> /\ ring' = [ring EXCEPT ![c] = Tail(@)]
          /\ queue' = queue /\ delivered' = delivered
      BY <2>3 DEF TakeSample
    <3>3. /\ InOrder(ring'[c]) /\ Before({e}, Range(ring'[c]))
      BY <1>1, <3>2, TailInOrder DEF Ordered
    <3>4. Range(ring[c]) = {e} \union Range(ring'[c])
      BY <1>1, <3>2, TailRange
    <3>5. \A d \in CPUs : d # c => ring'[d] = ring[d]
      BY <1>1, <3>2
    <3>6. e \in Ringed /\ Ringed' \subseteq Ringed
      BY <3>4, <3>5 DEF Ringed
    <3>7. Before({e}, Ringed')
      <4>1. e[1] = c /\ \A d \in CPUs : \A x \in Range(ring'[d]) : x[1] = d
        BY <3>4, <3>5 DEF IInv, RingsOK
      <4> QED BY <3>3, <4>1 DEF Before, Ringed
    <3>8. \A d \in CPUs : InOrder(ring'[d])
      BY <3>3, <3>5 DEF Ordered
    <3> QED BY <3>1, <3>2, <3>6, <3>7, <3>8 DEF Ordered, Before
  <2>4. CASE EventCb(p)
    <3>1. PICK e \in Events : /\ inflight[p] = <<e>> /\ e \in Inflight
                              /\ Inflight' = Inflight \ {e}
      BY <2>4, CallbackMoves DEF EventCb
    <3>2. /\ queue' = Append(queue, e) /\ delivered' = delivered
          /\ ring' = ring /\ Ringed' = Ringed
      BY <2>4, <3>1, RangeOne DEF EventCb, Ringed
    <3>3. InOrder(queue')
      BY <1>1, <3>1, <3>2, AppendInOrder DEF Ordered, Before
    <3>4. Range(queue') = Range(queue) \union {e}
      BY <1>1, <3>2, AppendRange
    <3>5. Inflight' = {}
      <4>1. \A q \in Pollers : q = p
        OBVIOUS
      <4>2. inflight'[p] = <<>>
        BY <2>4 DEF EventCb, IInv, TypeOK
      <4> QED BY <4>1, <4>2, RangeEmpty DEF Inflight
    <3> QED BY <3>1, <3>2, <3>3, <3>4, <3>5 DEF Ordered, Before
  <2>5. CASE EventCbRaises(p)
    <3>1. Inflight' \subseteq Inflight
      BY <2>5, CallbackMoves DEF EventCbRaises
    <3>2. /\ queue' = queue /\ delivered' = delivered
          /\ ring' = ring /\ Ringed' = Ringed
      BY <2>5 DEF EventCbRaises, Ringed
    <3> QED BY <3>1, <3>2 DEF Ordered, Before
  <2>6. CASE Drain(p)
    <3>1. /\ Range(delivered') = Range(delivered) \union Range(queue)
          /\ Range(queue') = {}
      BY <2>6, DrainMoves
    <3>2. /\ delivered' = delivered \o queue /\ queue' = <<>>
          /\ ring' = ring /\ Ringed' = Ringed /\ Inflight' = Inflight
      BY <2>6 DEF Drain, Ringed, Inflight
    <3>3. InOrder(delivered') /\ InOrder(queue')
      <4>1. InOrder(<<>>)
        BY DEF InOrder
      <4>2. Before(Range(delivered), Range(queue))
        BY DEF Ordered, Before
      <4> QED BY <1>1, <3>2, <4>1, <4>2, ConcatInOrder DEF Ordered
    <3> QED BY <3>1, <3>2, <3>3 DEF Ordered, Before
  <2> QED BY <1>5, <2>1, <2>2, <2>3, <2>4, <2>5, <2>6 DEF PollStep
<1>6. CASE Attach \/ OpenBuffer \/ CleanupEnd \/ UNCHANGED vars
  BY <1>2, <1>6 DEF Attach, OpenBuffer, CleanupEnd, vars
<1> QED BY <1>3, <1>4, <1>5, <1>6 DEF Next

(* A single collector thread gets the events of each CPU in the order of the *)
(* calls, through full rings, timeouts and a cleanup() in mid-poll.          *)
THEOREM CallsKeepTheirOrder ==
  ASSUME \A p, q \in Pollers : p = q
  PROVE  Spec => []PerCpuOrder
<1>1. Ordered => PerCpuOrder
  BY DEF Ordered, InOrder, PerCpuOrder
<1>2. IInv /\ Ordered /\ [Next]_vars => Ordered'
  BY OrderNext
<1> QED BY <1>1, <1>2, InvInit, InvNext, OrderInit, PTL DEF Spec

-----------------------------------------------------------------------------
(* BCCBPFLoader is a FlowSource. *)

LEMMA SourceInit == Init => Source!Init
<1> SUFFICES ASSUME Init PROVE Source!Init
  OBVIOUS
<1>1. /\ Ringed = {} /\ Inflight = {} /\ Range(queue) = {} /\ Range(delivered) = {}
  BY RangeEmpty DEF Init, Ringed, Inflight
<1> QED BY <1>1 DEF Init, Source!Init

LEMMA SourceStep == IInv /\ [Next]_vars => [Source!Next]_(Source!vars)
<1> SUFFICES ASSUME IInv, [Next]_vars PROVE [Source!Next]_(Source!vars)
  OBVIOUS
<1> DEFINE Pending == Ringed \union Inflight \union Range(queue)
<1>1. /\ Disjoint /\ AtMostOnce /\ Accounted /\ LostForGood /\ RingsOK /\ CallbacksOK
      /\ phase \in Phases
  BY DEF IInv, TypeOK
<1>2. CASE Attach
  <2>1. Ringed' = Ringed /\ Inflight' = Inflight
    BY <1>2 DEF Attach, Ringed, Inflight
  <2> QED BY <1>2, <2>1 DEF Attach, Source!vars
<1>3. CASE OpenBuffer
  <2>1. Ringed' = Ringed /\ Inflight' = Inflight
    BY <1>3 DEF OpenBuffer, Ringed, Inflight
  <2>2. Source!Load
    BY <1>3, <2>1 DEF OpenBuffer, Source!Load
  <2> QED BY <2>2 DEF Source!Next
<1>4. CASE CleanupEnd
  <2>1. Ringed' = Ringed /\ Inflight' = Inflight
    BY <1>4 DEF CleanupEnd, Ringed, Inflight
  <2> QED BY <1>4, <2>1 DEF CleanupEnd, Source!vars
<1>5. CASE CleanupBegin
  <2>1. /\ Ringed' = {} /\ lost' = lost \union Ringed
        /\ Inflight' = Inflight /\ queue' = queue /\ delivered' = delivered
        /\ phase = "open" /\ phase' = "closing"
    BY <1>5, CleanupMoves DEF CleanupBegin, Inflight
  <2>2. Ringed \in SUBSET Pending /\ Pending' = Pending \ Ringed
    BY <1>1, <2>1 DEF Disjoint
  <2>3. Source!Close
    BY <2>1, <2>2 DEF Source!Close
  <2> QED BY <2>3 DEF Source!Next
<1>6. ASSUME NEW c \in CPUs, Submit(c) PROVE [Source!Next]_(Source!vars)
  <2>1. PICK e \in Events :
           /\ e \notin Emitted
           /\ \/ phase = "open" /\ Ringed' = Ringed \union {e} /\ lost' = lost
              \/ Ringed' = Ringed /\ lost' = lost \union {e}
           /\ phase' = phase /\ phase \in {"attached", "open"}
           /\ Inflight' = Inflight /\ queue' = queue /\ delivered' = delivered
    BY <1>6, SubmitMoves
  <2>2. e \notin Source!Raised
    BY <1>1, <2>1 DEF Accounted, Source!Raised
  <2>3. Source!Accept(e) \/ Source!Refuse(e)
    BY <2>1, <2>2 DEF Source!Accept, Source!Refuse
  <2> QED BY <2>3 DEF Source!Next
<1>7. ASSUME NEW p \in Pollers, PollStep(p) PROVE [Source!Next]_(Source!vars)
  <2>1. CASE PollClosed(p) \/ PollBegin(p) \/ Wake(p) \/ Timeout(p) \/ PollReturns(p)
    <3>1. UNCHANGED <<phase, ring, lost, queue, delivered, inflight>>
      BY <2>1 DEF PollClosed, PollBegin, Wake, Timeout, PollReturns, vars
    <3> QED BY <3>1 DEF Ringed, Inflight, Source!vars
  <2>2. ASSUME NEW c \in CPUs, RingRead(p, c) PROVE [Source!Next]_(Source!vars)
    BY <2>2 DEF RingRead, Ringed, Inflight, Source!vars
  <2>3. ASSUME NEW c \in CPUs, TakeSample(p, c) PROVE [Source!Next]_(Source!vars)
    <3>1. PICK e \in Events : /\ e \in Ringed /\ Ringed' = Ringed \ {e}
                              /\ Inflight' = Inflight \union {e}
      BY <2>3, TakeMoves
    <3>2. UNCHANGED <<phase, lost, queue, delivered>> /\ Pending' = Pending
      BY <2>3, <3>1 DEF TakeSample
    <3> QED BY <3>2 DEF Source!vars
  <2>4. CASE EventCb(p)
    <3>1. PICK e \in Events : /\ inflight[p] = <<e>> /\ e \in Inflight
                              /\ Inflight' = Inflight \ {e}
      BY <2>4, CallbackMoves DEF EventCb
    <3>2. /\ UNCHANGED <<phase, lost, delivered>> /\ Ringed' = Ringed
          /\ queue' = Append(queue, e) /\ queue \in Seq(Events)
      BY <2>4, <3>1, RangeOne DEF EventCb, Ringed, IInv, TypeOK
    <3>3. Range(queue') = Range(queue) \union {e}
      BY <3>2, AppendRange
    <3>4. Pending' = Pending
      BY <3>1, <3>2, <3>3
    <3> QED BY <3>2, <3>4 DEF Source!vars
  <2>5. CASE EventCbRaises(p)
    <3>1. PICK e \in Events : /\ inflight[p] = <<e>> /\ e \in Inflight
                              /\ Inflight' = Inflight \ {e}
      BY <2>5, CallbackMoves DEF EventCbRaises
    <3>2. /\ UNCHANGED <<phase, queue, delivered>> /\ Ringed' = Ringed
          /\ lost' = lost \union {e} /\ phase \in {"closing", "closed"}
      BY <2>5, <3>1, RangeOne DEF EventCbRaises, Ringed
    <3>3. {e} \in SUBSET Pending /\ Pending' = Pending \ {e}
      BY <1>1, <3>1, <3>2 DEF Disjoint
    <3>4. Source!Abandon
      BY <3>2, <3>3 DEF Source!Abandon
    <3> QED BY <3>4 DEF Source!Next
  <2>6. CASE Drain(p)
    <3>1. /\ Range(delivered') = Range(delivered) \union Range(queue)
          /\ Range(queue') = {}
      BY <2>6, DrainMoves
    <3>2. UNCHANGED <<phase, lost>> /\ Ringed' = Ringed /\ Inflight' = Inflight
      BY <2>6 DEF Drain, Ringed, Inflight
    <3>3. Range(queue) \in SUBSET Pending /\ Pending' = Pending \ Range(queue)
      BY <1>1, <3>1, <3>2 DEF Disjoint
    <3>4. Source!Drain
      BY <3>1, <3>2, <3>3 DEF Source!Drain
    <3> QED BY <3>4 DEF Source!Next
  <2> QED BY <1>7, <2>1, <2>2, <2>3, <2>4, <2>5, <2>6 DEF PollStep
<1>8. CASE UNCHANGED vars
  BY <1>8 DEF vars, Ringed, Inflight, Source!vars
<1> QED BY <1>2, <1>3, <1>4, <1>5, <1>6, <1>7, <1>8 DEF Next

(* Rings, callbacks, queue and swap together behave as the atomically        *)
(* drained source AbstractBPFLoader's docstring promises.                    *)
THEOREM LoaderIsFlowSource == Spec => ImplementsSource
  BY InvInit, InvNext, SourceInit, SourceStep, PTL
     DEF Spec, ImplementsSource, Source!Spec
=============================================================================

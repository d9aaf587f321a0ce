-------------------------- MODULE AggregatorLemmas --------------------------
(***************************************************************************)
(* Facts about counting the proofs of Collector and Reports share: what    *)
(* one metric adds to an entry and to a count, induction over finite sets, *)
(* and sums.                                                               *)
(***************************************************************************)
EXTENDS Aggregator, FiniteSetsExt, FiniteSetTheorems, TLAPS

-----------------------------------------------------------------------------
(* Counting metrics. *)

LEMMA SentBySubset ==
  ASSUME NEW p, NEW T \in SUBSET Metrics, NEW S \in SUBSET T
  PROVE  /\ SentBy(p, S) \in Nat /\ SentBy(p, T) \in Nat
         /\ SentBy(p, S) <= SentBy(p, T)
<1>. DEFINE Of(U) == {m \in U : PidOf[m] = p /\ DirOf[m] = "EGRESS"}
<1>1. /\ Of(T) \in SUBSET Metrics /\ Of(S) \in SUBSET Of(T)
      /\ IsFiniteSet(Metrics)
  BY MetricsAssumption
<1>2. IsFiniteSet(Of(T))
  BY <1>1, FS_Subset
<1>3. IsFiniteSet(Of(S)) /\ Cardinality(Of(S)) <= Cardinality(Of(T))
  BY <1>1, <1>2, FS_Subset
<1>4. Cardinality(Of(S)) \in Nat /\ Cardinality(Of(T)) \in Nat
  BY <1>2, <1>3, FS_CardinalityType
<1>. QED BY <1>3, <1>4 DEF SentBy

LEMMA ReceivedBySubset ==
  ASSUME NEW p, NEW T \in SUBSET Metrics, NEW S \in SUBSET T
  PROVE  /\ ReceivedBy(p, S) \in Nat /\ ReceivedBy(p, T) \in Nat
         /\ ReceivedBy(p, S) <= ReceivedBy(p, T)
<1>. DEFINE Of(U) == {m \in U : PidOf[m] = p /\ DirOf[m] = "INGRESS"}
<1>1. /\ Of(T) \in SUBSET Metrics /\ Of(S) \in SUBSET Of(T)
      /\ IsFiniteSet(Metrics)
  BY MetricsAssumption
<1>2. IsFiniteSet(Of(T))
  BY <1>1, FS_Subset
<1>3. IsFiniteSet(Of(S)) /\ Cardinality(Of(S)) <= Cardinality(Of(T))
  BY <1>1, <1>2, FS_Subset
<1>4. Cardinality(Of(S)) \in Nat /\ Cardinality(Of(T)) \in Nat
  BY <1>2, <1>3, FS_CardinalityType
<1>. QED BY <1>3, <1>4 DEF ReceivedBy

(* No metrics, no bytes. *)
LEMMA CountNothing ==
  ASSUME NEW p
  PROVE  SentBy(p, {}) = 0 /\ ReceivedBy(p, {}) = 0
<1>1. /\ {m \in {} : PidOf[m] = p /\ DirOf[m] = "EGRESS"} = {}
      /\ {m \in {} : PidOf[m] = p /\ DirOf[m] = "INGRESS"} = {}
  OBVIOUS
<1>. QED BY <1>1, FS_EmptySet DEF SentBy, ReceivedBy

(* One more metric counts for its own process, in its own direction.         *)
Out(m) == IF DirOf[m] = "EGRESS" THEN 1 ELSE 0

LEMMA CountOneMore ==
  ASSUME NEW p, NEW S \in SUBSET Metrics, NEW m \in Metrics \ S
  PROVE  /\ SentBy(p, S \union {m}) = SentBy(p, S) + (IF PidOf[m] = p THEN Out(m) ELSE 0)
         /\ ReceivedBy(p, S \union {m})
              = ReceivedBy(p, S) + (IF PidOf[m] = p THEN 1 - Out(m) ELSE 0)
<1>. DEFINE Sent(U) == {n \in U : PidOf[n] = p /\ DirOf[n] = "EGRESS"}
            Recv(U) == {n \in U : PidOf[n] = p /\ DirOf[n] = "INGRESS"}
<1>1. IsFiniteSet(Sent(S)) /\ IsFiniteSet(Recv(S))
  <2>1. Sent(S) \in SUBSET Metrics /\ Recv(S) \in SUBSET Metrics
    OBVIOUS
  <2>. QED BY <2>1, MetricsAssumption, FS_Subset
<1>2. DirOf[m] \in {"EGRESS", "INGRESS"}
  BY MetricsAssumption
<1>3. /\ Cardinality(Sent(S)) \in Nat /\ Cardinality(Recv(S)) \in Nat
      /\ m \notin Sent(S) /\ m \notin Recv(S)
  BY <1>1, FS_CardinalityType
<1>4. Cardinality(Sent(S \union {m})) = Cardinality(Sent(S)) + (IF PidOf[m] = p THEN Out(m) ELSE 0)
  <2>1. CASE PidOf[m] = p /\ DirOf[m] = "EGRESS"
    <3>1. Sent(S \union {m}) = Sent(S) \union {m}
      BY <2>1
    <3>2. Cardinality(Sent(S) \union {m}) = Cardinality(Sent(S)) + 1
      BY <1>1, <1>3, FS_AddElement
    <3>. QED BY <2>1, <3>1, <3>2 DEF Out
  <2>2. CASE ~(PidOf[m] = p /\ DirOf[m] = "EGRESS")
    <3>1. Sent(S \union {m}) = Sent(S)
      BY <2>2
    <3>2. (IF PidOf[m] = p THEN Out(m) ELSE 0) = 0
      BY <2>2 DEF Out
    <3>. HIDE DEF Sent
    <3>. QED BY <1>3, <3>1, <3>2
  <2>. QED BY <2>1, <2>2
<1>5. Cardinality(Recv(S \union {m}))
        = Cardinality(Recv(S)) + (IF PidOf[m] = p THEN 1 - Out(m) ELSE 0)
  <2>1. CASE PidOf[m] = p /\ DirOf[m] = "INGRESS"
    <3>1. Recv(S \union {m}) = Recv(S) \union {m}
      BY <2>1
    <3>2. Cardinality(Recv(S) \union {m}) = Cardinality(Recv(S)) + 1
      BY <1>1, <1>3, FS_AddElement
    <3>. QED BY <2>1, <3>1, <3>2 DEF Out
  <2>2. CASE ~(PidOf[m] = p /\ DirOf[m] = "INGRESS")
    <3>1. Recv(S \union {m}) = Recv(S)
      BY <2>2
    <3>2. (IF PidOf[m] = p THEN 1 - Out(m) ELSE 0) = 0
      BY <1>2, <2>2 DEF Out
    <3>. HIDE DEF Recv
    <3>. QED BY <1>3, <3>1, <3>2
  <2>. QED BY <2>1, <2>2
<1>. QED BY <1>4, <1>5 DEF SentBy, ReceivedBy

(* A record added to an entry adds its byte to the total and the rate of its *)
(* direction; the reset leaves the totals.                                   *)
LEMMA AddCounts ==
  ASSUME NEW e \in Entry, NEW m \in Metrics
  PROVE  /\ Add(e, m) \in Entry /\ Out(m) \in {0, 1}
         /\ Add(e, m).sent = e.sent + Out(m) /\ Add(e, m).recv = e.recv + (1 - Out(m))
         /\ Add(e, m).sendRate = e.sendRate + Out(m)
         /\ Add(e, m).recvRate = e.recvRate + (1 - Out(m))
  BY DEF Add, Entry, Out

LEMMA QuietCounts ==
  ASSUME NEW e \in Entry
  PROVE  /\ Quiet(e) \in Entry
         /\ Quiet(e).sent = e.sent /\ Quiet(e).recv = e.recv
         /\ Quiet(e).sendRate = 0 /\ Quiet(e).recvRate = 0
  BY DEF Quiet, Entry

LEMMA NewEntryCounts == /\ NewEntry \in Entry
                        /\ NewEntry.sent = 0 /\ NewEntry.recv = 0
                        /\ NewEntry.sendRate = 0 /\ NewEntry.recvRate = 0
  BY DEF NewEntry, Entry

LEMMA PidsFinite == IsFiniteSet(Pids)
<1>. DEFINE f == [m \in Metrics |-> PidOf[m]]
<1>1. f \in Surjection(Metrics, Pids)
  BY DEF Surjection, Pids
<1>. QED BY <1>1, MetricsAssumption, FS_Surjection

-----------------------------------------------------------------------------
(* Induction and sums over finite sets. *)

(* Two disjoint sets count for what each counts.                             *)
LEMMA DisjointCount ==
  ASSUME NEW A, IsFiniteSet(A), NEW B, IsFiniteSet(B), A \intersect B = {}
  PROVE  /\ IsFiniteSet(A \union B)
         /\ Cardinality(A) \in Nat /\ Cardinality(B) \in Nat
         /\ Cardinality(A \union B) = Cardinality(A) + Cardinality(B)
<1>1. Cardinality(A) \in Nat /\ Cardinality(B) \in Nat
  BY FS_CardinalityType
<1>2. Cardinality(A \intersect B) = 0
  BY FS_EmptySet
<1>3. /\ IsFiniteSet(A \union B)
      /\ Cardinality(A \union B) = Cardinality(A) + Cardinality(B) - Cardinality(A \intersect B)
  BY FS_Union
<1>. QED BY <1>1, <1>2, <1>3

(* What holds of a set whenever it holds of the set without any one of its   *)
(* elements holds of all subsets of a finite set.                            *)
Progressive(S, V) == \A T \in SUBSET S : (\A x \in T : T \ {x} \in V) => T \in V

LEMMA SubsetInduction ==
  ASSUME NEW S, IsFiniteSet(S), NEW V, Progressive(S, V)
  PROVE  SUBSET S \subseteq V
<1>. DEFINE Bad == {T \in SUBSET S : T \notin V}
<1>. SUFFICES ASSUME Bad # {}
              PROVE  FALSE
  OBVIOUS
<1>1. IsWellFoundedOn(StrictSubsetOrdering(S), SUBSET S)
  <2>1. IsWellFoundedOn(StrictSubsetOrdering(S), FiniteSubsetsOf(S))
    BY FS_StrictSubsetOrderingWellFounded
  <2>2. FiniteSubsetsOf(S) = SUBSET S
    BY FS_FiniteSubsetsOfFinite
  <2>. QED BY <2>1, <2>2
<1>2. Bad \subseteq SUBSET S
  OBVIOUS
<1>. HIDE DEF Bad
<1>3. PICK T \in Bad : \A U \in Bad : <<U, T>> \notin StrictSubsetOrdering(S)
  BY <1>1, <1>2, WFMin
<1>. USE DEF Bad
<1>4. \A x \in T : <<T \ {x}, T>> \in StrictSubsetOrdering(S)
  BY DEF StrictSubsetOrdering
<1>5. \A x \in T : T \ {x} \in V
  BY <1>3, <1>4
<1>. QED BY <1>5 DEF Progressive

(* The sum of a function is the one that an element more adds to.            *)
LEMMA SumIs ==
  ASSUME NEW S, IsFiniteSet(S), NEW w, DOMAIN w = S, NEW total, total[{}] = 0,
         \A T \in SUBSET S : \A x \in T : total[T] = w[x] + total[T \ {x}]
  PROVE  SumFunction(w) = total[S]
<1>. DEFINE pick(s) == CHOOSE x \in s : TRUE
            iter == CHOOSE f : f = [s \in SUBSET S |->
                      IF s = {} THEN 0 ELSE w[pick(s)] + f[s \ {pick(s)}]]
            sums == [s \in SUBSET S |-> total[s]]
<1>1. SumFunction(w) = iter[S]
  BY DEF SumFunction, SumFunctionOnSet, FoldFunctionOnSet, MapThenFoldSet
<1>2. \A s \in SUBSET S : s # {} => pick(s) \in s
  OBVIOUS
<1>. HIDE DEF pick
<1>3. sums = [s \in SUBSET S |-> IF s = {} THEN 0 ELSE w[pick(s)] + sums[s \ {pick(s)}]]
  <2>1. ASSUME NEW s \in SUBSET S, s # {}
        PROVE  sums[s] = w[pick(s)] + sums[s \ {pick(s)}]
    BY <1>2, <2>1
  <2>. QED BY <2>1
<1>4. iter = [s \in SUBSET S |-> IF s = {} THEN 0 ELSE w[pick(s)] + iter[s \ {pick(s)}]]
  <2>. HIDE DEF sums
  <2>. QED BY <1>3
<1>. DEFINE V == {s \in SUBSET S : iter[s] = total[s]}
<1>. HIDE DEF iter
<1>5. Progressive(S, V)
  <2>. SUFFICES ASSUME NEW s \in SUBSET S, \A x \in s : s \ {x} \in V
                PROVE  iter[s] = total[s]
    BY DEF Progressive
  <2>1. CASE s = {}
    BY <1>4, <2>1
  <2>2. CASE s # {}
    <3>1. PICK x \in s : x = pick(s)
      BY <1>2, <2>2
    <3>2. iter[s] = w[x] + iter[s \ {x}]
      BY <1>4, <2>2, <3>1
    <3>3. iter[s \ {x}] = total[s \ {x}]
      OBVIOUS
    <3>. QED BY <3>2, <3>3
  <2>. QED BY <2>1, <2>2
<1>6. SUBSET S \subseteq V
  <2>. HIDE DEF V
  <2>. QED BY <1>5, SubsetInduction
<1>. QED BY <1>1, <1>6

(* Things counted key by key are counted once each.                          *)
LEMMA SumOfParts ==
  ASSUME NEW R, IsFiniteSet(R), NEW K, IsFiniteSet(K), NEW key \in [R -> K],
         NEW w, DOMAIN w = K, \A k \in K : w[k] = Cardinality({r \in R : key[r] = k})
  PROVE  SumFunction(w) = Cardinality(R)
<1>. DEFINE of(J) == {r \in R : key[r] \in J}
            total == [J \in SUBSET K |-> Cardinality(of(J))]
<1>1. of({}) = {} /\ of(K) = R
  OBVIOUS
<1>2. total[{}] = 0 /\ total[K] = Cardinality(R)
  BY <1>1, FS_EmptySet
<1>3. ASSUME NEW T \in SUBSET K, NEW x \in T
      PROVE  total[T] = w[x] + total[T \ {x}]
  <2>1. /\ of(T) = {r \in R : key[r] = x} \union of(T \ {x})
        /\ {r \in R : key[r] = x} \intersect of(T \ {x}) = {}
    OBVIOUS
  <2>2. IsFiniteSet({r \in R : key[r] = x}) /\ IsFiniteSet(of(T \ {x}))
    BY FS_Subset
  <2>3. Cardinality(of(T)) = Cardinality({r \in R : key[r] = x}) + Cardinality(of(T \ {x}))
    BY <2>1, <2>2, DisjointCount
  <2>. QED BY <2>3
<1>. HIDE DEF total
<1>. QED BY <1>2, <1>3, SumIs

-----------------------------------------------------------------------------
(* The entries of the session map. *)

(* How many metrics of a set have a property. *)
CountOf(f, v, S) == Cardinality({m \in S : f[m] = v})

(* What an entry tells of the metrics it was made of, rates aside. *)
Tallies(e, S) == /\ e \in Entry
                 /\ e.sent = CountOf(DirOf, "EGRESS", S)
                 /\ e.recv = CountOf(DirOf, "INGRESS", S)
                 /\ e.tcp = CountOf(ProtoOf, "TCP", S)
                 /\ e.udp = CountOf(ProtoOf, "UDP", S)

LEMMA NoneOfNothing ==
  ASSUME NEW f, NEW v
  PROVE  CountOf(f, v, {}) = 0
<1>1. {m \in {} : f[m] = v} = {}
  OBVIOUS
<1>. QED BY <1>1, FS_EmptySet DEF CountOf

LEMMA OneMore ==
  ASSUME NEW f, NEW v, NEW S \in SUBSET Metrics, NEW m \in Metrics \ S
  PROVE  /\ CountOf(f, v, S) \in Nat
         /\ CountOf(f, v, S \union {m}) = CountOf(f, v, S) + (IF f[m] = v THEN 1 ELSE 0)
<1>. DEFINE With(U) == {n \in U : f[n] = v}
<1>1. IsFiniteSet(With(S))
  <2>1. With(S) \in SUBSET Metrics
    OBVIOUS
  <2>. QED BY <2>1, MetricsAssumption, FS_Subset
<1>2. Cardinality(With(S)) \in Nat
  BY <1>1, FS_CardinalityType
<1>3. CASE f[m] = v
  <2>1. With(S \union {m}) = With(S) \union {m} /\ m \notin With(S)
    BY <1>3
  <2>2. Cardinality(With(S) \union {m}) = Cardinality(With(S)) + 1
    BY <1>1, <2>1, FS_AddElement
  <2>. QED BY <1>2, <1>3, <2>1, <2>2 DEF CountOf
<1>4. CASE f[m] # v
  <2>1. With(S \union {m}) = With(S)
    BY <1>4
  <2>. HIDE DEF With
  <2>2. Cardinality(With(S \union {m})) = Cardinality(With(S)) + (IF f[m] = v THEN 1 ELSE 0)
    BY <1>2, <1>4, <2>1
  <2>. QED BY <1>2, <2>2 DEF With, CountOf
<1>. QED BY <1>3, <1>4

LEMMA NewEntryTallies == Tallies(NewEntry, {})
BY NoneOfNothing DEF Tallies, NewEntry, Entry

LEMMA QuietTallies ==
  ASSUME NEW e, NEW S, Tallies(e, S)
  PROVE  Tallies(Quiet(e), S)
BY DEF Tallies, Quiet, Entry

LEMMA AddTallies ==
  ASSUME NEW e, NEW S \in SUBSET Metrics, Tallies(e, S), NEW m \in Metrics \ S
  PROVE  Tallies(Add(e, m), S \union {m})
<1>1. DirOf[m] \in {"EGRESS", "INGRESS"} /\ ProtoOf[m] \in {"TCP", "UDP"}
  BY MetricsAssumption
<1>2. e \in Entry
  BY DEF Tallies
<1>3. /\ Add(e, m) \in Entry
      /\ Add(e, m).sent = e.sent + (IF DirOf[m] = "EGRESS" THEN 1 ELSE 0)
      /\ Add(e, m).recv = e.recv + (IF DirOf[m] = "INGRESS" THEN 1 ELSE 0)
      /\ Add(e, m).tcp = e.tcp + (IF ProtoOf[m] = "TCP" THEN 1 ELSE 0)
      /\ Add(e, m).udp = e.udp + (IF ProtoOf[m] = "UDP" THEN 1 ELSE 0)
  BY <1>1, <1>2 DEF Add, Entry
<1>. QED BY <1>3, OneMore DEF Tallies

(* The loop over the records of a batch counts each of them once. *)
Added(e0, S) == FoldSet(LAMBDA m, e : Add(e, m), e0, S)

LEMMA FoldTallies ==
  ASSUME NEW e0, NEW A \in SUBSET Metrics, NEW S \in SUBSET (Metrics \ A), Tallies(e0, A)
  PROVE  Tallies(Added(e0, S), A \union S)
<1>. DEFINE pick(s) == CHOOSE x \in s : TRUE
            iter == CHOOSE f : f = [s \in SUBSET S |->
                      IF s = {} THEN e0 ELSE Add(f[s \ {pick(s)}], pick(s))]
            sum(s) == [sent     |-> e0.sent     + CountOf(DirOf, "EGRESS", s),
                       recv     |-> e0.recv     + CountOf(DirOf, "INGRESS", s),
                       sendRate |-> e0.sendRate + CountOf(DirOf, "EGRESS", s),
                       recvRate |-> e0.recvRate + CountOf(DirOf, "INGRESS", s),
                       tcp      |-> e0.tcp      + CountOf(ProtoOf, "TCP", s),
                       udp      |-> e0.udp      + CountOf(ProtoOf, "UDP", s)]
            sums == [s \in SUBSET S |-> sum(s)]
<1>1. Added(e0, S) = iter[S]
  BY DEF Added, FoldSet, MapThenFoldSet
<1>2. \A s \in SUBSET S : s # {} => pick(s) \in s
  OBVIOUS
<1>. HIDE DEF pick
<1>3. e0 \in Entry
  BY DEF Tallies
<1>4. sum({}) = e0
  BY <1>3, NoneOfNothing DEF Entry
<1>5. ASSUME NEW s \in SUBSET S, NEW x \in s
      PROVE  sum(s) = Add(sum(s \ {x}), x)
  <2>1. /\ s \ {x} \in SUBSET Metrics /\ x \in Metrics \ (s \ {x})
        /\ (s \ {x}) \union {x} = s
    OBVIOUS
  <2>2. DirOf[x] \in {"EGRESS", "INGRESS"} /\ ProtoOf[x] \in {"TCP", "UDP"}
    BY <2>1, MetricsAssumption
  <2>3. /\ CountOf(DirOf, "EGRESS", s)
             = CountOf(DirOf, "EGRESS", s \ {x}) + (IF DirOf[x] = "EGRESS" THEN 1 ELSE 0)
        /\ CountOf(DirOf, "INGRESS", s)
             = CountOf(DirOf, "INGRESS", s \ {x}) + (IF DirOf[x] = "INGRESS" THEN 1 ELSE 0)
        /\ CountOf(ProtoOf, "TCP", s)
             = CountOf(ProtoOf, "TCP", s \ {x}) + (IF ProtoOf[x] = "TCP" THEN 1 ELSE 0)
        /\ CountOf(ProtoOf, "UDP", s)
             = CountOf(ProtoOf, "UDP", s \ {x}) + (IF ProtoOf[x] = "UDP" THEN 1 ELSE 0)
    BY <2>1, OneMore
  <2>4. /\ CountOf(DirOf, "EGRESS", s \ {x}) \in Nat /\ CountOf(DirOf, "INGRESS", s \ {x}) \in Nat
        /\ CountOf(ProtoOf, "TCP", s \ {x}) \in Nat /\ CountOf(ProtoOf, "UDP", s \ {x}) \in Nat
    BY <2>1, OneMore
  <2>. QED BY <1>3, <2>2, <2>3, <2>4 DEF Add, Entry
<1>. HIDE DEF sum
<1>6. sums = [s \in SUBSET S |-> IF s = {} THEN e0 ELSE Add(sums[s \ {pick(s)}], pick(s))]
  <2>1. ASSUME NEW s \in SUBSET S, s # {}
        PROVE  sums[s] = Add(sums[s \ {pick(s)}], pick(s))
    BY <1>2, <1>5, <2>1
  <2>2. sums[{}] = e0
    BY <1>4
  <2>. QED BY <2>1, <2>2
<1>7. iter = [s \in SUBSET S |-> IF s = {} THEN e0 ELSE Add(iter[s \ {pick(s)}], pick(s))]
  <2>. HIDE DEF sums
  <2>. QED BY <1>6
<1>. DEFINE V == {s \in SUBSET S : Tallies(iter[s], A \union s)}
<1>. HIDE DEF iter
<1>8. Progressive(S, V)
  <2>. SUFFICES ASSUME NEW s \in SUBSET S, \A x \in s : s \ {x} \in V
                PROVE  Tallies(iter[s], A \union s)
    BY DEF Progressive
  <2>1. CASE s = {}
    <3>1. iter[s] = e0 /\ A \union s = A
      BY <1>7, <2>1
    <3>. QED BY <3>1
  <2>2. CASE s # {}
    <3>1. PICK x \in s : x = pick(s)
      BY <1>2, <2>2
    <3>2. iter[s] = Add(iter[s \ {x}], x)
      BY <1>7, <2>2, <3>1
    <3>3. Tallies(iter[s \ {x}], A \union (s \ {x}))
      OBVIOUS
    <3>4. /\ A \union (s \ {x}) \in SUBSET Metrics /\ x \in Metrics \ (A \union (s \ {x}))
          /\ (A \union (s \ {x})) \union {x} = A \union s
      OBVIOUS
    <3>. QED BY <3>2, <3>3, <3>4, AddTallies
  <2>. QED BY <2>1, <2>2
<1>9. SUBSET S \subseteq V
  <2>1. IsFiniteSet(S)
    BY MetricsAssumption, FS_Subset
  <2>. HIDE DEF V
  <2>. QED BY <1>8, <2>1, SubsetInduction
<1>. QED BY <1>1, <1>9
=============================================================================

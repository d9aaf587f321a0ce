------------------------ MODULE SnapshotStore_proofs ------------------------
(***************************************************************************)
(* The shared sqlite3 connection, for any number of connections, threads,  *)
(* batches and rows: what holds of every use, what holds while queries do  *)
(* not raise, and atomicity when each connection is private.               *)
(***************************************************************************)
EXTENDS SnapshotStore, TLAPS

(* A writer has a batch exactly while it is inside insert_snapshot_batch.    *)
BatchOK == \A w \in Writers : wpc[w] = "idle" <=> batch[w] = NoBatch

Types == TypeOK /\ BatchOK

LEMMA TypeInit == Init => Types
  BY StoreAssumption DEF Init, TypeOK, BatchOK, Types

LEMMA TypeNext == Types /\ [Next]_vars => Types'
<1> SUFFICES ASSUME Types, [Next]_vars PROVE Types'
  OBVIOUS
<1> USE StoreAssumption DEF TypeOK, BatchOK, Types
<1>1. ASSUME NEW w \in Writers, NEW b \in Batches, InsertBegin(w, b) PROVE Types'
  BY <1>1 DEF InsertBegin, readers, history
<1>2. ASSUME NEW w \in Writers, InsertRow(w) PROVE Types'
  <2>1. batch[w] \in Batches /\ row[w] + 1 \in 1 .. BatchSize
    BY <1>2 DEF InsertRow
  <2>2. <<batch[w], row[w] + 1>> \in Rows
    BY <2>1 DEF Rows
  <2>3. txn' \in [Conns -> SUBSET Rows] /\ committed' \subseteq Rows
    BY <1>2, <2>2 DEF InsertRow
  <2>4. row' \in [Writers -> 0 .. BatchSize]
    BY <1>2, <2>1 DEF InsertRow
  <2> QED BY <1>2, <2>3, <2>4 DEF InsertRow, readers, history
<1>3. ASSUME NEW w \in Writers, InsertRaises(w) PROVE Types'
  BY <1>3 DEF InsertRaises, db, readers, history
<1>4. ASSUME NEW w \in Writers, InsertReturns(w) PROVE Types'
  BY <1>4 DEF InsertReturns, Commit, readers
<1>5. ASSUME NEW w \in Writers, InsertFails(w) PROVE Types'
  BY <1>5 DEF InsertFails, Rollback, readers
<1>6. ASSUME NEW r \in Readers, Query(r) \/ QueryRaises(r) PROVE Types'
  BY <1>6 DEF Query, QueryRaises, db, writers, history
<1>7. ASSUME NEW r \in Readers, ReaderStep(r) PROVE Types'
  BY <1>7 DEF ReaderStep, QueryReturns, QueryFails, Commit, Rollback, writers, history
<1>8. ASSUME NEW c \in Conns, Crash(c) PROVE Types'
  <2>1. failed' \subseteq Batches
    BY <1>8 DEF Crash
  <2> QED BY <1>8, <2>1 DEF Crash, Rollback
<1>9. CASE UNCHANGED vars
  BY <1>9 DEF vars, db, writers, readers, history
<1> QED BY <1>1, <1>2, <1>3, <1>4, <1>5, <1>6, <1>7, <1>8, <1>9 DEF Next, WriterStep

(* The store's state stays well-formed in every run of any size.             *)
THEOREM TypeCorrect == Spec => []TypeOK
<1>1. Types => TypeOK
  BY DEF Types
<1> QED BY <1>1, TypeInit, TypeNext, PTL DEF Spec

-----------------------------------------------------------------------------
(* No transaction outlives the calls of its connection. *)

OpenInv == /\ Types
           /\ NothingLeftOpen
           /\ \A c \in Conns : ~inTxn[c] => txn[c] = {}

LEMMA OpenInit == Init => OpenInv
  BY TypeInit DEF Init, OpenInv, NothingLeftOpen

LEMMA OpenNext == OpenInv /\ [Next]_vars => OpenInv'
<1> SUFFICES ASSUME OpenInv, [Next]_vars PROVE OpenInv'
  OBVIOUS
<1>1. Types'
  BY TypeNext DEF OpenInv
<1> USE StoreAssumption DEF OpenInv, NothingLeftOpen, Inserting
<1>2. ASSUME NEW w \in Writers, NEW b \in Batches, InsertBegin(w, b) PROVE OpenInv'
  BY <1>1, <1>2 DEF InsertBegin, Types, TypeOK
<1>3. ASSUME NEW w \in Writers, InsertRow(w) \/ InsertRaises(w) PROVE OpenInv'
  BY <1>1, <1>3 DEF InsertRow, InsertRaises, db, Types, TypeOK
<1>4. ASSUME NEW w \in Writers, InsertReturns(w) \/ InsertFails(w) PROVE OpenInv'
  BY <1>1, <1>4 DEF InsertReturns, InsertFails, Commit, Rollback, Types, TypeOK
<1>5. ASSUME NEW r \in Readers, Query(r) \/ QueryRaises(r) PROVE OpenInv'
  BY <1>1, <1>5 DEF Query, QueryRaises, db, writers
<1>6. ASSUME NEW r \in Readers, ReaderStep(r) PROVE OpenInv'
  BY <1>1, <1>6 DEF ReaderStep, QueryReturns, QueryFails, Commit, Rollback, writers,
                    Types, TypeOK
<1>7. ASSUME NEW c \in Conns, Crash(c) PROVE OpenInv'
  BY <1>1, <1>7 DEF Crash, Rollback, Types, TypeOK
<1>8. CASE UNCHANGED vars
  BY <1>1, <1>8 DEF vars, db, writers
<1> QED BY <1>2, <1>3, <1>4, <1>5, <1>6, <1>7, <1>8 DEF Next, WriterStep

(* Whatever shares a connection, fails or dies, no write lock is left held   *)
(* on a connection without an insert in progress.                            *)
THEOREM NoTransactionLeftOpen == Spec => []NothingLeftOpen
<1>1. OpenInv => NothingLeftOpen
  BY DEF OpenInv
<1> QED BY <1>1, OpenInit, OpenNext, PTL DEF Spec

-----------------------------------------------------------------------------
(* One writing thread per connection and queries that never raise: readers'  *)
(* commits do no harm to what the writer is told.                            *)

OneWriterPerConn == \A v, w \in Writers : ConnOf[v] = ConnOf[w] => v = w

(* What a writer has inserted is in its connection's transaction, or was     *)
(* committed by a reader.                                                    *)
InsertedKept == \A w \in Writers :
                  wpc[w] = "inserting" =>
                    {batch[w]} \X (1 .. row[w]) \subseteq committed \union txn[ConnOf[w]]

AckInv == /\ Types
          /\ InsertedKept
          /\ AckedDurable
          /\ \A r \in Readers : rpc[r] # "raising"

LEMMA AckInit == Init => AckInv
  BY TypeInit DEF Init, AckInv, InsertedKept, AckedDurable

LEMMA AckNext ==
  ASSUME ~QueriesMayFail, OneWriterPerConn
  PROVE  AckInv /\ [Next]_vars => AckInv'
<1> SUFFICES ASSUME AckInv, [Next]_vars PROVE AckInv'
  OBVIOUS
<1>1. Types'
  BY TypeNext DEF AckInv
<1> USE StoreAssumption DEF AckInv, InsertedKept, AckedDurable
<1>2. ASSUME NEW w \in Writers, NEW b \in Batches, InsertBegin(w, b) PROVE AckInv'
  <2>1. \A x : {x} \X (1 .. 0) = {}
    OBVIOUS
  <2> QED BY <1>1, <1>2, <2>1 DEF InsertBegin, readers, history, Types, TypeOK
<1>3. ASSUME NEW w \in Writers, InsertRow(w) PROVE AckInv'
  <2>1. /\ row \in [Writers -> 0 .. BatchSize] /\ txn \in [Conns -> SUBSET Rows]
        /\ ConnOf[w] \in Conns /\ wpc[w] = "inserting"
        /\ wpc' = wpc /\ batch' = batch /\ row'[w] = row[w] + 1
        /\ \A v \in Writers : v # w => row'[v] = row[v] /\ ConnOf[v] # ConnOf[w]
        /\ rpc' = rpc /\ acked' = acked
    BY <1>3 DEF InsertRow, Types, TypeOK, readers, history, OneWriterPerConn
  <2>2. /\ committed \subseteq committed'
        /\ <<batch[w], row[w] + 1>> \in committed' \union txn'[ConnOf[w]]
        /\ \A c \in Conns : txn[c] \subseteq txn'[c]
    BY <1>3, <2>1 DEF InsertRow
  <2>3. {batch[w]} \X (1 .. (row[w] + 1))
          = ({batch[w]} \X (1 .. row[w])) \union {<<batch[w], row[w] + 1>>}
    <3>1. 1 .. (row[w] + 1) = (1 .. row[w]) \union {row[w] + 1}
      BY <2>1
    <3> QED BY <3>1
  <2>4. InsertedKept'
    <3> SUFFICES ASSUME NEW v \in Writers, wpc'[v] = "inserting"
                 PROVE  {batch'[v]} \X (1 .. row'[v])
                          \subseteq committed' \union txn'[ConnOf[v]]
      OBVIOUS
    <3>1. {batch[v]} \X (1 .. row[v]) \subseteq committed \union txn[ConnOf[v]]
      BY <2>1
    <3>2. ConnOf[v] \in Conns
      OBVIOUS
    <3>3. CASE v = w
      BY <2>1, <2>2, <2>3, <3>1, <3>3
    <3>4. CASE v # w
      BY <2>1, <2>2, <3>1, <3>2, <3>4
    <3> QED BY <3>3, <3>4
  <2>5. AckedDurable'
    BY <2>1, <2>2 DEF RowsOf
  <2> QED BY <1>1, <2>1, <2>4, <2>5
<1>4. ASSUME NEW w \in Writers, InsertRaises(w) PROVE AckInv'
  BY <1>1, <1>4 DEF InsertRaises, db, readers, history, Types, TypeOK
<1>5. ASSUME NEW w \in Writers, InsertReturns(w) PROVE AckInv'
  <2>1. /\ wpc[w] = "inserting" /\ row[w] = BatchSize
        /\ committed' = committed \union txn[ConnOf[w]]
        /\ wpc' = [wpc EXCEPT ![w] = "idle"] /\ batch' = [batch EXCEPT ![w] = NoBatch]
        /\ txn' = [txn EXCEPT ![ConnOf[w]] = {}]
        /\ acked' = acked \union {batch[w]} /\ row' = row /\ rpc' = rpc
    BY <1>5 DEF InsertReturns, Commit, readers
  <2>2. RowsOf(batch[w]) \subseteq committed'
    BY <2>1 DEF RowsOf
  <2>3. AckedDurable'
    BY <2>1, <2>2 DEF RowsOf
  <2>4. \A v \in Writers : wpc'[v] = "inserting" =>
          /\ v # w /\ wpc[v] = "inserting" /\ batch'[v] = batch[v]
          /\ txn'[ConnOf[v]] = txn[ConnOf[v]]
    BY <2>1 DEF Types, TypeOK, OneWriterPerConn
  <2>5. InsertedKept'
    BY <2>1, <2>4
  <2> QED BY <1>1, <2>1, <2>3, <2>5
<1>6. ASSUME NEW w \in Writers, InsertFails(w) PROVE AckInv'
  <2>1. /\ wpc' = [wpc EXCEPT ![w] = "idle"] /\ batch' = [batch EXCEPT ![w] = NoBatch]
        /\ txn' = [txn EXCEPT ![ConnOf[w]] = {}]
        /\ UNCHANGED <<committed, acked, row, rpc>>
    BY <1>6 DEF InsertFails, Rollback, readers
  <2>2. \A v \in Writers : wpc'[v] = "inserting" =>
          /\ v # w /\ wpc[v] = "inserting" /\ batch'[v] = batch[v]
          /\ txn'[ConnOf[v]] = txn[ConnOf[v]]
    BY <2>1 DEF Types, TypeOK, OneWriterPerConn
  <2> QED BY <1>1, <2>1, <2>2
<1>7. ASSUME NEW r \in Readers, Query(r) \/ QueryRaises(r) PROVE AckInv'
  BY <1>1, <1>7 DEF Query, QueryRaises, db, writers, history, Types, TypeOK
<1>8. ASSUME NEW r \in Readers, ReaderStep(r) PROVE AckInv'
  <2>1. QueryReturns(r)
    BY <1>8 DEF ReaderStep, QueryFails
  <2>2. /\ committed' = committed \union txn[ConnOf[r]]
        /\ txn' = [txn EXCEPT ![ConnOf[r]] = {}]
        /\ UNCHANGED <<wpc, batch, row, acked>>
    BY <2>1 DEF QueryReturns, Commit, writers, history
  <2>3. \A c \in Conns : committed \union txn[c] \subseteq committed' \union txn'[c]
    BY <2>2 DEF Types, TypeOK
  <2>4. InsertedKept'
    BY <2>2, <2>3
  <2>5. AckedDurable'
    BY <2>2
  <2> QED BY <1>1, <2>1, <2>4, <2>5 DEF QueryReturns, Types, TypeOK
<1>9. ASSUME NEW c \in Conns, Crash(c) PROVE AckInv'
  <2>1. /\ wpc' = [w \in Writers |-> IF ConnOf[w] = c THEN "idle" ELSE wpc[w]]
        /\ batch' = [w \in Writers |-> IF ConnOf[w] = c THEN NoBatch ELSE batch[w]]
        /\ rpc' = [r \in Readers |-> IF ConnOf[r] = c THEN "idle" ELSE rpc[r]]
        /\ txn' = [txn EXCEPT ![c] = {}]
        /\ UNCHANGED <<committed, acked, row>>
    BY <1>9 DEF Crash, Rollback
  <2>2. \A v \in Writers : wpc'[v] = "inserting" =>
          /\ wpc[v] = "inserting" /\ batch'[v] = batch[v]
          /\ txn'[ConnOf[v]] = txn[ConnOf[v]]
    BY <2>1 DEF Types, TypeOK
  <2> QED BY <1>1, <2>1, <2>2
<1>10. CASE UNCHANGED vars
  BY <1>1, <1>10 DEF vars, db, writers, readers, history
<1> QED BY <1>2, <1>3, <1>4, <1>5, <1>6, <1>7, <1>8, <1>9, <1>10 DEF Next, WriterStep

(* A batch whose insert returned is in the database, although API threads    *)
(* commit the collector's transaction at any row -- while no query raises.   *)
THEOREM AckedRowsDurable ==
  ASSUME ~QueriesMayFail, OneWriterPerConn
  PROVE  Spec => []AckedDurable
<1>1. AckInv => AckedDurable
  BY DEF AckInv
<1>2. AckInv /\ [Next]_vars => AckInv'
  BY AckNext
<1> QED BY <1>1, <1>2, AckInit, PTL DEF Spec

-----------------------------------------------------------------------------
(* Under the same conditions what is stored of a batch is a prefix of it.    *)

(* The rows of an open transaction continue those committed without a gap.   *)
TxnContinues == \A c \in Conns, b \in Batches : \A k, j \in 1 .. BatchSize :
                  j < k /\ <<b, k>> \in txn[c] => <<b, j>> \in committed \union txn[c]

HoleInv == AckInv /\ OpenInv /\ NoHoles /\ TxnContinues

LEMMA HoleInit == Init => HoleInv
  BY AckInit, OpenInit DEF Init, HoleInv, NoHoles, TxnContinues

(* A connection's transaction ends by commit or rollback: no gap appears.    *)
LEMMA EndOfBlock ==
  ASSUME TypeOK, NoHoles, TxnContinues, NEW c \in Conns, Commit(c) \/ Rollback(c)
  PROVE  NoHoles' /\ TxnContinues'
<1>1. /\ txn'[c] = {} /\ \A d \in Conns : d # c => txn'[d] = txn[d]
      /\ \/ committed' = committed
         \/ committed' = committed \union txn[c]
  BY DEF Commit, Rollback, TypeOK
<1>2. NoHoles'
  BY <1>1 DEF NoHoles, TxnContinues
<1>3. TxnContinues'
  <2> SUFFICES ASSUME NEW d \in Conns, NEW b \in Batches,
                      NEW k \in 1 .. BatchSize, NEW j \in 1 .. BatchSize,
                      j < k, <<b, k>> \in txn'[d]
               PROVE  <<b, j>> \in committed' \union txn'[d]
    BY DEF TxnContinues
  <2>1. d # c /\ txn'[d] = txn[d]
    BY <1>1
  <2> QED BY <1>1, <2>1 DEF TxnContinues
<1> QED BY <1>2, <1>3

(* The next row continues those of its batch: they are in the transaction,   *)
(* or all committed if a reader has ended it.                                *)
LEMMA RowContinues ==
  ASSUME HoleInv, NEW w \in Writers, InsertRow(w)
  PROVE  NoHoles' /\ TxnContinues'
<1> DEFINE c == ConnOf[w]
           r == <<batch[w], row[w] + 1>>
<1>1. /\ c \in Conns /\ row[w] \in 0 .. BatchSize /\ BatchSize \in Nat
      /\ txn \in [Conns -> SUBSET Rows]
  BY StoreAssumption DEF HoleInv, AckInv, Types, TypeOK
<1>2. \A j \in 1 .. BatchSize : j <= row[w] => <<batch[w], j>> \in committed \union txn[c]
  <2>1. {batch[w]} \X (1 .. row[w]) \subseteq committed \union txn[c]
    BY DEF InsertRow, HoleInv, AckInv, InsertedKept
  <2> QED BY <1>1, <2>1
<1>3. CASE inTxn[c] /\ txn' = [txn EXCEPT ![c] = @ \union {r}] /\ committed' = committed
  <2>1. NoHoles'
    BY <1>3 DEF HoleInv, NoHoles
  <2>2. TxnContinues'
    <3> SUFFICES ASSUME NEW d \in Conns, NEW b \in Batches,
                        NEW k \in 1 .. BatchSize, NEW j \in 1 .. BatchSize,
                        j < k, <<b, k>> \in txn'[d]
                 PROVE  <<b, j>> \in committed' \union txn'[d]
      BY DEF TxnContinues
    <3>1. txn[d] \subseteq txn'[d] /\ committed' = committed
      BY <1>1, <1>3
    <3>2. CASE <<b, k>> \in txn[d]
      BY <3>1, <3>2 DEF HoleInv, TxnContinues
    <3>3. CASE <<b, k>> \notin txn[d]
      <4>1. d = c /\ b = batch[w] /\ k = row[w] + 1
        BY <1>1, <1>3, <3>3
      <4> QED BY <1>1, <1>2, <3>1, <4>1
    <3> QED BY <3>2, <3>3
  <2> QED BY <2>1, <2>2
<1>4. CASE ~inTxn[c] /\ committed' = committed \union {r} /\ txn' = txn
  <2>1. txn[c] = {}
    BY <1>1, <1>4 DEF HoleInv, OpenInv
  <2>2. NoHoles'
    <3> SUFFICES ASSUME NEW b \in Batches, NEW k \in 1 .. BatchSize, NEW j \in 1 .. BatchSize,
                        j < k, <<b, k>> \in committed'
                 PROVE  <<b, j>> \in committed'
      BY DEF NoHoles
    <3>1. CASE <<b, k>> \in committed
      BY <1>4, <3>1 DEF HoleInv, NoHoles
    <3>2. CASE <<b, k>> \notin committed
      <4>1. b = batch[w] /\ k = row[w] + 1
        BY <1>4, <3>2
      <4> QED BY <1>1, <1>2, <1>4, <2>1, <4>1
    <3> QED BY <3>1, <3>2
  <2>3. TxnContinues'
    BY <1>4 DEF HoleInv, TxnContinues
  <2> QED BY <2>2, <2>3
<1> QED BY <1>3, <1>4 DEF InsertRow

LEMMA HoleNext ==
  ASSUME ~QueriesMayFail, OneWriterPerConn
  PROVE  HoleInv /\ [Next]_vars => HoleInv'
<1> SUFFICES ASSUME HoleInv, [Next]_vars PROVE HoleInv'
  OBVIOUS
<1>1. AckInv' /\ OpenInv' /\ TypeOK
  BY AckNext, OpenNext DEF HoleInv, OpenInv, Types
<1>2. NoHoles' /\ TxnContinues'
  <2>1. CASE UNCHANGED <<committed, txn>>
    BY <2>1 DEF HoleInv, NoHoles, TxnContinues
  <2>2. ASSUME NEW w \in Writers, InsertRow(w) PROVE NoHoles' /\ TxnContinues'
    BY <2>2, RowContinues
  <2>3. ASSUME NEW c \in Conns, Commit(c) \/ Rollback(c) PROVE NoHoles' /\ TxnContinues'
    BY <1>1, <2>3, EndOfBlock DEF HoleInv
  <2>4. \A t \in Writers \union Readers : ConnOf[t] \in Conns
    BY StoreAssumption
  <2>5. CASE \E w \in Writers : WriterStep(w)
    BY <2>2, <2>3, <2>4, <2>5 DEF WriterStep, InsertReturns, InsertFails
  <2>6. CASE \E r \in Readers : ReaderStep(r)
    BY <2>3, <2>4, <2>6 DEF ReaderStep, QueryReturns, QueryFails
  <2>7. CASE \E c \in Conns : Crash(c)
    BY <2>3, <2>7 DEF Crash
  <2>8. CASE \E w \in Writers : InsertRaises(w) \/ \E b \in Batches : InsertBegin(w, b)
    BY <2>1, <2>8 DEF InsertRaises, InsertBegin, db
  <2>9. CASE \E r \in Readers : Query(r) \/ QueryRaises(r)
    BY <2>1, <2>9 DEF Query, QueryRaises, db
  <2>10. CASE UNCHANGED vars
    BY <2>1, <2>10 DEF vars, db
  <2> QED BY <2>5, <2>6, <2>7, <2>8, <2>9, <2>10 DEF Next
<1> QED BY <1>1, <1>2 DEF HoleInv

(* Whatever row an API thread's commit falls on, and whether the insert then *)
(* fails or its process dies, a stored batch has no hole -- while no query   *)
(* raises and one thread writes through the connection.                      *)
THEOREM StoredWithoutHoles ==
  ASSUME ~QueriesMayFail, OneWriterPerConn
  PROVE  Spec => []NoHoles
<1>1. HoleInv => NoHoles
  BY DEF HoleInv
<1>2. HoleInv /\ [Next]_vars => HoleInv'
  BY HoleNext
<1> QED BY <1>1, <1>2, HoleInit, PTL DEF Spec

-----------------------------------------------------------------------------
(* A connection per thread: the store is a BatchStore. *)

(* A writer's transaction is open until its own call ends and holds exactly  *)
(* the rows it has inserted; other connections have nothing uncommitted.     *)
OwnTxn == /\ \A w \in Writers : wpc[w] # "idle" =>
               /\ inTxn[ConnOf[w]]
               /\ txn[ConnOf[w]] = {batch[w]} \X (1 .. row[w])
          /\ \A c \in Conns : ~Inserting(c) => txn[c] = {}

(* Batches in progress are distinct and not settled. *)
InProgress == \A w \in Writers : wpc[w] # "idle" =>
                /\ batch[w] \notin acked \union failed
                /\ \A v \in Writers : v # w => batch[v] # batch[w]

PrivInv == Types /\ OwnTxn /\ InProgress

LEMMA PrivInit == Init => PrivInv
  BY TypeInit DEF Init, PrivInv, OwnTxn, InProgress

LEMMA PrivNext ==
  ASSUME PrivateConns
  PROVE  PrivInv /\ [Next]_vars => PrivInv' /\ [Batch!Next]_(Batch!vars)
<1> SUFFICES ASSUME PrivInv, [Next]_vars PROVE PrivInv' /\ [Batch!Next]_(Batch!vars)
  OBVIOUS
<1>1. Types'
  BY TypeNext DEF PrivInv
<1> USE StoreAssumption DEF PrivInv, Inserting
<1>2. ASSUME NEW w \in Writers, NEW b \in Batches, InsertBegin(w, b)
      PROVE  PrivInv' /\ [Batch!Next]_(Batch!vars)
  <2>1. /\ wpc[w] = "idle" /\ b \notin Started
        /\ wpc' = [wpc EXCEPT ![w] = "inserting"] /\ batch' = [batch EXCEPT ![w] = b]
        /\ row' = [row EXCEPT ![w] = 0] /\ inTxn' = [inTxn EXCEPT ![ConnOf[w]] = TRUE]
        /\ UNCHANGED <<committed, txn, acked, failed>>
    BY <1>2 DEF InsertBegin, history
  <2>2. ~Inserting(ConnOf[w])
    BY <2>1 DEF PrivateConns
  <2>3. txn[ConnOf[w]] = {}
    BY <2>2 DEF OwnTxn
  <2>4. {b} \X (1 .. 0) = {}
    OBVIOUS
  <2>5. \A v \in Writers : v # w => ConnOf[v] # ConnOf[w]
    BY DEF PrivateConns
  <2>6. OwnTxn'
    BY <2>1, <2>3, <2>4, <2>5 DEF OwnTxn, Types, TypeOK
  <2>7. InProgress'
    BY <2>1 DEF InProgress, Started, Types, TypeOK
  <2> QED BY <1>1, <2>1, <2>6, <2>7 DEF Batch!vars
<1>3. ASSUME NEW w \in Writers, InsertRow(w)
      PROVE  PrivInv' /\ [Batch!Next]_(Batch!vars)
  <2>1. /\ wpc[w] = "inserting" /\ inTxn[ConnOf[w]] /\ ConnOf[w] \in Conns
        /\ row[w] \in Nat
    BY <1>3 DEF InsertRow, OwnTxn, Types, TypeOK
  <2>2. /\ txn' = [txn EXCEPT ![ConnOf[w]] = @ \union {<<batch[w], row[w] + 1>>}]
        /\ row' = [row EXCEPT ![w] = @ + 1]
        /\ UNCHANGED <<committed, inTxn, wpc, batch, acked, failed>>
    BY <1>3, <2>1 DEF InsertRow, history
  <2>3. {batch[w]} \X (1 .. (row[w] + 1))
          = ({batch[w]} \X (1 .. row[w])) \union {<<batch[w], row[w] + 1>>}
    <3>1. 1 .. (row[w] + 1) = (1 .. row[w]) \union {row[w] + 1}
      BY <2>1
    <3> QED BY <3>1
  <2>4. \A v \in Writers : v # w => ConnOf[v] # ConnOf[w]
    BY DEF PrivateConns
  <2>5. OwnTxn'
    BY <2>1, <2>2, <2>3, <2>4 DEF OwnTxn, Types, TypeOK
  <2>6. InProgress'
    BY <2>2 DEF InProgress
  <2> QED BY <1>1, <2>2, <2>5, <2>6 DEF Batch!vars
<1>4. ASSUME NEW w \in Writers, InsertRaises(w)
      PROVE  PrivInv' /\ [Batch!Next]_(Batch!vars)
  BY <1>1, <1>4 DEF InsertRaises, db, history, OwnTxn, InProgress, Types, TypeOK,
                    Batch!vars
<1>5. ASSUME NEW w \in Writers, InsertReturns(w)
      PROVE  PrivInv' /\ [Batch!Next]_(Batch!vars)
  <2>1. /\ wpc[w] = "inserting" /\ row[w] = BatchSize
        /\ committed' = committed \union txn[ConnOf[w]]
        /\ wpc' = [wpc EXCEPT ![w] = "idle"] /\ batch' = [batch EXCEPT ![w] = NoBatch]
        /\ txn' = [txn EXCEPT ![ConnOf[w]] = {}]
        /\ inTxn' = [inTxn EXCEPT ![ConnOf[w]] = FALSE]
        /\ acked' = acked \union {batch[w]} /\ UNCHANGED <<row, failed>>
    BY <1>5 DEF InsertReturns, Commit
  <2>2. txn[ConnOf[w]] = RowsOf(batch[w]) /\ batch[w] \notin acked \union failed
        /\ batch[w] \in Batches
    BY <2>1 DEF OwnTxn, InProgress, RowsOf, Types, TypeOK, BatchOK
  <2>3. \A v \in Writers : v # w => ConnOf[v] # ConnOf[w]
    BY DEF PrivateConns
  <2>4. OwnTxn'
    BY <2>1, <2>3 DEF OwnTxn, Types, TypeOK
  <2>5. InProgress'
    BY <2>1 DEF InProgress, Types, TypeOK, BatchOK
  <2>6. Batch!Store(batch[w])
    BY <2>1, <2>2 DEF Batch!Store, Batch!Settled
  <2> QED BY <1>1, <2>2, <2>4, <2>5, <2>6 DEF Batch!Next
<1>6. ASSUME NEW w \in Writers, InsertFails(w)
      PROVE  PrivInv' /\ [Batch!Next]_(Batch!vars)
  <2>1. /\ wpc[w] = "raising"
        /\ wpc' = [wpc EXCEPT ![w] = "idle"] /\ batch' = [batch EXCEPT ![w] = NoBatch]
        /\ txn' = [txn EXCEPT ![ConnOf[w]] = {}]
        /\ inTxn' = [inTxn EXCEPT ![ConnOf[w]] = FALSE]
        /\ failed' = failed \union {batch[w]} /\ UNCHANGED <<committed, row, acked>>
    BY <1>6 DEF InsertFails, Rollback
  <2>2. batch[w] \notin acked \union failed /\ batch[w] \in Batches
    BY <2>1 DEF InProgress, Types, TypeOK, BatchOK
  <2>3. \A v \in Writers : v # w => ConnOf[v] # ConnOf[w]
    BY DEF PrivateConns
  <2>4. OwnTxn'
    BY <2>1, <2>3 DEF OwnTxn, Types, TypeOK
  <2>5. InProgress'
    BY <2>1 DEF InProgress, Types, TypeOK, BatchOK
  <2>6. Batch!Reject({batch[w]})
    BY <2>1, <2>2 DEF Batch!Reject, Batch!Settled
  <2>7. {batch[w]} \in SUBSET Batches
    BY <2>2
  <2> QED BY <1>1, <2>4, <2>5, <2>6, <2>7 DEF Batch!Next
<1>7. ASSUME NEW r \in Readers, Query(r) \/ QueryRaises(r)
      PROVE  PrivInv' /\ [Batch!Next]_(Batch!vars)
  BY <1>1, <1>7 DEF Query, QueryRaises, db, writers, history, OwnTxn, InProgress,
                    Batch!vars
<1>8. ASSUME NEW r \in Readers, ReaderStep(r)
      PROVE  PrivInv' /\ [Batch!Next]_(Batch!vars)
  <2>1. /\ committed' = committed \/ committed' = committed \union txn[ConnOf[r]]
        /\ txn' = [txn EXCEPT ![ConnOf[r]] = {}]
        /\ inTxn' = [inTxn EXCEPT ![ConnOf[r]] = FALSE]
        /\ UNCHANGED <<wpc, batch, row, acked, failed>>
    BY <1>8 DEF ReaderStep, QueryReturns, QueryFails, Commit, Rollback, writers, history
  <2>2. \A w \in Writers : ConnOf[w] # ConnOf[r]
    BY DEF PrivateConns
  <2>3. txn[ConnOf[r]] = {}
    BY <2>2 DEF OwnTxn
  <2>4. OwnTxn'
    BY <2>1, <2>2 DEF OwnTxn, Types, TypeOK
  <2>5. InProgress'
    BY <2>1 DEF InProgress
  <2> QED BY <1>1, <2>1, <2>3, <2>4, <2>5 DEF Batch!vars
<1>9. ASSUME NEW c \in Conns, Crash(c)
      PROVE  PrivInv' /\ [Batch!Next]_(Batch!vars)
  <2> DEFINE B == {batch[w] : w \in {v \in Writers : ConnOf[v] = c}} \ {NoBatch}
  <2>1. /\ wpc' = [w \in Writers |-> IF ConnOf[w] = c THEN "idle" ELSE wpc[w]]
        /\ batch' = [w \in Writers |-> IF ConnOf[w] = c THEN NoBatch ELSE batch[w]]
        /\ txn' = [txn EXCEPT ![c] = {}] /\ inTxn' = [inTxn EXCEPT ![c] = FALSE]
        /\ failed' = failed \union B
        /\ UNCHANGED <<committed, acked, row>>
    BY <1>9 DEF Crash, Rollback
  <2>2. B \in SUBSET Batches /\ B \intersect (acked \union failed) = {}
    BY DEF InProgress, Types, TypeOK, BatchOK
  <2>3. OwnTxn'
    BY <2>1 DEF OwnTxn, Types, TypeOK
  <2>4. InProgress'
    <3> SUFFICES ASSUME NEW w \in Writers, wpc'[w] # "idle"
                 PROVE  /\ batch'[w] \notin acked' \union failed'
                        /\ \A v \in Writers : v # w => batch'[v] # batch'[w]
      BY DEF InProgress
    <3>1. ConnOf[w] # c /\ wpc[w] # "idle" /\ batch'[w] = batch[w]
      BY <2>1
    <3>2. /\ batch[w] \notin acked \union failed
          /\ \A v \in Writers : v # w => batch[v] # batch[w]
          /\ batch[w] # NoBatch
      BY <3>1 DEF InProgress, Types, BatchOK
    <3>3. batch[w] \notin B
      BY <3>1, <3>2
    <3> QED BY <2>1, <3>1, <3>2, <3>3
  <2>5. Batch!Reject(B)
    BY <2>1, <2>2 DEF Batch!Reject, Batch!Settled
  <2> QED BY <1>1, <2>2, <2>3, <2>4, <2>5 DEF Batch!Next
<1>10. CASE UNCHANGED vars
  BY <1>1, <1>10 DEF vars, db, writers, readers, history, OwnTxn, InProgress, Batch!vars
<1> QED BY <1>2, <1>3, <1>4, <1>5, <1>6, <1>7, <1>8, <1>9, <1>10 DEF Next, WriterStep

(* With a connection per thread -- the daemon, a CLI query -- every batch is *)
(* stored whole and acknowledged, or not at all: the abstract BatchStore.    *)
THEOREM PrivateStoreIsAtomic ==
  ASSUME PrivateConns
  PROVE  Spec => ImplementsBatchStore
<1>1. Init => Batch!Init
  BY DEF Init, Batch!Init
<1>2. PrivInv /\ [Next]_vars => PrivInv' /\ [Batch!Next]_(Batch!vars)
  BY PrivNext
<1> QED BY <1>1, <1>2, PrivInit, PTL DEF Spec, ImplementsBatchStore, Batch!Spec
=============================================================================

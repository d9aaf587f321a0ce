--------------------------- MODULE SnapshotStore ---------------------------
(***************************************************************************)
(* DatabaseManager (src/storage/db.py): one sqlite3 connection per object, *)
(* opened with check_same_thread=False.  The dashboard's collector thread  *)
(* and its API threads share ONE connection; the daemon and each CLI query *)
(* have their own.  Every method runs inside `with conn`, which commits    *)
(* the connection's open transaction when the block ends and rolls it back *)
(* when the block raises, WHOSEVER transaction it is.  executemany opens a *)
(* transaction once, before its first row, and then inserts row by row,    *)
(* releasing the GIL at each row; rows inserted after somebody else has    *)
(* ended the transaction are committed one by one.                         *)
(*                                                                         *)
(* SQLite is external: in WAL mode one connection at a time holds          *)
(* uncommitted rows, a connection sees the committed rows and its own, a   *)
(* process that dies loses its uncommitted rows.                           *)
(***************************************************************************)
EXTENDS Naturals

CONSTANTS Conns,           \* DatabaseManager objects open on the file
          Writers,         \* threads that call insert_snapshot_batch
          Readers,         \* threads that call the query methods
          ConnOf,          \* [Writers \union Readers -> Conns]
          Batches,         \* one per insert_snapshot_batch call, never empty
          BatchSize,       \* rows of a batch
          NoBatch,
          QueriesMayFail   \* whether a query may raise inside `with conn`

ASSUME StoreAssumption ==
  /\ ConnOf \in [Writers \union Readers -> Conns]
  /\ Writers \intersect Readers = {}
  /\ BatchSize \in Nat \ {0}
  /\ NoBatch \notin Batches
  /\ QueriesMayFail \in BOOLEAN

VARIABLES committed,   \* rows in the database file
          txn,         \* [Conns -> rows written and not yet committed]
          inTxn,       \* [Conns -> a transaction is open: not in autocommit]
          wpc, batch, row,   \* each writer: its step, its batch, rows inserted
          rpc, seen,         \* each reader: its step, the rows it fetched
          acked, failed      \* history: batches whose insert returned / raised

db      == <<committed, txn, inTxn>>
writers == <<wpc, batch, row>>
readers == <<rpc, seen>>
history == <<acked, failed>>
vars    == <<db, writers, readers, history>>

RowsOf(b) == {b} \X (1 .. BatchSize)
Rows      == Batches \X (1 .. BatchSize)
Started   == acked \union failed \union {batch[w] : w \in Writers}

Init == /\ committed = {}
        /\ txn = [c \in Conns |-> {}]
        /\ inTxn = [c \in Conns |-> FALSE]
        /\ wpc = [w \in Writers |-> "idle"]
        /\ batch = [w \in Writers |-> NoBatch]
        /\ row = [w \in Writers |-> 0]
        /\ rpc = [r \in Readers |-> "idle"]
        /\ seen = [r \in Readers |-> {}]
        /\ acked = {} /\ failed = {}

-----------------------------------------------------------------------------
(* The end of a `with conn` block: conn.__exit__ on the connection's         *)
(* transaction, a no-op in autocommit.                                       *)
Commit(c) == /\ committed' = committed \union txn[c]
             /\ txn' = [txn EXCEPT ![c] = {}]
             /\ inTxn' = [inTxn EXCEPT ![c] = FALSE]

Rollback(c) == /\ txn' = [txn EXCEPT ![c] = {}]
               /\ inTxn' = [inTxn EXCEPT ![c] = FALSE]
               /\ UNCHANGED committed

(* WAL: one connection writes at a time. *)
HasWriteLock(c) == \A d \in Conns \ {c} : txn[d] = {}

-----------------------------------------------------------------------------
(* insert_snapshot_batch *)

(* executemany issues BEGIN unless a transaction is open. *)
InsertBegin(w, b) == /\ wpc[w] = "idle"
                     /\ b \notin Started
                     /\ wpc' = [wpc EXCEPT ![w] = "inserting"]
                     /\ batch' = [batch EXCEPT ![w] = b]
                     /\ row' = [row EXCEPT ![w] = 0]
                     /\ inTxn' = [inTxn EXCEPT ![ConnOf[w]] = TRUE]
                     /\ UNCHANGED <<committed, txn, readers, history>>

(* Faults: one row too many; every row committed as it is inserted. *)
InsertRowPastEnd(w) == /\ wpc[w] = "inserting" /\ row[w] <= BatchSize
                       /\ row' = [row EXCEPT ![w] = @ + 1]
                       /\ UNCHANGED <<db, wpc, batch, readers, history>>

InsertRowCommits(w) == /\ wpc[w] = "inserting" /\ row[w] < BatchSize
                       /\ HasWriteLock(ConnOf[w])
                       /\ row' = [row EXCEPT ![w] = @ + 1]
                       /\ committed' = committed \union {<<batch[w], row[w] + 1>>}
                       /\ UNCHANGED <<txn, inTxn, wpc, batch, readers, history>>

(* ... and inserts the next row, in the transaction if it is still open.     *)
InsertRow(w) == LET c == ConnOf[w]
                    r == <<batch[w], row[w] + 1>> IN
                /\ wpc[w] = "inserting" /\ row[w] < BatchSize
                /\ HasWriteLock(c)
                /\ row' = [row EXCEPT ![w] = @ + 1]
                /\ \/ /\ inTxn[c]
                      /\ txn' = [txn EXCEPT ![c] = @ \union {r}]
                      /\ UNCHANGED committed
                   \/ /\ ~inTxn[c]
                      /\ committed' = committed \union {r}
                      /\ UNCHANGED txn
                /\ UNCHANGED <<inTxn, wpc, batch, readers, history>>

(* database is locked (5 s busy timeout), disk full, I/O error: at any row,  *)
(* or in the final commit.                                                   *)
InsertRaises(w) == /\ wpc[w] = "inserting"
                   /\ wpc' = [wpc EXCEPT ![w] = "raising"]
                   /\ UNCHANGED <<db, batch, row, readers, history>>

(* Fault: the block ends without a commit. *)
InsertReturnsOpen(w) == /\ wpc[w] = "inserting" /\ row[w] = BatchSize
                        /\ wpc' = [wpc EXCEPT ![w] = "idle"]
                        /\ acked' = acked \union {batch[w]}
                        /\ batch' = [batch EXCEPT ![w] = NoBatch]
                        /\ UNCHANGED <<db, row, readers, failed>>

InsertReturns(w) == /\ wpc[w] = "inserting" /\ row[w] = BatchSize
                    /\ Commit(ConnOf[w])
                    /\ wpc' = [wpc EXCEPT ![w] = "idle"]
                    /\ acked' = acked \union {batch[w]}
                    /\ batch' = [batch EXCEPT ![w] = NoBatch]
                    /\ UNCHANGED <<row, readers, failed>>

(* Fault: an exception leaves the transaction open. *)
InsertFailsOpen(w) == /\ wpc[w] = "raising"
                      /\ wpc' = [wpc EXCEPT ![w] = "idle"]
                      /\ failed' = failed \union {batch[w]}
                      /\ batch' = [batch EXCEPT ![w] = NoBatch]
                      /\ UNCHANGED <<db, row, readers, acked>>

InsertFails(w) == /\ wpc[w] = "raising"
                  /\ Rollback(ConnOf[w])
                  /\ wpc' = [wpc EXCEPT ![w] = "idle"]
                  /\ failed' = failed \union {batch[w]}
                  /\ batch' = [batch EXCEPT ![w] = NoBatch]
                  /\ UNCHANGED <<row, readers, acked>>

-----------------------------------------------------------------------------
(* get_top_processes, get_remote_ip_breakdown, get_protocol_distribution *)

Query(r) == /\ rpc[r] = "idle"
            /\ rpc' = [rpc EXCEPT ![r] = "fetched"]
            /\ seen' = [seen EXCEPT ![r] = committed \union txn[ConnOf[r]]]
            /\ UNCHANGED <<db, writers, history>>

QueryRaises(r) == /\ QueriesMayFail
                  /\ rpc[r] = "idle"
                  /\ rpc' = [rpc EXCEPT ![r] = "raising"]
                  /\ UNCHANGED <<db, writers, seen, history>>

(* Fault: a read ends with a rollback, having nothing to commit. *)
QueryRollsBack(r) == /\ rpc[r] = "fetched"
                     /\ Rollback(ConnOf[r])
                     /\ rpc' = [rpc EXCEPT ![r] = "idle"]
                     /\ seen' = [seen EXCEPT ![r] = {}]
                     /\ UNCHANGED <<writers, history>>

QueryReturns(r) == /\ rpc[r] = "fetched"
                   /\ Commit(ConnOf[r])
                   /\ rpc' = [rpc EXCEPT ![r] = "idle"]
                   /\ seen' = [seen EXCEPT ![r] = {}]
                   /\ UNCHANGED <<writers, history>>

QueryFails(r) == /\ rpc[r] = "raising"
                 /\ Rollback(ConnOf[r])
                 /\ rpc' = [rpc EXCEPT ![r] = "idle"]
                 /\ UNCHANGED <<writers, seen, history>>

(* The process that owns the connection dies and is started again. *)
Crash(c) == LET dead == {w \in Writers : ConnOf[w] = c} IN
            /\ Rollback(c)
            /\ wpc' = [w \in Writers |-> IF w \in dead THEN "idle" ELSE wpc[w]]
            /\ batch' = [w \in Writers |-> IF w \in dead THEN NoBatch ELSE batch[w]]
            /\ failed' = failed \union ({batch[w] : w \in dead} \ {NoBatch})
            /\ rpc' = [r \in Readers |-> IF ConnOf[r] = c THEN "idle" ELSE rpc[r]]
            /\ seen' = [r \in Readers |-> IF ConnOf[r] = c THEN {} ELSE seen[r]]
            /\ UNCHANGED <<row, acked>>

WriterStep(w) == \/ InsertRow(w) \/ InsertReturns(w) \/ InsertFails(w)
ReaderStep(r) == QueryReturns(r) \/ QueryFails(r)

Next == \/ \E w \in Writers : \/ \E b \in Batches : InsertBegin(w, b)
                              \/ InsertRaises(w)
                              \/ WriterStep(w)
        \/ \E r \in Readers : Query(r) \/ QueryRaises(r) \/ ReaderStep(r)
        \/ \E c \in Conns : Crash(c)

Spec == Init /\ [][Next]_vars

(* A call that has begun goes on: each thread is scheduled.  Errors, crashes *)
(* and new calls may never come.                                             *)
FairSpec == /\ Spec
            /\ \A w \in Writers : WF_vars(WriterStep(w))
            /\ \A r \in Readers : WF_vars(ReaderStep(r))

-----------------------------------------------------------------------------
TypeOK == /\ committed \subseteq Rows
          /\ txn \in [Conns -> SUBSET Rows]
          /\ inTxn \in [Conns -> BOOLEAN]
          /\ wpc \in [Writers -> {"idle", "inserting", "raising"}]
          /\ batch \in [Writers -> Batches \union {NoBatch}]
          /\ row \in [Writers -> 0 .. BatchSize]
          /\ rpc \in [Readers -> {"idle", "fetched", "raising"}]
          /\ seen \in [Readers -> SUBSET Rows]
          /\ acked \subseteq Batches /\ failed \subseteq Batches

(* Every row of a batch whose insert_snapshot_batch has returned is in the   *)
(* database, whatever the other threads of the connection do meanwhile: the  *)
(* collector adds the batch to its session totals on that strength.          *)
AckedDurable == \A b \in acked : RowsOf(b) \subseteq committed

(* What is stored of a batch has no hole: rows 1 .. k for some k, even if a  *)
(* reader of the connection committed in the middle and the insert failed.   *)
NoHoles == \A b \in Batches : \A k \in 1 .. BatchSize, j \in 1 .. BatchSize :
             j < k /\ <<b, k>> \in committed => <<b, j>> \in committed

(* No transaction, and so no write lock that would block the other           *)
(* processes, is left open on a connection with no call in progress.         *)
Inserting(c) == \E w \in Writers : ConnOf[w] = c /\ wpc[w] # "idle"
NothingLeftOpen == \A c \in Conns :
                     ~Inserting(c) => ~inTxn[c] /\ txn[c] = {}

(* A connection is private when one thread uses it: the daemon and the CLI.  *)
PrivateConns == \A s, t \in Writers \union Readers :
                  ConnOf[s] = ConnOf[t] => s = t

(* With private connections every insert is atomic: the store implements     *)
(* the abstract one, seen by any other process.                              *)
Batch == INSTANCE BatchStore WITH rows <- committed
ImplementsBatchStore == Batch!Spec

(* A started insert ends: whoever holds the write lock lets go of it, also   *)
(* when its call failed or its process died.                                 *)
InsertsEnd == \A w \in Writers : (wpc[w] # "idle") ~> (wpc[w] = "idle")
=============================================================================

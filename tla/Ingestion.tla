------------------------------ MODULE Ingestion ------------------------------
(***************************************************************************)
(* The ingestion side: FinancialPipelineQueue (pipeline_queue.py) buffers  *)
(* transactions in memory and hands them out in batches, and the two       *)
(* FinancialDataProcessors read transaction_logs (database_manager.py).    *)
(* Who pops the batches and loads them is not in the repository: here an   *)
(* assumed consumer, in one thread or another, calls pop_batch and inserts *)
(* what it got, or stops anywhere.  A transaction is referred to by its    *)
(* place in accepted.                                                      *)
(***************************************************************************)
EXTENDS Integers, Sequences, SequencesExt, Functions

CONSTANTS
  Transactions,   \* records with txn_id (its rank in text order), account_number, amount
  MaxBufferSize,  \* max_buffer_size of the queue
  BatchSize,      \* batch_size
  RecordsKept,    \* max_buffer_size of the root data processor
  MaxAccepted     \* bound: transactions pushed

ASSUME IngestionAssumption ==
  /\ \A t \in Transactions : t.txn_id \in Nat /\ t.amount \in Int
  /\ MaxBufferSize \in Nat \ {0}
  /\ BatchSize \in Nat \ {0}
  /\ RecordsKept \in Nat \ {0}
  /\ MaxAccepted \in Nat

VARIABLES
  accepted,           \* history: what push_transaction answered True for
  buffer,             \* the deque
  batch,              \* what pop_batch has taken
  pc,                 \* of the assumed consumer: idle, popping or loading
  schema,             \* does transaction_logs exist?
  rows,               \* its rows, in the order of insertion
  processing_buffer,  \* of the root data processor
  synced              \* history: the rows it read last

queue == <<accepted, buffer, batch, pc>>
table == <<schema, rows>>
processor == <<processing_buffer, synced>>
vars == <<queue, table, processor>>

Init ==
  /\ accepted = <<>> /\ buffer = <<>> /\ batch = <<>>
  /\ pc = "idle"
  /\ schema = FALSE /\ rows = <<>>
  /\ processing_buffer = <<>> /\ synced = <<>>

(* Variant (TypeOK): a deque without a maxlen. *)
AppendUnbounded(s, x, maxlen) == Append(s, x)

(* Variant (BufferIsTheTail): a full list takes nothing more. *)
AppendUnlessFull(s, x, maxlen) == IF Len(s) = maxlen THEN s ELSE Append(s, x)

(* append to a deque with a maxlen *)
AppendBounded(s, x, maxlen) == Append(IF Len(s) = maxlen THEN Tail(s) ELSE s, x)

-----------------------------------------------------------------------------
(* FinancialPipelineQueue *)

(* Anything but a missing id or an amount of zero: the others are refused. *)
push_transaction(t) ==
  /\ Len(accepted) < MaxAccepted
  /\ t.amount # 0
  /\ accepted' = Append(accepted, t)
  /\ buffer' = AppendBounded(buffer, Len(accepted) + 1, MaxBufferSize)
  /\ UNCHANGED <<batch, pc, table, processor>>

StartBatch ==
  /\ pc = "idle" /\ pc' = "popping"
  /\ UNCHANGED <<accepted, buffer, batch, table, processor>>

(* Variant (InOrder): pop in place of popleft. *)
PopRight ==
  /\ pc = "popping"
  /\ buffer # <<>> /\ Len(batch) < BatchSize
  /\ batch' = Append(batch, Last(buffer))
  /\ buffer' = Front(buffer)
  /\ UNCHANGED <<accepted, pc, table, processor>>

PopLeft ==
  /\ pc = "popping"
  /\ buffer # <<>> /\ Len(batch) < BatchSize
  /\ batch' = Append(batch, Head(buffer))
  /\ buffer' = Tail(buffer)
  /\ UNCHANGED <<accepted, pc, table, processor>>

(* Variant (LostOnlyByOverrun): a batch that ends early is thrown away. *)
EndBatchShort ==
  /\ pc = "popping"
  /\ buffer = <<>> \/ Len(batch) = BatchSize
  /\ pc' = "loading"
  /\ batch' = IF Len(batch) < BatchSize THEN <<>> ELSE batch
  /\ UNCHANGED <<accepted, buffer, table, processor>>

EndBatch ==
  /\ pc = "popping"
  /\ buffer = <<>> \/ Len(batch) = BatchSize
  /\ pc' = "loading"
  /\ UNCHANGED <<accepted, buffer, batch, table, processor>>

-----------------------------------------------------------------------------
(* FinancialDatabaseManager, and the assumed loader *)

initialize_schema ==
  /\ ~schema /\ schema' = TRUE
  /\ UNCHANGED <<queue, rows, processor>>

(* txn_id is the primary key: a transaction pushed again is not inserted.  *)
Stored(k) == \E i \in ToSet(rows) : accepted[i].txn_id = accepted[k].txn_id

LoadRow ==
  /\ pc = "loading" /\ schema
  /\ batch # <<>>
  /\ rows' = IF Stored(Head(batch)) THEN rows ELSE Append(rows, Head(batch))
  /\ batch' = Tail(batch)
  /\ UNCHANGED <<accepted, buffer, pc, schema, processor>>

EndLoad ==
  /\ pc = "loading" /\ batch = <<>>
  /\ pc' = "idle"
  /\ UNCHANGED <<accepted, buffer, batch, table, processor>>

-----------------------------------------------------------------------------
(* FinancialDataProcessor of src/ingestion: the running total of row k. *)

Partition(k) ==
  {i \in ToSet(rows) : accepted[i].account_number = accepted[k].account_number}

Amounts(ks) == SumFunction([i \in ks |-> accepted[i].amount])

(* Variant (OnlyLateRowsChangeTotals): no ORDER BY in the window. *)
account_total(k) == Amounts(Partition(k))

account_running_total(k) ==
  Amounts({i \in Partition(k) : accepted[i].txn_id <= accepted[k].txn_id})

(* FinancialDataProcessor of the root directory *)
SyncBuffer ==
  /\ schema
  /\ processing_buffer' =
       FoldLeft(LAMBDA s, k : AppendBounded(s, k, RecordsKept), processing_buffer, rows)
  /\ synced' = rows
  /\ UNCHANGED <<queue, table>>

-----------------------------------------------------------------------------

(* The assumed consumer: nothing obliges it to go on. *)
Consumer == StartBatch \/ PopLeft \/ EndBatch \/ LoadRow \/ EndLoad

Next ==
  \/ \E t \in Transactions : push_transaction(t)
  \/ Consumer \/ initialize_schema \/ SyncBuffer

Spec == Init /\ [][Next]_vars

-----------------------------------------------------------------------------

Places == 1 .. Len(accepted)

QueueTypeOK ==
  /\ accepted \in Seq(Transactions) /\ Len(accepted) <= MaxAccepted
  /\ buffer \in Seq(Places) /\ Len(buffer) <= MaxBufferSize
  /\ batch \in Seq(Places) /\ Len(batch) <= BatchSize
  /\ pc \in {"idle", "popping", "loading"}
  /\ schema \in BOOLEAN
  /\ rows \in Seq(Places)

(* Every variable stays in its range, and every bound is kept.              *)
TypeOK ==
  /\ QueueTypeOK
  /\ processing_buffer \in Seq(Places) /\ Len(processing_buffer) <= RecordsKept
  /\ synced \in Seq(Places)

(* A transaction that push_transaction accepted is in the buffer, in the    *)
(* batch or in the table, under its id, unless the buffer has been full     *)
(* since: MaxBufferSize later ones were accepted.  Nothing is lost in the   *)
(* middle, between calls or by a batch that ends early.                     *)
LostOnlyByOverrun ==
  \A k \in Places :
    \/ k \in ToSet(buffer) \cup ToSet(batch)
    \/ Stored(k)
    \/ Len(accepted) - k >= MaxBufferSize

(* Transactions are popped and stored in the order they were accepted,     *)
(* whatever is overwritten while a batch is being popped.                   *)
Rising(s) == \A i, j \in DOMAIN s : i < j => s[i] < s[j]
Before(s, t) == \A i \in DOMAIN s : \A j \in DOMAIN t : s[i] < t[j]

InOrder ==
  /\ Rising(rows) /\ Rising(batch) /\ Rising(buffer)
  /\ Before(rows, batch) /\ Before(batch, buffer) /\ Before(rows, buffer)

(* Induction needs to know what the buffer holds: the latest transactions.  *)
BufferIsLatest ==
  \A i \in DOMAIN buffer : buffer[i] = Len(accepted) - Len(buffer) + i

QueueInv == QueueTypeOK /\ BufferIsLatest /\ InOrder /\ LostOnlyByOverrun

(* A running total that was reported changes only when a row of the same    *)
(* account is stored late, with an earlier id (the window's ORDER BY); rows *)
(* with later ids, of other accounts, or pushed a second time change none.  *)
OnlyLateRowsChangeTotals ==
  [][\A k \in ToSet(rows) :
       account_running_total(k)' # account_running_total(k) =>
         \E h \in ToSet(rows') \ ToSet(rows) :
           h \in Partition(k)' /\ accepted'[h].txn_id < accepted[k].txn_id]_vars

(* However often it is called, and whatever it has kept from earlier calls, *)
(* the root processor's buffer ends with the last rows it read.             *)
BufferIsTheTail ==
  \A i \in 0 .. RecordsKept - 1 :
    i < Len(synced) =>
      processing_buffer[Len(processing_buffer) - i] = synced[Len(synced) - i]

=============================================================================

--------------------------- MODULE Ingestion_proofs ---------------------------
(***************************************************************************)
(* For every capacity, batch size and set of transactions: what the queue  *)
(* accepted is lost only by overrun and stored in order, and only a late   *)
(* row changes a running total.                                            *)
(***************************************************************************)
EXTENDS Ingestion, FiniteSetTheorems, WellFoundedInduction, TLAPS

(* What Append adds, and what it leaves. *)
LEMMA AppendFacts ==
  ASSUME NEW S, NEW s \in Seq(S), NEW x \in S
  PROVE  /\ Append(s, x) \in Seq(S)
         /\ Len(Append(s, x)) = Len(s) + 1
         /\ \A i \in DOMAIN s : Append(s, x)[i] = s[i]
         /\ Append(s, x)[Len(s) + 1] = x
         /\ DOMAIN Append(s, x) = 1 .. Len(s) + 1
         /\ DOMAIN s = 1 .. Len(s)
  OBVIOUS

(* What Head and Tail are made of. *)
LEMMA TailFacts ==
  ASSUME NEW S, NEW s \in Seq(S), s # <<>>
  PROVE  /\ Tail(s) \in Seq(S)
         /\ Len(Tail(s)) = Len(s) - 1
         /\ Head(s) = s[1] /\ Head(s) \in S
         /\ \A i \in DOMAIN Tail(s) : Tail(s)[i] = s[i + 1]
         /\ DOMAIN Tail(s) = 1 .. Len(s) - 1
         /\ DOMAIN s = 1 .. Len(s) /\ Len(s) \in Nat \ {0}
  OBVIOUS

(* The domain and the range of a sequence. *)
LEMMA SeqFacts ==
  ASSUME NEW S, NEW s \in Seq(S)
  PROVE  /\ DOMAIN s = 1 .. Len(s) /\ Len(s) \in Nat
         /\ \A i \in DOMAIN s : s[i] \in S
  OBVIOUS

(* A sequence over a set is one over any larger set. *)
LEMMA SeqMonotone ==
  ASSUME NEW S, NEW T, S \subseteq T, NEW s \in Seq(S)
  PROVE  s \in Seq(T)
  OBVIOUS

(* The invariant holds at first. *)
LEMMA InitInv == Init => QueueInv
<1> SUFFICES ASSUME Init PROVE QueueInv
    OBVIOUS
<1>1. /\ accepted = <<>> /\ buffer = <<>> /\ batch = <<>> /\ rows = <<>>
      /\ pc = "idle" /\ schema = FALSE
  BY DEF Init
<1>2. \A S : <<>> \in Seq(S) /\ Len(<<>>) = 0
  OBVIOUS
<1>3. QueueTypeOK
  <2>1. /\ accepted \in Seq(Transactions) /\ buffer \in Seq(Places)
        /\ batch \in Seq(Places) /\ rows \in Seq(Places)
    BY <1>1, <1>2
  <2>2. Len(accepted) <= MaxAccepted /\ Len(buffer) <= MaxBufferSize /\ Len(batch) <= BatchSize
    BY <1>1, <1>2, IngestionAssumption
  <2> QED
    BY <1>1, <2>1, <2>2 DEF QueueTypeOK
<1>4. BufferIsLatest /\ InOrder
  BY <1>1 DEF BufferIsLatest, InOrder, Rising, Before
<1>5. LostOnlyByOverrun
  BY <1>1, <1>2 DEF LostOnlyByOverrun, Places
<1> QED
  BY <1>3, <1>4, <1>5 DEF QueueInv

(* Steps that leave the deque, the batch and the rows alone.                *)
ControlStep ==
  StartBatch \/ EndBatch \/ EndLoad \/ initialize_schema \/ SyncBuffer \/ UNCHANGED vars

(* Steps that move no transaction preserve the invariant. *)
LEMMA ControlInv == QueueInv /\ ControlStep => QueueInv'
<1> SUFFICES ASSUME QueueInv, ControlStep PROVE QueueInv'
    OBVIOUS
<1>1. UNCHANGED <<accepted, buffer, batch, rows>>
  BY DEF ControlStep, StartBatch, EndBatch, EndLoad, initialize_schema, SyncBuffer,
         vars, queue, table, processor
<1>2. pc' \in {"idle", "popping", "loading"} /\ schema' \in BOOLEAN
  BY DEF ControlStep, StartBatch, EndBatch, EndLoad, initialize_schema, SyncBuffer,
         vars, queue, table, processor, QueueInv, QueueTypeOK
<1>3. QueueTypeOK'
  BY <1>1, <1>2 DEF QueueInv, QueueTypeOK, Places
<1>4. BufferIsLatest' /\ InOrder' /\ LostOnlyByOverrun'
  BY <1>1 DEF QueueInv, BufferIsLatest, InOrder, LostOnlyByOverrun, Stored, Rising, Before,
              Places
<1> QED
  BY <1>3, <1>4 DEF QueueInv

-----------------------------------------------------------------------------

(* What a sequence of the latest places up to n looks like.                 *)
Latest(s, n) == \A i \in 1 .. Len(s) : s[i] = n - Len(s) + i

(* A deque with a maxlen keeps the latest: either nothing is dropped, or it *)
(* was full and its oldest is.                                              *)
Base(s, max) == IF Len(s) = max THEN Tail(s) ELSE s

(* A bounded append drops the oldest of the latest, if anything. *)
LEMMA BoundedAppend ==
  ASSUME NEW n \in Nat, NEW max \in Nat \ {0},
         NEW s \in Seq(1 .. n), Len(s) <= max, Latest(s, n)
  PROVE  /\ AppendBounded(s, n + 1, max) = Append(Base(s, max), n + 1)
         /\ Base(s, max) \in Seq(1 .. n)
         /\ Latest(Base(s, max), n) /\ Len(Base(s, max)) < max
         /\ \/ Len(Base(s, max)) = Len(s)
            \/ Len(Base(s, max)) = Len(s) - 1 /\ Len(s) = max
<1>1. CASE Len(s) = max
  <2>1. s # <<>>
    BY <1>1
  <2>2. /\ Tail(s) \in Seq(1 .. n) /\ Len(Tail(s)) = Len(s) - 1
        /\ \A i \in 1 .. Len(s) - 1 : Tail(s)[i] = s[i + 1]
    BY <2>1, TailFacts
  <2>3. Latest(Tail(s), n)
    <3>1. Len(s) \in Nat
      BY SeqFacts
    <3>2. ASSUME NEW i \in 1 .. Len(s) - 1
          PROVE  Tail(s)[i] = n - (Len(s) - 1) + i
      <4>1. i + 1 \in 1 .. Len(s)
        BY <3>1
      <4>2. s[i + 1] = n - Len(s) + (i + 1)
        BY <4>1 DEF Latest
      <4> QED
        BY <3>1, <4>2, <2>2
    <3> QED
      BY <3>2, <2>2 DEF Latest
  <2>4. AppendBounded(s, n + 1, max) = Append(Base(s, max), n + 1) /\ Base(s, max) = Tail(s)
    BY <1>1 DEF AppendBounded, Base
  <2>5. Len(Tail(s)) < max
    BY <1>1, <2>2
  <2> QED
    BY <1>1, <2>2, <2>3, <2>4, <2>5
<1>2. CASE Len(s) # max
  <2>1. Len(s) < max
    BY <1>2
  <2> QED
    BY <1>2, <2>1 DEF AppendBounded, Base
<1> QED
  BY <1>1, <1>2

(* A push preserves the invariant: what it drops has been overrun. *)
LEMMA PushInv ==
  ASSUME NEW t \in Transactions, QueueInv, push_transaction(t)
  PROVE  QueueInv'
<1>0. PICK n \in Nat : n = Len(accepted)
  BY SeqFacts DEF QueueInv, QueueTypeOK
<1>1. /\ accepted \in Seq(Transactions) /\ Places = 1 .. n
      /\ buffer \in Seq(1 .. n) /\ batch \in Seq(1 .. n) /\ rows \in Seq(1 .. n)
      /\ Len(buffer) <= MaxBufferSize /\ Len(batch) <= BatchSize
      /\ Len(buffer) \in Nat /\ MaxBufferSize \in Nat \ {0} /\ MaxAccepted \in Nat
  BY <1>0, IngestionAssumption, SeqFacts DEF QueueInv, QueueTypeOK, Places
<1>2. /\ accepted' = Append(accepted, t) /\ n < MaxAccepted
      /\ buffer' = AppendBounded(buffer, n + 1, MaxBufferSize)
      /\ UNCHANGED <<batch, pc, schema, rows>>
  BY <1>0 DEF push_transaction, table
<1>3. /\ accepted' \in Seq(Transactions) /\ Len(accepted') = n + 1
      /\ \A k \in 1 .. n : accepted'[k] = accepted[k]
      /\ Places' = 1 .. n + 1
  BY <1>0, <1>1, <1>2, AppendFacts, SeqFacts DEF Places
<1>4. Latest(buffer, n)
  BY <1>0, <1>1, SeqFacts DEF QueueInv, BufferIsLatest, Latest
<1>5. PICK b \in Seq(1 .. n) :
        /\ buffer' = Append(b, n + 1)
        /\ Latest(b, n) /\ Len(b) < MaxBufferSize
        /\ \/ Len(b) = Len(buffer)
           \/ Len(b) = Len(buffer) - 1 /\ Len(buffer) = MaxBufferSize
  <2>1. /\ buffer \in Seq(1 .. n) /\ MaxBufferSize \in Nat \ {0}
        /\ Len(buffer) <= MaxBufferSize
    BY <1>1
  <2>2. /\ buffer' = Append(Base(buffer, MaxBufferSize), n + 1)
        /\ Base(buffer, MaxBufferSize) \in Seq(1 .. n)
        /\ Latest(Base(buffer, MaxBufferSize), n) /\ Len(Base(buffer, MaxBufferSize)) < MaxBufferSize
        /\ \/ Len(Base(buffer, MaxBufferSize)) = Len(buffer)
           \/ Len(Base(buffer, MaxBufferSize)) = Len(buffer) - 1 /\ Len(buffer) = MaxBufferSize
    BY <1>2, <1>4, <2>1, BoundedAppend
  <2> QED
    BY <2>2
<1>6. PICK m \in Nat : m = Len(b)
  BY SeqFacts
<1>7. /\ buffer' \in Seq(1 .. n + 1) /\ Len(buffer') = m + 1
      /\ DOMAIN buffer' = 1 .. m + 1
      /\ \A i \in 1 .. m + 1 : buffer'[i] = n - m + i
  <2>1. b \in Seq(1 .. n + 1) /\ n + 1 \in 1 .. n + 1
    OBVIOUS
  <2>2. /\ buffer' \in Seq(1 .. n + 1) /\ Len(buffer') = m + 1
        /\ DOMAIN buffer' = 1 .. m + 1
        /\ buffer'[m + 1] = n + 1
        /\ \A i \in 1 .. m : buffer'[i] = b[i]
    BY <2>1, <1>5, <1>6, AppendFacts
  <2>3. \A i \in 1 .. m : b[i] = n - m + i
    BY <1>5, <1>6 DEF Latest
  <2>4. ASSUME NEW i \in 1 .. m + 1 PROVE buffer'[i] = n - m + i
    <3>1. CASE i = m + 1
      <4>1. n - m + (m + 1) = n + 1
        OBVIOUS
      <4> QED
        BY <2>2, <3>1, <4>1
    <3>2. CASE i # m + 1
      <4>1. i \in 1 .. m
        BY <3>2
      <4> QED
        BY <2>2, <2>3, <4>1
    <3> QED
      BY <3>1, <3>2
  <2> QED
    BY <2>2, <2>4
<1>8. QueueTypeOK'
  <2>1. batch' \in Seq(Places') /\ rows' \in Seq(Places') /\ buffer' \in Seq(Places')
    BY <1>1, <1>2, <1>3, <1>7
  <2>2. Len(accepted') <= MaxAccepted /\ Len(buffer') <= MaxBufferSize
    BY <1>1, <1>2, <1>3, <1>5, <1>6, <1>7
  <2> QED
    BY <2>1, <2>2, <1>1, <1>2, <1>3 DEF QueueInv, QueueTypeOK
<1>9. BufferIsLatest'
  BY <1>3, <1>7 DEF BufferIsLatest
<1>10. InOrder'
  <2>1. Rising(buffer')
    BY <1>7 DEF Rising
  <2>2. ASSUME NEW s \in Seq(1 .. n), Before(s, buffer)
        PROVE  Before(s, buffer')
    <3> SUFFICES ASSUME NEW i \in DOMAIN s, NEW j \in 1 .. m + 1
                 PROVE  s[i] < buffer'[j]
        BY <1>7 DEF Before
    <3>1. s[i] \in 1 .. n /\ buffer'[j] = n - m + j
      BY <1>7, SeqFacts
    <3>2. CASE j = m + 1
      BY <3>1, <3>2
    <3>3. CASE j \in 1 .. m
      <4>1. PICK l \in DOMAIN buffer : l = j + Len(buffer) - m
        BY <3>3, <1>1, <1>5, <1>6, SeqFacts
      <4>2. buffer[l] = n - Len(buffer) + l
        BY <4>1, <1>1, <1>4, SeqFacts DEF Latest
      <4>3. buffer[l] = buffer'[j]
        BY <4>1, <4>2, <3>1, <1>1
      <4> QED
        BY <4>1, <4>3, <2>2 DEF Before
    <3> QED
      BY <3>2, <3>3
  <2> QED
    BY <2>1, <2>2, <1>1, <1>2 DEF QueueInv, InOrder
<1>11. LostOnlyByOverrun'
  <2> SUFFICES ASSUME NEW k \in 1 .. n + 1
               PROVE  \/ k \in ToSet(buffer') \cup ToSet(batch)
                      \/ Stored(k)'
                      \/ n + 1 - k >= MaxBufferSize
      BY <1>2, <1>3 DEF LostOnlyByOverrun
  <2>1. CASE k > n - m
    <3>1. PICK i \in 1 .. m + 1 : i = k - n + m
      BY <2>1
    <3>2. i \in DOMAIN buffer' /\ buffer'[i] = k
      BY <3>1, <1>7
    <3> QED
      BY <3>1, <3>2, <1>7 DEF ToSet
  <2>2. CASE k <= n - m
    <3>1. k \in 1 .. n
      BY <2>2
    <3>2. CASE Stored(k)
      <4>1. PICK r \in ToSet(rows) : accepted[r].txn_id = accepted[k].txn_id
        BY <3>2 DEF Stored
      <4>2. r \in 1 .. n
        BY <1>1, SeqFacts DEF ToSet
      <4> QED
        BY <3>1, <4>1, <4>2, <1>2, <1>3 DEF Stored
    <3>3. CASE k \in ToSet(buffer)
      <4>1. PICK i \in 1 .. Len(buffer) : k = buffer[i]
        BY <3>3, <1>1, SeqFacts DEF ToSet
      <4>2. k = n - Len(buffer) + i
        BY <4>1, <1>4 DEF Latest
      <4> QED
        BY <4>1, <4>2, <2>2, <1>1, <1>5, <1>6
    <3>4. CASE n - k >= MaxBufferSize
      BY <3>1, <3>4, <1>1
    <3> QED
      BY <3>1, <3>2, <3>3, <3>4, <1>0, <1>1 DEF QueueInv, LostOnlyByOverrun
  <2> QED
    BY <2>1, <2>2
<1> QED
  BY <1>8, <1>9, <1>10, <1>11 DEF QueueInv

(* The elements of a sequence that is extended or shortened.                *)
LEMMA AppendSet ==
  ASSUME NEW S, NEW s \in Seq(S), NEW x \in S
  PROVE  ToSet(Append(s, x)) = ToSet(s) \cup {x}
<1>1. ToSet(s) \cup {x} \subseteq ToSet(Append(s, x))
  BY AppendFacts, SeqFacts DEF ToSet
<1>2. ToSet(Append(s, x)) \subseteq ToSet(s) \cup {x}
  <2> SUFFICES ASSUME NEW i \in 1 .. Len(s) + 1
               PROVE  Append(s, x)[i] \in ToSet(s) \cup {x}
      BY AppendFacts DEF ToSet
  <2>1. CASE i = Len(s) + 1
    BY <2>1, AppendFacts
  <2>2. CASE i # Len(s) + 1
    <3>1. i \in DOMAIN s
      BY <2>2, SeqFacts
    <3> QED
      BY <3>1, AppendFacts DEF ToSet
  <2> QED
    BY <2>1, <2>2
<1> QED
  BY <1>1, <1>2

(* Tail takes the head away. *)
LEMMA TailSet ==
  ASSUME NEW S, NEW s \in Seq(S), s # <<>>
  PROVE  ToSet(s) = ToSet(Tail(s)) \cup {Head(s)}
<1>1. ToSet(Tail(s)) \cup {Head(s)} \subseteq ToSet(s)
  <2>1. Head(s) \in ToSet(s)
    BY TailFacts DEF ToSet
  <2>2. ASSUME NEW i \in DOMAIN Tail(s) PROVE Tail(s)[i] \in ToSet(s)
    <3>1. i + 1 \in DOMAIN s /\ Tail(s)[i] = s[i + 1]
      BY TailFacts
    <3> QED
      BY <3>1 DEF ToSet
  <2> QED
    BY <2>1, <2>2 DEF ToSet
<1>2. ASSUME NEW i \in DOMAIN s PROVE s[i] \in ToSet(Tail(s)) \cup {Head(s)}
  <2>1. CASE i = 1
    BY <2>1, TailFacts
  <2>2. CASE i # 1
    <3>1. i - 1 \in DOMAIN Tail(s) /\ Tail(s)[i - 1] = s[(i - 1) + 1] /\ (i - 1) + 1 = i
      BY <2>2, TailFacts
    <3> QED
      BY <3>1 DEF ToSet
  <2> QED
    BY <2>1, <2>2
<1> QED
  BY <1>1, <1>2 DEF ToSet

(* The order of a sequence that is extended or shortened, and of two, in    *)
(* terms of their elements.                                                 *)
LEMMA BeforeSets ==
  ASSUME NEW s, NEW t
  PROVE  Before(s, t) <=> \A x \in ToSet(s) : \A y \in ToSet(t) : x < y
  BY DEF Before, ToSet

(* A larger element keeps a sequence rising. *)
LEMMA RisingAppend ==
  ASSUME NEW s \in Seq(Nat), NEW x \in Nat, Rising(s), \A y \in ToSet(s) : y < x
  PROVE  Rising(Append(s, x))
<1> SUFFICES ASSUME NEW i \in 1 .. Len(s) + 1, NEW j \in 1 .. Len(s) + 1, i < j
             PROVE  Append(s, x)[i] < Append(s, x)[j]
    BY AppendFacts DEF Rising
<1>1. i \in DOMAIN s /\ Append(s, x)[i] = s[i] /\ s[i] \in ToSet(s)
  BY AppendFacts, SeqFacts DEF ToSet
<1>2. CASE j = Len(s) + 1
  BY <1>1, <1>2, AppendFacts
<1>3. CASE j # Len(s) + 1
  <2>1. j \in DOMAIN s /\ Append(s, x)[j] = s[j]
    BY <1>3, AppendFacts, SeqFacts
  <2> QED
    BY <1>1, <2>1 DEF Rising
<1> QED
  BY <1>2, <1>3

(* The tail of a rising sequence rises, above its head. *)
LEMMA RisingTail ==
  ASSUME NEW s \in Seq(Nat), s # <<>>, Rising(s)
  PROVE  /\ Rising(Tail(s))
         /\ \A y \in ToSet(Tail(s)) : Head(s) < y
<1>1. ASSUME NEW i \in DOMAIN Tail(s)
      PROVE  i + 1 \in DOMAIN s /\ 1 \in DOMAIN s /\ Tail(s)[i] = s[i + 1] /\ i \in Nat /\ 1 < i + 1
  BY TailFacts
<1>2. Rising(Tail(s))
  <2> SUFFICES ASSUME NEW i \in DOMAIN Tail(s), NEW j \in DOMAIN Tail(s), i < j
               PROVE  Tail(s)[i] < Tail(s)[j]
      BY DEF Rising
  <2>1. i + 1 < j + 1
    BY <1>1
  <2> QED
    BY <1>1, <2>1 DEF Rising
<1>3. ASSUME NEW i \in DOMAIN Tail(s) PROVE Head(s) < Tail(s)[i]
  <2>1. Head(s) = s[1]
    BY TailFacts
  <2> QED
    BY <1>1, <2>1 DEF Rising
<1> QED
  BY <1>2, <1>3 DEF ToSet

(* A pop preserves the invariant: the head precedes all others. *)
LEMMA PopInv == QueueInv /\ PopLeft => QueueInv'
<1> SUFFICES ASSUME QueueInv, PopLeft PROVE QueueInv'
    OBVIOUS
<1>1. /\ buffer # <<>> /\ Len(batch) < BatchSize
      /\ batch' = Append(batch, Head(buffer)) /\ buffer' = Tail(buffer)
      /\ UNCHANGED <<accepted, pc, schema, rows>>
  BY DEF PopLeft, table
<1>2. /\ buffer \in Seq(Places) /\ batch \in Seq(Places) /\ rows \in Seq(Places)
      /\ Len(accepted) \in Nat /\ BatchSize \in Nat /\ MaxBufferSize \in Nat
      /\ Places \subseteq Nat /\ Places' = Places
  BY <1>1, IngestionAssumption, SeqFacts DEF QueueInv, QueueTypeOK, Places
<1>3. buffer \in Seq(Nat) /\ batch \in Seq(Nat) /\ Head(buffer) \in Nat /\ Head(buffer) \in Places
  BY <1>1, <1>2, TailFacts, SeqMonotone
<1>4. /\ ToSet(batch') = ToSet(batch) \cup {Head(buffer)}
      /\ ToSet(buffer) = ToSet(buffer') \cup {Head(buffer)}
  BY <1>1, <1>2, <1>3, AppendSet, TailSet
<1>5. QueueTypeOK'
  <2>1. batch' \in Seq(Places) /\ Len(batch') <= BatchSize
    BY <1>1, <1>2, <1>3, AppendFacts, SeqFacts
  <2>2. buffer' \in Seq(Places) /\ Len(buffer') <= MaxBufferSize
    BY <1>1, <1>2, TailFacts, SeqFacts DEF QueueInv, QueueTypeOK
  <2> QED
    BY <1>1, <1>2, <2>1, <2>2 DEF QueueInv, QueueTypeOK
<1>6. BufferIsLatest'
  <2>1. /\ Len(buffer') = Len(buffer) - 1 /\ Len(buffer) \in Nat
        /\ \A i \in DOMAIN buffer' : /\ buffer'[i] = buffer[i + 1]
                                    /\ i \in Nat /\ i + 1 \in DOMAIN buffer
    BY <1>1, <1>2, TailFacts
  <2>2. \A i \in DOMAIN buffer' : buffer'[i] = Len(accepted) - Len(buffer') + i
    BY <2>1, <1>2 DEF QueueInv, BufferIsLatest
  <2> QED
    BY <2>2, <1>1 DEF BufferIsLatest
<1>7. InOrder'
  <2>1. /\ Rising(rows) /\ Rising(batch) /\ Rising(buffer)
        /\ \A x \in ToSet(rows) : \A y \in ToSet(batch) : x < y
        /\ \A x \in ToSet(batch) : \A y \in ToSet(buffer) : x < y
        /\ \A x \in ToSet(rows) : \A y \in ToSet(buffer) : x < y
    BY BeforeSets DEF QueueInv, InOrder
  <2>2. Rising(batch')
    BY <1>1, <1>3, <1>4, <2>1, RisingAppend
  <2>3. Rising(buffer') /\ \A y \in ToSet(buffer') : Head(buffer) < y
    BY <1>1, <1>3, <2>1, RisingTail
  <2>4. Before(rows, batch')
    BY <2>1, <1>4, BeforeSets
  <2>5. Before(batch', buffer')
    BY <2>1, <2>3, <1>4, BeforeSets
  <2>6. Before(rows, buffer')
    BY <2>1, <1>4, BeforeSets
  <2> QED
    BY <2>1, <2>2, <2>3, <2>4, <2>5, <2>6, <1>1 DEF InOrder
<1>8. LostOnlyByOverrun'
  BY <1>1, <1>2, <1>4 DEF QueueInv, LostOnlyByOverrun, Stored
<1> QED
  BY <1>5, <1>6, <1>7, <1>8 DEF QueueInv

(* Loading a row preserves the invariant. *)
LEMMA LoadInv == QueueInv /\ LoadRow => QueueInv'
<1> SUFFICES ASSUME QueueInv, LoadRow PROVE QueueInv'
    OBVIOUS
<1>1. /\ batch # <<>> /\ batch' = Tail(batch)
      /\ rows' = IF Stored(Head(batch)) THEN rows ELSE Append(rows, Head(batch))
      /\ UNCHANGED <<accepted, buffer, pc, schema>>
  BY DEF LoadRow
<1>2. /\ buffer \in Seq(Places) /\ batch \in Seq(Places) /\ rows \in Seq(Places)
      /\ BatchSize \in Nat /\ Places \subseteq Nat /\ Places' = Places
  BY <1>1, IngestionAssumption, SeqFacts DEF QueueInv, QueueTypeOK, Places
<1>3. batch \in Seq(Nat) /\ rows \in Seq(Nat) /\ Head(batch) \in Nat /\ Head(batch) \in Places
  BY <1>1, <1>2, TailFacts, SeqMonotone
<1>4. ToSet(batch) = ToSet(batch') \cup {Head(batch)}
  BY <1>1, <1>2, TailSet
<1>5. /\ ToSet(rows) \subseteq ToSet(rows')
      /\ ToSet(rows') \subseteq ToSet(rows) \cup {Head(batch)}
      /\ Stored(Head(batch)) \/ Head(batch) \in ToSet(rows')
      /\ rows' \in Seq(Places)
  BY <1>1, <1>2, <1>3, AppendSet, AppendFacts
<1>6. QueueTypeOK'
  <2>1. batch' \in Seq(Places) /\ Len(batch') <= BatchSize
    BY <1>1, <1>2, TailFacts, SeqFacts DEF QueueInv, QueueTypeOK
  <2> QED
    BY <1>1, <1>2, <1>5, <2>1 DEF QueueInv, QueueTypeOK
<1>7. BufferIsLatest'
  BY <1>1 DEF QueueInv, BufferIsLatest
<1>8. InOrder'
  <2>1. /\ Rising(rows) /\ Rising(batch) /\ Rising(buffer)
        /\ \A x \in ToSet(rows) : \A y \in ToSet(batch) : x < y
        /\ \A x \in ToSet(batch) : \A y \in ToSet(buffer) : x < y
        /\ \A x \in ToSet(rows) : \A y \in ToSet(buffer) : x < y
    BY BeforeSets DEF QueueInv, InOrder
  <2>2. Rising(batch') /\ \A y \in ToSet(batch') : Head(batch) < y
    BY <1>1, <1>3, <2>1, RisingTail
  <2>3. Rising(rows')
    <3>1. \A x \in ToSet(rows) : x < Head(batch)
      BY <2>1, <1>4
    <3>2. Rising(Append(rows, Head(batch)))
      BY <3>1, <2>1, <1>3, RisingAppend
    <3> QED
      BY <3>2, <2>1, <1>1
  <2>4. Before(rows', batch')
    BY <2>1, <2>2, <1>4, <1>5, BeforeSets
  <2>5. Before(batch', buffer)
    BY <2>1, <1>4, BeforeSets
  <2>6. Before(rows', buffer)
    BY <2>1, <1>4, <1>5, BeforeSets
  <2> QED
    BY <2>1, <2>2, <2>3, <2>4, <2>5, <2>6, <1>1 DEF InOrder
<1>9. LostOnlyByOverrun'
  <2>1. \A k : Stored(k) => Stored(k)'
    BY <1>1, <1>5 DEF Stored
  <2>2. ASSUME NEW h, h = Head(batch) PROVE Stored(h)'
    <3>1. CASE Stored(h)
      BY <3>1, <2>1
    <3>2. CASE h \in ToSet(rows')
      BY <3>2 DEF Stored
    <3> QED
      BY <2>2, <3>1, <3>2, <1>5
  <2>3. ASSUME NEW k \in Places
        PROVE  \/ k \in ToSet(buffer) \cup ToSet(batch')
               \/ Stored(k)'
               \/ Len(accepted) - k >= MaxBufferSize
    <3>1. CASE k = Head(batch)
      BY <3>1, <2>2
    <3>2. CASE k # Head(batch)
      BY <3>2, <2>1, <1>4 DEF QueueInv, LostOnlyByOverrun
    <3> QED
      BY <3>1, <3>2
  <2> QED
    BY <2>3, <1>1, <1>2 DEF LostOnlyByOverrun
<1> QED
  BY <1>6, <1>7, <1>8, <1>9 DEF QueueInv

-----------------------------------------------------------------------------

(* The inductive invariant of the queue and its consumer, for every         *)
(* capacity, batch size and stream of transactions (pipeline_queue.py).     *)
THEOREM QueueInvariant == Spec => []QueueInv
<1>1. Init => QueueInv
  BY InitInv
<1>2. QueueInv /\ [Next]_vars => QueueInv'
  <2> SUFFICES ASSUME QueueInv, [Next]_vars PROVE QueueInv'
      OBVIOUS
  <2>1. ASSUME NEW t \in Transactions, push_transaction(t) PROVE QueueInv'
    BY <2>1, PushInv
  <2>2. CASE PopLeft
    BY <2>2, PopInv
  <2>3. CASE LoadRow
    BY <2>3, LoadInv
  <2>4. CASE StartBatch \/ EndBatch \/ EndLoad \/ initialize_schema \/ SyncBuffer
    BY <2>4, ControlInv DEF ControlStep
  <2>5. CASE UNCHANGED vars
    BY <2>5, ControlInv DEF ControlStep
  <2> QED
    BY <2>1, <2>2, <2>3, <2>4, <2>5 DEF Next, Consumer
<1> QED
  BY <1>1, <1>2, PTL DEF Spec

(* However pushes fall between the pops of a batch, an accepted transaction *)
(* is lost only when MaxBufferSize later ones were accepted.                *)
THEOREM NothingLostButOverrun == Spec => []LostOnlyByOverrun
<1>1. QueueInv => LostOnlyByOverrun
  BY DEF QueueInv
<1> QED
  BY <1>1, QueueInvariant, PTL

(* The table receives transactions in the order they were accepted.         *)
THEOREM StoredInOrder == Spec => []InOrder
<1>1. QueueInv => InOrder
  BY DEF QueueInv
<1> QED
  BY <1>1, QueueInvariant, PTL

-----------------------------------------------------------------------------
(* The transactions that the running total of k adds up. *)
UpTo(k) == {i \in Partition(k) : accepted[i].txn_id <= accepted[k].txn_id}

(* A running total depends on those transactions alone. *)
LEMMA SameTotal ==
  ASSUME NEW k, UpTo(k)' = UpTo(k), \A i \in UpTo(k) : accepted'[i] = accepted[i]
  PROVE  account_running_total(k)' = account_running_total(k)
<1>1. account_running_total(k) = SumFunction([i \in UpTo(k) |-> accepted[i].amount])
  BY DEF account_running_total, Amounts, UpTo
<1>2. account_running_total(k)' = SumFunction([i \in UpTo(k)' |-> accepted'[i].amount])
  BY DEF account_running_total, Amounts, UpTo
<1>3. [i \in UpTo(k)' |-> accepted'[i].amount] = [i \in UpTo(k) |-> accepted[i].amount]
  OBVIOUS
<1> QED BY <1>1, <1>2, <1>3

(* The history of what was accepted only grows. *)
LEMMA AcceptedGrows ==
  ASSUME QueueInv, [Next]_vars
  PROVE  \A i \in Places : accepted'[i] = accepted[i]
<1>1. DOMAIN accepted = Places /\ accepted \in Seq(Transactions)
  BY SeqFacts DEF QueueInv, QueueTypeOK, Places
<1>2. ASSUME NEW t \in Transactions, push_transaction(t)
      PROVE  \A i \in Places : accepted'[i] = accepted[i]
  BY <1>1, <1>2, AppendFacts DEF push_transaction
<1>3. ASSUME ~\E t \in Transactions : push_transaction(t)
      PROVE  UNCHANGED accepted
  BY <1>3 DEF Next, vars, queue, Consumer, StartBatch, PopLeft, EndBatch, LoadRow,
    EndLoad, initialize_schema, SyncBuffer
<1> QED BY <1>2, <1>3

(* The table grows at its end, by a transaction that was in the batch and    *)
(* whose id is new.                                                          *)
LEMMA TableGrows ==
  ASSUME QueueInv, [Next]_vars
  PROVE  \/ UNCHANGED rows
         \/ \E h \in Places :
              /\ rows' = Append(rows, h) /\ UNCHANGED accepted
              /\ ~Stored(h)
<1>1. CASE LoadRow
  <2>1. batch \in Seq(Places) /\ batch # <<>>
    BY <1>1 DEF LoadRow, QueueInv, QueueTypeOK
  <2>2. Head(batch) \in Places BY <2>1, TailFacts
  <2> QED BY <1>1, <2>2 DEF LoadRow
<1>2. CASE ~LoadRow
  BY <1>2 DEF Next, vars, table, Consumer, StartBatch, PopLeft, EndBatch, EndLoad,
    initialize_schema, SyncBuffer, push_transaction
<1> QED BY <1>1, <1>2

(* A step that changes the running total of k stores a row that comes before *)
(* k in its account.                                                         *)
LEMMA TotalsStep ==
  ASSUME QueueInv, [Next]_vars, NEW k \in ToSet(rows),
         account_running_total(k)' # account_running_total(k)
  PROVE  \E h \in ToSet(rows') \ ToSet(rows) :
           h \in Partition(k)' /\ accepted'[h].txn_id < accepted[k].txn_id
<1>1. rows \in Seq(Places) /\ accepted \in Seq(Transactions)
  BY DEF QueueInv, QueueTypeOK
<1>2. ToSet(rows) \subseteq Places BY <1>1, SeqFacts DEF ToSet
<1>3. \A i \in Places : accepted'[i] = accepted[i] BY AcceptedGrows
<1>4. \A i \in UpTo(k) : accepted'[i] = accepted[i]
  BY <1>2, <1>3 DEF UpTo, Partition
<1>5. UpTo(k)' # UpTo(k) BY <1>4, SameTotal
<1>6. ~UNCHANGED rows
  BY <1>2, <1>3, <1>5 DEF UpTo, Partition, ToSet
<1>7. PICK h \in Places : rows' = Append(rows, h) /\ UNCHANGED accepted /\ ~Stored(h)
  BY <1>6, TableGrows
<1>8. ToSet(rows') = ToSet(rows) \cup {h} BY <1>1, <1>7, AppendSet
<1>9. /\ h \in Partition(k)' /\ h \notin ToSet(rows)
      /\ accepted[h].txn_id <= accepted[k].txn_id
  <2>1. h \notin ToSet(rows) BY <1>7 DEF Stored
  <2>2. \A i \in UpTo(k)' : i = h \/ i \in UpTo(k) BY <1>7, <1>8 DEF UpTo, Partition
  <2>3. \A i \in UpTo(k) : i \in UpTo(k)' BY <1>7, <1>8 DEF UpTo, Partition
  <2>4. h \in UpTo(k)' BY <1>5, <2>2, <2>3
  <2> QED BY <1>7, <2>1, <2>4 DEF UpTo
<1>10. accepted[h].txn_id # accepted[k].txn_id BY <1>7 DEF Stored
<1>11. accepted[k].txn_id \in Nat /\ accepted[h].txn_id \in Nat
  <2>1. accepted[k] \in Transactions /\ accepted[h] \in Transactions
    BY <1>1, <1>2, SeqFacts DEF Places
  <2> QED BY <2>1, IngestionAssumption
<1>12. accepted[h].txn_id < accepted[k].txn_id BY <1>9, <1>10, <1>11
<1> QED BY <1>7, <1>8, <1>9, <1>12

(* A running total that was reported changes only when a row of the same     *)
(* account with an earlier id is stored (account_running_total), for any     *)
(* accounts, amounts and order of arrival.                                   *)
THEOREM LateRowsAlone == Spec => OnlyLateRowsChangeTotals
<1>1. QueueInv /\ [Next]_vars =>
        [\A k \in ToSet(rows) :
           account_running_total(k)' # account_running_total(k) =>
             \E h \in ToSet(rows') \ ToSet(rows) :
               h \in Partition(k)' /\ accepted'[h].txn_id < accepted[k].txn_id]_vars
  BY TotalsStep
<1> QED BY <1>1, QueueInvariant, PTL DEF Spec, OnlyLateRowsChangeTotals

-----------------------------------------------------------------------------
(* Induction, and the folds that the model computes with. *)

(* The order of the naturals as a relation. *)
Smaller == {p \in Nat \X Nat : p[1] < p[2]}

(* A non-empty set of naturals has a least element. *)
LEMMA LeastNatural ==
  ASSUME NEW T \in SUBSET Nat, T # {}
  PROVE  \E m \in T : \A n \in T : m <= n
<1>1. OpToRel(<, Nat) = Smaller
  BY DEF OpToRel, Smaller
<1>2. IsWellFoundedOn(Smaller, Nat)
  BY <1>1, NatLessThanWellFounded
<1>3. PICK m \in T : \A n \in T : <<n, m>> \notin Smaller
  BY <1>2, WFMin
<1>4. \A n \in T : m \in Nat /\ n \in Nat /\ ~(n < m)
  BY <1>3 DEF Smaller
<1>5. \A n \in T : m <= n
  BY <1>4
<1> QED
  BY <1>5

(* Induction over the naturals, for a set in place of a predicate. *)
LEMMA Induction ==
  ASSUME NEW T, 0 \in T, \A n \in Nat : n \in T => n + 1 \in T
  PROVE  Nat \subseteq T
<1> SUFFICES ASSUME Nat \ T # {} PROVE FALSE
    OBVIOUS
<1>1. PICK m \in Nat \ T : \A n \in Nat \ T : m <= n
  BY LeastNatural
<1>2. m # 0 /\ m - 1 \in Nat /\ m - 1 \notin Nat \ T /\ (m - 1) + 1 = m
  BY <1>1
<1> QED
  BY <1>1, <1>2

(* What a fold over the subsets of S computes, step by step: next takes the *)
(* element that c chooses and the value for the others.                     *)
FoldValue(base, c, next, g, s) ==
  IF s = {} THEN base ELSE next[<<c[s], g[s \ {c[s]}]>>]

(* The parts of such a fold: values in V, and a choice from each set. *)
IsFold(S, V, base, c, next) ==
  /\ IsFiniteSet(S)
  /\ base \in V
  /\ next \in [S \X V -> V]
  /\ \A s \in SUBSET S : s # {} => c[s] \in s

(* g has the value of the fold for every subset of S. *)
FoldSolution(S, V, base, c, next, g) ==
  /\ g \in [SUBSET S -> V]
  /\ \A s \in SUBSET S : g[s] = FoldValue(base, c, next, g, s)

(* The recursion of a fold over a finite set has a solution. *)
LEMMA FoldExists ==
  ASSUME NEW S, NEW V, NEW base, NEW c, NEW next, IsFold(S, V, base, c, next)
  PROVE  \E g : FoldSolution(S, V, base, c, next, g)
<1>0. /\ IsFiniteSet(S) /\ base \in V /\ next \in [S \X V -> V]
      /\ \A s \in SUBSET S : s # {} => c[s] \in s
  BY DEF IsFold
<1> DEFINE Solved(n, g) == \A s \in SUBSET S :
             Cardinality(s) <= n => g[s] = FoldValue(base, c, next, g, s) /\ g[s] \in V
           Upto == {n \in Nat : \E g : Solved(n, g)}
<1>1. ASSUME NEW s \in SUBSET S
      PROVE  /\ Cardinality(s) \in Nat /\ Cardinality(s) <= Cardinality(S)
             /\ Cardinality(s) <= 0 => s = {}
             /\ s # {} => /\ s \ {c[s]} \in SUBSET S /\ c[s] \in S
                          /\ Cardinality(s \ {c[s]}) = Cardinality(s) - 1
  <2>1. IsFiniteSet(s) /\ Cardinality(s) <= Cardinality(S)
    BY <1>0, FS_Subset
  <2>2. Cardinality(s) \in Nat /\ (Cardinality(s) = 0 <=> s = {})
    BY <2>1, FS_CardinalityType, FS_EmptySet
  <2>3. ASSUME s # {} PROVE Cardinality(s \ {c[s]}) = Cardinality(s) - 1
    <3>1. c[s] \in s
      BY <1>0, <2>3
    <3> QED
      BY <3>1, <2>1, FS_RemoveElement
  <2> QED
    BY <1>0, <2>1, <2>2, <2>3
<1>2. 0 \in Upto
  <2> DEFINE g == [s \in SUBSET S |-> base]
  <2>1. Solved(0, g)
    BY <1>0, <1>1 DEF FoldValue
  <2> QED
    BY <2>1
<1>3. ASSUME NEW n \in Nat, n \in Upto PROVE n + 1 \in Upto
  <2>1. PICK g : Solved(n, g)
    BY <1>3
  <2> DEFINE h == [s \in SUBSET S |-> IF Cardinality(s) <= n THEN g[s]
                                      ELSE FoldValue(base, c, next, g, s)]
  <2>2. ASSUME NEW s \in SUBSET S, Cardinality(s) <= n + 1
        PROVE  h[s] = FoldValue(base, c, next, h, s) /\ h[s] \in V
    <3>1. h[s] = FoldValue(base, c, next, g, s)
      BY <2>1
    <3>2. CASE s = {}
      <4> HIDE DEF h
      <4> QED
        BY <1>0, <3>1, <3>2 DEF FoldValue
    <3>3. CASE s # {}
      <4>1. h[s \ {c[s]}] = g[s \ {c[s]}] /\ g[s \ {c[s]}] \in V /\ c[s] \in S
        <5>1. /\ s \ {c[s]} \in SUBSET S /\ c[s] \in S
              /\ Cardinality(s \ {c[s]}) = Cardinality(s) - 1
              /\ Cardinality(s) \in Nat
          BY <3>3, <1>1
        <5>2. Cardinality(s \ {c[s]}) <= n
          BY <5>1, <2>2
        <5> QED
          BY <5>1, <5>2, <2>1
      <4> HIDE DEF h
      <4> QED
        BY <1>0, <3>1, <3>3, <4>1 DEF FoldValue
    <3> QED
      BY <3>2, <3>3
  <2> HIDE DEF h
  <2> QED
    BY <2>2
<1> HIDE DEF Upto
<1>4. Cardinality(S) \in Upto
  <2>1. Nat \subseteq Upto
    BY <1>2, <1>3, Induction
  <2> QED
    BY <1>0, <2>1, FS_CardinalityType
<1>5. PICK g : Solved(Cardinality(S), g)
  BY <1>4 DEF Upto
<1> DEFINE h == [s \in SUBSET S |-> g[s]]
<1>6. ASSUME NEW s \in SUBSET S PROVE h[s] = FoldValue(base, c, next, h, s) /\ h[s] \in V
  <2>1. g[s] = FoldValue(base, c, next, g, s) /\ g[s] \in V
    BY <1>1, <1>5
  <2>2. s # {} => h[s \ {c[s]}] = g[s \ {c[s]}]
    BY <1>1
  <2>3. h[s] = g[s]
    OBVIOUS
  <2> HIDE DEF h
  <2> QED
    BY <2>1, <2>2, <2>3 DEF FoldValue
<1>7. h \in [SUBSET S -> V]
  BY <1>6
<1> HIDE DEF h
<1> QED
  BY <1>6, <1>7 DEF FoldSolution

-----------------------------------------------------------------------------
(* The loop of SyncBuffer *)

(* A non-empty set of places of a sequence has a last one. *)
LEMMA LastPlace ==
  ASSUME NEW n \in Nat, NEW s \in SUBSET (1 .. n), s # {}
  PROVE  /\ Max(s) \in s
         /\ \A x \in s : x <= Max(s)
<1> DEFINE T == {n - x : x \in s}
<1>1. T \in SUBSET Nat /\ T # {}
  <2>1. \A x \in s : n - x \in Nat
    OBVIOUS
  <2>2. PICK x \in s : TRUE
    OBVIOUS
  <2>3. n - x \in T
    OBVIOUS
  <2> QED
    BY <2>1, <2>3
<1>2. PICK m \in T : \A y \in T : m <= y
  <2> HIDE DEF T
  <2> QED
    BY <1>1, LeastNatural
<1>3. PICK x \in s : m = n - x
  BY <1>2
<1>4. \A y \in s : x >= y
  <2> SUFFICES ASSUME NEW y \in s PROVE x >= y
      OBVIOUS
  <2>1. n - y \in T
    OBVIOUS
  <2>2. n - x <= n - y
    BY <2>1, <1>2, <1>3
  <2>3. x \in Nat /\ y \in Nat
    OBVIOUS
  <2> QED
    BY <2>2, <2>3
<1>5. \E y \in s : \A z \in s : y >= z
  BY <1>4
<1>6. Max(s) \in s /\ \A z \in s : Max(s) >= z
  BY <1>5 DEF Max
<1> QED
  BY <1>6

(* What the loop of SyncBuffer has made of the buffer b after the places s  *)
(* of r.                                                                    *)
Synchronized(b, r, g, s) ==
  IF s = {} THEN b ELSE AppendBounded(g[s \ {Max(s)}], r[Max(s)], RecordsKept)

(* What a bounded append leaves and where. *)
LEMMA BoundedFacts ==
  ASSUME NEW S, NEW s \in Seq(S), NEW x \in S, NEW max \in Nat \ {0}, Len(s) <= max
  PROVE  LET t == AppendBounded(s, x, max)
         IN  /\ t \in Seq(S) /\ Len(t) <= max /\ t # <<>>
             /\ t[Len(t)] = x
             /\ \/ Len(t) = Len(s) + 1
                \/ Len(t) = Len(s) /\ Len(s) = max
             /\ \A i \in 1 .. Len(t) - 1 : t[Len(t) - i] = s[Len(s) - i + 1]
<1>1. CASE Len(s) = max
  <2>1. s # <<>>
    BY <1>1
  <2>2. /\ Tail(s) \in Seq(S) /\ Len(Tail(s)) = max - 1
        /\ \A i \in 1 .. max - 1 : Tail(s)[i] = s[i + 1]
        /\ DOMAIN Tail(s) = 1 .. max - 1
    BY <1>1, <2>1, TailFacts
  <2> DEFINE t == Append(Tail(s), x)
  <2>3. /\ t \in Seq(S) /\ Len(t) = max /\ t[max] = x
        /\ \A i \in 1 .. max - 1 : t[i] = Tail(s)[i]
    BY <2>2, AppendFacts
  <2>4. AppendBounded(s, x, max) = t
    BY <1>1 DEF AppendBounded
  <2>5. ASSUME NEW i \in 1 .. max - 1 PROVE t[max - i] = s[max - i + 1]
    <3>1. max - i \in 1 .. max - 1
      OBVIOUS
    <3> HIDE DEF t
    <3> QED
      BY <3>1, <2>2, <2>3
  <2> HIDE DEF t
  <2>6. t # <<>>
    BY <2>3
  <2> QED
    BY <1>1, <2>3, <2>4, <2>5, <2>6
<1>2. CASE Len(s) # max
  <2> DEFINE t == Append(s, x)
  <2>1. Len(s) \in Nat /\ DOMAIN s = 1 .. Len(s)
    BY SeqFacts
  <2>2. /\ t \in Seq(S) /\ Len(t) = Len(s) + 1 /\ t[Len(s) + 1] = x
        /\ \A i \in 1 .. Len(s) : t[i] = s[i]
    BY AppendFacts
  <2>3. AppendBounded(s, x, max) = t
    BY <1>2 DEF AppendBounded
  <2> HIDE DEF t
  <2>4. ASSUME NEW i \in 1 .. Len(t) - 1 PROVE t[Len(t) - i] = s[Len(s) - i + 1]
    <3>1. Len(t) - i \in 1 .. Len(s) /\ Len(t) - i = Len(s) - i + 1
      BY <2>1, <2>2
    <3> QED
      BY <3>1, <2>2
  <2>5. t # <<>> /\ Len(t) <= max
    <3>1. Len(t) # 0 /\ Len(t) <= max
      <4>1. \A l, m \in Nat : l <= m /\ l # m => l + 1 # 0 /\ l + 1 <= m
        OBVIOUS
      <4>2. Len(t) = Len(s) + 1
        BY <2>2
      <4> QED
        BY <4>1, <4>2, <2>1, <1>2
    <3>2. Len(<<>>) = 0
      OBVIOUS
    <3> QED
      BY <3>1, <3>2
  <2> QED
    BY <2>1, <2>2, <2>3, <2>4, <2>5
<1> QED
  BY <1>1, <1>2

(* The loop of SyncBuffer is what its recursion says. *)
LEMMA LoopRecursion ==
  ASSUME NEW S, NEW b \in Seq(S), Len(b) <= RecordsKept, NEW r \in Seq(S)
  PROVE  \E g : /\ g = [s \in SUBSET DOMAIN r |-> Synchronized(b, r, g, s)]
                /\ FoldLeft(LAMBDA s, k : AppendBounded(s, k, RecordsKept), b, r) = g[DOMAIN r]
<1> DEFINE Kept == {s \in Seq(S) : Len(s) <= RecordsKept}
           c == [s \in SUBSET DOMAIN r |-> Max(s)]
           next == [p \in (DOMAIN r) \X Kept |-> AppendBounded(p[2], r[p[1]], RecordsKept)]
<1>1. FoldLeft(LAMBDA s, k : AppendBounded(s, k, RecordsKept), b, r)
        = (CHOOSE g : g = [s \in SUBSET DOMAIN r |-> Synchronized(b, r, g, s)])[DOMAIN r]
  BY DEF FoldLeft, MapThenFoldSet, Synchronized
<1>2. DOMAIN r = 1 .. Len(r) /\ Len(r) \in Nat
  BY SeqFacts
<1>3. \A s \in SUBSET DOMAIN r : s # {} => c[s] = Max(s) /\ Max(s) \in s
  BY <1>2, LastPlace
<1>4. IsFold(DOMAIN r, Kept, b, c, next)
  <2>1. IsFiniteSet(DOMAIN r)
    BY <1>2, FS_Interval
  <2>2. ASSUME NEW x \in DOMAIN r, NEW v \in Kept
        PROVE  AppendBounded(v, r[x], RecordsKept) \in Kept
    <3>1. r[x] \in S /\ v \in Seq(S) /\ Len(v) <= RecordsKept /\ RecordsKept \in Nat \ {0}
      BY SeqFacts, IngestionAssumption
    <3> QED
      BY <3>1, BoundedFacts
  <2>3. next \in [(DOMAIN r) \X Kept -> Kept]
    BY <2>2
  <2>4. b \in Kept
    OBVIOUS
  <2> HIDE DEF Kept, c, next
  <2> QED
    BY <1>3, <2>1, <2>3, <2>4 DEF IsFold
<1>5. PICK g : FoldSolution(DOMAIN r, Kept, b, c, next, g)
  <2> HIDE DEF Kept, c, next
  <2> QED
    BY <1>4, FoldExists
<1>6. ASSUME NEW s \in SUBSET DOMAIN r PROVE g[s] = Synchronized(b, r, g, s)
  <2>1. CASE s = {}
    BY <2>1, <1>5 DEF FoldSolution, FoldValue, Synchronized
  <2>2. CASE s # {}
    <3>1. /\ c[s] = Max(s) /\ Max(s) \in DOMAIN r
          /\ s \ {Max(s)} \in SUBSET DOMAIN r
      BY <2>2, <1>3
    <3>2. g[s \ {Max(s)}] \in Kept
      <4> HIDE DEF Kept
      <4> QED
        BY <3>1, <1>5 DEF FoldSolution
    <3>3. g[s] = next[<<Max(s), g[s \ {Max(s)}]>>]
      <4> HIDE DEF c, next
      <4> QED
        BY <2>2, <3>1, <1>5 DEF FoldSolution, FoldValue
    <3>4. \A x \in DOMAIN r, v \in Kept : next[<<x, v>>] = AppendBounded(v, r[x], RecordsKept)
      <4> HIDE DEF Kept
      <4> QED
        OBVIOUS
    <3> HIDE DEF Kept, c, next
    <3> QED
      BY <2>2, <3>1, <3>2, <3>3, <3>4 DEF Synchronized
  <2> QED
    BY <2>1, <2>2
<1>7. g = [s \in SUBSET DOMAIN r |-> Synchronized(b, r, g, s)]
  <2>1. g = [s \in SUBSET DOMAIN r |-> g[s]]
    <3> HIDE DEF Kept, c, next
    <3> QED
      BY <1>5 DEF FoldSolution
  <2> QED
    BY <2>1, <1>6
<1>8. \E h : h = [s \in SUBSET DOMAIN r |-> Synchronized(b, r, h, s)]
  BY <1>7
<1> QED
  BY <1>1, <1>8

(* The sequence s ends with the first n elements of r, as far as it holds   *)
(* them.                                                                    *)
EndsWith(s, r, n) ==
  \A i \in 0 .. RecordsKept - 1 :
    i < n => i < Len(s) /\ s[Len(s) - i] = r[n - i]

(* Whatever the buffer held, the loop leaves the last rows at its end.      *)
LEMMA LoopKeepsTail ==
  ASSUME NEW S, NEW b \in Seq(S), Len(b) <= RecordsKept, NEW r \in Seq(S)
  PROVE  LET t == FoldLeft(LAMBDA s, k : AppendBounded(s, k, RecordsKept), b, r)
         IN  t \in Seq(S) /\ Len(t) <= RecordsKept /\ EndsWith(t, r, Len(r))
<1>1. PICK g : /\ g = [s \in SUBSET DOMAIN r |-> Synchronized(b, r, g, s)]
               /\ FoldLeft(LAMBDA s, k : AppendBounded(s, k, RecordsKept), b, r) = g[DOMAIN r]
  BY LoopRecursion
<1>2. /\ DOMAIN r = 1 .. Len(r) /\ Len(r) \in Nat
      /\ \A i \in DOMAIN r : r[i] \in S
      /\ RecordsKept \in Nat \ {0}
  BY SeqFacts, IngestionAssumption
<1> DEFINE Good(n) == /\ g[1 .. n] \in Seq(S) /\ Len(g[1 .. n]) <= RecordsKept
                      /\ EndsWith(g[1 .. n], r, n)
           T == {n \in Nat : n <= Len(r) => Good(n)}
<1>3. 0 \in T
  <2>1. 1 .. 0 = {}
    OBVIOUS
  <2>2. g[{}] = b
    <3>1. {} \in SUBSET DOMAIN r
      OBVIOUS
    <3> QED
      BY <1>1, <3>1 DEF Synchronized
  <2>3. EndsWith(b, r, 0)
    BY DEF EndsWith
  <2> QED
    BY <2>1, <2>2, <2>3
<1>4. ASSUME NEW n \in Nat, n \in T PROVE n + 1 \in T
  <2> SUFFICES ASSUME n + 1 <= Len(r) PROVE Good(n + 1)
      OBVIOUS
  <2>1. Good(n)
    BY <1>2, <1>4
  <2> DEFINE s == g[1 .. n]
             t == g[1 .. n + 1]
             x == r[n + 1]
  <2>2. t = AppendBounded(s, x, RecordsKept)
    <3>1. 1 .. n + 1 \in SUBSET DOMAIN r /\ 1 .. n + 1 # {}
      BY <1>2
    <3>2. Max(1 .. n + 1) = n + 1
      <4>1. Max(1 .. n + 1) \in 1 .. n + 1 /\ n + 1 <= Max(1 .. n + 1)
        <5>1. n + 1 \in Nat /\ 1 .. n + 1 \in SUBSET (1 .. n + 1) /\ n + 1 \in 1 .. n + 1
          OBVIOUS
        <5> QED
          BY <3>1, <5>1, LastPlace
      <4> QED
        BY <4>1
    <3>3. (1 .. n + 1) \ {n + 1} = 1 .. n
      OBVIOUS
    <3>4. t = Synchronized(b, r, g, 1 .. n + 1)
      BY <1>1, <3>1
    <3> QED
      BY <3>1, <3>2, <3>3, <3>4 DEF Synchronized
  <2>3. x \in S /\ s \in Seq(S) /\ Len(s) <= RecordsKept /\ Len(s) \in Nat
    <3>1. n + 1 \in DOMAIN r
      BY <1>2
    <3>2. s \in Seq(S) /\ Len(s) <= RecordsKept
      BY <2>1
    <3> HIDE DEF s
    <3> QED
      BY <1>2, <3>1, <3>2
  <2>4. EndsWith(s, r, n)
    BY <2>1
  <2> HIDE DEF s, t, x
  <2>5. /\ t \in Seq(S) /\ Len(t) <= RecordsKept /\ t # <<>>
        /\ t[Len(t)] = x
        /\ \/ Len(t) = Len(s) + 1
           \/ Len(t) = Len(s) /\ Len(s) = RecordsKept
        /\ \A i \in 1 .. Len(t) - 1 : t[Len(t) - i] = s[Len(s) - i + 1]
    BY <1>2, <2>2, <2>3, BoundedFacts
  <2>6. ASSUME NEW i \in 0 .. RecordsKept - 1, i < n + 1
        PROVE  i < Len(t) /\ t[Len(t) - i] = r[n + 1 - i]
    <3>1. CASE i = 0
      <4>1. Len(t) \in Nat /\ Len(t) # 0
        BY <2>5, <2>3, <1>2
      <4> QED
        BY <3>1, <4>1, <2>5 DEF x
    <3>2. CASE i # 0
      <4>1. i - 1 \in 0 .. RecordsKept - 1 /\ i - 1 < n
        BY <3>2, <2>6, <1>2
      <4>2. i - 1 < Len(s) /\ s[Len(s) - (i - 1)] = r[n - (i - 1)]
        BY <4>1, <2>4 DEF EndsWith
      <4>3. i < Len(t) /\ i \in 1 .. Len(t) - 1
        BY <3>2, <4>2, <2>3, <2>5, <1>2
      <4>4. t[Len(t) - i] = s[Len(s) - i + 1]
        BY <4>3, <2>5
      <4>5. Len(s) - i + 1 = Len(s) - (i - 1) /\ n - (i - 1) = n + 1 - i
        BY <2>3
      <4> QED
        BY <4>2, <4>3, <4>4, <4>5
    <3> QED
      BY <3>1, <3>2
  <2>7. EndsWith(t, r, n + 1)
    BY <2>6 DEF EndsWith
  <2> QED
    BY <2>5, <2>7 DEF t
<1>5. Len(r) \in T
  <2>1. Nat \subseteq T
    <3> HIDE DEF T
    <3> QED
      BY <1>3, <1>4, Induction
  <2> QED
    BY <2>1, <1>2
<1>6. Good(Len(r))
  BY <1>2, <1>5
<1> QED
  BY <1>1, <1>2, <1>6

-----------------------------------------------------------------------------

(* The inductive invariant of the root processor: its buffer ends with the  *)
(* rows it read last, however long ago that was.                            *)
ProcessorInv ==
  /\ TypeOK
  /\ EndsWith(processing_buffer, synced, Len(synced))

(* Every step preserves it, given what the queue keeps. *)
LEMMA ProcessorStep ==
  ASSUME QueueInv, QueueInv', ProcessorInv, [Next]_vars
  PROVE  ProcessorInv'
<1>1. /\ processing_buffer \in Seq(Places) /\ Len(processing_buffer) <= RecordsKept
      /\ synced \in Seq(Places) /\ rows \in Seq(Places)
      /\ EndsWith(processing_buffer, synced, Len(synced))
      /\ QueueTypeOK'
  BY DEF ProcessorInv, TypeOK, QueueInv, QueueTypeOK
<1>2. CASE SyncBuffer
  <2>1. /\ processing_buffer' =
             FoldLeft(LAMBDA s, k : AppendBounded(s, k, RecordsKept), processing_buffer, rows)
        /\ synced' = rows /\ UNCHANGED accepted
    BY <1>2 DEF SyncBuffer, queue
  <2>2. /\ processing_buffer' \in Seq(Places) /\ Len(processing_buffer') <= RecordsKept
        /\ EndsWith(processing_buffer', rows, Len(rows))
    BY <1>1, <2>1, LoopKeepsTail
  <2>3. Places' = Places
    BY <2>1 DEF Places
  <2> QED
    BY <1>1, <2>1, <2>2, <2>3 DEF ProcessorInv, TypeOK, EndsWith
<1>3. CASE ~SyncBuffer
  <2>1. UNCHANGED processor
    BY <1>3 DEF Next, vars, Consumer, StartBatch, PopLeft, EndBatch, LoadRow, EndLoad,
      initialize_schema, push_transaction
  <2>2. Places \subseteq Places'
    <3>1. CASE UNCHANGED accepted
      BY <3>1 DEF Places
    <3>2. ASSUME NEW t \in Transactions, push_transaction(t) PROVE Places \subseteq Places'
      <4>1. accepted \in Seq(Transactions) /\ accepted' = Append(accepted, t)
        BY <3>2 DEF push_transaction, QueueInv, QueueTypeOK
      <4>2. Len(accepted) \in Nat /\ Len(accepted') = Len(accepted) + 1
        BY <4>1, AppendFacts, SeqFacts
      <4> QED
        BY <4>2 DEF Places
    <3>3. UNCHANGED accepted \/ \E t \in Transactions : push_transaction(t)
      BY DEF Next, vars, queue, Consumer, StartBatch, PopLeft, EndBatch, LoadRow, EndLoad,
        initialize_schema, SyncBuffer
    <3> QED
      BY <3>1, <3>2, <3>3
  <2>3. processing_buffer' \in Seq(Places') /\ synced' \in Seq(Places')
    BY <1>1, <2>1, <2>2, SeqMonotone DEF processor
  <2> QED
    BY <1>1, <2>1, <2>3 DEF ProcessorInv, TypeOK, EndsWith, processor
<1> QED
  BY <1>2, <1>3

(* The invariant of the processor holds at every moment. *)
THEOREM ProcessorInvariant == Spec => []ProcessorInv
<1>1. Init => ProcessorInv
  <2> SUFFICES ASSUME Init PROVE ProcessorInv
      OBVIOUS
  <2>1. QueueTypeOK
    BY InitInv DEF QueueInv
  <2>2. processing_buffer = <<>> /\ synced = <<>>
    BY DEF Init
  <2>3. \A S : <<>> \in Seq(S) /\ Len(<<>>) = 0
    OBVIOUS
  <2>4. EndsWith(processing_buffer, synced, Len(synced))
    BY <2>2, <2>3 DEF EndsWith
  <2>5. Len(processing_buffer) <= RecordsKept
    BY <2>2, <2>3, IngestionAssumption
  <2>6. processing_buffer \in Seq(Places) /\ synced \in Seq(Places)
    BY <2>2, <2>3
  <2> QED
    BY <2>1, <2>4, <2>5, <2>6 DEF ProcessorInv, TypeOK
<1>2. QueueInv /\ QueueInv' /\ ProcessorInv /\ [Next]_vars => ProcessorInv'
  BY ProcessorStep
<1> QED
  BY <1>1, <1>2, QueueInvariant, PTL DEF Spec

(* Type correctness, the bounds of the deques and of a batch included. *)
THEOREM IngestionTypes == Spec => []TypeOK
<1>1. ProcessorInv => TypeOK
  BY DEF ProcessorInv
<1> QED
  BY <1>1, ProcessorInvariant, PTL

(* However often the root processor synchronises, its buffer ends with the  *)
(* last rows it read, whatever it held before, for any size of the buffer.  *)
THEOREM TailIsKept == Spec => []BufferIsTheTail
<1>1. ProcessorInv => BufferIsTheTail
  BY DEF ProcessorInv, EndsWith, BufferIsTheTail
<1> QED
  BY <1>1, ProcessorInvariant, PTL

=============================================================================

------------------------ MODULE DatabaseArchiver_proofs ------------------------
(***************************************************************************)
(* The vault, for any number of archivers and any limit.                   *)
(*   ArchiverInv: between snapshots that stay apart, one archiver works at *)
(*     a time and its copy is the newest, so a whole copy stays and the    *)
(*     vault is trimmed.                                                   *)
(*   OverlapInv: however snapshots overlap and whatever order the sorts    *)
(*     find, the files that may be on both sides of a change are fewer     *)
(*     than the archivers, so rotations cost the vault less than a copy    *)
(*     each.                                                               *)
(***************************************************************************)
EXTENDS DatabaseArchiver, SequenceTheorems, FiniteSetTheorems, TLAPS

-----------------------------------------------------------------------------
(* Sequences without repetition *)

(* The domain of a sequence, and its elements. *)
LEMMA SeqFacts ==
  ASSUME NEW S, NEW s \in Seq(S)
  PROVE  /\ DOMAIN s = 1 .. Len(s) /\ Len(s) \in Nat
         /\ \A i \in 1 .. Len(s) : s[i] \in S
  OBVIOUS

(* Taking out the element at place i moves up those behind it. *)
LEMMA RemoveAtFacts ==
  ASSUME NEW S, NEW s \in Seq(S), NEW i \in 1 .. Len(s)
  PROVE  /\ RemoveAt(s, i) \in Seq(S)
         /\ Len(RemoveAt(s, i)) = Len(s) - 1
         /\ \A j \in 1 .. Len(s) - 1 :
              RemoveAt(s, i)[j] = IF j < i THEN s[j] ELSE s[j + 1]
<1> DEFINE u == SubSeq(s, 1, i - 1)
           v == SubSeq(s, i + 1, Len(s))
<1>1. /\ u \in Seq(S) /\ Len(u) = i - 1
      /\ \A j \in 1 .. i - 1 : u[j] = s[j]
  OBVIOUS
<1>2. /\ v \in Seq(S) /\ Len(v) = Len(s) - i
      /\ \A j \in 1 .. Len(s) - i : v[j] = s[i + j]
  OBVIOUS
<1>3. RemoveAt(s, i) = u \o v
  BY DEF RemoveAt
<1> HIDE DEF u, v
<1>4. Len(s) \in Nat /\ Len(u) + Len(v) = Len(s) - 1
  BY <1>1, <1>2
<1>5. /\ u \o v \in Seq(S) /\ Len(u \o v) = Len(u) + Len(v)
      /\ \A j \in 1 .. Len(u) + Len(v) :
           (u \o v)[j] = IF j <= Len(u) THEN u[j] ELSE v[j - Len(u)]
  BY <1>1, <1>2, ConcatProperties
<1>6. ASSUME NEW j \in 1 .. Len(s) - 1
      PROVE  (u \o v)[j] = IF j < i THEN s[j] ELSE s[j + 1]
  <2>1. CASE j < i
    <3>1. j \in 1 .. Len(u) + Len(v) /\ j <= Len(u) /\ j \in 1 .. i - 1
      BY <1>1, <1>2, <1>4, <2>1
    <3> QED
      BY <1>1, <1>5, <2>1, <3>1
  <2>2. CASE ~(j < i)
    <3>1. /\ j \in 1 .. Len(u) + Len(v) /\ ~(j <= Len(u))
          /\ j - Len(u) \in 1 .. Len(s) - i
          /\ i + (j - Len(u)) = j + 1
      BY <1>1, <1>2, <1>4, <2>2
    <3> QED
      BY <1>2, <1>5, <2>2, <3>1
  <2> QED
    BY <2>1, <2>2
<1> QED
  BY <1>3, <1>4, <1>5, <1>6

(* In a sequence without repetition, the first f is the only one. *)
LEMMA RemoveFirstAt ==
  ASSUME NEW S, NEW s \in Seq(S), IsInjective(s), NEW i \in 1 .. Len(s)
  PROVE  RemoveFirst(s, s[i]) = RemoveAt(s, i)
<1> DEFINE I == {j \in 1 .. Len(s) : s[j] = s[i]}
<1>1. I = {i}
  BY SeqFacts DEF IsInjective
<1>2. Min(I) = i
  BY <1>1 DEF Min
<1>3. SelectInSeq(s, LAMBDA v : v = s[i]) = i
  BY <1>1, <1>2 DEF SelectInSeq
<1>4. \E j \in 1 .. Len(s) : s[j] = s[i]
  OBVIOUS
<1> QED
  BY <1>3, <1>4 DEF RemoveFirst

(* A removal leaves the other elements, in their order. *)
LEMMA RemoveFirstFacts ==
  ASSUME NEW S, NEW s \in Seq(S), IsInjective(s), NEW f \in S
  PROVE  LET t == RemoveFirst(s, f)
         IN  /\ t \in Seq(S) /\ IsInjective(t)
             /\ ToSet(t) = ToSet(s) \ {f}
             /\ IF f \in ToSet(s) THEN Len(t) = Len(s) - 1 ELSE t = s
<1>1. CASE f \in ToSet(s)
  <2>1. PICK i \in 1 .. Len(s) : s[i] = f
    BY <1>1, SeqFacts DEF ToSet
  <2> DEFINE t == RemoveFirst(s, f)
  <2>2. t = RemoveAt(s, i)
    BY <2>1, RemoveFirstAt
  <2> HIDE DEF t
  <2>3. /\ t \in Seq(S) /\ Len(t) = Len(s) - 1 /\ Len(s) \in Nat
        /\ \A j \in 1 .. Len(s) - 1 : t[j] = IF j < i THEN s[j] ELSE s[j + 1]
        /\ DOMAIN t = 1 .. Len(s) - 1 /\ DOMAIN s = 1 .. Len(s)
    BY <2>2, RemoveAtFacts, SeqFacts
  <2>4. ASSUME NEW j \in 1 .. Len(s) - 1, NEW k \in 1 .. Len(s) - 1, t[j] = t[k]
        PROVE  j = k
    <3> DEFINE up(x) == IF x < i THEN x ELSE x + 1
    <3>1. \A x \in 1 .. Len(s) - 1 : up(x) \in 1 .. Len(s) /\ t[x] = s[up(x)]
      BY <2>3
    <3>2. up(j) = up(k)
      BY <2>3, <2>4, <3>1 DEF IsInjective
    <3> QED
      BY <3>2, <2>3
  <2>5. IsInjective(t)
    BY <2>3, <2>4 DEF IsInjective
  <2>6. ASSUME NEW j \in 1 .. Len(s) - 1 PROVE t[j] \in ToSet(s) \ {f}
    <3>1. PICK k \in 1 .. Len(s) : t[j] = s[k] /\ k # i
      BY <2>3
    <3> QED
      BY <2>1, <2>3, <3>1 DEF IsInjective, ToSet
  <2>7. ASSUME NEW k \in 1 .. Len(s), s[k] # f PROVE \E j \in 1 .. Len(s) - 1 : t[j] = s[k]
    <3>1. CASE k < i
      <4>1. k \in 1 .. Len(s) - 1
        BY <2>3, <3>1
      <4> QED
        BY <2>3, <3>1, <4>1
    <3>2. CASE k > i
      <4>1. k - 1 \in 1 .. Len(s) - 1 /\ ~(k - 1 < i) /\ (k - 1) + 1 = k
        BY <2>3, <3>2
      <4> QED
        BY <2>3, <4>1
    <3> QED
      BY <2>1, <2>7, <3>1, <3>2, <2>3
  <2>8. ToSet(t) = ToSet(s) \ {f}
    <3>1. ToSet(t) \subseteq ToSet(s) \ {f}
      <4> SUFFICES ASSUME NEW j \in DOMAIN t PROVE t[j] \in ToSet(s) \ {f}
          BY DEF ToSet
      <4> QED
        BY <2>3, <2>6
    <3>2. ToSet(s) \ {f} \subseteq ToSet(t)
      <4> SUFFICES ASSUME NEW k \in DOMAIN s, s[k] # f PROVE s[k] \in ToSet(t)
          BY DEF ToSet
      <4>1. PICK j \in 1 .. Len(s) - 1 : t[j] = s[k]
        BY <2>3, <2>7
      <4> QED
        BY <2>3, <4>1 DEF ToSet
    <3> QED
      BY <3>1, <3>2
  <2> QED
    BY <1>1, <2>3, <2>5, <2>8 DEF t
<1>2. CASE f \notin ToSet(s)
  <2>1. RemoveFirst(s, f) = s
    BY <1>2, SeqFacts DEF RemoveFirst, ToSet
  <2> QED
    BY <1>2, <2>1
<1> QED
  BY <1>1, <1>2

(* A file that changes becomes the last of a sequence. *)
LEMMA ToEndFacts ==
  ASSUME NEW f \in Seconds, NEW s \in Seq(Seconds), IsInjective(s)
  PROVE  /\ ToEnd(s, f) \in Seq(Seconds) /\ IsInjective(ToEnd(s, f))
         /\ ToSet(ToEnd(s, f)) = ToSet(s) \cup {f}
         /\ ToEnd(s, f) # <<>> /\ Last(ToEnd(s, f)) = f
         /\ Len(ToEnd(s, f)) = IF f \in ToSet(s) THEN Len(s) ELSE Len(s) + 1
<1> DEFINE t == RemoveFirst(s, f)
           u == Append(t, f)
<1>1. /\ t \in Seq(Seconds) /\ IsInjective(t) /\ ToSet(t) = ToSet(s) \ {f}
      /\ IF f \in ToSet(s) THEN Len(t) = Len(s) - 1 ELSE t = s
  BY RemoveFirstFacts
<1>2. ToEnd(s, f) = u
  BY DEF ToEnd
<1> HIDE DEF t
<1>3. /\ u \in Seq(Seconds) /\ Len(u) = Len(t) + 1 /\ u[Len(t) + 1] = f
      /\ \A i \in 1 .. Len(t) : u[i] = t[i]
      /\ DOMAIN u = 1 .. Len(t) + 1 /\ DOMAIN t = 1 .. Len(t) /\ Len(t) \in Nat
  BY <1>1
<1> HIDE DEF u
<1>4. \A i \in 1 .. Len(t) : u[i] \in ToSet(t) /\ u[i] # f
  BY <1>1, <1>3 DEF ToSet
<1>5. ASSUME NEW i \in DOMAIN u, NEW j \in DOMAIN u, u[i] = u[j] PROVE i = j
  <2>1. CASE i = Len(t) + 1
    <3>1. ~(j \in 1 .. Len(t))
      BY <1>3, <1>4, <1>5, <2>1
    <3> QED
      BY <1>3, <2>1, <3>1
  <2>2. CASE i # Len(t) + 1
    <3>1. i \in 1 .. Len(t)
      BY <1>3, <2>2
    <3>2. u[i] # f
      BY <1>4, <3>1
    <3>3. j \in 1 .. Len(t)
      BY <1>3, <1>5, <3>2
    <3>4. t[i] = t[j]
      BY <1>3, <1>5, <3>1, <3>3
    <3> QED
      BY <1>1, <1>3, <3>1, <3>3, <3>4 DEF IsInjective
  <2> QED
    BY <2>1, <2>2
<1>6. IsInjective(u)
  BY <1>5 DEF IsInjective
<1>7. ToSet(u) = ToSet(t) \cup {f}
  <2>1. ToSet(u) \subseteq ToSet(t) \cup {f}
    BY <1>3, <1>4 DEF ToSet
  <2>2. ToSet(t) \cup {f} \subseteq ToSet(u)
    BY <1>3 DEF ToSet
  <2> QED
    BY <2>1, <2>2
<1>8. u # <<>> /\ Last(u) = f
  BY <1>3 DEF Last
<1>9. Len(s) \in Nat
  BY SeqFacts
<1> QED
  BY <1>1, <1>2, <1>3, <1>6, <1>7, <1>8, <1>9

-----------------------------------------------------------------------------
(* Types *)

(* What a half of a file may hold. *)
Half == (0 .. MaxCommits) \cup {NoData}

(* A change of file f moves it to the end of some lists, all of them of     *)
(* sorts that have it, and marks it as seen by others.                      *)
LEMMA TouchedLists ==
  ASSUME NEW f, Touch(f)
  PROVE  \E late \in SUBSET Archivers, early \in SUBSET Archivers :
           /\ all_files' = [b \in Archivers |-> IF b \in late THEN ToEnd(all_files[b], f) ELSE all_files[b]]
           /\ seen' = [b \in Archivers |-> IF b \in early THEN seen[b] \cup {f} ELSE seen[b]]
           /\ \A b \in late : pc[b] = "sorting" /\ f \in ToSet(all_files[b])
<1>1. PICK early \in SUBSET Asking(f) :
        /\ seen' = [b \in Archivers |-> IF b \in early THEN seen[b] \cup {f} ELSE seen[b]]
        /\ all_files' = [b \in Archivers |->
             IF b \in Asking(f) \ early THEN ToEnd(all_files[b], f) ELSE all_files[b]]
  BY Zenon DEF Touch
<1> DEFINE late == Asking(f) \ early
<1>2. /\ early \in SUBSET Archivers /\ late \in SUBSET Archivers
      /\ \A b \in late : pc[b] = "sorting" /\ f \in ToSet(all_files[b])
  BY <1>1 DEF Asking
<1>3. all_files' = [b \in Archivers |-> IF b \in late THEN ToEnd(all_files[b], f) ELSE all_files[b]]
  BY <1>1
<1> HIDE DEF late
<1> QED
  BY <1>1, <1>2, <1>3, Zenon

(* A change of a file keeps the types. *)
LEMMA TouchTypes ==
  ASSUME TypeOK, NEW f \in Seconds, Touch(f)
  PROVE  /\ vault' \in Seq(Seconds) /\ IsInjective(vault')
         /\ all_files' \in [Archivers -> Seq(Seconds)]
         /\ \A a \in Archivers : IsInjective(all_files'[a])
         /\ seen' \in [Archivers -> SUBSET Seconds]
<1>1. /\ vault \in Seq(Seconds) /\ IsInjective(vault)
      /\ all_files \in [Archivers -> Seq(Seconds)] /\ \A a \in Archivers : IsInjective(all_files[a])
      /\ seen \in [Archivers -> SUBSET Seconds]
  BY DEF TypeOK
<1>2. vault' \in Seq(Seconds) /\ IsInjective(vault')
  BY <1>1, ToEndFacts DEF Touch
<1>3. PICK late \in SUBSET Archivers, early \in SUBSET Archivers :
        /\ all_files' = [b \in Archivers |-> IF b \in late THEN ToEnd(all_files[b], f) ELSE all_files[b]]
        /\ seen' = [b \in Archivers |-> IF b \in early THEN seen[b] \cup {f} ELSE seen[b]]
  <2>1. \E late \in SUBSET Archivers, early \in SUBSET Archivers :
          /\ all_files' = [b \in Archivers |-> IF b \in late THEN ToEnd(all_files[b], f) ELSE all_files[b]]
          /\ seen' = [b \in Archivers |-> IF b \in early THEN seen[b] \cup {f} ELSE seen[b]]
          /\ \A b \in late : pc[b] = "sorting" /\ f \in ToSet(all_files[b])
    BY TouchedLists
  <2> QED
    BY <2>1, Zenon
<1>4. ASSUME NEW b \in Archivers
      PROVE  /\ all_files'[b] \in Seq(Seconds) /\ IsInjective(all_files'[b])
             /\ seen'[b] \in SUBSET Seconds
  <2> DEFINE s == all_files[b]
  <2>1. s \in Seq(Seconds) /\ IsInjective(s)
    BY <1>1
  <2>2. ToEnd(s, f) \in Seq(Seconds) /\ IsInjective(ToEnd(s, f))
    <3> HIDE DEF s
    <3> QED
      BY <2>1, ToEndFacts
  <2> QED
    BY <1>1, <1>3, <2>1, <2>2
<1>5. /\ all_files' = [b \in Archivers |-> all_files'[b]]
      /\ seen' = [b \in Archivers |-> seen'[b]]
  BY <1>3
<1> QED
  BY <1>2, <1>4, <1>5

(* The start of a copy keeps the types. *)
LEMMA StartCopyTypes == ASSUME TypeOK, NEW a \in Archivers, StartCopy(a) PROVE TypeOK'
<1>1. now \in Seconds
  BY DEF TypeOK
<1>2. /\ vault' \in Seq(Seconds) /\ IsInjective(vault')
      /\ all_files' \in [Archivers -> Seq(Seconds)]
      /\ \A b \in Archivers : IsInjective(all_files'[b])
      /\ seen' \in [Archivers -> SUBSET Seconds]
  BY <1>1, TouchTypes DEF StartCopy
<1>3. db[1] \in 0 .. MaxCommits
  BY DEF TypeOK
<1>4. halves' \in [Seconds -> Half \X Half]
  BY <1>1, <1>3 DEF StartCopy, TypeOK, Half
<1>5. /\ pc' \in [Archivers -> {"idle", "copying", "listing", "sorting", "rotating"}]
      /\ name' \in [Archivers -> Seconds]
      /\ linked' \in [Archivers -> BOOLEAN]
  BY <1>1 DEF StartCopy, Goto, TypeOK
<1>6. apart' \in BOOLEAN /\ kept' \in BOOLEAN /\ clean' \in BOOLEAN
  BY DEF StartCopy, TypeOK
<1>7. db' = db /\ now' = now
  BY DEF StartCopy
<1> QED
  BY <1>2, <1>4, <1>5, <1>6, <1>7 DEF TypeOK, Half

(* The end of a copy keeps the types. *)
LEMMA EndCopyTypes == ASSUME TypeOK, NEW a \in Archivers, EndCopy(a) PROVE TypeOK'
<1>1. name[a] \in Seconds
  BY DEF TypeOK
<1>2. /\ vault' \in Seq(Seconds) /\ IsInjective(vault')
      /\ all_files' \in [Archivers -> Seq(Seconds)]
      /\ \A b \in Archivers : IsInjective(all_files'[b])
      /\ seen' \in [Archivers -> SUBSET Seconds]
  BY <1>1, TouchTypes DEF EndCopy
<1>3. db[2] \in 0 .. MaxCommits
  BY DEF TypeOK
<1>4. halves' \in [Seconds -> Half \X Half]
  <2>1. halves \in [Seconds -> Half \X Half] /\ db[2] \in Half
    BY <1>3 DEF TypeOK, Half
  <2>2. [halves[name[a]] EXCEPT ![2] = db[2]] \in Half \X Half
    BY <1>1, <2>1
  <2> QED
    BY <1>1, <2>1, <2>2 DEF EndCopy
<1>5. pc' \in [Archivers -> {"idle", "copying", "listing", "sorting", "rotating"}]
  BY DEF EndCopy, Goto, TypeOK
<1>6. apart' \in BOOLEAN /\ kept' \in BOOLEAN /\ clean' \in BOOLEAN
  BY DEF EndCopy, TypeOK, Whole, Complete
<1>7. db' = db /\ now' = now /\ name' = name /\ linked' = linked
  BY DEF EndCopy
<1>8. db \in (0 .. MaxCommits) \X (0 .. MaxCommits) /\ now \in Seconds
      /\ name \in [Archivers -> Seconds] /\ linked \in [Archivers -> BOOLEAN]
  BY DEF TypeOK
<1> QED
  BY <1>2, <1>4, <1>5, <1>6, <1>7, <1>8 DEF TypeOK, Half

(* The tail of a sequence without repetition has none. *)
LEMMA TailFacts ==
  ASSUME NEW S, NEW s \in Seq(S), IsInjective(s), s # <<>>
  PROVE  /\ Tail(s) \in Seq(S) /\ IsInjective(Tail(s)) /\ Head(s) \in S
         /\ Head(s) = s[1] /\ Len(Tail(s)) = Len(s) - 1
         /\ DOMAIN Tail(s) = 1 .. Len(s) - 1
         /\ \A p \in 1 .. Len(s) - 1 : p + 1 \in 1 .. Len(s) /\ Tail(s)[p] = s[p + 1]
<1> DEFINE t == Tail(s)
<1>1. /\ t \in Seq(S) /\ Head(s) \in S /\ Head(s) = s[1] /\ Len(t) = Len(s) - 1
      /\ DOMAIN t = 1 .. Len(s) - 1 /\ Len(s) \in Nat /\ DOMAIN s = 1 .. Len(s)
      /\ \A p \in 1 .. Len(s) - 1 : p + 1 \in 1 .. Len(s) /\ t[p] = s[p + 1]
  OBVIOUS
<1> HIDE DEF t
<1>2. ASSUME NEW i \in DOMAIN t, NEW j \in DOMAIN t, t[i] = t[j] PROVE i = j
  <2>1. s[i + 1] = s[j + 1] /\ i + 1 \in DOMAIN s /\ j + 1 \in DOMAIN s
    BY <1>1, <1>2
  <2>2. i + 1 = j + 1
    BY <2>1 DEF IsInjective
  <2> QED
    BY <1>1, <2>2
<1>3. IsInjective(t)
  BY <1>2 DEF IsInjective
<1> QED
  BY <1>1, <1>3 DEF t

(* A removal keeps the types. *)
LEMMA RemoveTypes == ASSUME TypeOK, NEW a \in Archivers, RemoveOldest(a) PROVE TypeOK'
<1> DEFINE oldest == Head(all_files[a])
<1>1. /\ all_files[a] \in Seq(Seconds) /\ IsInjective(all_files[a])
      /\ vault \in Seq(Seconds) /\ IsInjective(vault)
  BY DEF TypeOK
<1>2. all_files[a] # <<>>
  <2>1. Len(all_files[a]) # 0
    BY <1>1, ArchiverAssumption DEF RemoveOldest, Excessive
  <2> QED
    BY <1>1, <2>1
<1>3. oldest \in Seconds /\ Tail(all_files[a]) \in Seq(Seconds) /\ IsInjective(Tail(all_files[a]))
  <2> DEFINE s == all_files[a]
  <2> HIDE DEF s
  <2>1. s \in Seq(Seconds) /\ IsInjective(s) /\ s # <<>>
    BY <1>1, <1>2 DEF s
  <2>2. Head(s) \in Seconds /\ Tail(s) \in Seq(Seconds) /\ IsInjective(Tail(s))
    BY <2>1, TailFacts
  <2> QED
    BY <2>2 DEF s
<1>4. vault' \in Seq(Seconds) /\ IsInjective(vault')
  BY <1>1, <1>3, RemoveFirstFacts DEF RemoveOldest
<1>5. /\ linked' \in [Archivers -> BOOLEAN]
      /\ all_files' \in [Archivers -> Seq(Seconds)]
      /\ \A b \in Archivers : IsInjective(all_files'[b])
  BY <1>3 DEF RemoveOldest, TypeOK
<1> QED
  BY <1>4, <1>5 DEF RemoveOldest, TypeOK, history

(* Every step keeps the types. *)
LEMMA TypesStep == TypeOK /\ [Next]_vars => TypeOK'
<1> SUFFICES ASSUME TypeOK, [Next]_vars PROVE TypeOK'
    OBVIOUS
<1>1. ASSUME NEW a \in Archivers, StartCopy(a) PROVE TypeOK'
  BY <1>1, StartCopyTypes
<1>2. ASSUME NEW a \in Archivers, EndCopy(a) PROVE TypeOK'
  BY <1>2, EndCopyTypes
<1>3. ASSUME NEW a \in Archivers, RemoveOldest(a) PROVE TypeOK'
  BY <1>3, RemoveTypes
<1>4. ASSUME NEW a \in Archivers,
             \/ CopyIsGone(a) \/ ListBackups(a) \/ ListIsStale(a) \/ SortBackups(a)
             \/ EndRotation(a) \/ Fail(a)
      PROVE  TypeOK'
  <2> USE <1>4 DEF CopyIsGone, ListBackups, ListIsStale, SortBackups, EndRotation, Fail
  <2>1. UNCHANGED <<db, now, vault, halves, name, linked>>
    OBVIOUS
  <2>2. pc' \in [Archivers -> {"idle", "copying", "listing", "sorting", "rotating"}]
    BY DEF Goto, TypeOK
  <2>3. /\ all_files' \in [Archivers -> Seq(Seconds)]
        /\ \A b \in Archivers : IsInjective(all_files'[b])
    <3>1. \/ all_files' = all_files
          \/ all_files' = [all_files EXCEPT ![a] = vault]
          \/ all_files' = [all_files EXCEPT ![a] = <<>>]
      OBVIOUS
    <3>2. /\ vault \in Seq(Seconds) /\ <<>> \in Seq(Seconds) /\ IsInjective(vault)
          /\ all_files \in [Archivers -> Seq(Seconds)]
          /\ \A b \in Archivers : IsInjective(all_files[b])
      BY DEF TypeOK
    <3>3. \A s \in {<<>>} : IsInjective(s)
      BY DEF IsInjective
    <3> QED
      BY <3>1, <3>2, <3>3
  <2>4. clean' \in BOOLEAN /\ apart' \in BOOLEAN /\ kept' \in BOOLEAN
    BY DEF TypeOK, history
  <2>5. seen' \in [Archivers -> SUBSET Seconds]
    <3>1. seen' = seen \/ seen' = [seen EXCEPT ![a] = {}]
      OBVIOUS
    <3> QED
      BY <3>1 DEF TypeOK
  <2> QED
    BY <2>1, <2>2, <2>3, <2>4, <2>5 DEF TypeOK
<1>5. CASE Write
  <2>1. db' \in (0 .. MaxCommits) \X (0 .. MaxCommits)
    BY <1>5, ArchiverAssumption DEF Write, TypeOK
  <2> QED
    BY <1>5, <2>1 DEF Write, TypeOK
<1>6. CASE Tick
  <2>1. now' \in Seconds
    BY <1>6, ArchiverAssumption DEF Tick, TypeOK, Seconds
  <2> QED
    BY <1>6, <2>1 DEF Tick, TypeOK, history
<1>7. CASE UNCHANGED vars
  BY <1>7 DEF vars, history, TypeOK
<1> QED
  BY <1>1, <1>2, <1>3, <1>4, <1>5, <1>6, <1>7 DEF Next, Step

-----------------------------------------------------------------------------
(* Snapshots that stay apart *)

(* The file archiver a is working on is the newest of the vault. *)
Newest(a) == vault # <<>> /\ Last(vault) = name[a]

(* No two archivers are at work. *)
OneAtATime ==
  \A a, b \in Archivers : pc[a] # "idle" /\ pc[b] # "idle" => a = b

CopyIsNewest ==
  \A a \in Archivers : pc[a] # "idle" => Newest(a)

(* No transaction comes between the halves of a copy. *)
CopyIsConsistent ==
  \A a \in Archivers : pc[a] = "copying" =>
    Settled /\ linked[a] /\ halves[name[a]] = <<db[1], NoData>>

FinishedIsWhole ==
  \A a \in Archivers : pc[a] \in {"listing", "sorting", "rotating"} => Whole(name[a])

(* The list of a rotation is what the vault holds. *)
ListIsFresh ==
  \A a \in Archivers : pc[a] \in {"sorting", "rotating"} => all_files[a] = vault

(* The vault is trimmed, or one copy from it. *)
FewEnough ==
  /\ (\A a \in Archivers : pc[a] = "idle") => Len(vault) <= MaxBackups
  /\ Len(vault) <= MaxBackups + 1

(* The inductive invariant of snapshots that stay apart. *)
ArchiverInv ==
  /\ TypeOK
  /\ apart => OneAtATime /\ CopyIsNewest /\ CopyIsConsistent /\ FinishedIsWhole /\ ListIsFresh
  /\ UsableBackup
  /\ apart /\ clean => FewEnough

(* The invariant holds at first. *)
LEMMA InitInv == Init => ArchiverInv
<1> SUFFICES ASSUME Init PROVE ArchiverInv
    OBVIOUS
<1>1. 0 \in Seconds /\ 0 \in 0 .. MaxCommits
  BY ArchiverAssumption DEF Seconds
<1>2. vault = <<>> /\ vault \in Seq(Seconds) /\ Len(vault) = 0 /\ IsInjective(vault)
  BY DEF Init, IsInjective
<1>3. all_files \in [Archivers -> Seq(Seconds)]
  BY DEF Init
<1>4. halves \in [Seconds -> Half \X Half]
  BY DEF Init, Half
<1>5. TypeOK
  <2>1. db \in (0 .. MaxCommits) \X (0 .. MaxCommits) /\ now \in Seconds
    BY <1>1 DEF Init
  <2>2. /\ pc \in [Archivers -> {"idle", "copying", "listing", "sorting", "rotating"}]
        /\ name \in [Archivers -> Seconds] /\ linked \in [Archivers -> BOOLEAN]
    BY <1>1 DEF Init
  <2>3. clean \in BOOLEAN /\ apart \in BOOLEAN /\ kept \in BOOLEAN
    BY DEF Init
  <2>4. seen \in [Archivers -> SUBSET Seconds] /\ \A a \in Archivers : IsInjective(all_files[a])
    BY DEF Init, IsInjective
  <2> QED
    BY <1>2, <1>3, <1>4, <2>1, <2>2, <2>3, <2>4 DEF TypeOK, Half
<1>6. \A a \in Archivers : pc[a] = "idle"
  BY DEF Init
<1>7. OneAtATime /\ CopyIsNewest /\ CopyIsConsistent /\ FinishedIsWhole /\ ListIsFresh
  BY <1>6 DEF OneAtATime, CopyIsNewest, CopyIsConsistent, FinishedIsWhole, ListIsFresh
<1>8. UsableBackup /\ FewEnough
  BY <1>2, ArchiverAssumption DEF Init, UsableBackup, FewEnough
<1> QED
  BY <1>5, <1>7, <1>8 DEF ArchiverInv

(* What is known while archiver a is at work and snapshots are apart. *)
LEMMA Alone ==
  ASSUME ArchiverInv, apart, NEW a \in Archivers, pc[a] # "idle"
  PROVE  /\ \A b \in Archivers : b # a => pc[b] = "idle"
         /\ Newest(a)
         /\ pc[a] = "copying" => Settled /\ linked[a] /\ halves[name[a]] = <<db[1], NoData>>
         /\ pc[a] \in {"listing", "sorting", "rotating"} => Whole(name[a])
         /\ pc[a] \in {"sorting", "rotating"} => all_files[a] = vault
         /\ name[a] \in ToSet(vault) /\ name[a] \in Seconds
<1>1. vault \in Seq(Seconds) /\ name[a] \in Seconds
  BY DEF ArchiverInv, TypeOK
<1>2. Newest(a)
  BY DEF ArchiverInv, CopyIsNewest
<1>3. name[a] \in ToSet(vault)
  BY <1>1, <1>2 DEF Newest, Last, ToSet
<1> QED
  BY <1>1, <1>2, <1>3 DEF ArchiverInv, OneAtATime, CopyIsConsistent, FinishedIsWhole, ListIsFresh

(* The start of a copy preserves the invariant. *)
LEMMA StartCopyInv ==
  ASSUME ArchiverInv, NEW a \in Archivers, StartCopy(a)
  PROVE  ArchiverInv'
<1>1. TypeOK /\ TypeOK'
  BY StartCopyTypes DEF ArchiverInv
<1>2. /\ pc[a] = "idle" /\ pc' = [pc EXCEPT ![a] = "copying"]
      /\ name' = [name EXCEPT ![a] = now] /\ linked' = [linked EXCEPT ![a] = TRUE]
      /\ vault' = ToEnd(vault, now) /\ halves' = [halves EXCEPT ![now] = <<db[1], NoData>>]
      /\ UNCHANGED <<db, now, clean, kept>>
  BY DEF StartCopy, Goto, Touch
<1> SUFFICES ASSUME apart'
             PROVE  /\ OneAtATime' /\ CopyIsNewest' /\ CopyIsConsistent' /\ FinishedIsWhole'
                    /\ ListIsFresh' /\ UsableBackup'
                    /\ clean' => FewEnough'
    BY <1>1 DEF ArchiverInv, UsableBackup
<1>3. apart /\ Settled /\ now \notin ToSet(vault) /\ \A b \in Archivers : pc[b] = "idle"
  BY DEF StartCopy
<1>4. /\ vault \in Seq(Seconds) /\ IsInjective(vault) /\ now \in Seconds
      /\ pc \in [Archivers -> {"idle", "copying", "listing", "sorting", "rotating"}]
      /\ name \in [Archivers -> Seconds] /\ linked \in [Archivers -> BOOLEAN]
      /\ halves \in [Seconds -> Half \X Half]
  BY <1>1 DEF TypeOK, Half
<1>5. /\ ToSet(vault') = ToSet(vault) \cup {now} /\ vault' # <<>> /\ Last(vault') = now
      /\ Len(vault') = Len(vault) + 1
  BY <1>2, <1>3, <1>4, ToEndFacts
<1>6. pc'[a] = "copying" /\ \A b \in Archivers : b # a => pc'[b] = "idle"
  BY <1>2, <1>3, <1>4
<1>7. name'[a] = now /\ linked'[a] /\ halves'[now] = <<db[1], NoData>>
  BY <1>2, <1>4
<1>8. OneAtATime' /\ FinishedIsWhole' /\ ListIsFresh'
  BY <1>6 DEF OneAtATime, FinishedIsWhole, ListIsFresh
<1>9. CopyIsNewest' /\ CopyIsConsistent'
  BY <1>2, <1>3, <1>5, <1>6, <1>7 DEF CopyIsNewest, CopyIsConsistent, Newest, Settled
<1>10. ASSUME NEW f \in Seconds, Whole(f) PROVE Whole(f)'
  <2>1. f # now /\ halves'[f] = halves[f]
    BY <1>2, <1>3, <1>4, <1>10 DEF Whole, Complete
  <2> QED
    BY <1>5, <1>10, <2>1 DEF Whole, Complete
<1>11. UsableBackup'
  BY <1>2, <1>3, <1>10 DEF UsableBackup, ArchiverInv
<1>12. ASSUME clean' PROVE FewEnough'
  <2>1. Len(vault) <= MaxBackups
    BY <1>2, <1>3, <1>12 DEF ArchiverInv, FewEnough
  <2>2. Len(vault) \in Nat /\ MaxBackups \in Nat
    BY <1>4, SeqFacts, ArchiverAssumption
  <2> QED
    BY <1>5, <1>6, <2>1, <2>2 DEF FewEnough
<1> QED
  BY <1>8, <1>9, <1>11, <1>12

(* The end of a copy preserves the invariant: the copy is whole. *)
LEMMA EndCopyInv ==
  ASSUME ArchiverInv, NEW a \in Archivers, EndCopy(a)
  PROVE  ArchiverInv'
<1>1. TypeOK /\ TypeOK'
  BY EndCopyTypes DEF ArchiverInv
<1>2. /\ pc[a] = "copying" /\ pc' = [pc EXCEPT ![a] = "listing"]
      /\ vault' = ToEnd(vault, name[a])
      /\ halves' = IF linked[a] THEN [halves EXCEPT ![name[a]][2] = db[2]] ELSE halves
      /\ UNCHANGED <<db, now, name, linked, clean, apart>>
  BY DEF EndCopy, Goto, Touch
<1> SUFFICES ASSUME apart
             PROVE  /\ OneAtATime' /\ CopyIsNewest' /\ CopyIsConsistent' /\ FinishedIsWhole'
                    /\ ListIsFresh' /\ UsableBackup'
                    /\ clean' => FewEnough'
    BY <1>1, <1>2 DEF ArchiverInv, UsableBackup
<1>3. /\ \A b \in Archivers : b # a => pc[b] = "idle"
      /\ Newest(a) /\ Settled /\ linked[a] /\ halves[name[a]] = <<db[1], NoData>>
      /\ name[a] \in ToSet(vault) /\ name[a] \in Seconds
  BY <1>2, Alone
<1>4. /\ vault \in Seq(Seconds) /\ IsInjective(vault)
      /\ pc \in [Archivers -> {"idle", "copying", "listing", "sorting", "rotating"}]
      /\ halves \in [Seconds -> Half \X Half]
      /\ db[1] \in 0 .. MaxCommits /\ db[2] \in 0 .. MaxCommits
  BY <1>1 DEF TypeOK, Half
<1>5. /\ ToSet(vault') = ToSet(vault) /\ vault' # <<>> /\ Last(vault') = name[a]
      /\ Len(vault') = Len(vault)
  <2> DEFINE f == name[a]
  <2>1. f \in Seconds /\ f \in ToSet(vault) /\ vault' = ToEnd(vault, f)
    BY <1>2, <1>3
  <2> HIDE DEF f
  <2>2. /\ ToSet(ToEnd(vault, f)) = ToSet(vault) \cup {f}
        /\ ToEnd(vault, f) # <<>> /\ Last(ToEnd(vault, f)) = f /\ Len(ToEnd(vault, f)) = Len(vault)
    BY <1>4, <2>1, ToEndFacts
  <2> QED
    BY <2>1, <2>2 DEF f
<1>6. pc'[a] = "listing" /\ \A b \in Archivers : b # a => pc'[b] = "idle"
  BY <1>2, <1>3, <1>4
<1>7. halves'[name[a]] = <<db[1], db[2]>>
  BY <1>2, <1>3, <1>4
<1>8. Whole(name[a])'
  <2>1. db[2] # NoData
    BY <1>4, ArchiverAssumption
  <2> QED
    BY <1>2, <1>3, <1>5, <1>7, <2>1 DEF Whole, Complete, Settled
<1>9. OneAtATime' /\ CopyIsNewest' /\ CopyIsConsistent' /\ FinishedIsWhole' /\ ListIsFresh'
  BY <1>2, <1>5, <1>6, <1>8
     DEF OneAtATime, CopyIsNewest, CopyIsConsistent, FinishedIsWhole, ListIsFresh, Newest
<1>10. UsableBackup'
  BY <1>3, <1>8, <1>2 DEF UsableBackup, Whole, Complete
<1>11. ASSUME clean' PROVE FewEnough'
  BY <1>2, <1>5, <1>6, <1>11 DEF ArchiverInv, FewEnough
<1> QED
  BY <1>9, <1>10, <1>11

(* Taking out the first element of a sequence without repetition leaves its *)
(* tail; another element that was last is still there, and last.            *)
LEMMA RemoveHeadFacts ==
  ASSUME NEW S, NEW s \in Seq(S), IsInjective(s), Len(s) > 1
  PROVE  /\ RemoveFirst(s, Head(s)) = Tail(s)
         /\ Tail(s) # <<>> /\ Len(Tail(s)) = Len(s) - 1
         /\ Last(Tail(s)) = Last(s)
         /\ Last(s) # Head(s)
<1>1. /\ Len(s) \in Nat /\ DOMAIN s = 1 .. Len(s) /\ 1 \in 1 .. Len(s) /\ s # <<>>
      /\ Head(s) = s[1]
  OBVIOUS
<1>2. RemoveFirst(s, Head(s)) = RemoveAt(s, 1)
  BY <1>1, RemoveFirstAt
<1>3. /\ RemoveAt(s, 1) \in Seq(S) /\ Len(RemoveAt(s, 1)) = Len(s) - 1
      /\ \A j \in 1 .. Len(s) - 1 : RemoveAt(s, 1)[j] = s[j + 1]
  <2>1. /\ RemoveAt(s, 1) \in Seq(S) /\ Len(RemoveAt(s, 1)) = Len(s) - 1
        /\ \A j \in 1 .. Len(s) - 1 :
             RemoveAt(s, 1)[j] = IF j < 1 THEN s[j] ELSE s[j + 1]
    <3> DEFINE i == 1
    <3>1. i \in 1 .. Len(s)
      BY <1>1
    <3> HIDE DEF i
    <3>2. /\ RemoveAt(s, i) \in Seq(S) /\ Len(RemoveAt(s, i)) = Len(s) - 1
          /\ \A j \in 1 .. Len(s) - 1 :
               RemoveAt(s, i)[j] = IF j < i THEN s[j] ELSE s[j + 1]
      BY <3>1, RemoveAtFacts
    <3> QED
      BY <3>2 DEF i
  <2>2. \A j \in 1 .. Len(s) - 1 : ~(j < 1)
    OBVIOUS
  <2> QED
    BY <2>1, <2>2
<1>4. /\ Tail(s) \in Seq(S) /\ Len(Tail(s)) = Len(s) - 1
      /\ \A j \in 1 .. Len(s) - 1 : Tail(s)[j] = s[j + 1]
  BY <1>1
<1>5. RemoveAt(s, 1) = Tail(s)
  <2> DEFINE u == RemoveAt(s, 1)
             v == Tail(s)
  <2>1. /\ u \in Seq(S) /\ v \in Seq(S) /\ Len(u) = Len(v)
        /\ \A j \in 1 .. Len(u) : u[j] = v[j]
    BY <1>3, <1>4
  <2> HIDE DEF u, v
  <2>2. u = v
    BY <2>1, SeqEqual
  <2> QED
    BY <2>2 DEF u, v
<1>6. Last(Tail(s)) = Last(s) /\ Tail(s) # <<>>
  <2> DEFINE v == Tail(s)
  <2>1. /\ v \in Seq(S) /\ Len(v) = Len(s) - 1 /\ Len(s) - 1 \in 1 .. Len(s) - 1
        /\ v[Len(s) - 1] = s[(Len(s) - 1) + 1]
    BY <1>1, <1>4
  <2> HIDE DEF v
  <2>2. Last(v) = Last(s) /\ v # <<>>
    BY <1>1, <2>1 DEF Last
  <2> QED
    BY <2>2 DEF v
<1>7. Last(s) # Head(s)
  BY <1>1 DEF Last, IsInjective
<1> QED
  BY <1>2, <1>4, <1>5, <1>6, <1>7

(* A removal preserves the invariant: the oldest goes, and the copy just    *)
(* finished is the newest.                                                  *)
LEMMA RemoveInv ==
  ASSUME ArchiverInv, NEW a \in Archivers, RemoveOldest(a)
  PROVE  ArchiverInv'
<1>1. TypeOK /\ TypeOK'
  BY RemoveTypes DEF ArchiverInv
<1>2. /\ pc[a] = "rotating" /\ Len(all_files[a]) > MaxBackups
      /\ vault' = RemoveFirst(vault, Head(all_files[a]))
      /\ all_files' = [all_files EXCEPT ![a] = Tail(@)]
      /\ UNCHANGED <<db, now, halves, pc, name, clean, apart, kept>>
  BY DEF RemoveOldest, Excessive, history
<1> SUFFICES ASSUME apart
             PROVE  /\ OneAtATime' /\ CopyIsNewest' /\ CopyIsConsistent' /\ FinishedIsWhole'
                    /\ ListIsFresh' /\ UsableBackup'
                    /\ clean' => FewEnough'
    BY <1>1, <1>2 DEF ArchiverInv, UsableBackup
<1>3. /\ \A b \in Archivers : b # a => pc[b] = "idle"
      /\ Newest(a) /\ Whole(name[a]) /\ all_files[a] = vault
      /\ name[a] \in ToSet(vault) /\ name[a] \in Seconds
  BY <1>2, Alone
<1>4. /\ vault \in Seq(Seconds) /\ IsInjective(vault)
      /\ all_files \in [Archivers -> Seq(Seconds)]
      /\ Len(vault) \in Nat /\ MaxBackups \in Nat \ {0}
  BY <1>1, SeqFacts, ArchiverAssumption DEF TypeOK
<1>5. Len(vault) > 1
  BY <1>2, <1>3, <1>4
<1>6. /\ RemoveFirst(vault, Head(vault)) = Tail(vault)
      /\ Tail(vault) # <<>> /\ Len(Tail(vault)) = Len(vault) - 1
      /\ Last(Tail(vault)) = Last(vault)
      /\ Last(vault) # Head(vault)
  BY <1>4, <1>5, RemoveHeadFacts
<1>7. Head(vault) \in Seconds
  BY <1>4, <1>5
<1>8. ToSet(RemoveFirst(vault, Head(vault))) = ToSet(vault) \ {Head(vault)}
  BY <1>4, <1>7, RemoveFirstFacts
<1>9. /\ vault' = Tail(vault) /\ Len(vault') = Len(vault) - 1
      /\ vault' # <<>> /\ Last(vault') = name[a]
      /\ ToSet(vault') = ToSet(vault) \ {Head(vault)} /\ name[a] \in ToSet(vault')
  BY <1>2, <1>3, <1>6, <1>8 DEF Newest
<1>10. Whole(name[a])'
  BY <1>2, <1>3, <1>9 DEF Whole, Complete
<1>11. all_files'[a] = vault'
  BY <1>2, <1>3, <1>4, <1>9
<1>12. \A b \in Archivers : pc'[b] # "idle" => b = a
  BY <1>2, <1>3
<1>13. pc'[a] = "rotating"
  BY <1>2
<1>14. OneAtATime' /\ CopyIsNewest' /\ CopyIsConsistent' /\ FinishedIsWhole' /\ ListIsFresh'
  <2>1. OneAtATime'
    BY <1>12 DEF OneAtATime
  <2>2. CopyIsNewest'
    BY <1>2, <1>9, <1>12 DEF CopyIsNewest, Newest
  <2>3. CopyIsConsistent'
    BY <1>12, <1>13 DEF CopyIsConsistent
  <2>4. FinishedIsWhole'
    BY <1>10, <1>12 DEF FinishedIsWhole
  <2>5. ListIsFresh'
    BY <1>11, <1>12 DEF ListIsFresh
  <2> QED
    BY <2>1, <2>2, <2>3, <2>4, <2>5
<1>15. UsableBackup'
  BY <1>2, <1>3, <1>10 DEF UsableBackup, Whole, Complete
<1>16. ASSUME clean' PROVE FewEnough'
  <2>1. Len(vault) <= MaxBackups + 1
    BY <1>2, <1>16 DEF ArchiverInv, FewEnough
  <2> QED
    BY <1>4, <1>9, <1>13, <2>1 DEF FewEnough
<1> QED
  BY <1>14, <1>15, <1>16

(* A listing and a sort preserve the invariant: alone, they see the vault   *)
(* as it is.                                                                *)
LEMMA ListInv ==
  ASSUME ArchiverInv, NEW a \in Archivers, ListBackups(a) \/ SortBackups(a)
  PROVE  ArchiverInv'
<1>1. TypeOK /\ TypeOK'
  BY TypesStep DEF ArchiverInv, Next, Step
<1>2. /\ \/ pc[a] = "listing" /\ pc' = [pc EXCEPT ![a] = "sorting"]
            /\ all_files' = [all_files EXCEPT ![a] = vault]
         \/ pc[a] = "sorting" /\ pc' = [pc EXCEPT ![a] = "rotating"]
            /\ all_files' = all_files
      /\ UNCHANGED <<db, now, vault, halves, name, linked, clean, apart, kept>>
  BY DEF ListBackups, SortBackups, Goto, history
<1>3. /\ pc \in [Archivers -> {"idle", "copying", "listing", "sorting", "rotating"}]
      /\ all_files \in [Archivers -> Seq(Seconds)]
  BY <1>1 DEF TypeOK
<1>4. Whole(name[a])' = Whole(name[a]) /\ (UsableBackup' <=> UsableBackup)
  BY <1>2 DEF Whole, Complete, UsableBackup
<1> SUFFICES ASSUME apart
             PROVE  /\ OneAtATime' /\ CopyIsNewest' /\ CopyIsConsistent' /\ FinishedIsWhole'
                    /\ ListIsFresh' /\ (clean' => FewEnough')
    BY <1>1, <1>2, <1>4 DEF ArchiverInv
<1>5. /\ \A b \in Archivers : b # a => pc[b] = "idle"
      /\ Newest(a) /\ Whole(name[a]) /\ (pc[a] = "sorting" => all_files[a] = vault)
  BY <1>2, Alone
<1>6. /\ pc'[a] \in {"sorting", "rotating"} /\ all_files'[a] = vault
      /\ \A b \in Archivers : b # a => pc'[b] = "idle"
  BY <1>2, <1>3, <1>5
<1>7. OneAtATime' /\ CopyIsNewest' /\ CopyIsConsistent' /\ FinishedIsWhole' /\ ListIsFresh'
  BY <1>2, <1>4, <1>5, <1>6
     DEF OneAtATime, CopyIsNewest, CopyIsConsistent, FinishedIsWhole, ListIsFresh, Newest
<1>8. ASSUME clean' PROVE FewEnough'
  BY <1>2, <1>6, <1>8 DEF ArchiverInv, FewEnough
<1> QED
  BY <1>7, <1>8

(* The steps by which an archiver stops preserve the invariant: one that    *)
(* ends its rotation leaves max_backups copies at most, and the two errors  *)
(* of an overlap do not occur between snapshots that stay apart.            *)
LEMMA StopInv ==
  ASSUME ArchiverInv, NEW a \in Archivers,
         EndRotation(a) \/ CopyIsGone(a) \/ ListIsStale(a) \/ Fail(a)
  PROVE  ArchiverInv'
<1>1. TypeOK /\ TypeOK'
  BY TypesStep DEF ArchiverInv, Next, Step
<1>2. /\ pc[a] # "idle" /\ pc' = [pc EXCEPT ![a] = "idle"]
      /\ all_files' \in {all_files, [all_files EXCEPT ![a] = <<>>]}
      /\ UNCHANGED <<db, now, vault, halves, name, linked, apart, kept>>
  BY DEF EndRotation, CopyIsGone, ListIsStale, Fail, Goto, history
<1>3. /\ pc \in [Archivers -> {"idle", "copying", "listing", "sorting", "rotating"}]
      /\ all_files \in [Archivers -> Seq(Seconds)]
      /\ vault \in Seq(Seconds) /\ IsInjective(vault)
  BY <1>1 DEF TypeOK
<1>4. UsableBackup'
  BY <1>2 DEF ArchiverInv, Whole, Complete, UsableBackup
<1> SUFFICES ASSUME apart
             PROVE  /\ OneAtATime' /\ CopyIsNewest' /\ CopyIsConsistent' /\ FinishedIsWhole'
                    /\ ListIsFresh' /\ (clean' => FewEnough')
    BY <1>1, <1>2, <1>4 DEF ArchiverInv
<1>5. /\ \A b \in Archivers : b # a => pc[b] = "idle"
      /\ pc[a] \in {"sorting", "rotating"} => all_files[a] = vault
      /\ name[a] \in ToSet(vault)
  BY <1>2, Alone
<1>6. \A b \in Archivers : pc'[b] = "idle"
  BY <1>2, <1>3, <1>5
<1>7. OneAtATime' /\ CopyIsNewest' /\ CopyIsConsistent' /\ FinishedIsWhole' /\ ListIsFresh'
  BY <1>6 DEF OneAtATime, CopyIsNewest, CopyIsConsistent, FinishedIsWhole, ListIsFresh
<1>8. ASSUME clean' PROVE FewEnough'
  <2>1. clean /\ EndRotation(a)
    <3>1. ~Fail(a)
      BY <1>8 DEF Fail
    <3>2. ~CopyIsGone(a)
      BY <1>5 DEF CopyIsGone
    <3>3. ~ListIsStale(a)
      BY <1>5 DEF ListIsStale, Goto
    <3> QED
      BY <1>8, <3>1, <3>2, <3>3 DEF EndRotation, history
  <2>2. pc[a] = "rotating" /\ all_files[a] = vault
    BY <1>5, <2>1 DEF EndRotation, Goto
  <2>3. Len(vault) <= MaxBackups
    <3> SUFFICES ASSUME Len(vault) > MaxBackups PROVE FALSE
        BY <1>3, SeqFacts, ArchiverAssumption
    <3>1. Len(vault) # 0 /\ DOMAIN vault = 1 .. Len(vault) /\ Len(vault) \in Nat
      BY <1>3, SeqFacts, ArchiverAssumption
    <3>2. Head(vault) = vault[1] /\ 1 \in DOMAIN vault
      BY <1>3, <3>1
    <3>3. Head(vault) \in ToSet(vault)
      BY <3>2 DEF ToSet
    <3> QED
      BY <2>1, <2>2, <3>3 DEF EndRotation, Excessive
  <2> QED
    BY <1>2, <1>3, <2>3, SeqFacts, ArchiverAssumption DEF FewEnough
<1> QED
  BY <1>7, <1>8

(* The other steps preserve the invariant: a transaction during a copy ends *)
(* apart, and time only names the next copy.                                *)
LEMMA OtherInv ==
  ASSUME ArchiverInv, Write \/ Tick \/ UNCHANGED vars
  PROVE  ArchiverInv'
<1>1. TypeOK /\ TypeOK'
  BY TypesStep DEF ArchiverInv, Next
<1>2. UNCHANGED <<vault, halves, pc, name, linked, all_files, clean, kept>>
  BY DEF Write, Tick, vars, history
<1>3. /\ apart' => apart
      /\ UNCHANGED <<db, apart>> \/ (apart' => \A a \in Archivers : pc[a] # "copying")
  <2>1. CASE Write
    <3>1. apart' = (apart /\ \A a \in Archivers : pc[a] # "copying")
      BY <2>1 DEF Write
    <3>2. apart' => apart /\ \A a \in Archivers : pc[a] # "copying"
      BY <3>1, Zenon
    <3> QED
      BY <3>2
  <2>2. CASE Tick \/ UNCHANGED vars
    BY <2>2 DEF Tick, vars, history
  <2> QED
    BY <2>1, <2>2
<1>4. UsableBackup'
  BY <1>2, <1>3 DEF ArchiverInv, UsableBackup, Whole, Complete
<1> SUFFICES ASSUME apart'
             PROVE  /\ OneAtATime' /\ CopyIsNewest' /\ CopyIsConsistent' /\ FinishedIsWhole'
                    /\ ListIsFresh' /\ (clean' => FewEnough')
    BY <1>1, <1>4 DEF ArchiverInv
<1>5. OneAtATime' /\ CopyIsNewest' /\ FinishedIsWhole' /\ ListIsFresh' /\ (clean' => FewEnough')
  BY <1>2, <1>3 DEF ArchiverInv, OneAtATime, CopyIsNewest, FinishedIsWhole, ListIsFresh, FewEnough,
                    Newest, Whole, Complete
<1>6. CopyIsConsistent'
  BY <1>2, <1>3 DEF ArchiverInv, CopyIsConsistent, Settled
<1> QED
  BY <1>5, <1>6

(* The inductive invariant holds in every reachable state: while snapshots  *)
(* stay apart, one archiver is at work, its copy is the newest of the vault *)
(* and becomes whole before it lists anything, and the list it removes from *)
(* is the vault.                                                            *)
THEOREM ArchiverInvariant == Spec => []ArchiverInv
<1>1. Init => ArchiverInv
  BY InitInv
<1>2. ArchiverInv /\ [Next]_vars => ArchiverInv'
  BY StartCopyInv, EndCopyInv, RemoveInv, ListInv, StopInv, OtherInv DEF Next, Step
<1> QED
  BY <1>1, <1>2, PTL DEF Spec

(* The types hold in every reachable state, and no name is twice in the     *)
(* vault (backup_dir is a directory).                                       *)
THEOREM ArchiverTypes == Spec => []TypeOK
<1>1. ArchiverInv => TypeOK
  BY DEF ArchiverInv
<1> QED
  BY <1>1, ArchiverInvariant, PTL

(* Whatever fails between them, snapshots that stay apart never leave the   *)
(* vault without a whole copy once there has been one (execute_snapshot and *)
(* _rotate_backups): the copy that counts towards the excess is the one     *)
(* just taken, and it is removed last.                                      *)
THEOREM BackupStays == Spec => []UsableBackup
<1>1. ArchiverInv => UsableBackup
  BY DEF ArchiverInv
<1> QED
  BY <1>1, ArchiverInvariant, PTL

(* Snapshots that stay apart and do not fail leave max_backups copies at    *)
(* most (_rotate_backups), for any number of archivers and any limit.       *)
THEOREM VaultIsTrimmed == Spec => []Trimmed
<1>1. ArchiverInv => Trimmed
  BY DEF ArchiverInv, FewEnough, Trimmed
<1> QED
  BY <1>1, ArchiverInvariant, PTL

-----------------------------------------------------------------------------
(* Sequences in the order of time *)

(* The times t of the elements of s grow from place to place. *)
Ascending(s, t) == \A i, j \in DOMAIN s : i < j => t[s[i]] < t[s[j]]

(* A removal leaves the others in the order of time. *)
LEMMA RemovedAscends ==
  ASSUME NEW S, NEW s \in Seq(S), IsInjective(s), NEW f \in S,
         NEW t \in [S -> Nat], Ascending(s, t)
  PROVE  Ascending(RemoveFirst(s, f), t)
<1>1. CASE f \notin ToSet(s)
  BY <1>1, RemoveFirstFacts
<1>2. CASE f \in ToSet(s)
  <2>1. DOMAIN s = 1 .. Len(s) /\ Len(s) \in Nat /\ \A i \in 1 .. Len(s) : s[i] \in S
    BY SeqFacts
  <2>2. PICK i \in 1 .. Len(s) : s[i] = f
    BY <1>2, <2>1 DEF ToSet
  <2> DEFINE u == RemoveFirst(s, f)
             up(n) == IF n < i THEN n ELSE n + 1
  <2>3. u = RemoveAt(s, i)
    BY <2>2, RemoveFirstAt
  <2> HIDE DEF u
  <2>4. DOMAIN u = 1 .. Len(s) - 1 /\ \A j \in 1 .. Len(s) - 1 : u[j] = s[up(j)]
    BY <2>3, RemoveAtFacts, SeqFacts
  <2>5. ASSUME NEW j \in 1 .. Len(s) - 1, NEW k \in 1 .. Len(s) - 1, j < k
        PROVE  up(j) \in DOMAIN s /\ up(k) \in DOMAIN s /\ up(j) < up(k)
    BY <2>1, <2>5
  <2> HIDE DEF up
  <2>6. Ascending(u, t)
    <3>1. ASSUME NEW j \in 1 .. Len(s) - 1, NEW k \in 1 .. Len(s) - 1, j < k
          PROVE  t[u[j]] < t[u[k]]
      <4>1. t[s[up(j)]] < t[s[up(k)]]
        BY <2>5, <3>1 DEF Ascending
      <4> QED
        BY <2>4, <4>1
    <3> QED
      BY <2>4, <3>1 DEF Ascending
  <2> QED
    BY <2>6 DEF u
<1> QED
  BY <1>1, <1>2

(* An element that goes to the end at the latest time leaves the sequence in *)
(* the order of time.                                                        *)
LEMMA ToEndAscends ==
  ASSUME NEW s \in Seq(Seconds), IsInjective(s), NEW f \in Seconds,
         NEW t \in [Seconds -> Nat], Ascending(s, t),
         NEW c \in Nat, \A x \in ToSet(s) : t[x] <= c
  PROVE  Ascending(ToEnd(s, f), [t EXCEPT ![f] = c + 1])
<1> DEFINE u == RemoveFirst(s, f)
           w == Append(u, f)
           r == [t EXCEPT ![f] = c + 1]
<1>1. u \in Seq(Seconds) /\ ToSet(u) = ToSet(s) \ {f} /\ Ascending(u, t)
  BY RemoveFirstFacts, RemovedAscends
<1>2. ToEnd(s, f) = w
  BY DEF ToEnd
<1> HIDE DEF u
<1>3. /\ w[Len(u) + 1] = f /\ Len(u) \in Nat
      /\ \A i \in 1 .. Len(u) : w[i] = u[i]
      /\ DOMAIN w = 1 .. Len(u) + 1 /\ DOMAIN u = 1 .. Len(u)
  BY <1>1
<1> HIDE DEF w
<1>4. \A i \in 1 .. Len(u) : w[i] \in ToSet(s) \ {f} /\ w[i] \in Seconds
  <2>1. ASSUME NEW i \in 1 .. Len(u) PROVE u[i] \in ToSet(u) /\ u[i] \in Seconds
    BY <1>1, SeqFacts DEF ToSet
  <2> QED
    BY <1>1, <1>3, <2>1
<1>5. \A i \in 1 .. Len(u) : r[w[i]] = t[w[i]] /\ r[w[i]] < c + 1 /\ t[w[i]] \in Nat
  <2>1. \A x \in Seconds \ {f} : r[x] = t[x] /\ t[x] \in Nat
    OBVIOUS
  <2> QED
    BY <1>4, <2>1
<1>6. r[w[Len(u) + 1]] = c + 1
  BY <1>3
<1> HIDE DEF r
<1>7. ASSUME NEW i \in 1 .. Len(u) + 1, NEW j \in 1 .. Len(u) + 1, i < j
      PROVE  r[w[i]] < r[w[j]]
  <2>1. i \in 1 .. Len(u)
    BY <1>3, <1>7
  <2>2. CASE j = Len(u) + 1
    BY <1>5, <1>6, <2>1, <2>2
  <2>3. CASE j # Len(u) + 1
    <3>1. j \in 1 .. Len(u)
      BY <1>3, <2>3
    <3>2. t[u[i]] < t[u[j]]
      BY <1>1, <1>3, <1>7, <2>1, <3>1 DEF Ascending
    <3> QED
      BY <1>3, <1>5, <2>1, <3>1, <3>2
  <2> QED
    BY <2>2, <2>3
<1>8. Ascending(w, r)
  BY <1>3, <1>7 DEF Ascending
<1> QED
  BY <1>2, <1>8 DEF r

(* A sequence without repetition has as many elements as places. *)
LEMMA SizeFacts ==
  ASSUME NEW S, NEW s \in Seq(S), IsInjective(s)
  PROVE  IsFiniteSet(ToSet(s)) /\ Cardinality(ToSet(s)) = Len(s)
<1>1. DOMAIN s = 1 .. Len(s) /\ Len(s) \in Nat /\ s \in [1 .. Len(s) -> S]
  BY SeqFacts
<1>2. s \in Surjection(1 .. Len(s), ToSet(s))
  BY <1>1 DEF Surjection, ToSet
<1>3. s \in Injection(1 .. Len(s), ToSet(s))
  BY <1>1, <1>2 DEF Injection, IsInjective, ToSet
<1>4. IsFiniteSet(1 .. Len(s)) /\ Cardinality(1 .. Len(s)) = Len(s)
  BY <1>1, FS_Interval
<1> QED
  BY <1>2, <1>3, <1>4, FS_Surjection

-----------------------------------------------------------------------------
(* Rotations that overlap *)

(* An archiver is copying to x. *)
Held(x) == \E a \in Archivers : pc[a] = "copying" /\ name[a] = x

(* The files of the vault and of the lists. *)
Known == ToSet(vault) \cup UNION {ToSet(all_files[a]) : a \in Archivers}

(* The argument counts the changes of files: change t makes own[t] the      *)
(* newest file.  v[f] is the last change of f, l[a][f] the last one that    *)
(* archiver a's list knows, c the number of changes so far.  A rotation     *)
(* removes files no newer, on its list, than some change; top is the latest *)
(* such change.  X[t] has the files that were changed after t and are or    *)
(* were on a list with a change up to t, or for which that can still happen.*)

Dated(v, l, own, c) ==
  /\ \A f \in ToSet(vault) : v[f] \in 1 .. c /\ own[v[f]] = f
  /\ \A a \in Archivers : \A f \in ToSet(all_files[a]) :
       /\ l[a][f] \in 1 .. c /\ own[l[a][f]] = f
       /\ f \in ToSet(vault) => l[a][f] <= v[f]

InOrderOfTime(v, l) ==
  /\ Ascending(vault, v)
  /\ \A a \in Archivers : Ascending(all_files[a], l[a])

(* Some list knows f by a change up to t, or by a later one. *)
ListedBy(l, f, t) == \E a \in Archivers : f \in ToSet(all_files[a]) /\ l[a][f] <= t
ListedAfter(l, f, t) == \E a \in Archivers : f \in ToSet(all_files[a]) /\ l[a][f] > t

(* The same, of the lists and the vault. *)
DatedBy(v, l, f, t) == ListedBy(l, f, t) \/ (f \in ToSet(vault) /\ v[f] <= t)
DatedAfter(v, l, f, t) == ListedAfter(l, f, t) \/ (f \in ToSet(vault) /\ v[f] > t)

(* What X[t] has in it, besides own[t]. *)
Crossing(v, l, own, X, c, top) ==
  \A t \in 1 .. c : \A f \in Seconds :
    \/ f \in X[t]
    \/ f = own[t]
    \/ /\ ~(ListedBy(l, f, t) /\ DatedAfter(v, l, f, t))
       /\ ~(DatedBy(v, l, f, t) /\ (f = now \/ Held(f)))
       /\ ~(top < t /\ f \notin ToSet(vault) /\ ListedAfter(l, f, t))

FewCross(X, c) == \A t \in 1 .. c : Cardinality(X[t]) < Cardinality(Archivers)

(* What a rotation removes is no newer than top. *)
DoomedAreOld(l, top) ==
  \A a \in Archivers : pc[a] = "rotating" =>
    \A p \in 1 .. Len(all_files[a]) - MaxBackups : l[a][all_files[a][p]] <= top

(* The files that no rotation removes. *)
Safe(v, own, X, top) == {f \in ToSet(vault) : v[f] > top} \ (X[top] \cup {own[top]})
EnoughAreSafe(v, own, X, top) ==
  top > 0 => Cardinality(Safe(v, own, X, top)) + Cardinality(Archivers) > MaxBackups

Timed(v, l, own, X, c, top) ==
  /\ top <= c
  /\ Dated(v, l, own, c)
  /\ InOrderOfTime(v, l)
  /\ Crossing(v, l, own, X, c, top)
  /\ FewCross(X, c)
  /\ DoomedAreOld(l, top)
  /\ EnoughAreSafe(v, own, X, top)

(* A file of this second was made by an archiver that has held no other     *)
(* file since.                                                              *)
NowHasAMaker == now \in Known => \E d \in Archivers : pc[d] = "copying" => name[d] = now

(* There are such times for the vault and the lists as they are. *)
HaveTimes ==
  \E v \in [Seconds -> Nat], l \in [Archivers -> [Seconds -> Nat]], own \in [Nat -> Seconds],
     X \in [Nat -> SUBSET Seconds], c \in Nat, top \in Nat : Timed(v, l, own, X, c, top)

(* The inductive invariant of rotations that overlap. *)
OverlapInv ==
  /\ TypeOK
  /\ Known \subseteq 0 .. now
  /\ NowHasAMaker
  /\ HaveTimes

(* A set each of whose files some archiver other than a answers for is      *)
(* smaller than the set of archivers.                                       *)
LEMMA Answerable ==
  ASSUME NEW X, NEW g \in [Archivers -> Seconds], NEW a \in Archivers,
         \A x \in X : \E b \in Archivers \ {a} : x = g[b]
  PROVE  Cardinality(X) < Cardinality(Archivers)
<1> DEFINE B == Archivers \ {a}
           Y == {g[b] : b \in B}
           h == [b \in B |-> g[b]]
<1>1. /\ IsFiniteSet(Archivers) /\ Cardinality(Archivers) \in Nat /\ IsFiniteSet(B)
      /\ Cardinality(B) = Cardinality(Archivers) - 1
  BY ArchiverAssumption, FS_CardinalityType, FS_RemoveElement
<1>2. h \in Surjection(B, Y)
  BY DEF Surjection
<1>3. IsFiniteSet(Y) /\ Cardinality(Y) <= Cardinality(B)
  <2> HIDE DEF h, Y, B
  <2> QED
    BY <1>1, <1>2, FS_Surjection
<1>4. X \subseteq Y
  OBVIOUS
<1>5. IsFiniteSet(X) /\ Cardinality(X) <= Cardinality(Y)
  BY <1>3, <1>4, FS_Subset
<1>6. Cardinality(X) \in Nat /\ Cardinality(Y) \in Nat /\ Cardinality(B) \in Nat
  BY <1>1, <1>3, <1>5, FS_CardinalityType
<1> HIDE DEF Y, B
<1> QED
  BY <1>1, <1>3, <1>5, <1>6

(* The sets of the argument are finite. *)
LEMMA FilesAreFinite ==
  ASSUME TypeOK
  PROVE  /\ IsFiniteSet(Seconds) /\ \A Y \in SUBSET Seconds : IsFiniteSet(Y)
         /\ ToSet(vault) \subseteq Seconds
         /\ \A a \in Archivers : ToSet(all_files[a]) \subseteq Seconds
<1>1. IsFiniteSet(Seconds)
  BY FS_Interval, ArchiverAssumption DEF Seconds
<1>2. \A Y \in SUBSET Seconds : IsFiniteSet(Y)
  BY <1>1, FS_Subset
<1>3. ASSUME NEW s \in Seq(Seconds) PROVE ToSet(s) \subseteq Seconds
  BY SeqFacts DEF ToSet
<1> QED
  BY <1>1, <1>2, <1>3 DEF TypeOK

(* As long as the times up to now stay, safe files stay enough. *)
LEMMA SafeStay ==
  ASSUME TypeOK, TypeOK',
         NEW v \in [Seconds -> Nat], NEW own \in [Nat -> Seconds],
         NEW X \in [Nat -> SUBSET Seconds], NEW top \in Nat, EnoughAreSafe(v, own, X, top),
         NEW v1 \in [Seconds -> Nat], NEW own1 \in [Nat -> Seconds],
         NEW X1 \in [Nat -> SUBSET Seconds],
         Safe(v, own, X, top) \subseteq Safe(v1, own1, X1, top)'
  PROVE  EnoughAreSafe(v1, own1, X1, top)'
<1> DEFINE Y == Safe(v, own, X, top)
           Z == Safe(v1, own1, X1, top)'
<1>1. Z \subseteq ToSet(vault')
  BY DEF Safe
<1>2. ToSet(vault') \subseteq Seconds
  BY SeqFacts DEF TypeOK, ToSet
<1>3. IsFiniteSet(Z)
  BY <1>1, <1>2, FilesAreFinite
<1>4. Y \subseteq Z
  OBVIOUS
<1>5. top > 0 => Cardinality(Y) + Cardinality(Archivers) > MaxBackups
  BY DEF EnoughAreSafe
<1> HIDE DEF Y, Z
<1>6. IsFiniteSet(Y) /\ Cardinality(Y) <= Cardinality(Z)
  BY <1>3, <1>4, FS_Subset
<1>7. Cardinality(Y) \in Nat /\ Cardinality(Z) \in Nat /\ Cardinality(Archivers) \in Nat
  BY <1>3, <1>6, FS_CardinalityType, ArchiverAssumption
<1>8. top > 0 => Cardinality(Z) + Cardinality(Archivers) > MaxBackups
  BY <1>5, <1>6, <1>7, ArchiverAssumption
<1> QED
  BY <1>8 DEF EnoughAreSafe, Z

(* The invariant holds at first. *)
LEMMA OverlapInit == Init => OverlapInv
<1> SUFFICES ASSUME Init PROVE OverlapInv
    OBVIOUS
<1>1. TypeOK
  BY InitInv DEF ArchiverInv
<1>2. /\ ToSet(vault) = {} /\ DOMAIN vault = {}
      /\ \A a \in Archivers : pc[a] = "idle" /\ DOMAIN all_files[a] = {}
  BY DEF Init, ToSet
<1>3. \A a \in Archivers : ToSet(all_files[a]) = {}
  BY <1>2 DEF ToSet
<1>4. Known = {}
  BY <1>2, <1>3 DEF Known
<1> DEFINE v == [f \in Seconds |-> 0]
           l == [a \in Archivers |-> v]
           own == [n \in Nat |-> 0]
           X == [n \in Nat |-> {}]
<1>5. /\ v \in [Seconds -> Nat] /\ l \in [Archivers -> [Seconds -> Nat]]
      /\ own \in [Nat -> Seconds] /\ X \in [Nat -> SUBSET Seconds]
  BY ArchiverAssumption DEF Seconds
<1> HIDE DEF v, l, own, X
<1>6. Timed(v, l, own, X, 0, 0)
  <2>1. Dated(v, l, own, 0) /\ InOrderOfTime(v, l)
    BY <1>2, <1>3 DEF Dated, InOrderOfTime, Ascending
  <2>2. Crossing(v, l, own, X, 0, 0) /\ FewCross(X, 0)
    BY DEF Crossing, FewCross
  <2>3. DoomedAreOld(l, 0) /\ EnoughAreSafe(v, own, X, 0)
    BY <1>2 DEF DoomedAreOld, EnoughAreSafe
  <2> QED
    BY <2>1, <2>2, <2>3 DEF Timed
<1> QED
  BY <1>1, <1>4, <1>5, <1>6 DEF OverlapInv, NowHasAMaker, HaveTimes

(* A change of a file brings no other file to light. *)
LEMMA TouchKnows ==
  ASSUME TypeOK, NEW f \in Seconds, Touch(f)
  PROVE  Known' = Known \cup {f}
<1>1. /\ vault \in Seq(Seconds) /\ IsInjective(vault) /\ vault' = ToEnd(vault, f)
      /\ \A b \in Archivers : all_files[b] \in Seq(Seconds) /\ IsInjective(all_files[b])
  BY DEF TypeOK, Touch
<1>2. ToSet(vault') = ToSet(vault) \cup {f}
  BY <1>1, ToEndFacts
<1>3. PICK late \in SUBSET Archivers :
        all_files' = [b \in Archivers |-> IF b \in late THEN ToEnd(all_files[b], f) ELSE all_files[b]]
  BY TouchedLists, Zenon
<1>4. ASSUME NEW b \in Archivers
      PROVE  ToSet(all_files[b]) \subseteq ToSet(all_files'[b])
             /\ ToSet(all_files'[b]) \subseteq ToSet(all_files[b]) \cup {f}
  <2>1. PICK s \in Seq(Seconds) : s = all_files[b] /\ IsInjective(s)
    BY <1>1
  <2>2. ToSet(ToEnd(s, f)) = ToSet(s) \cup {f}
    BY <2>1, ToEndFacts
  <2> QED
    BY <1>3, <2>1, <2>2
<1> QED
  BY <1>2, <1>4 DEF Known

(* A function with another value at one place. *)
LEMMA ExceptFacts ==
  ASSUME NEW S, NEW T, NEW g \in [S -> T], NEW x \in S, NEW y \in T
  PROVE  /\ [g EXCEPT ![x] = y] \in [S -> T]
         /\ [g EXCEPT ![x] = y][x] = y
         /\ \A z \in S \ {x} : [g EXCEPT ![x] = y][z] = g[z]
OBVIOUS

(* A change of file f is one more of them.  What can cross it is in Y.      *)
LEMMA TouchTimes ==
  ASSUME TypeOK, TypeOK', HaveTimes, NEW f \in Seconds, Touch(f), now' = now,
         f = now \/ Held(f),
         \A x : Held(x)' => Held(x) \/ x = now,
         \A a \in Archivers : pc'[a] = "rotating" => pc[a] = "rotating",
         NEW Y \in SUBSET Seconds, Cardinality(Y) < Cardinality(Archivers),
         \A x \in Known' \ {f} : x = now \/ Held(x)' => x \in Y
  PROVE  HaveTimes'
<1>1. PICK v \in [Seconds -> Nat], l \in [Archivers -> [Seconds -> Nat]], own \in [Nat -> Seconds],
           X \in [Nat -> SUBSET Seconds], c \in Nat, top \in Nat : Timed(v, l, own, X, c, top)
  BY DEF HaveTimes
<1>2. /\ top <= c /\ Dated(v, l, own, c) /\ InOrderOfTime(v, l) /\ Crossing(v, l, own, X, c, top)
      /\ FewCross(X, c) /\ DoomedAreOld(l, top) /\ EnoughAreSafe(v, own, X, top)
  BY <1>1 DEF Timed
<1>3. c + 1 \in Nat
  OBVIOUS
<1>4. PICK late \in SUBSET Archivers :
        /\ all_files' = [b \in Archivers |-> IF b \in late THEN ToEnd(all_files[b], f) ELSE all_files[b]]
        /\ \A b \in late : pc[b] = "sorting" /\ f \in ToSet(all_files[b])
  BY TouchedLists, Zenon
<1>5. PICK v1 \in [Seconds -> Nat] : v1 = [v EXCEPT ![f] = c + 1]
  BY <1>3, ExceptFacts
<1>6. PICK l1 \in [Archivers -> [Seconds -> Nat]] :
        l1 = [b \in Archivers |-> IF b \in late THEN [l[b] EXCEPT ![f] = c + 1] ELSE l[b]]
  <2>1. \A b \in Archivers : l[b] \in [Seconds -> Nat] /\ [l[b] EXCEPT ![f] = c + 1] \in [Seconds -> Nat]
    BY <1>3, ExceptFacts
  <2> QED
    BY <2>1
<1>7. PICK own1 \in [Nat -> Seconds] : own1 = [own EXCEPT ![c + 1] = f]
  BY <1>3, ExceptFacts
<1>8. PICK X1 \in [Nat -> SUBSET Seconds] : X1 = [X EXCEPT ![c + 1] = Y]
  BY <1>3, ExceptFacts
<1>9. /\ v1[f] = c + 1 /\ \A x \in Seconds \ {f} : v1[x] = v[x]
      /\ own1[c + 1] = f /\ X1[c + 1] = Y
      /\ \A t \in 1 .. c : own1[t] = own[t] /\ X1[t] = X[t]
      /\ \A b \in Archivers : \A x \in Seconds :
           l1[b][x] = IF b \in late /\ x = f THEN c + 1 ELSE l[b][x]
      /\ \A b \in Archivers : b \notin late => l1[b] = l[b]
      /\ \A b \in late : l1[b] = [l[b] EXCEPT ![f] = c + 1]
  <2>1. v1[f] = c + 1 /\ \A x \in Seconds \ {f} : v1[x] = v[x]
    BY <1>3, <1>5, ExceptFacts
  <2>2. own1[c + 1] = f /\ X1[c + 1] = Y
    BY <1>3, <1>7, <1>8, ExceptFacts
  <2>3. \A t \in 1 .. c : t \in Nat /\ t # c + 1
    OBVIOUS
  <2>4. \A t \in 1 .. c : own1[t] = own[t] /\ X1[t] = X[t]
    BY <1>3, <1>7, <1>8, <2>3, ExceptFacts
  <2>5. /\ \A b \in Archivers : b \notin late => l1[b] = l[b]
        /\ \A b \in late : l1[b] = [l[b] EXCEPT ![f] = c + 1]
    BY <1>6
  <2>6. ASSUME NEW b \in Archivers, NEW x \in Seconds
        PROVE  l1[b][x] = IF b \in late /\ x = f THEN c + 1 ELSE l[b][x]
    <3>1. l[b] \in [Seconds -> Nat]
      OBVIOUS
    <3>2. CASE b \in late
      <4>1. l1[b] = [l[b] EXCEPT ![f] = c + 1]
        BY <2>5, <3>2
      <4>2. /\ [l[b] EXCEPT ![f] = c + 1][f] = c + 1
            /\ \A z \in Seconds \ {f} : [l[b] EXCEPT ![f] = c + 1][z] = l[b][z]
        BY <1>3, <3>1, ExceptFacts
      <4> QED
        BY <3>2, <4>1, <4>2
    <3>3. CASE b \notin late
      BY <2>5, <3>3
    <3> QED
      BY <3>2, <3>3
  <2> QED
    BY <2>1, <2>2, <2>4, <2>5, <2>6
<1>10. /\ vault \in Seq(Seconds) /\ IsInjective(vault) /\ vault' = ToEnd(vault, f)
      /\ \A b \in Archivers : all_files[b] \in Seq(Seconds) /\ IsInjective(all_files[b])
  BY DEF TypeOK, Touch
<1>11. ToSet(vault') = ToSet(vault) \cup {f}
  BY <1>10, ToEndFacts
<1>12. ASSUME NEW b \in Archivers PROVE ToSet(all_files'[b]) = ToSet(all_files[b])
  <2>1. CASE b \in late
    <3> DEFINE s == all_files[b]
    <3>1. s \in Seq(Seconds) /\ IsInjective(s) /\ f \in ToSet(s) /\ all_files'[b] = ToEnd(s, f)
      BY <1>4, <1>10, <2>1
    <3> HIDE DEF s
    <3>2. ToSet(ToEnd(s, f)) = ToSet(s) \cup {f}
      BY <3>1, ToEndFacts
    <3>3. ToSet(all_files'[b]) = ToSet(s)
      BY <3>1, <3>2
    <3> QED
      BY <3>3 DEF s
  <2>2. CASE b \notin late
    BY <1>4, <2>2
  <2> QED
    BY <2>1, <2>2
<1>13. /\ ToSet(vault) \subseteq Seconds
       /\ \A b \in Archivers : ToSet(all_files[b]) \subseteq Seconds
  BY FilesAreFinite
<1>14. /\ \A x \in ToSet(vault) : v[x] \in 1 .. c /\ own[v[x]] = x
       /\ \A b \in Archivers : \A x \in ToSet(all_files[b]) :
            /\ l[b][x] \in 1 .. c /\ own[l[b][x]] = x
            /\ x \in ToSet(vault) => l[b][x] <= v[x]
  BY <1>2 DEF Dated
<1>15. Dated(v1, l1, own1, c + 1)'
  <2>1. ASSUME NEW x \in ToSet(vault) \cup {f} PROVE v1[x] \in 1 .. c + 1 /\ own1[v1[x]] = x
    <3>1. CASE x = f
      BY <1>9, <3>1
    <3>2. CASE x # f
      BY <1>9, <1>13, <1>14, <2>1, <3>2
    <3> QED
      BY <3>1, <3>2
  <2>2. ASSUME NEW b \in Archivers, NEW x \in ToSet(all_files[b])
        PROVE  /\ l1[b][x] \in 1 .. c + 1 /\ own1[l1[b][x]] = x
               /\ x \in ToSet(vault) \cup {f} => l1[b][x] <= v1[x]
    <3>1. x \in Seconds
      BY <1>13
    <3>2. CASE b \in late /\ x = f
      BY <1>9, <3>1, <3>2
    <3>3. CASE ~(b \in late /\ x = f)
      <4>1. l1[b][x] = l[b][x] /\ l[b][x] \in 1 .. c /\ own[l[b][x]] = x
        BY <1>9, <1>14, <3>1, <3>3
      <4>2. own1[l1[b][x]] = x
        BY <1>9, <4>1
      <4>3. CASE x = f
        BY <1>9, <4>1, <4>2, <4>3
      <4>4. CASE x # f
        <5>1. v1[x] = v[x] /\ (x \in ToSet(vault) => l[b][x] <= v[x])
          BY <1>9, <1>14, <3>1, <4>4
        <5>2. l1[b][x] \in 1 .. c + 1
          BY <4>1
        <5> QED
          BY <4>1, <4>2, <4>4, <5>1, <5>2
      <4> QED
        BY <4>3, <4>4
    <3> QED
      BY <3>2, <3>3
  <2> QED
    BY <1>11, <1>12, <2>1, <2>2 DEF Dated
<1>16. InOrderOfTime(v1, l1)'
  <2>1. Ascending(vault', v1)
    <3>1. Ascending(vault, v) /\ \A x \in ToSet(vault) : v[x] <= c
      BY <1>2, <1>14 DEF InOrderOfTime
    <3> QED
      BY <1>5, <1>10, <3>1, ToEndAscends
  <2>2. ASSUME NEW b \in Archivers PROVE Ascending(all_files'[b], l1[b])
    <3>1. Ascending(all_files[b], l[b]) /\ \A x \in ToSet(all_files[b]) : l[b][x] <= c
      BY <1>2, <1>14 DEF InOrderOfTime
    <3>2. CASE b \in late
      <4> DEFINE s == all_files[b]
                 t == l[b]
      <4>1. s \in Seq(Seconds) /\ IsInjective(s) /\ t \in [Seconds -> Nat]
        BY <1>10
      <4>2. all_files'[b] = ToEnd(s, f) /\ l1[b] = [t EXCEPT ![f] = c + 1]
        BY <1>4, <1>9, <3>2
      <4>3. Ascending(s, t) /\ \A x \in ToSet(s) : t[x] <= c
        BY <3>1
      <4> HIDE DEF s, t
      <4>4. Ascending(ToEnd(s, f), [t EXCEPT ![f] = c + 1])
        BY <4>1, <4>3, ToEndAscends
      <4> QED
        BY <4>2, <4>4
    <3>3. CASE b \notin late
      <4>1. all_files'[b] = all_files[b] /\ l1[b] = l[b]
        BY <1>4, <1>9, <3>3
      <4> QED
        BY <3>1, <4>1
    <3> QED
      BY <3>2, <3>3
  <2> QED
    BY <2>1, <2>2 DEF InOrderOfTime
<1>17. Crossing(v1, l1, own1, X1, c + 1, top)'
  <2> SUFFICES ASSUME NEW t \in 1 .. c + 1, NEW x \in Seconds, x \notin X1[t], x # own1[t]
               PROVE  /\ ~(ListedBy(l1, x, t)' /\ DatedAfter(v1, l1, x, t)')
                      /\ ~(DatedBy(v1, l1, x, t)' /\ (x = now' \/ Held(x)'))
                      /\ ~(top < t /\ x \notin ToSet(vault') /\ ListedAfter(l1, x, t)')
      BY DEF Crossing
  <2>1. CASE t = c + 1
    <3>1. x # f /\ x \notin Y
      BY <1>9, <2>1
    <3>2. ~DatedAfter(v1, l1, x, t)' /\ ~ListedAfter(l1, x, t)'
      BY <1>15, <2>1 DEF Dated, DatedAfter, ListedAfter
    <3>3. ASSUME DatedBy(v1, l1, x, t)' PROVE x \in Known'
      BY <3>3 DEF DatedBy, ListedBy, Known
    <3> QED
      BY <3>1, <3>2, <3>3
  <2>2. CASE t \in 1 .. c
    <3>1. x \notin X[t] /\ x # own[t]
      BY <1>9, <2>2
    <3>2. /\ ~(ListedBy(l, x, t) /\ DatedAfter(v, l, x, t))
          /\ ~(DatedBy(v, l, x, t) /\ (x = now \/ Held(x)))
          /\ ~(top < t /\ x \notin ToSet(vault) /\ ListedAfter(l, x, t))
      BY <1>2, <2>2, <3>1 DEF Crossing
    <3>3. ListedBy(l1, x, t)' => ListedBy(l, x, t)
      <4> SUFFICES ASSUME NEW b \in Archivers, x \in ToSet(all_files'[b]), l1[b][x] <= t
                   PROVE  ListedBy(l, x, t)
          BY DEF ListedBy
      <4>1. ~(b \in late /\ x = f)
        BY <1>9, <2>2
      <4>2. l1[b][x] = l[b][x]
        BY <1>9, <4>1
      <4> QED
        BY <1>12, <4>2 DEF ListedBy
    <3>4. DatedBy(v1, l1, x, t)' => DatedBy(v, l, x, t)
      BY <1>9, <1>11, <2>2, <3>3 DEF DatedBy
    <3>5. x # f => (ListedAfter(l1, x, t)' => ListedAfter(l, x, t))
      BY <1>9, <1>12 DEF ListedAfter
    <3>6. x # f => (DatedAfter(v1, l1, x, t)' => DatedAfter(v, l, x, t))
      BY <1>9, <1>11, <3>5 DEF DatedAfter
    <3>7. x = f => ~ListedBy(l, x, t)
      BY <3>2 DEF DatedBy
    <3> QED
      BY <1>11, <3>2, <3>3, <3>4, <3>5, <3>6, <3>7
  <2> QED
    BY <2>1, <2>2
<1>18. FewCross(X1, c + 1)'
  <2> SUFFICES ASSUME NEW t \in 1 .. c + 1 PROVE Cardinality(X1[t]) < Cardinality(Archivers)
      BY DEF FewCross
  <2>1. CASE t = c + 1
    BY <1>9, <2>1
  <2>2. CASE t # c + 1
    <3>1. t \in 1 .. c
      BY <2>2
    <3> QED
      BY <1>2, <1>9, <3>1 DEF FewCross
  <2> QED
    BY <2>1, <2>2
<1>19. DoomedAreOld(l1, top)'
  <2> SUFFICES ASSUME NEW b \in Archivers, pc'[b] = "rotating"
               PROVE  all_files'[b] = all_files[b] /\ l1[b] = l[b] /\ pc[b] = "rotating"
      BY <1>2 DEF DoomedAreOld
  <2> QED
    BY <1>4, <1>9
<1>20. EnoughAreSafe(v1, own1, X1, top)'
  <2>1. CASE top = 0
    BY <2>1 DEF EnoughAreSafe
  <2>2. CASE top # 0
    <3>1. top \in 1 .. c
      BY <1>2, <2>2
    <3>2. own1[top] = own[top] /\ X1[top] = X[top] /\ top < c + 1
      BY <1>9, <3>1
    <3>3. ASSUME NEW x \in ToSet(vault), v[x] > top PROVE x \in ToSet(vault') /\ v1[x] > top
      BY <1>9, <1>11, <1>13, <3>2, <3>3
    <3>4. Safe(v, own, X, top) \subseteq Safe(v1, own1, X1, top)'
      BY <3>2, <3>3 DEF Safe
    <3> QED
      BY <1>2, <3>4, SafeStay
  <2> QED
    BY <2>1, <2>2
<1>21. Timed(v1, l1, own1, X1, c + 1, top)'
  BY <1>2, <1>15, <1>16, <1>17, <1>18, <1>19, <1>20 DEF Timed
<1> QED
  BY <1>3, <1>21, Zenon DEF HaveTimes

(* The start of a copy: the file of this second changes, and only the other *)
(* archivers hold files that can cross it.                                  *)
LEMMA StartCopyOverlap ==
  ASSUME OverlapInv, NEW a \in Archivers, StartCopy(a)
  PROVE  OverlapInv'
<1>1. TypeOK /\ TypeOK'
  BY StartCopyTypes DEF OverlapInv
<1>2. /\ pc[a] = "idle" /\ pc' = [pc EXCEPT ![a] = "copying"]
      /\ name' = [name EXCEPT ![a] = now] /\ Touch(now) /\ now' = now
  BY DEF StartCopy, Goto
<1>3. /\ now \in Seconds /\ now \in Nat
      /\ pc \in [Archivers -> {"idle", "copying", "listing", "sorting", "rotating"}]
      /\ name \in [Archivers -> Seconds]
  BY <1>1 DEF TypeOK, Seconds
<1>4. /\ pc'[a] = "copying" /\ name'[a] = now
      /\ \A b \in Archivers \ {a} : pc'[b] = pc[b] /\ name'[b] = name[b]
  BY <1>2, <1>3
<1>5. \A x : Held(x)' => Held(x) \/ x = now
  BY <1>4 DEF Held
<1>6. Known' = Known \cup {now}
  BY <1>1, <1>2, <1>3, TouchKnows
<1>7. Known' \subseteq 0 .. now'
  BY <1>2, <1>3, <1>6 DEF OverlapInv
<1>8. NowHasAMaker'
  BY <1>2, <1>4 DEF NowHasAMaker
<1>9. HaveTimes'
  <2> DEFINE Y == {x \in Seconds \ {now} : Held(x)'}
  <2>1. \A x \in Y : \E b \in Archivers \ {a} : x = name'[b]
    BY <1>4 DEF Held
  <2>2. name' \in [Archivers -> Seconds]
    BY <1>1 DEF TypeOK
  <2> HIDE DEF Y
  <2>3. Cardinality(Y) < Cardinality(Archivers)
    <3>1. PICK g \in [Archivers -> Seconds] : g = name'
      BY <2>2
    <3> QED
      BY <2>1, <3>1, Answerable
  <2>4. Y \in SUBSET Seconds /\ \A x \in Known' \ {now} : x = now \/ Held(x)' => x \in Y
    <3>1. \A x : Held(x)' => x \in Seconds
      BY <2>2 DEF Held
    <3> QED
      BY <3>1 DEF Y
  <2>5. \A b \in Archivers : pc'[b] = "rotating" => pc[b] = "rotating"
    BY <1>4
  <2> QED
    BY <1>1, <1>2, <1>3, <1>5, <2>3, <2>4, <2>5, TouchTimes DEF OverlapInv
<1> QED
  BY <1>1, <1>7, <1>8, <1>9 DEF OverlapInv

(* The end of a copy: its file changes, and its archiver holds none any     *)
(* more.  What can cross it is held by the others; and if a file of this    *)
(* second is there, some archiver made it and holds no older one.           *)
LEMMA EndCopyOverlap ==
  ASSUME OverlapInv, NEW a \in Archivers, EndCopy(a)
  PROVE  OverlapInv'
<1>1. TypeOK /\ TypeOK'
  BY EndCopyTypes DEF OverlapInv
<1>2. PICK f \in Seconds : f = name[a]
  BY <1>1 DEF TypeOK
<1>3. /\ pc[a] = "copying" /\ pc' = [pc EXCEPT ![a] = "listing"]
      /\ name' = name /\ Touch(f) /\ now' = now /\ f \in ToSet(vault)
  BY <1>2 DEF EndCopy, Goto
<1>4. /\ now \in Seconds
      /\ pc \in [Archivers -> {"idle", "copying", "listing", "sorting", "rotating"}]
      /\ name \in [Archivers -> Seconds]
  BY <1>1 DEF TypeOK
<1>5. pc'[a] = "listing" /\ \A b \in Archivers \ {a} : pc'[b] = pc[b]
  BY <1>3, <1>4
<1>6. /\ Held(f)
      /\ \A x : Held(x)' => Held(x) /\ \E b \in Archivers \ {a} : x = name[b] /\ pc[b] = "copying"
  BY <1>2, <1>3, <1>5 DEF Held
<1>7. Known' = Known
  <2>1. Known' = Known \cup {f} /\ f \in Known
    BY <1>1, <1>3, TouchKnows DEF Known
  <2> QED
    BY <2>1
<1>8. Known' \subseteq 0 .. now' /\ NowHasAMaker'
  BY <1>3, <1>5, <1>7 DEF OverlapInv, NowHasAMaker
<1>9. HaveTimes'
  <2> DEFINE Y == {x \in Seconds \ {f} : (x = now /\ now \in Known) \/ Held(x)'}
  <2>1. \E g \in [Archivers -> Seconds] : \A x \in Y : \E b \in Archivers \ {a} : x = g[b]
    <3>1. CASE f # now /\ now \in Known
      <4>1. PICK d \in Archivers : pc[d] = "copying" => name[d] = now
        BY <3>1 DEF OverlapInv, NowHasAMaker
      <4>2. d # a
        BY <1>2, <1>3, <3>1, <4>1
      <4> DEFINE g == [b \in Archivers |-> IF b = d THEN now ELSE name[b]]
      <4>3. g \in [Archivers -> Seconds]
        BY <1>4
      <4>4. ASSUME NEW x \in Y PROVE \E b \in Archivers \ {a} : x = g[b]
        <5>1. CASE x = now
          BY <4>2, <5>1
        <5>2. CASE x # now
          <6>1. PICK b \in Archivers \ {a} : x = name[b] /\ pc[b] = "copying"
            BY <1>6, <5>2
          <6>2. b # d
            BY <4>1, <5>2, <6>1
          <6> QED
            BY <6>1, <6>2
        <5> QED
          BY <5>1, <5>2
      <4> HIDE DEF g, Y
      <4> QED
        BY <4>3, <4>4
    <3>2. CASE f = now \/ now \notin Known
      <4>1. \A x \in Y : \E b \in Archivers \ {a} : x = name[b]
        BY <1>6, <3>2
      <4> QED
        BY <1>4, <4>1
    <3> QED
      BY <3>1, <3>2
  <2>2. /\ Y \in SUBSET Seconds
        /\ \A x \in Known' \ {f} : x = now' \/ Held(x)' => x \in Y
    <3>1. \A x : Held(x)' => x \in Seconds
      BY <1>4, <1>6
    <3> QED
      BY <1>3, <1>4, <1>7, <3>1
  <2> HIDE DEF Y
  <2>3. Cardinality(Y) < Cardinality(Archivers)
    BY <2>1, Answerable
  <2>4. \A b \in Archivers : pc'[b] = "rotating" => pc[b] = "rotating"
    BY <1>3, <1>5
  <2>5. \A x : Held(x)' => Held(x) \/ x = now
    BY <1>6
  <2> QED
    BY <1>1, <1>3, <1>6, <2>2, <2>3, <2>4, <2>5, TouchTimes DEF OverlapInv
<1> QED
  BY <1>1, <1>8, <1>9 DEF OverlapInv

(* What the removal of the first file of a list leaves of it. *)
LEMMA RemovedList ==
  ASSUME TypeOK, NEW a \in Archivers, RemoveOldest(a)
  PROVE  LET s == all_files[a] IN
         /\ s \in Seq(Seconds) /\ Len(s) \in Nat /\ Len(s) > MaxBackups /\ DOMAIN s = 1 .. Len(s)
         /\ Head(s) = s[1] /\ Head(s) \in Seconds /\ 1 \in 1 .. Len(s) - MaxBackups
         /\ Len(all_files'[a]) = Len(s) - 1
         /\ DOMAIN all_files'[a] = 1 .. Len(s) - 1
         /\ \A p \in 1 .. Len(s) - 1 : p + 1 \in 1 .. Len(s) /\ all_files'[a][p] = s[p + 1]
         /\ ToSet(all_files'[a]) \subseteq ToSet(s)
         /\ \A b \in Archivers \ {a} : all_files'[b] = all_files[b]
<1> DEFINE s == all_files[a]
<1>1. s \in Seq(Seconds) /\ IsInjective(s) /\ all_files \in [Archivers -> Seq(Seconds)]
  BY DEF TypeOK
<1>2. Len(s) > MaxBackups /\ all_files' = [all_files EXCEPT ![a] = Tail(s)]
  BY DEF RemoveOldest, Excessive
<1>3. all_files'[a] = Tail(s) /\ \A b \in Archivers \ {a} : all_files'[b] = all_files[b]
  BY <1>1, <1>2
<1> HIDE DEF s
<1>4. Len(s) \in Nat /\ s # <<>> /\ DOMAIN s = 1 .. Len(s) /\ 1 \in 1 .. Len(s) - MaxBackups
  BY <1>1, <1>2, ArchiverAssumption
<1>5. /\ Head(s) = s[1] /\ Head(s) \in Seconds /\ Len(Tail(s)) = Len(s) - 1
      /\ \A p \in 1 .. Len(s) - 1 : p + 1 \in 1 .. Len(s) /\ Tail(s)[p] = s[p + 1]
      /\ DOMAIN Tail(s) = 1 .. Len(s) - 1
  BY <1>1, <1>4, TailFacts
<1>6. ToSet(Tail(s)) \subseteq ToSet(s)
  BY <1>4, <1>5 DEF ToSet
<1> QED
  BY <1>1, <1>2, <1>3, <1>4, <1>5, <1>6 DEF s

(* A removal: its file is one that rotations may remove, so the safe files  *)
(* stay.                                                                    *)
LEMMA RemoveOverlap ==
  ASSUME OverlapInv, NEW a \in Archivers, RemoveOldest(a)
  PROVE  /\ OverlapInv'
         /\ Len(vault') + Cardinality(Archivers) > MaxBackups
<1>1. TypeOK /\ TypeOK'
  BY RemoveTypes DEF OverlapInv
<1>2. PICK s \in Seq(Seconds) : s = all_files[a]
  BY <1>1 DEF TypeOK
<1>3. /\ Len(s) \in Nat /\ Len(s) > MaxBackups /\ DOMAIN s = 1 .. Len(s)
      /\ Head(s) = s[1] /\ Head(s) \in Seconds /\ 1 \in 1 .. Len(s) - MaxBackups
      /\ Len(all_files'[a]) = Len(s) - 1
      /\ DOMAIN all_files'[a] = 1 .. Len(s) - 1
      /\ \A p \in 1 .. Len(s) - 1 : p + 1 \in 1 .. Len(s) /\ all_files'[a][p] = s[p + 1]
      /\ ToSet(all_files'[a]) \subseteq ToSet(s)
      /\ \A b \in Archivers \ {a} : all_files'[b] = all_files[b]
  BY <1>1, <1>2, RemovedList
<1>4. PICK n \in Nat : n = Len(s) /\ DOMAIN s = 1 .. n
  BY <1>3
<1>5. /\ DOMAIN all_files'[a] = 1 .. n - 1 /\ Len(all_files'[a]) = n - 1
       /\ \A p \in 1 .. n - 1 : all_files'[a][p] = s[p + 1]
  BY <1>3, <1>4
<1>6. PICK f \in Seconds : f = s[1]
  BY <1>3
<1>7. /\ pc[a] = "rotating" /\ vault' = RemoveFirst(vault, f) /\ f \in ToSet(vault)
      /\ UNCHANGED <<now, pc, name>>
  BY <1>2, <1>3, <1>6 DEF RemoveOldest
<1>8. vault \in Seq(Seconds) /\ IsInjective(vault) /\ MaxBackups \in Nat
  BY <1>1, ArchiverAssumption DEF TypeOK
<1>9. ToSet(vault') = ToSet(vault) \ {f}
  BY <1>7, <1>8, RemoveFirstFacts
<1>10. \A b \in Archivers : ToSet(all_files'[b]) \subseteq ToSet(all_files[b])
  BY <1>2, <1>3
<1>11. f \in ToSet(all_files[a])
  BY <1>2, <1>3, <1>6, <1>8 DEF ToSet
<1>12. \A x : Held(x)' <=> Held(x)
  BY <1>7 DEF Held
<1>13. Known' \subseteq Known
  BY <1>9, <1>10 DEF Known
<1>14. Known' \subseteq 0 .. now' /\ NowHasAMaker'
  BY <1>7, <1>13 DEF OverlapInv, NowHasAMaker
<1>15. PICK v \in [Seconds -> Nat], l \in [Archivers -> [Seconds -> Nat]], own \in [Nat -> Seconds],
            X \in [Nat -> SUBSET Seconds], c \in Nat, top \in Nat : Timed(v, l, own, X, c, top)
  BY DEF OverlapInv, HaveTimes
<1>16. /\ top <= c /\ Dated(v, l, own, c) /\ InOrderOfTime(v, l) /\ Crossing(v, l, own, X, c, top)
       /\ FewCross(X, c) /\ DoomedAreOld(l, top) /\ EnoughAreSafe(v, own, X, top)
  BY <1>15 DEF Timed
<1>17. l[a][f] <= top /\ l[a][f] \in 1 .. c
  BY <1>2, <1>3, <1>6, <1>7, <1>11, <1>16 DEF DoomedAreOld, Dated
<1>18. Dated(v, l, own, c)'
  BY <1>9, <1>10, <1>16 DEF Dated
<1>19. InOrderOfTime(v, l)'
  <2>1. Ascending(vault', v)
    BY <1>7, <1>8, <1>16, RemovedAscends DEF InOrderOfTime
  <2>2. Ascending(all_files'[a], l[a])
    <3>1. Ascending(s, l[a])
      BY <1>2, <1>16 DEF InOrderOfTime
    <3>2. ASSUME NEW i \in 1 .. n - 1, NEW j \in 1 .. n - 1, i < j
          PROVE  l[a][all_files'[a][i]] < l[a][all_files'[a][j]]
      <4>1. i + 1 \in 1 .. n /\ j + 1 \in 1 .. n /\ i + 1 < j + 1
        BY <3>2
      <4>2. l[a][s[i + 1]] < l[a][s[j + 1]]
        BY <1>4, <3>1, <4>1 DEF Ascending
      <4> QED
        BY <1>5, <4>2
    <3> QED
      BY <1>5, <3>2 DEF Ascending
  <2> QED
    BY <1>3, <1>16, <2>1, <2>2 DEF InOrderOfTime
<1>20. Crossing(v, l, own, X, c, top)'
  <2> SUFFICES ASSUME NEW t \in 1 .. c, NEW x \in Seconds, x \notin X[t], x # own[t]
               PROVE  /\ ~(ListedBy(l, x, t)' /\ DatedAfter(v, l, x, t)')
                      /\ ~(DatedBy(v, l, x, t)' /\ (x = now' \/ Held(x)'))
                      /\ ~(top < t /\ x \notin ToSet(vault') /\ ListedAfter(l, x, t)')
      BY DEF Crossing
  <2>1. /\ ~(ListedBy(l, x, t) /\ DatedAfter(v, l, x, t))
        /\ ~(DatedBy(v, l, x, t) /\ (x = now \/ Held(x)))
        /\ ~(top < t /\ x \notin ToSet(vault) /\ ListedAfter(l, x, t))
    BY <1>16 DEF Crossing
  <2>2. /\ ListedBy(l, x, t)' => ListedBy(l, x, t)
        /\ ListedAfter(l, x, t)' => ListedAfter(l, x, t)
    BY <1>10 DEF ListedBy, ListedAfter
  <2>3. /\ DatedBy(v, l, x, t)' => DatedBy(v, l, x, t)
        /\ DatedAfter(v, l, x, t)' => DatedAfter(v, l, x, t)
    BY <1>9, <2>2 DEF DatedBy, DatedAfter
  <2>4. ~(top < t /\ x \notin ToSet(vault') /\ ListedAfter(l, x, t)')
    <3>1. CASE x # f
      BY <1>9, <2>1, <2>2, <3>1
    <3>2. CASE x = f
      <4>1. top < t => ListedBy(l, x, t)
        BY <1>11, <1>17, <3>2 DEF ListedBy
      <4>2. ListedAfter(l, x, t)' => DatedAfter(v, l, x, t)
        BY <2>2 DEF DatedAfter
      <4> QED
        BY <2>1, <4>1, <4>2
    <3> QED
      BY <3>1, <3>2
  <2> QED
    BY <1>7, <1>12, <2>1, <2>2, <2>3, <2>4
<1>21. FewCross(X, c)'
  BY <1>16 DEF FewCross
<1>22. DoomedAreOld(l, top)'
  <2> SUFFICES ASSUME NEW b \in Archivers, pc[b] = "rotating",
                      NEW p \in 1 .. Len(all_files'[b]) - MaxBackups
               PROVE  l[b][all_files'[b][p]] <= top
      BY <1>7 DEF DoomedAreOld
  <2>1. CASE b = a
    <3>1. p \in 1 .. n - 1 /\ p + 1 \in 1 .. n - MaxBackups
      <4>1. p \in 1 .. (n - 1) - MaxBackups
        BY <1>5, <2>1
      <4> QED
        BY <4>1, ArchiverAssumption
    <3>2. l[a][s[p + 1]] <= top
      BY <1>2, <1>4, <1>7, <1>16, <3>1 DEF DoomedAreOld
    <3> QED
      BY <1>5, <2>1, <3>1, <3>2
  <2>2. CASE b # a
    <3>1. all_files'[b] = all_files[b]
      BY <1>3, <2>2
    <3> QED
      BY <1>16, <3>1 DEF DoomedAreOld
  <2> QED
    BY <2>1, <2>2
<1>23. top \in 1 .. c
  BY <1>16, <1>17
<1>24. f \notin Safe(v, own, X, top)
  <2> SUFFICES ASSUME v[f] > top, f # own[top] PROVE f \in X[top]
      BY DEF Safe
  <2>1. ListedBy(l, f, top) /\ DatedAfter(v, l, f, top)
    BY <1>7, <1>11, <1>17 DEF ListedBy, DatedAfter
  <2> QED
    BY <1>16, <1>23, <2>1 DEF Crossing
<1>25. Safe(v, own, X, top) \subseteq Safe(v, own, X, top)'
  BY <1>9, <1>24 DEF Safe
<1>26. EnoughAreSafe(v, own, X, top)'
  BY <1>1, <1>16, <1>25, SafeStay
<1>27. HaveTimes'
  <2>1. Timed(v, l, own, X, c, top)'
    BY <1>16, <1>18, <1>19, <1>20, <1>21, <1>22, <1>26 DEF Timed
  <2> QED
    BY <2>1 DEF HaveTimes
<1>28. Len(vault') + Cardinality(Archivers) > MaxBackups
  <2> DEFINE Z == Safe(v, own, X, top)'
  <2>1. Cardinality(Z) + Cardinality(Archivers) > MaxBackups
    BY <1>23, <1>26 DEF EnoughAreSafe
  <2>2. Z \subseteq ToSet(vault')
    BY DEF Safe
  <2>3. /\ IsFiniteSet(ToSet(vault')) /\ Cardinality(ToSet(vault')) = Len(vault')
        /\ Len(vault') \in Nat
    BY <1>1, SizeFacts, SeqFacts DEF TypeOK
  <2> HIDE DEF Z
  <2>4. IsFiniteSet(Z) /\ Cardinality(Z) <= Len(vault')
    BY <2>2, <2>3, FS_Subset
  <2>5. Cardinality(Z) \in Nat /\ Cardinality(Archivers) \in Nat
    BY <2>4, FS_CardinalityType, ArchiverAssumption
  <2> QED
    BY <1>8, <2>1, <2>3, <2>4, <2>5
<1> QED
  BY <1>1, <1>14, <1>27, <1>28 DEF OverlapInv

(* A listing: the list knows the files as the vault does. *)
LEMMA ListOverlap ==
  ASSUME OverlapInv, NEW a \in Archivers, ListBackups(a)
  PROVE  OverlapInv'
<1>1. TypeOK /\ TypeOK'
  BY TypesStep DEF OverlapInv, Next, Step
<1>2. /\ pc[a] = "listing" /\ pc' = [pc EXCEPT ![a] = "sorting"]
      /\ all_files' = [all_files EXCEPT ![a] = vault]
      /\ UNCHANGED <<now, vault, name>>
  BY DEF ListBackups, Goto
<1>3. /\ all_files'[a] = vault /\ pc'[a] = "sorting"
      /\ \A b \in Archivers \ {a} : all_files'[b] = all_files[b] /\ pc'[b] = pc[b]
  BY <1>1, <1>2 DEF TypeOK
<1>4. \A x : Held(x)' => Held(x)
  BY <1>2, <1>3 DEF Held
<1>5. Known' \subseteq Known
  BY <1>2, <1>3 DEF Known
<1>6. Known' \subseteq 0 .. now' /\ NowHasAMaker'
  BY <1>2, <1>3, <1>5 DEF OverlapInv, NowHasAMaker
<1>7. PICK v \in [Seconds -> Nat], l \in [Archivers -> [Seconds -> Nat]], own \in [Nat -> Seconds],
           X \in [Nat -> SUBSET Seconds], c \in Nat, top \in Nat : Timed(v, l, own, X, c, top)
  BY DEF OverlapInv, HaveTimes
<1>8. /\ top <= c /\ Dated(v, l, own, c) /\ InOrderOfTime(v, l) /\ Crossing(v, l, own, X, c, top)
      /\ FewCross(X, c) /\ DoomedAreOld(l, top) /\ EnoughAreSafe(v, own, X, top)
  BY <1>7 DEF Timed
<1>9. PICK l1 \in [Archivers -> [Seconds -> Nat]] : l1 = [l EXCEPT ![a] = v]
  BY ExceptFacts
<1>10. l1[a] = v /\ \A b \in Archivers \ {a} : l1[b] = l[b]
  BY <1>9
<1>11. Dated(v, l1, own, c)'
  <2>1. \A x \in ToSet(vault) : v[x] \in 1 .. c /\ own[v[x]] = x /\ v[x] <= v[x]
    BY <1>8 DEF Dated
  <2>2. ASSUME NEW b \in Archivers, NEW x \in ToSet(all_files'[b])
        PROVE  /\ l1[b][x] \in 1 .. c /\ own[l1[b][x]] = x
               /\ x \in ToSet(vault) => l1[b][x] <= v[x]
    <3>1. CASE b = a
      BY <1>3, <1>10, <2>1, <3>1
    <3>2. CASE b # a
      <4>1. all_files'[b] = all_files[b] /\ l1[b] = l[b]
        BY <1>3, <1>10, <3>2
      <4> QED
        BY <1>8, <4>1 DEF Dated
    <3> QED
      BY <3>1, <3>2
  <2> QED
    BY <1>2, <2>1, <2>2 DEF Dated
<1>12. InOrderOfTime(v, l1)'
  <2>1. ASSUME NEW b \in Archivers PROVE Ascending(all_files'[b], l1[b])
    <3>1. CASE b = a
      BY <1>3, <1>8, <1>10, <3>1 DEF InOrderOfTime
    <3>2. CASE b # a
      BY <1>3, <1>8, <1>10, <3>2 DEF InOrderOfTime
    <3> QED
      BY <3>1, <3>2
  <2> QED
    BY <1>2, <1>8, <2>1 DEF InOrderOfTime
<1>13. Crossing(v, l1, own, X, c, top)'
  <2> SUFFICES ASSUME NEW t \in 1 .. c, NEW x \in Seconds, x \notin X[t], x # own[t]
               PROVE  /\ ~(ListedBy(l1, x, t)' /\ DatedAfter(v, l1, x, t)')
                      /\ ~(DatedBy(v, l1, x, t)' /\ (x = now' \/ Held(x)'))
                      /\ ~(top < t /\ x \notin ToSet(vault') /\ ListedAfter(l1, x, t)')
      BY DEF Crossing
  <2>1. /\ ~(ListedBy(l, x, t) /\ DatedAfter(v, l, x, t))
        /\ ~(DatedBy(v, l, x, t) /\ (x = now \/ Held(x)))
        /\ ~(top < t /\ x \notin ToSet(vault) /\ ListedAfter(l, x, t))
    BY <1>8 DEF Crossing
  <2>2. ListedBy(l1, x, t)' => ListedBy(l, x, t) \/ (x \in ToSet(vault) /\ v[x] <= t)
    <3> SUFFICES ASSUME NEW b \in Archivers, x \in ToSet(all_files'[b]), l1[b][x] <= t
                 PROVE  ListedBy(l, x, t) \/ (x \in ToSet(vault) /\ v[x] <= t)
        BY DEF ListedBy
    <3> QED
      BY <1>3, <1>10 DEF ListedBy
  <2>3. ListedAfter(l1, x, t)' => ListedAfter(l, x, t) \/ (x \in ToSet(vault) /\ v[x] > t)
    <3> SUFFICES ASSUME NEW b \in Archivers, x \in ToSet(all_files'[b]), l1[b][x] > t
                 PROVE  ListedAfter(l, x, t) \/ (x \in ToSet(vault) /\ v[x] > t)
        BY DEF ListedAfter
    <3> QED
      BY <1>3, <1>10 DEF ListedAfter
  <2>4. /\ DatedBy(v, l1, x, t)' => DatedBy(v, l, x, t)
        /\ DatedAfter(v, l1, x, t)' => DatedAfter(v, l, x, t)
    BY <1>2, <2>2, <2>3 DEF DatedBy, DatedAfter
  <2>5. x \in ToSet(vault) /\ v[x] <= t => ~DatedAfter(v, l, x, t)
    <3> SUFFICES ASSUME x \in ToSet(vault), v[x] <= t PROVE ~ListedAfter(l, x, t)
        BY DEF DatedAfter
    <3>1. ASSUME NEW b \in Archivers, x \in ToSet(all_files[b]) PROVE ~(l[b][x] > t)
      <4>1. l[b][x] \in 1 .. c /\ l[b][x] <= v[x] /\ v[x] \in 1 .. c
        BY <1>8, <3>1 DEF Dated
      <4> QED
        BY <4>1
    <3> QED
      BY <3>1 DEF ListedAfter
  <2> QED
    BY <1>2, <1>4, <2>1, <2>2, <2>3, <2>4, <2>5
<1>14. FewCross(X, c)'
  BY <1>8 DEF FewCross
<1>15. DoomedAreOld(l1, top)'
  <2> SUFFICES ASSUME NEW b \in Archivers, pc'[b] = "rotating"
               PROVE  all_files'[b] = all_files[b] /\ l1[b] = l[b] /\ pc[b] = "rotating"
      BY <1>8 DEF DoomedAreOld
  <2> QED
    BY <1>3, <1>10
<1>16. EnoughAreSafe(v, own, X, top)'
  BY <1>2, <1>8 DEF EnoughAreSafe, Safe
<1>17. Timed(v, l1, own, X, c, top)'
  BY <1>8, <1>11, <1>12, <1>13, <1>14, <1>15, <1>16 DEF Timed
<1>18. HaveTimes'
  BY <1>17, Zenon DEF HaveTimes
<1> QED
  BY <1>1, <1>6, <1>18 DEF OverlapInv

(* Steps that leave the vault alone and lists as they are, or drop them.    *)
LEMMA QuietOverlap ==
  ASSUME OverlapInv, TypeOK', UNCHANGED <<vault, name>>,
         now' = now \/ now' = now + 1,
         \A b \in Archivers : all_files'[b] = all_files[b] \/ ToSet(all_files'[b]) = {},
         \A b \in Archivers : pc'[b] = "copying" => pc[b] = "copying",
         \A b \in Archivers : pc'[b] = "rotating" => pc[b] = "rotating" /\ all_files'[b] = all_files[b]
  PROVE  OverlapInv'
<1>1. TypeOK /\ now \in Nat
  BY DEF OverlapInv, TypeOK, Seconds
<1>2. \A b \in Archivers : ToSet(all_files'[b]) \subseteq ToSet(all_files[b])
  OBVIOUS
<1>3. \A x : Held(x)' => Held(x)
  BY DEF Held
<1>4. Known' \subseteq Known /\ Known \subseteq 0 .. now
  BY <1>2 DEF Known, OverlapInv
<1>5. now' = now + 1 => now' \notin Known
  BY <1>1, <1>4
<1>6. Known' \subseteq 0 .. now'
  BY <1>1, <1>4
<1>7. NowHasAMaker'
  BY <1>4, <1>5 DEF OverlapInv, NowHasAMaker
<1>8. PICK v \in [Seconds -> Nat], l \in [Archivers -> [Seconds -> Nat]], own \in [Nat -> Seconds],
           X \in [Nat -> SUBSET Seconds], c \in Nat, top \in Nat : Timed(v, l, own, X, c, top)
  BY DEF OverlapInv, HaveTimes
<1>9. /\ top <= c /\ Dated(v, l, own, c) /\ InOrderOfTime(v, l) /\ Crossing(v, l, own, X, c, top)
      /\ FewCross(X, c) /\ DoomedAreOld(l, top) /\ EnoughAreSafe(v, own, X, top)
  BY <1>8 DEF Timed
<1>10. Dated(v, l, own, c)'
  BY <1>2, <1>9 DEF Dated
<1>11. InOrderOfTime(v, l)'
  <2>1. ASSUME NEW b \in Archivers PROVE Ascending(all_files'[b], l[b])
    <3>1. CASE all_files'[b] = all_files[b]
      BY <1>9, <3>1 DEF InOrderOfTime
    <3>2. CASE ToSet(all_files'[b]) = {}
      <4>1. \A i \in DOMAIN all_files'[b] : all_files'[b][i] \in ToSet(all_files'[b])
        BY DEF ToSet
      <4>2. DOMAIN all_files'[b] = {}
        BY <3>2, <4>1
      <4> QED
        BY <4>2 DEF Ascending
    <3> QED
      BY <3>1, <3>2
  <2> QED
    BY <1>9, <2>1 DEF InOrderOfTime
<1>12. Crossing(v, l, own, X, c, top)'
  <2> SUFFICES ASSUME NEW t \in 1 .. c, NEW x \in Seconds, x \notin X[t], x # own[t]
               PROVE  /\ ~(ListedBy(l, x, t)' /\ DatedAfter(v, l, x, t)')
                      /\ ~(DatedBy(v, l, x, t)' /\ (x = now' \/ Held(x)'))
                      /\ ~(top < t /\ x \notin ToSet(vault') /\ ListedAfter(l, x, t)')
      BY DEF Crossing
  <2>1. /\ ~(ListedBy(l, x, t) /\ DatedAfter(v, l, x, t))
        /\ ~(DatedBy(v, l, x, t) /\ (x = now \/ Held(x)))
        /\ ~(top < t /\ x \notin ToSet(vault) /\ ListedAfter(l, x, t))
    BY <1>9 DEF Crossing
  <2>2. /\ ListedBy(l, x, t)' => ListedBy(l, x, t)
        /\ ListedAfter(l, x, t)' => ListedAfter(l, x, t)
    BY <1>2 DEF ListedBy, ListedAfter
  <2>3. /\ DatedBy(v, l, x, t)' => DatedBy(v, l, x, t)
        /\ DatedAfter(v, l, x, t)' => DatedAfter(v, l, x, t)
    BY <2>2 DEF DatedBy, DatedAfter
  <2>4. DatedBy(v, l, x, t)' => x \in Known
    BY <2>3 DEF DatedBy, ListedBy, Known
  <2> QED
    BY <1>3, <1>5, <2>1, <2>2, <2>3, <2>4
<1>13. FewCross(X, c)'
  BY <1>9 DEF FewCross
<1>14. DoomedAreOld(l, top)'
  BY <1>9 DEF DoomedAreOld
<1>15. EnoughAreSafe(v, own, X, top)'
  BY <1>9 DEF EnoughAreSafe, Safe
<1>16. Timed(v, l, own, X, c, top)'
  BY <1>9, <1>10, <1>11, <1>12, <1>13, <1>14, <1>15 DEF Timed
<1>17. HaveTimes'
  BY <1>16, Zenon DEF HaveTimes
<1> QED
  BY <1>6, <1>7, <1>17 DEF OverlapInv

(* The bound of the vault, and functions that are sequences. *)
LEMMA BoundIsNat == MaxBackups \in Nat /\ MaxBackups # 0 /\ MaxBackups > 0
  BY ArchiverAssumption

LEMMA FunctionIsSeq ==
  ASSUME NEW S, NEW n \in Nat, NEW w \in [1 .. n -> S]
  PROVE  w \in Seq(S) /\ Len(w) = n /\ DOMAIN w = 1 .. n
OBVIOUS

(* A rotation that removes anything removes files of its list up to some f, *)
(* the newest of them; max_backups files of the list, all newer, are left.  *)
LEMMA RemovedAndLeft ==
  ASSUME NEW s \in Seq(Seconds), IsInjective(s), Len(s) > MaxBackups,
         NEW r \in [Seconds -> Nat], Ascending(s, r)
  PROVE  \E f \in ToSet(s), T \in SUBSET ToSet(s) :
           /\ \A q \in 1 .. Len(s) - MaxBackups : s[q] \in Seconds /\ r[s[q]] <= r[f]
           /\ IsFiniteSet(T) /\ Cardinality(T) = MaxBackups
           /\ \A x \in T : r[f] < r[x]
<1>1. PICK m \in Nat : m = Len(s)
  OBVIOUS
<1>2. DOMAIN s = 1 .. m /\ \A i \in 1 .. m : s[i] \in Seconds /\ s[i] \in ToSet(s)
  BY <1>1, SeqFacts DEF ToSet
<1>3. PICK n \in Nat : n # 0 /\ m = n + MaxBackups /\ m - MaxBackups = n
  <2>1. m > MaxBackups
    BY <1>1
  <2>2. m - MaxBackups \in Nat /\ m - MaxBackups # 0 /\ m = (m - MaxBackups) + MaxBackups
    BY <2>1, BoundIsNat
  <2> QED
    BY <2>2
<1>4. /\ n \in 1 .. m /\ \A q \in 1 .. n : q \in 1 .. m /\ (q < n \/ q = n)
      /\ \A i \in 1 .. MaxBackups : n + i \in 1 .. m /\ n < n + i
  BY <1>3, BoundIsNat
<1>5. s[n] \in ToSet(s)
  BY <1>2, <1>4
<1>6. ASSUME NEW q \in 1 .. n PROVE s[q] \in Seconds /\ r[s[q]] <= r[s[n]]
  <2>1. s[q] \in Seconds /\ s[n] \in Seconds
    BY <1>2, <1>4
  <2>2. PICK i \in Nat, j \in Nat : i = r[s[q]] /\ j = r[s[n]]
    BY <2>1
  <2>3. q < n => i < j
    BY <1>2, <1>4, <2>2 DEF Ascending
  <2>4. q = n => i = j
    BY <2>2
  <2>5. i <= j
    BY <1>4, <2>3, <2>4
  <2> QED
    BY <2>1, <2>2, <2>5
<1> DEFINE w == [i \in 1 .. MaxBackups |-> s[n + i]]
<1>7. /\ w \in [1 .. MaxBackups -> ToSet(s)]
      /\ \A i \in 1 .. MaxBackups : w[i] = s[n + i]
  BY <1>2, <1>4
<1> HIDE DEF w
<1>8. w \in Seq(ToSet(s)) /\ Len(w) = MaxBackups /\ DOMAIN w = 1 .. MaxBackups
  BY <1>7, BoundIsNat, FunctionIsSeq
<1>9. IsInjective(w)
  <2>1. ASSUME NEW i \in 1 .. MaxBackups, NEW j \in 1 .. MaxBackups, w[i] = w[j] PROVE i = j
    <3>1. n + i \in DOMAIN s /\ n + j \in DOMAIN s /\ s[n + i] = s[n + j]
      BY <1>2, <1>4, <1>7, <2>1
    <3>2. n + i = n + j
      BY <3>1 DEF IsInjective
    <3> QED
      BY <3>2
  <2> QED
    BY <1>8, <2>1 DEF IsInjective
<1>10. IsFiniteSet(ToSet(w)) /\ Cardinality(ToSet(w)) = MaxBackups
  BY <1>8, <1>9, SizeFacts
<1>11. ToSet(w) \in SUBSET ToSet(s) /\ \A x \in ToSet(w) : r[s[n]] < r[x]
  <2> SUFFICES ASSUME NEW i \in 1 .. MaxBackups PROVE w[i] \in ToSet(s) /\ r[s[n]] < r[w[i]]
      BY <1>8 DEF ToSet
  <2>1. w[i] = s[n + i] /\ w[i] \in ToSet(s)
    BY <1>7
  <2>2. n \in DOMAIN s /\ n + i \in DOMAIN s /\ n < n + i
    BY <1>2, <1>4
  <2>3. r[s[n]] < r[s[n + i]]
    BY <2>2 DEF Ascending
  <2> QED
    BY <2>1, <2>3
<1>12. \A q \in 1 .. Len(s) - MaxBackups : s[q] \in Seconds /\ r[s[q]] <= r[s[n]]
  BY <1>1, <1>3, <1>6
<1> QED
  BY <1>5, <1>10, <1>11, <1>12

(* If the last file f that a rotation removes was changed at d, later than  *)
(* anything that may be removed so far, the newer files T of its list are   *)
(* safe, less those that cross d.                                           *)
LEMMA NewestAreSafe ==
  ASSUME TypeOK, NEW a \in Archivers,
         NEW v \in [Seconds -> Nat], NEW l \in [Archivers -> [Seconds -> Nat]],
         NEW own \in [Nat -> Seconds], NEW X \in [Nat -> SUBSET Seconds],
         NEW c \in Nat, NEW top \in Nat,
         Dated(v, l, own, c), Crossing(v, l, own, X, c, top), FewCross(X, c),
         NEW f \in ToSet(all_files[a]), NEW T \in SUBSET ToSet(all_files[a]),
         IsFiniteSet(T), Cardinality(T) = MaxBackups,
         NEW d \in Nat, d \in 1 .. c, d > top, d = l[a][f], \A x \in T : d < l[a][x]
  PROVE  Cardinality(Safe(v, own, X, d)) + Cardinality(Archivers) > MaxBackups
<1> DEFINE Z == Safe(v, own, X, d)
<1>1. own[d] = f
  BY DEF Dated
<1>2. ASSUME NEW x \in T, x \notin X[d] PROVE x \in Z
  <2>1. x \in Seconds /\ x \in ToSet(all_files[a])
    BY FilesAreFinite
  <2>2. PICK k \in Nat : k = l[a][x] /\ d < k
    BY <2>1
  <2>3. x # f
    BY <2>2
  <2>4. x \in ToSet(vault)
    <3>1. ListedAfter(l, x, d)
      BY <2>1, <2>2 DEF ListedAfter
    <3> QED
      BY <1>1, <1>2, <2>1, <2>3, <3>1 DEF Crossing
  <2>5. PICK m \in Nat : m = v[x] /\ k <= m
    BY <2>1, <2>2, <2>4 DEF Dated
  <2>6. m > d
    BY <2>2, <2>5
  <2> QED
    BY <1>1, <1>2, <2>3, <2>4, <2>5, <2>6 DEF Safe
<1>3. Z \in SUBSET Seconds /\ X[d] \in SUBSET Seconds
  <2>1. Z \subseteq ToSet(vault)
    BY DEF Safe
  <2> QED
    BY <2>1, FilesAreFinite
<1>4. IsFiniteSet(X[d]) /\ IsFiniteSet(Z) /\ Cardinality(X[d]) < Cardinality(Archivers)
  BY <1>3, FilesAreFinite DEF FewCross
<1> HIDE DEF Z
<1>5. T \ X[d] \subseteq Z
  BY <1>2
<1>6. /\ Cardinality(T \ X[d]) = Cardinality(T) - Cardinality(T \cap X[d])
      /\ IsFiniteSet(T \ X[d])
  BY FS_Difference
<1>7. Cardinality(T \cap X[d]) <= Cardinality(X[d]) /\ IsFiniteSet(T \cap X[d])
  BY <1>4, FS_Intersection
<1>8. Cardinality(T \ X[d]) <= Cardinality(Z)
  BY <1>4, <1>5, FS_Subset
<1>9. /\ Cardinality(Z) \in Nat /\ Cardinality(X[d]) \in Nat
      /\ Cardinality(T \ X[d]) \in Nat /\ Cardinality(T \cap X[d]) \in Nat
      /\ Cardinality(Archivers) \in Nat
  BY <1>4, <1>6, <1>7, FS_CardinalityType, ArchiverAssumption
<1>10. Cardinality(Z) + Cardinality(Archivers) > MaxBackups
  BY <1>4, <1>6, <1>7, <1>8, <1>9, BoundIsNat
<1> QED
  BY <1>10 DEF Z

(* The end of a sort: rotations may remove files up to a later change.      *)
LEMMA SortOverlap ==
  ASSUME OverlapInv, NEW a \in Archivers, SortBackups(a)
  PROVE  OverlapInv'
<1>1. TypeOK /\ TypeOK'
  BY TypesStep DEF OverlapInv, Next, Step
<1>2. /\ pc' = [pc EXCEPT ![a] = "rotating"]
      /\ pc[a] = "sorting" /\ UNCHANGED <<now, vault, name, all_files>>
  BY DEF SortBackups, Goto
<1>3. pc'[a] = "rotating" /\ \A b \in Archivers \ {a} : pc'[b] = pc[b]
  BY <1>1, <1>2 DEF TypeOK
<1>4. \A x : Held(x)' <=> Held(x)
  BY <1>2, <1>3 DEF Held
<1>5. Known' = Known
  BY <1>2 DEF Known
<1>6. Known' \subseteq 0 .. now' /\ NowHasAMaker'
  BY <1>2, <1>3, <1>5 DEF OverlapInv, NowHasAMaker
<1>7. PICK v \in [Seconds -> Nat], l \in [Archivers -> [Seconds -> Nat]], own \in [Nat -> Seconds],
           X \in [Nat -> SUBSET Seconds], c \in Nat, top \in Nat : Timed(v, l, own, X, c, top)
  BY DEF OverlapInv, HaveTimes
<1>8. /\ top <= c /\ Dated(v, l, own, c) /\ InOrderOfTime(v, l) /\ Crossing(v, l, own, X, c, top)
      /\ FewCross(X, c) /\ DoomedAreOld(l, top) /\ EnoughAreSafe(v, own, X, top)
  BY <1>7 DEF Timed
<1>9. PICK s \in Seq(Seconds) : s = all_files[a] /\ IsInjective(s) /\ Len(s) \in Nat /\ DOMAIN s = 1 .. Len(s)
  BY <1>1, SeqFacts DEF TypeOK
<1>10. Dated(v, l, own, c)' /\ InOrderOfTime(v, l)' /\ FewCross(X, c)'
  BY <1>2, <1>8 DEF Dated, InOrderOfTime, FewCross
<1>11. ASSUME NEW d \in Nat, top <= d, d <= c,
              \A p \in 1 .. Len(s) - MaxBackups : l[a][s[p]] <= d,
              EnoughAreSafe(v, own, X, d)
       PROVE  HaveTimes'
  <2>1. Crossing(v, l, own, X, c, d)'
    <3> SUFFICES ASSUME NEW t \in 1 .. c, NEW x \in Seconds, x \notin X[t], x # own[t]
                 PROVE  /\ ~(ListedBy(l, x, t)' /\ DatedAfter(v, l, x, t)')
                        /\ ~(DatedBy(v, l, x, t)' /\ (x = now' \/ Held(x)'))
                        /\ ~(d < t /\ x \notin ToSet(vault') /\ ListedAfter(l, x, t)')
        BY DEF Crossing
    <3>1. /\ ~(ListedBy(l, x, t) /\ DatedAfter(v, l, x, t))
          /\ ~(DatedBy(v, l, x, t) /\ (x = now \/ Held(x)))
          /\ ~(top < t /\ x \notin ToSet(vault) /\ ListedAfter(l, x, t))
      BY <1>8 DEF Crossing
    <3>2. /\ ListedBy(l, x, t)' <=> ListedBy(l, x, t)
          /\ ListedAfter(l, x, t)' <=> ListedAfter(l, x, t)
      BY <1>2 DEF ListedBy, ListedAfter
    <3>3. /\ DatedBy(v, l, x, t)' <=> DatedBy(v, l, x, t)
          /\ DatedAfter(v, l, x, t)' <=> DatedAfter(v, l, x, t)
      BY <1>2, <3>2 DEF DatedBy, DatedAfter
    <3>4. d < t => top < t
      BY <1>11
    <3> QED
      BY <1>2, <1>4, <3>1, <3>2, <3>3, <3>4
  <2>2. \A k \in Nat : k <= top => k <= d
    BY <1>11
  <2>3. DoomedAreOld(l, d)'
    <3> SUFFICES ASSUME NEW b \in Archivers, pc'[b] = "rotating",
                        NEW p \in 1 .. Len(all_files[b]) - MaxBackups
                 PROVE  l[b][all_files[b][p]] <= d
        BY <1>2 DEF DoomedAreOld
    <3>1. CASE b = a
      BY <1>9, <1>11, <3>1
    <3>2. CASE b # a
      <4>1. PICK q \in Seq(Seconds) : q = all_files[b] /\ Len(q) \in Nat /\ DOMAIN q = 1 .. Len(q)
        BY <1>1, SeqFacts DEF TypeOK
      <4>2. \A i \in 1 .. Len(q) : q[i] \in Seconds
        BY <4>1, SeqFacts
      <4>3. p \in 1 .. Len(q)
        <5>1. PICK m \in Nat : m = Len(q)
          BY <4>1
        <5>2. p \in 1 .. m - MaxBackups
          BY <4>1, <5>1
        <5>3. p \in 1 .. m
          BY <5>2, BoundIsNat
        <5> QED
          BY <5>1, <5>3
      <4>4. l[b][all_files[b][p]] \in Nat
        BY <4>1, <4>2, <4>3
      <4>5. l[b][all_files[b][p]] <= top
        BY <1>3, <1>8, <3>2 DEF DoomedAreOld
      <4> QED
        BY <2>2, <4>4, <4>5, Zenon
    <3> QED
      BY <3>1, <3>2
  <2>4. EnoughAreSafe(v, own, X, d)'
    BY <1>2, <1>11 DEF EnoughAreSafe, Safe
  <2>5. Timed(v, l, own, X, c, d)'
    BY <1>10, <1>11, <2>1, <2>3, <2>4 DEF Timed
  <2> QED
    BY <2>5, Zenon DEF HaveTimes
<1>12. PICK r \in [Seconds -> Nat] : r = l[a] /\ Ascending(s, r) /\ \A f \in ToSet(s) : r[f] \in 1 .. c
  BY <1>8, <1>9 DEF Dated, InOrderOfTime
<1>13. CASE ~(Len(s) > MaxBackups)
  <2>1. \A p \in 1 .. Len(s) - MaxBackups : FALSE
    <3>1. PICK m \in Nat : m = Len(s) /\ ~(m > MaxBackups)
      BY <1>9, <1>13
    <3>2. \A p \in 1 .. m - MaxBackups : FALSE
      BY <3>1, BoundIsNat
    <3> QED
      BY <3>1, <3>2
  <2>2. HaveTimes'
    BY <1>8, <1>11, <2>1
  <2> QED
    BY <1>1, <1>6, <2>2 DEF OverlapInv
<1>14. CASE Len(s) > MaxBackups
  <2>1. PICK f \in ToSet(s), T \in SUBSET ToSet(s) :
          /\ \A q \in 1 .. Len(s) - MaxBackups : s[q] \in Seconds /\ r[s[q]] <= r[f]
          /\ IsFiniteSet(T) /\ Cardinality(T) = MaxBackups
          /\ \A x \in T : r[f] < r[x]
    BY <1>9, <1>12, <1>14, RemovedAndLeft
  <2>2. PICK d \in Nat : d = r[f] /\ d \in 1 .. c /\ d <= c
    <3>1. r[f] \in 1 .. c
      BY <1>12, Zenon
    <3>2. \A k \in 1 .. c : k \in Nat /\ k <= c
      OBVIOUS
    <3> QED
      BY <3>1, <3>2, Zenon
  <2>3. \A q \in 1 .. Len(s) - MaxBackups : l[a][s[q]] <= d
    BY <1>12, <2>1, <2>2, Zenon
  <2>4. CASE d <= top
    <3>1. \A k \in Nat : k <= d => k <= top
      BY <2>4
    <3>2. \A x \in Seconds : r[x] \in Nat
      OBVIOUS
    <3>3. \A q \in 1 .. Len(s) - MaxBackups : l[a][s[q]] <= top
      BY <1>12, <2>1, <2>3, <3>1, <3>2, Zenon
    <3>4. top <= top /\ top <= c
      BY <1>8
    <3>5. HaveTimes'
      BY <1>8, <1>11, <3>3, <3>4
    <3> QED
      BY <1>1, <1>6, <3>5 DEF OverlapInv
  <2>5. CASE d > top
    <3>1. EnoughAreSafe(v, own, X, d)
      BY <1>1, <1>8, <1>9, <1>12, <2>1, <2>2, <2>5, NewestAreSafe DEF EnoughAreSafe
    <3>2. top <= d /\ d <= c
      <4>1. top <= d
        BY <2>5
      <4> QED
        BY <2>2, <4>1, Zenon
    <3>3. HaveTimes'
      BY <1>11, <2>3, <3>1, <3>2
    <3> QED
      BY <1>1, <1>6, <3>3 DEF OverlapInv
  <2> QED
    BY <2>4, <2>5
<1> QED
  BY <1>13, <1>14

-----------------------------------------------------------------------------
(* What the rotations leave *)

(* The second inductive invariant holds in every reachable state, however   *)
(* snapshots overlap and whatever fails: there are times for the changes of *)
(* the files such that those on both sides of a change, of which a sort may *)
(* be mistaken, are fewer than the archivers, and enough files are newer    *)
(* than whatever a rotation still removes.                                  *)
THEOREM OverlapInvariant == Spec => []OverlapInv
<1>1. Init => OverlapInv
  BY OverlapInit
<1>2. ASSUME OverlapInv, [Next]_vars PROVE OverlapInv'
  <2>1. TypeOK /\ TypeOK'
    BY <1>2, TypesStep DEF OverlapInv
  <2>2. ASSUME NEW a \in Archivers,
               CopyIsGone(a) \/ ListIsStale(a) \/ EndRotation(a) \/ Fail(a)
        PROVE  OverlapInv'
    <3>1. UNCHANGED <<vault, name, now>> /\ pc' = [pc EXCEPT ![a] = "idle"]
      BY <2>2 DEF CopyIsGone, ListIsStale, EndRotation, Fail, Goto
    <3>2. all_files' = all_files \/ all_files' = [all_files EXCEPT ![a] = <<>>]
      BY <2>2 DEF CopyIsGone, ListIsStale, EndRotation, Fail
    <3>3. pc'[a] = "idle" /\ \A b \in Archivers \ {a} : pc'[b] = pc[b]
      BY <2>1, <3>1 DEF TypeOK
    <3>4. /\ all_files'[a] = all_files[a] \/ all_files'[a] = <<>>
          /\ \A b \in Archivers \ {a} : all_files'[b] = all_files[b]
      BY <2>1, <3>2 DEF TypeOK
    <3>5. ToSet(<<>>) = {}
      BY DEF ToSet
    <3>6. \A b \in Archivers : all_files'[b] = all_files[b] \/ ToSet(all_files'[b]) = {}
      BY <3>4, <3>5
    <3>7. \A b \in Archivers : pc'[b] = "copying" => pc[b] = "copying"
      BY <3>3
    <3>8. \A b \in Archivers :
            pc'[b] = "rotating" => pc[b] = "rotating" /\ all_files'[b] = all_files[b]
      BY <3>3, <3>4
    <3> QED
      BY <1>2, <2>1, <3>1, <3>6, <3>7, <3>8, QuietOverlap
  <2>3. ASSUME Write \/ Tick \/ UNCHANGED vars PROVE OverlapInv'
    BY <1>2, <2>1, <2>3, QuietOverlap DEF Write, Tick, vars, history
  <2> QED
    BY <1>2, <2>2, <2>3, StartCopyOverlap, EndCopyOverlap, ListOverlap, SortOverlap, RemoveOverlap
       DEF Next, Step
<1> QED
  BY <1>1, <1>2, PTL DEF Spec

(* Only a removal makes the vault smaller. *)
LEMMA OnlyRemovalsShrink ==
  ASSUME TypeOK, [Next]_vars, Len(vault') < Len(vault)
  PROVE  \E a \in Archivers : RemoveOldest(a)
<1>1. vault \in Seq(Seconds) /\ IsInjective(vault) /\ Len(vault) \in Nat /\ now \in Seconds
  BY SeqFacts DEF TypeOK
<1>2. ASSUME NEW f \in Seconds, Touch(f) PROVE FALSE
  BY <1>1, <1>2, ToEndFacts DEF Touch
<1>3. ASSUME NEW a \in Archivers, StartCopy(a) PROVE FALSE
  BY <1>1, <1>2, <1>3 DEF StartCopy
<1>4. ASSUME NEW a \in Archivers, EndCopy(a) PROVE FALSE
  <2>1. name[a] \in Seconds
    BY DEF TypeOK
  <2> QED
    BY <1>2, <1>4, <2>1 DEF EndCopy
<1>5. vault' # vault
  BY <1>1
<1> QED
  BY <1>3, <1>4, <1>5
     DEF Next, Step, CopyIsGone, ListBackups, ListIsStale, SortBackups, EndRotation, Fail,
         Write, Tick, vars, history

(* However rotations overlap (_rotate_backups of any number of processes),  *)
(* and whatever their sorts find, each archiver but the first costs the     *)
(* vault one copy at most: a rotation leaves max_backups copies, less one   *)
(* for each other archiver.                                                 *)
THEOREM EnoughIsLeft == Spec => RotationKeepsEnough
<1>1. ASSUME OverlapInv, [Next]_vars, Len(vault') < Len(vault)
      PROVE  Len(vault') + Cardinality(Archivers) > MaxBackups
  <2>1. PICK a \in Archivers : RemoveOldest(a)
    BY <1>1, OnlyRemovalsShrink DEF OverlapInv
  <2> QED
    BY <1>1, <2>1, RemoveOverlap
<1>2. OverlapInv /\ [Next]_vars
        => [Len(vault') < Len(vault) => Len(vault') + Cardinality(Archivers) > MaxBackups]_vars
  BY <1>1
<1> QED
  BY <1>2, OverlapInvariant, PTL DEF Spec, RotationKeepsEnough

(* Between snapshots that stay apart, a rotation that removes a copy leaves *)
(* max_backups of them.                                                     *)
THEOREM AloneAllAreLeft ==
  Spec => [][apart /\ Len(vault') < Len(vault) => Len(vault') >= MaxBackups]_vars
<1>1. ASSUME ArchiverInv, [Next]_vars, apart, Len(vault') < Len(vault)
      PROVE  Len(vault') >= MaxBackups
  <2>1. PICK a \in Archivers : RemoveOldest(a)
    BY <1>1, OnlyRemovalsShrink DEF ArchiverInv
  <2>2. pc[a] = "rotating" /\ Len(all_files[a]) > MaxBackups
    BY <2>1 DEF RemoveOldest, Excessive
  <2>3. all_files[a] = vault
    BY <1>1, <2>2, Alone
  <2>4. /\ vault \in Seq(Seconds) /\ IsInjective(vault) /\ Len(vault) \in Nat
        /\ MaxBackups \in Nat \ {0}
    BY <1>1, SeqFacts, ArchiverAssumption DEF ArchiverInv, TypeOK
  <2>5. Len(vault) > 1
    BY <2>2, <2>3, <2>4
  <2>6. vault' = Tail(vault) /\ Len(Tail(vault)) = Len(vault) - 1
    BY <2>1, <2>3, <2>4, <2>5, RemoveHeadFacts DEF RemoveOldest
  <2> QED
    BY <2>2, <2>3, <2>4, <2>6
<1>2. ArchiverInv /\ [Next]_vars
        => [apart /\ Len(vault') < Len(vault) => Len(vault') >= MaxBackups]_vars
  BY <1>1
<1> QED
  BY <1>2, ArchiverInvariant, PTL DEF Spec

=============================================================================

------------------------- MODULE RateLimiter_proofs -------------------------
(***************************************************************************)
(* Proofs about RateLimiter, for any number of callers, any limit and any  *)
(* window.                                                                 *)
(***************************************************************************)
EXTENDS RateLimiter, FiniteSetTheorems, TLAPS

(* Sets of readings are finite. *)
LEMMA ReadingsAreFinite ==
  ASSUME NEW n \in Nat, NEW S \in SUBSET (0 .. n)
  PROVE  IsFiniteSet(S) /\ Cardinality(S) \in Nat
<1>1. IsFiniteSet(0 .. n) BY FS_Interval
<1>2. IsFiniteSet(S) BY <1>1, FS_Subset
<1> QED BY <1>2, FS_CardinalityType

(* The invariant holds at first. *)
LEMMA InitInv == Init => LimiterInv
<1> SUFFICES ASSUME Init PROVE LimiterInv
  OBVIOUS
<1>1. TypeOK BY LimiterAssumption DEF Init, TypeOK, Time
<1>2. Recent(seen) = {} /\ Recent(granted) = {} BY DEF Init, Recent
<1>3. WindowBound BY <1>2, FS_EmptySet, LimiterAssumption DEF WindowBound
<1> QED BY <1>1, <1>2, <1>3 DEF LimiterInv, Init, WindowIsRemembered

(* Recording a reading keeps everything but the bound. *)
LEMMA RecordInv ==
  ASSUME LimiterInv, NEW s \in 0 .. now, Record(s), UNCHANGED now
  PROVE  /\ hits' \subseteq 0 .. now /\ seen' \subseteq 0 .. now
         /\ expires' \in 0 .. now + Window + Grace
         /\ WindowIsRemembered'
         /\ hits' \subseteq seen'
         /\ \A t \in seen' : t + Window + Grace <= expires'
<1> USE LimiterAssumption
<1>1. now \in Nat /\ seen \subseteq 0 .. now /\ hits \subseteq 0 .. now
  BY DEF LimiterInv, TypeOK, Time
<1>2. hits' = Kept(s) \cup {s} /\ seen' = seen \cup {s} /\ expires' = now + Window + Grace
  BY DEF Record, Member, Expiry
<1>3. Kept(s) \subseteq hits BY DEF Kept
<1>4. WindowIsRemembered'
  <2> SUFFICES ASSUME NEW t \in seen', t > now - Window PROVE t \in hits'
    BY DEF WindowIsRemembered, Recent
  <2>1. CASE t = s BY <2>1, <1>2
  <2>2. CASE t \in seen
    <3>1. t \in hits BY <2>2 DEF LimiterInv, WindowIsRemembered, Recent
    <3>2. t > s - Window BY <1>1, <2>2
    <3> QED BY <3>1, <3>2, <1>2 DEF Kept
  <2> QED BY <2>1, <2>2, <1>2
<1>5. \A t \in seen' : t + Window + Grace <= expires'
  BY <1>1, <1>2
<1>6. hits' \subseteq seen' BY <1>2, <1>3 DEF LimiterInv
<1>7. expires' \in 0 .. now + Window + Grace BY <1>1, <1>2
<1> QED BY <1>1, <1>2, <1>3, <1>4, <1>5, <1>6, <1>7

(* What Redis counts before it records a reading holds every recent reading. *)
LEMMA CountHoldsRecent ==
  ASSUME LimiterInv, NEW s \in 0 .. now
  PROVE  Recent(seen) \subseteq Kept(s)
<1>1. /\ now \in Nat /\ Window \in Nat /\ seen \subseteq 0 .. now
      /\ Recent(seen) \subseteq hits
  BY LimiterAssumption DEF LimiterInv, TypeOK, Time, WindowIsRemembered
<1>2. \A t \in Recent(seen) : t > s - Window BY <1>1 DEF Recent
<1> QED BY <1>1, <1>2 DEF Kept

(* An admission adds one reading to at most max_requests that were counted.  *)
LEMMA JudgeInv ==
  ASSUME LimiterInv, NEW c \in Callers, Judge(c)
  PROVE  LimiterInv'
<1> USE LimiterAssumption
<1> DEFINE s == stamp[c]
<1>1. now \in Nat /\ s \in 0 .. now /\ UNCHANGED now /\ Record(s)
  BY DEF LimiterInv, TypeOK, Time, Judge
<1>2. /\ hits' \subseteq 0 .. now /\ seen' \subseteq 0 .. now
      /\ expires' \in 0 .. now + Window + Grace
      /\ WindowIsRemembered' /\ hits' \subseteq seen'
      /\ \A t \in seen' : t + Window + Grace <= expires'
  BY <1>1, RecordInv
<1>3. TypeOK'
  <2>1. granted' \subseteq seen' BY DEF LimiterInv, TypeOK, Judge, Record
  <2>2. call' \in [Callers -> {"ready", "asked", "allowed", "refused"}]
    BY DEF LimiterInv, TypeOK, Judge
  <2>3. stamp' \in [Callers -> 0 .. now'] /\ now' \in Time
    BY DEF LimiterInv, TypeOK, Judge
  <2> QED BY <1>1, <1>2, <2>1, <2>2, <2>3 DEF TypeOK
<1>4. WindowBound'
  <2>1. CASE granted' = granted
    BY <1>1, <2>1 DEF LimiterInv, WindowBound, Recent
  <2>2. CASE granted' = granted \cup {s} /\ Admits(Cardinality(Kept(s)))
    <3>1. Recent(granted)' \subseteq Kept(s) \cup {s}
      <4>1. Recent(granted) \subseteq Recent(seen)
        BY DEF LimiterInv, TypeOK, Recent
      <4> QED BY <4>1, <2>2, <1>1, CountHoldsRecent DEF Recent
    <3>2. IsFiniteSet(Kept(s)) /\ Cardinality(Kept(s)) \in Nat
      <4>1. Kept(s) \in SUBSET (0 .. now) BY DEF Kept, LimiterInv, TypeOK
      <4> QED BY <4>1, <1>1, ReadingsAreFinite
    <3>3. Cardinality(Kept(s)) <= Max BY <2>2 DEF Admits
    <3>4. /\ IsFiniteSet(Kept(s) \cup {s})
          /\ Cardinality(Kept(s) \cup {s}) \in Nat
          /\ Cardinality(Kept(s) \cup {s}) <= Cardinality(Kept(s)) + 1
      <4>1. /\ IsFiniteSet(Kept(s) \cup {s})
            /\ Cardinality(Kept(s) \cup {s}) = Cardinality(Kept(s))
                 \/ Cardinality(Kept(s) \cup {s}) = Cardinality(Kept(s)) + 1
        BY <3>2, FS_AddElement, Zenon
      <4> QED BY <3>2, <4>1
    <3>5. /\ Cardinality(Recent(granted)') \in Nat
          /\ Cardinality(Recent(granted)') <= Cardinality(Kept(s) \cup {s})
      BY <3>1, <3>4, FS_Subset, FS_CardinalityType
    <3>6. Cardinality(Recent(granted)') <= Max + 1
      BY <3>2, <3>3, <3>4, <3>5
    <3> QED BY <3>6 DEF WindowBound
  <2> QED BY <2>1, <2>2 DEF Judge
<1> QED BY <1>2, <1>3, <1>4 DEF LimiterInv

(* A failed transaction may record its reading, and grants nothing by count. *)
LEMMA FailOpenInv ==
  ASSUME LimiterInv, NEW c \in Callers, FailOpen(c)
  PROVE  LimiterInv'
<1> USE LimiterAssumption
<1>1. now \in Nat /\ stamp[c] \in 0 .. now /\ UNCHANGED <<now, stamp, granted>>
  BY DEF LimiterInv, TypeOK, Time, FailOpen
<1>2. call' \in [Callers -> {"ready", "asked", "allowed", "refused"}]
  BY DEF LimiterInv, TypeOK, FailOpen
<1>3. WindowBound' BY <1>1 DEF LimiterInv, WindowBound, Recent
<1>4. CASE Record(stamp[c])
  <2>1. /\ hits' \subseteq 0 .. now /\ seen' \subseteq 0 .. now
        /\ expires' \in 0 .. now + Window + Grace
        /\ WindowIsRemembered' /\ hits' \subseteq seen'
        /\ \A t \in seen' : t + Window + Grace <= expires'
    BY <1>1, <1>4, RecordInv
  <2>2. granted' \subseteq seen' BY <1>1, <1>4 DEF LimiterInv, TypeOK, Record
  <2>3. TypeOK' BY <1>1, <1>2, <2>1, <2>2 DEF LimiterInv, TypeOK
  <2> QED BY <1>3, <2>1, <2>3 DEF LimiterInv
<1>5. CASE UNCHANGED <<hits, expires, seen>>
  BY <1>1, <1>2, <1>3, <1>5 DEF LimiterInv, TypeOK, WindowIsRemembered, Recent
<1> QED BY <1>4, <1>5 DEF FailOpen

(* The window only moves on; the key expires after everything it recorded.   *)
LEMMA TickInv ==
  ASSUME LimiterInv, Tick
  PROVE  LimiterInv'
<1> USE LimiterAssumption
<1>1. /\ now \in Nat /\ now' = now + 1 /\ now' \in Time
      /\ UNCHANGED <<expires, call, stamp, seen, granted>>
      /\ hits' = IF now + 1 >= expires THEN {} ELSE hits
  BY DEF LimiterInv, TypeOK, Time, Tick
<1>2. 0 .. now \subseteq 0 .. now' BY <1>1
<1>3. TypeOK'
  <2>1. expires' \in 0 .. now' + Window + Grace
    <3>1. expires \in 0 .. now + Window + Grace BY DEF LimiterInv, TypeOK
    <3> QED BY <1>1, <3>1
  <2>2. stamp' \in [Callers -> 0 .. now'] BY <1>1, <1>2 DEF LimiterInv, TypeOK
  <2> QED BY <1>1, <1>2, <2>1, <2>2 DEF LimiterInv, TypeOK
<1>4. ASSUME NEW S \in SUBSET (0 .. now)
      PROVE  {t \in S : t > now' - Window} \subseteq {t \in S : t > now - Window}
  <2> SUFFICES ASSUME NEW t \in S, t > now' - Window PROVE t > now - Window
    OBVIOUS
  <2>1. t \in Int /\ Window \in Nat BY <1>1
  <2> QED BY <1>1, <2>1
<1>5. WindowIsRemembered'
  <2> SUFFICES ASSUME NEW t \in seen, t > now' - Window PROVE t \in hits'
    BY <1>1 DEF WindowIsRemembered, Recent
  <2>1. t \in 0 .. now /\ expires \in Nat /\ t + Window + Grace <= expires
    BY <1>1 DEF LimiterInv, TypeOK
  <2>2. t \in hits BY <1>1, <2>1 DEF LimiterInv, WindowIsRemembered, Recent
  <2>3. now + 1 < expires BY <1>1, <2>1
  <2> QED BY <1>1, <2>1, <2>2, <2>3
<1>6. WindowBound'
  <2>1. granted \subseteq 0 .. now BY DEF LimiterInv, TypeOK
  <2>2. Recent(granted)' \subseteq Recent(granted)
    BY <1>1, <1>4, <2>1 DEF Recent
  <2>3. Recent(granted) \in SUBSET (0 .. now) BY <2>1 DEF Recent
  <2>4. IsFiniteSet(Recent(granted)) /\ Cardinality(Recent(granted)) \in Nat
    BY <1>1, <2>3, ReadingsAreFinite
  <2>5. /\ Cardinality(Recent(granted)') \in Nat
        /\ Cardinality(Recent(granted)') <= Cardinality(Recent(granted))
    BY <2>2, <2>4, FS_Subset, FS_CardinalityType
  <2>6. Cardinality(Recent(granted)') <= Max + 1
    BY <2>4, <2>5 DEF LimiterInv, WindowBound
  <2> QED BY <2>6 DEF WindowBound
<1> QED BY <1>1, <1>3, <1>5, <1>6 DEF LimiterInv

(* Every step preserves the invariant. *)
LEMMA NextInv == LimiterInv /\ [Next]_vars => LimiterInv'
<1> SUFFICES ASSUME LimiterInv, [Next]_vars PROVE LimiterInv'
  OBVIOUS
<1>1. ASSUME NEW c \in Callers, Ask(c) PROVE LimiterInv'
  <2>1. now \in Nat /\ stamp' \in [Callers -> 0 .. now]
    BY <1>1 DEF LimiterInv, TypeOK, Time, Ask
  <2>2. call' \in [Callers -> {"ready", "asked", "allowed", "refused"}]
    BY <1>1 DEF LimiterInv, TypeOK, Ask
  <2> QED BY <1>1, <2>1, <2>2
    DEF LimiterInv, TypeOK, Ask, WindowIsRemembered, WindowBound, Recent
<1>2. CASE UNCHANGED vars
  BY <1>2 DEF vars, LimiterInv, TypeOK, WindowIsRemembered, WindowBound, Recent
<1> QED BY <1>1, <1>2, JudgeInv, FailOpenInv, TickInv DEF Next

(* The inductive invariant holds for every limit, window and set of callers. *)
THEOREM LimiterInvariant == Spec => []LimiterInv
BY InitInv, NextInv, PTL DEF Spec

(* Every variable stays in its range. *)
THEOREM LimiterTypes == Spec => []TypeOK
<1>1. LimiterInv => TypeOK BY DEF LimiterInv
<1> QED BY <1>1, LimiterInvariant, PTL

(* No request of the last window is forgotten. *)
THEOREM NothingForgotten == Spec => []WindowIsRemembered
<1>1. LimiterInv => WindowIsRemembered BY DEF LimiterInv
<1> QED BY <1>1, LimiterInvariant, PTL

(* However calls interleave and however late they reach Redis, at most       *)
(* max_requests + 1 readings of the last window were admitted by the count.  *)
THEOREM Bounded == Spec => []WindowBound
<1>1. LimiterInv => WindowBound BY DEF LimiterInv
<1> QED BY <1>1, LimiterInvariant, PTL

(* Whoever is refused had more than max_requests others in the window.       *)
THEOREM RefusedForAReason == Spec => RefusalIsJustified
<1> DEFINE Justified ==
      \A c \in Callers : call[c] = "asked" /\ call'[c] = "refused" =>
        Cardinality({t \in seen : t > stamp[c] - Window}) > Max
<1>1. LimiterInv /\ [Next]_vars => [Justified]_vars
  <2> SUFFICES ASSUME LimiterInv, Next, NEW c \in Callers,
                      call[c] = "asked", call'[c] = "refused"
               PROVE  Cardinality({t \in seen : t > stamp[c] - Window}) > Max
    OBVIOUS
  <2>1. Judge(c)
    BY DEF Next, Ask, Judge, FailOpen, Tick, LimiterInv, TypeOK
  <2>2. ~Admits(Cardinality(Kept(stamp[c])))
    BY <2>1 DEF Judge, LimiterInv, TypeOK
  <2>3. now \in Nat /\ Kept(stamp[c]) \subseteq {t \in seen : t > stamp[c] - Window}
    <3>1. now \in Nat BY LimiterAssumption DEF LimiterInv, TypeOK, Time
    <3>2. hits \subseteq seen BY DEF LimiterInv
    <3> QED BY <3>1, <3>2 DEF Kept
  <2>4. {t \in seen : t > stamp[c] - Window} \in SUBSET (0 .. now)
    BY DEF LimiterInv, TypeOK
  <2>5. /\ IsFiniteSet({t \in seen : t > stamp[c] - Window})
        /\ Cardinality({t \in seen : t > stamp[c] - Window}) \in Nat
    BY <2>3, <2>4, ReadingsAreFinite
  <2>6. /\ Cardinality(Kept(stamp[c])) \in Nat
        /\ Cardinality(Kept(stamp[c]))
             <= Cardinality({t \in seen : t > stamp[c] - Window})
    BY <2>3, <2>5, FS_Subset, FS_CardinalityType
  <2> QED BY <2>2, <2>5, <2>6, LimiterAssumption DEF Admits
<1> QED BY <1>1, LimiterInvariant, PTL DEF Spec, RefusalIsJustified

=============================================================================

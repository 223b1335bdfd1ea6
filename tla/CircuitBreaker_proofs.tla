----------------------- MODULE CircuitBreaker_proofs -----------------------
(***************************************************************************)
(* Proofs about CircuitBreaker and SharedCircuit, for any number of        *)
(* processes and nodes, any threshold and any cooldown.                    *)
(***************************************************************************)
EXTENDS SharedCircuit, TLAPS

(* The ranges hold at first. *)
LEMMA TypeInit == Init => TypeOK
BY BreakerAssumption DEF Init, TypeOK, ControlPoint, Stale

(* The ranges, for proofs that need nothing else of the constants. *)
LEMMA Ranges ==
  /\ Threshold \in Nat /\ Threshold > 0 /\ Stale \in Nat
  /\ 0 \in 0 .. Threshold /\ 0 \in 0 .. Stale
  /\ \A n \in 0 .. Threshold : n < Threshold => n + 1 \in 0 .. Threshold
  /\ \A n \in 0 .. Stale : n < Stale => n + 1 \in 0 .. Stale
BY BreakerAssumption DEF Stale

(* Every step keeps every variable in its range. *)
LEMMA TypeStep == TypeOK /\ [Next]_vars => TypeOK'
<1> SUFFICES ASSUME TypeOK, [Next]_vars PROVE TypeOK'
  OBVIOUS
<1> USE DEF TypeOK, ControlPoint, Goto, world
<1>1. ASSUME NEW c \in Clients, Step(c) PROVE TypeOK'
  <2>1. CASE Boot(c) BY <2>1 DEF Boot
  <2>2. CASE BootSet(c) BY <2>2 DEF BootSet
  <2>3. CASE Allow(c) BY <2>3 DEF Allow
  <2>4. CASE FindOpen(c) BY <2>4 DEF FindOpen
  <2>5. CASE JudgeCooldown(c) BY <2>5 DEF JudgeCooldown
  <2>6. CASE SetHalfOpen(c) BY <2>6 DEF SetHalfOpen
  <2>7. CASE StampHalfOpen(c) BY <2>7, Ranges DEF StampHalfOpen
  <2>8. CASE Answer(c) BY <2>8 DEF Answer
  <2>9. CASE CountFailure(c) BY <2>9, Ranges DEF CountFailure
  <2>10. CASE JudgeFailure(c) BY <2>10 DEF JudgeFailure
  <2>11. CASE SetOpen(c) BY <2>11, Ranges DEF SetOpen
  <2>12. CASE StampOpen(c) BY <2>12, Ranges DEF StampOpen
  <2>13. CASE FindSuccess(c) BY <2>13 DEF FindSuccess
  <2>14. CASE SetClosed(c) BY <2>14 DEF SetClosed
  <2>15. CASE ClearFailures(c) BY <2>15, Ranges DEF ClearFailures
  <2> QED
    BY <1>1, <2>1, <2>2, <2>3, <2>4, <2>5, <2>6, <2>7, <2>8, <2>9, <2>10,
       <2>11, <2>12, <2>13, <2>14, <2>15 DEF Step
<1>2. ASSUME NEW c \in Clients, Abort(c) PROVE TypeOK'
  BY <1>2 DEF Abort
<1>3. CASE Tick BY <1>3, Ranges DEF Tick
<1>4. CASE ServiceChanges BY <1>4 DEF ServiceChanges
<1>5. CASE RedisChanges BY <1>5 DEF RedisChanges
<1>6. CASE UNCHANGED vars BY <1>6 DEF vars
<1> QED BY <1>1, <1>2, <1>3, <1>4, <1>5, <1>6 DEF Next

(* Every variable stays in its range, with or without failing commands.      *)
THEOREM BreakerTypes == Spec => []TypeOK
BY TypeInit, TypeStep, PTL DEF Spec

-----------------------------------------------------------------------------
(* A step of c leaves the other processes where they are. *)
LEMMA OthersStay ==
  ASSUME TypeOK, NEW c \in Clients, Step(c)
  PROVE  \A d \in Clients \ {c} : pc'[d] = pc[d] /\ tally'[d] = tally[d]
BY DEF TypeOK, Step, Goto, Boot, BootSet, Allow, FindOpen, JudgeCooldown,
  SetHalfOpen, StampHalfOpen, Answer, CountFailure, JudgeFailure, SetOpen,
  StampOpen, FindSuccess, SetClosed, ClearFailures

(* No step makes a history clean again. *)
LEMMA StepLeavesClean ==
  ASSUME NEW c \in Clients, Step(c), clean'
  PROVE  clean
BY DEF Step, world, Boot, BootSet, Allow, FindOpen, JudgeCooldown,
  SetHalfOpen, StampHalfOpen, Answer, CountFailure, JudgeFailure, SetOpen,
  StampOpen, FindSuccess, SetClosed, ClearFailures

(* What reaches the threshold is on its way to the trip, step by step. *)
LEMMA TripStep == TripInv /\ [Next]_vars => TripInv'
<1> SUFFICES ASSUME TripInv, [Next]_vars PROVE TripInv'
  OBVIOUS
<1>1. TypeOK /\ TypeOK' BY TypeStep DEF TripInv
<1>2. ASSUME NEW c \in Clients, Step(c) PROVE TripInv'
  <2> SUFFICES ASSUME clean', Current' = "CLOSED", failures' = Threshold
               PROVE  \E d \in Clients : Settles(d)'
    BY <1>1 DEF TripInv
  <2>1. clean
    BY <1>2, StepLeavesClean
  <2>2. ASSUME NEW d \in Clients \ {c}, Settles(d) PROVE Settles(d)'
    BY <2>2, <1>1, <1>2, OthersStay DEF Settles
  <2>3. CASE Current = "CLOSED" /\ failures = Threshold
    <3>1. PICK d \in Clients : Settles(d) BY <2>1, <2>3 DEF TripInv
    <3>2. CASE d # c BY <2>2, <3>1, <3>2
    <3>3. CASE pc[c] = "judge" /\ tally[c] = Threshold
      <4>1. JudgeFailure(c)
        BY <1>2, <3>3 DEF Step, Goto, Boot, BootSet, Allow, FindOpen,
          JudgeCooldown, SetHalfOpen, StampHalfOpen, Answer, CountFailure, SetOpen,
          StampOpen, FindSuccess, SetClosed, ClearFailures
      <4>2. tally[c] >= Threshold BY <3>3, Ranges
      <4>3. pc' = [pc EXCEPT ![c] = "trip"] BY <4>1, <4>2 DEF JudgeFailure, Goto
      <4>4. pc'[c] = "trip" BY <4>3, <1>1 DEF TypeOK
      <4> QED BY <4>4 DEF Settles
    <3>4. CASE pc[c] = "trip"
      <4>1. SetOpen(c)
        BY <1>2, <3>4 DEF Step, Goto, Boot, BootSet, Allow, FindOpen,
          JudgeCooldown, SetHalfOpen, StampHalfOpen, Answer, CountFailure,
          JudgeFailure, StampOpen, FindSuccess, SetClosed, ClearFailures
      <4> QED BY <4>1 DEF SetOpen, Current
    <3>5. CASE pc[c] = "clear"
      <4>1. ClearFailures(c)
        BY <1>2, <3>5 DEF Step, Goto, Boot, BootSet, Allow, FindOpen,
          JudgeCooldown, SetHalfOpen, StampHalfOpen, Answer, CountFailure,
          JudgeFailure, SetOpen, StampOpen, FindSuccess, SetClosed
      <4>2. failures' = 0 BY <4>1 DEF ClearFailures
      <4> QED BY <4>2, Ranges
    <3> QED BY <3>1, <3>2, <3>3, <3>4, <3>5 DEF Settles
  <2>4. CASE ~(Current = "CLOSED" /\ failures = Threshold)
    <3>1. CountFailure(c) \/ SetClosed(c)
      <4>1. ~UNCHANGED <<state, failures>> BY <2>4 DEF Current
      <4>2. ~BootSet(c) BY <2>4 DEF BootSet
      <4>3. ~SetHalfOpen(c) /\ ~SetOpen(c)
        BY DEF SetHalfOpen, SetOpen, Current
      <4>4. ~ClearFailures(c) BY Ranges DEF ClearFailures
      <4> QED
        BY <1>2, <4>1, <4>2, <4>3, <4>4 DEF Step, Boot, Allow, FindOpen,
          JudgeCooldown, StampHalfOpen, Answer, JudgeFailure, StampOpen, FindSuccess
    <3>2. Settles(c)'
      BY <3>1, <1>1 DEF TypeOK, Goto, CountFailure, SetClosed, Settles
    <3> QED BY <3>2
  <2> QED BY <2>3, <2>4
<1>3. ASSUME NEW c \in Clients, Abort(c) PROVE TripInv'
  BY <1>1, <1>3 DEF TripInv, Abort
<1>4. CASE Tick
  BY <1>4, <1>1 DEF Tick, TripInv, Settles, Current, world
<1>5. CASE ServiceChanges
  BY <1>5, <1>1 DEF ServiceChanges, TripInv, Settles, Current
<1>6. CASE RedisChanges
  BY <1>6, <1>1 DEF RedisChanges, TripInv, Settles, Current
<1>7. CASE UNCHANGED vars
  BY <1>7, <1>1 DEF vars, TripInv, Settles, Current, world
<1> QED BY <1>2, <1>3, <1>4, <1>5, <1>6, <1>7 DEF Next

(* Nothing has been counted at first. *)
LEMMA TripInit == Init => TripInv
<1> SUFFICES ASSUME Init PROVE TripInv
  OBVIOUS
<1>1. TypeOK BY TypeInit
<1> QED BY <1>1, BreakerAssumption DEF Init, TripInv

(* A threshold reached while CLOSED has somebody on the way to trip the      *)
(* circuit, or to clear the count.                                           *)
THEOREM TripInvariant == Spec => []TripInv
BY TripInit, TripStep, PTL DEF Spec

(* At rest, the invariant is the property.                                   *)
LEMMA TripAtRest == TripInv => TripIsNotForgotten
<1> SUFFICES ASSUME TripInv, clean, AtRest, Current = "CLOSED"
             PROVE  failures < Threshold
  BY DEF TripIsNotForgotten
<1>1. failures # Threshold BY DEF TripInv, AtRest, Settles
<1>2. failures \in 0 .. Threshold BY DEF TripInv, TypeOK
<1> QED BY <1>1, <1>2, Ranges

(* At rest and CLOSED, the threshold has not been reached: unless a command  *)
(* failed or a starting process overwrote a trip, no interleaving of         *)
(* record_success and record_failure loses one, for any number of processes. *)
THEOREM NoTripForgotten == Spec => []TripIsNotForgotten
BY TripInvariant, TripAtRest, PTL

-----------------------------------------------------------------------------
(* The nodes of AgentStateMemory share the key.  What a node does keeps the  *)
(* breaker's ranges and its own.                                             *)
LEMMA NodeTypes ==
  ASSUME SharedTypeOK, NEW n \in Nodes, NodeStep(n)
  PROVE  SharedTypeOK'
<1> USE DEF SharedTypeOK, NodePoint, Moves
<1>1. CASE UNCHANGED vars
  <2>1. TypeOK' BY <1>1 DEF vars, world, TypeOK
  <2> QED
    BY <2>1 DEF NodeStep, CheckStatus, NodeAnswer, ReportSuccess, ReportFailure,
      ReportIsLost
<1>2. CASE ReportSuccess(n) BY <1>2 DEF ReportSuccess, TypeOK
<1>3. CASE ReportFailure(n) BY <1>3, Ranges DEF ReportFailure, TypeOK, world
<1> QED
  BY <1>1, <1>2, <1>3 DEF NodeStep, CheckStatus, NodeAnswer, ReportIsLost

(* Nor does a node take anybody off the way to the trip: it closes only what *)
(* was CLOSED, or the history is marked.                                     *)
LEMMA NodeKeepsTrip ==
  ASSUME SharedTypeOK, TripInv, NEW n \in Nodes, NodeStep(n)
  PROVE  TripInv'
<1>1. TypeOK' BY NodeTypes DEF SharedTypeOK
<1>2. CASE UNCHANGED vars
  BY <1>1, <1>2 DEF vars, world, TripInv, Settles, Current
<1>3. CASE ReportSuccess(n)
  <2>1. clean' => clean /\ Current = "CLOSED" BY <1>3 DEF ReportSuccess
  <2>2. UNCHANGED <<failures, pc, tally>> BY <1>3 DEF ReportSuccess
  <2> QED BY <1>1, <2>1, <2>2 DEF TripInv, Settles
<1>4. CASE ReportFailure(n)
  <2>1. Current' # "CLOSED" BY <1>4 DEF ReportFailure, Current
  <2> QED BY <1>1, <2>1 DEF TripInv
<1> QED
  BY <1>2, <1>3, <1>4 DEF NodeStep, CheckStatus, NodeAnswer, ReportIsLost

(* Every variable of the shared circuit stays in its range.                  *)
THEOREM SharedTypes == SharedSpec => []SharedTypeOK
<1>1. SharedInit => SharedTypeOK
  BY TypeInit DEF SharedInit, SharedTypeOK, NodePoint
<1>2. SharedTypeOK /\ [SharedNext]_sharedVars => SharedTypeOK'
  <2> SUFFICES ASSUME SharedTypeOK, [SharedNext]_sharedVars PROVE SharedTypeOK'
    OBVIOUS
  <2>1. CASE [Next]_vars /\ UNCHANGED node
    BY <2>1, TypeStep DEF SharedTypeOK
  <2>2. CASE \E n \in Nodes : NodeStep(n) BY <2>2, NodeTypes
  <2> QED BY <2>1, <2>2 DEF SharedNext, sharedVars
<1> QED BY <1>1, <1>2, PTL DEF SharedSpec

(* As TripInvariant, with nodes on the same key.  It says nothing once       *)
(* `clean` is gone: a node whose success overwrites a trip marks it.         *)
LEMMA SharedTrip == SharedSpec => []TripInv
<1>1. SharedInit => TripInv
  BY TripInit DEF SharedInit
<1>2. SharedTypeOK /\ TripInv /\ [SharedNext]_sharedVars => TripInv'
  <2> SUFFICES ASSUME SharedTypeOK, TripInv, [SharedNext]_sharedVars PROVE TripInv'
    OBVIOUS
  <2>1. CASE [Next]_vars BY <2>1, TripStep
  <2>2. CASE \E n \in Nodes : NodeStep(n) BY <2>2, NodeKeepsTrip
  <2> QED BY <2>1, <2>2 DEF SharedNext, sharedVars
<1> QED BY <1>1, <1>2, SharedTypes, PTL DEF SharedSpec

(* No trip that was due is forgotten, unless a command failed or a starting  *)
(* process or a node overwrote one: for any number of processes and nodes.   *)
THEOREM SharedForgetsNoTrip == SharedSpec => []TripIsNotForgotten
BY SharedTrip, TripAtRest, PTL

-----------------------------------------------------------------------------
(* A trip of a process is stamped, or still to be stamped by it, through     *)
(* every step that leaves the history clean.                                 *)
LEMMA StampStep ==
  TypeOK /\ StampFollowsTrip /\ [Next]_vars => StampFollowsTrip'
<1> SUFFICES ASSUME TypeOK, StampFollowsTrip, [Next]_vars PROVE StampFollowsTrip'
  OBVIOUS
<1> USE DEF StampFollowsTrip
<1>1. since \in Nat /\ opened \in Nat /\ since <= Stale /\ opened <= Stale
  BY Ranges DEF TypeOK
<1>2. ASSUME NEW c \in Clients, Step(c) PROVE StampFollowsTrip'
  <2>1. CASE SetOpen(c)
    BY <2>1 DEF SetOpen, Goto, TypeOK
  <2>2. CASE StampOpen(c) \/ StampHalfOpen(c)
    <3>1. since' = 0 /\ opened' = opened BY <2>2 DEF StampOpen, StampHalfOpen
    <3> QED BY <1>1, <3>1
  <2>3. CASE ~(SetOpen(c) \/ StampOpen(c) \/ StampHalfOpen(c))
    <3>1. UNCHANGED <<since, opened>> /\ pc[c] # "tripped"
      BY <1>2, <2>3 DEF Step, Goto, Boot, BootSet, Allow, FindOpen,
        JudgeCooldown, SetHalfOpen, Answer, CountFailure, JudgeFailure, FindSuccess,
        SetClosed, ClearFailures
    <3>3. clean' => clean
      BY <1>2, StepLeavesClean
    <3>2. \A d \in Clients \ {c} : pc'[d] = pc[d] BY <1>2, OthersStay
    <3> QED BY <3>1, <3>2, <3>3
  <2> QED BY <2>1, <2>2, <2>3
<1>3. ASSUME NEW c \in Clients, Abort(c) PROVE StampFollowsTrip'
  BY <1>3 DEF Abort
<1>4. CASE Tick
  <2>1. /\ since' = IF since < Stale THEN since + 1 ELSE since
        /\ opened' = IF opened < Stale THEN opened + 1 ELSE opened
        /\ UNCHANGED <<clean, pc>>
    BY <1>4 DEF Tick, world
  <2>2. Stale \in Nat BY Ranges
  <2>3. since <= opened => since' <= opened' BY <1>1, <2>1, <2>2
  <2> QED BY <2>1, <2>3
<1>5. CASE ServiceChanges \/ RedisChanges
  BY <1>5 DEF ServiceChanges, RedisChanges
<1>6. CASE UNCHANGED vars
  BY <1>6 DEF vars, world
<1> QED BY <1>2, <1>3, <1>4, <1>5, <1>6 DEF Next

(* The processes cut no cooldown of a trip of theirs short, except between   *)
(* the two SETs of a trip, after a failed command, or after a success that   *)
(* overwrote a trip: for any number of processes and nodes.                  *)
THEOREM TripsAreStamped == SharedSpec => []StampFollowsTrip
<1>1. SharedInit => StampFollowsTrip
  BY BreakerAssumption DEF SharedInit, Init, StampFollowsTrip, Stale
<1>2. SharedTypeOK /\ StampFollowsTrip /\ [SharedNext]_sharedVars => StampFollowsTrip'
  <2> SUFFICES ASSUME SharedTypeOK, StampFollowsTrip, [SharedNext]_sharedVars
               PROVE  StampFollowsTrip'
    OBVIOUS
  <2>1. CASE [Next]_vars BY <2>1, StampStep DEF SharedTypeOK
  <2>2. ASSUME NEW n \in Nodes, NodeStep(n) PROVE StampFollowsTrip'
    <3>1. UNCHANGED <<since, opened, pc>>
      BY <2>2 DEF NodeStep, CheckStatus, NodeAnswer, ReportSuccess, ReportFailure,
        ReportIsLost, vars
    <3>2. clean' => clean
      BY <2>2 DEF NodeStep, CheckStatus, NodeAnswer, ReportSuccess, ReportFailure,
        ReportIsLost, vars, world
    <3> QED BY <3>1, <3>2 DEF StampFollowsTrip
  <2> QED BY <2>1, <2>2 DEF SharedNext, sharedVars
<1> QED BY <1>1, <1>2, SharedTypes, PTL DEF SharedSpec

=============================================================================

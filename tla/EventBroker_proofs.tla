------------------------- MODULE EventBroker_proofs -------------------------
(***************************************************************************)
(* For any number of publishing calls and listeners: what listeners hear   *)
(* of is stored, and each message is dealt with by one of them, once.      *)
(***************************************************************************)
EXTENDS EventBroker, TLAPS

(* Nothing has been published, and nobody listens.                          *)
LEMMA InitInv == Init => BrokerInv
<1> SUFFICES ASSUME Init PROVE BrokerInv
  OBVIOUS
<1>1. TypeOK
  BY DEF Init, TypeOK, Publishers, ListenerPoint
<1>2. \A l \in Listeners : message[l] = None
  BY DEF Init
<1>3. EntryPrecedesBroadcast /\ BroadcastIsStored /\ HeardIsPublished /\ DealtIsTaken
  BY <1>2 DEF Init, EntryPrecedesBroadcast, BroadcastIsStored, HeardIsPublished,
     DealtIsTaken, Publishers
<1>4. HandledOnce /\ NothingVanishes
  BY <1>2, BrokerAssumption DEF Init, HandledOnce, NothingVanishes, Waits, Held, Settled
<1> QED BY <1>1, <1>3, <1>4 DEF BrokerInv

(* Appending an entry disturbs nobody: it was not broadcast yet             *)
(* (publish_event, XADD).                                                   *)
LEMMA AppendInv ==
  ASSUME BrokerInv, NEW c \in Calls, XAdd(c) \/ XAddFails(c)
  PROVE  BrokerInv'
<1>1. /\ call[c] = "xadd" /\ stream \subseteq stream' /\ stream' \subseteq Calls
      /\ \E s \in {"publish", "raised"} : call' = [call EXCEPT ![c] = s]
      /\ call'[c] = "publish" => c \in stream'
      /\ UNCHANGED <<pubsubVars, listenVars, closing>>
  BY DEF BrokerInv, TypeOK, XAdd, XAddFails, Publishers
<1>2. TypeOK'
  BY <1>1 DEF BrokerInv, TypeOK, pubsubVars, listenVars, outcomeVars, Publishers
<1>3. EntryPrecedesBroadcast' /\ BroadcastIsStored' /\ HeardIsPublished'
  BY <1>1 DEF BrokerInv, TypeOK, EntryPrecedesBroadcast, BroadcastIsStored,
     HeardIsPublished, pubsubVars, listenVars, outcomeVars, Publishers, Message
<1>4. DealtIsTaken' /\ HandledOnce' /\ NothingVanishes'
  BY <1>1 DEF BrokerInv, DealtIsTaken, HandledOnce, NothingVanishes, Waits, Held,
     Settled, pubsubVars, listenVars, outcomeVars
<1> QED BY <1>2, <1>3, <1>4 DEF BrokerInv

(* A broadcast adds messages nobody has heard before, of an entry that is   *)
(* stored (publish_event, PUBLISH).                                         *)
LEMMA PublishInv ==
  ASSUME BrokerInv, NEW p \in Publishers, Publish(p)
  PROVE  BrokerInv'
<1>1. PICK reached \in SUBSET subscribed : inbox' = inbox \cup ({p} \X reached)
  BY DEF Publish, Broadcast
<1>2. /\ call[p] = "publish"
      /\ \E s \in {"returned", "raised"} : call' = [call EXCEPT ![p] = s]
      /\ UNCHANGED <<stream, subscribed, listenVars, closing>>
  BY DEF Publish
<1>3. {p} \X reached \subseteq Message
  BY <1>1 DEF BrokerInv, TypeOK, Message
<1>4. \A m \in {p} \X reached : m[1] = p
  OBVIOUS
<1>5. \A m \in {p} \X reached : m \notin taken
  BY <1>2, <1>4 DEF BrokerInv, HeardIsPublished
<1>6. TypeOK'
  BY <1>1, <1>2, <1>3 DEF BrokerInv, TypeOK, listenVars, outcomeVars
<1>7. EntryPrecedesBroadcast'
  BY <1>2 DEF BrokerInv, TypeOK, EntryPrecedesBroadcast
<1>8. BroadcastIsStored'
  BY <1>1, <1>2, <1>4 DEF BrokerInv, EntryPrecedesBroadcast, BroadcastIsStored,
     listenVars, outcomeVars
<1>9. HeardIsPublished'
  <2> SUFFICES ASSUME NEW m \in inbox' \cup taken' PROVE call'[m[1]] \in {"returned", "raised"}
    BY DEF HeardIsPublished
  <2>1. CASE m \in {p} \X reached
    BY <2>1, <1>2, <1>4 DEF BrokerInv, TypeOK
  <2>2. CASE m \in inbox \cup taken
    <3>1. m[1] \in Publishers /\ call[m[1]] \in {"returned", "raised"}
      BY <2>2 DEF BrokerInv, TypeOK, HeardIsPublished, Message
    <3> QED BY <3>1, <1>2 DEF BrokerInv, TypeOK
  <2> QED BY <2>1, <2>2, <1>1, <1>2 DEF listenVars, outcomeVars
<1>10. HandledOnce'
  BY <1>1, <1>2, <1>5 DEF BrokerInv, HandledOnce, Waits, Held, Settled, listenVars, outcomeVars
<1>11. DealtIsTaken' /\ NothingVanishes'
  BY <1>2 DEF BrokerInv, DealtIsTaken, NothingVanishes, Held, Settled, listenVars, outcomeVars
<1> QED BY <1>6, <1>7, <1>8, <1>9, <1>10, <1>11 DEF BrokerInv

(* Steps of control alone, of listeners and of close, and what the          *)
(* connection loses, disturb no message that was taken.                     *)
LEMMA QuietInv ==
  ASSUME BrokerInv,
         UNCHANGED <<publishVars, message, outcomeVars>>,
         subscribed' \subseteq Listeners, inbox' \subseteq inbox,
         running' \in BOOLEAN,
         closing' \in {"open", "unsubscribe", "closed", "raised"},
         listener' \in [Listeners -> ListenerPoint],
         \A l \in Listeners :
           /\ listener'[l] \in {"callback", "quarantine"} <=>
                listener[l] \in {"callback", "quarantine"}
           /\ listener[l] = "raised" => listener'[l] = "raised"
  PROVE  BrokerInv'
<1>1. TypeOK'
  BY DEF BrokerInv, TypeOK, publishVars, outcomeVars
<1>2. EntryPrecedesBroadcast' /\ BroadcastIsStored' /\ HeardIsPublished' /\ DealtIsTaken'
  BY DEF BrokerInv, EntryPrecedesBroadcast, BroadcastIsStored, HeardIsPublished,
     DealtIsTaken, publishVars, outcomeVars
<1>3. HandledOnce'
  BY DEF BrokerInv, HandledOnce, Waits, Held, Settled, outcomeVars
<1>4. NothingVanishes'
  BY DEF BrokerInv, NothingVanishes, Held, Settled, outcomeVars
<1> QED BY <1>1, <1>2, <1>3, <1>4 DEF BrokerInv

(* A message taken from the connection was not taken before, so one         *)
(* listener holds it (subscribe_wildcard, get_message).                     *)
LEMMA TakeInv ==
  ASSUME BrokerInv, NEW l \in Listeners, TakeMessage(l)
  PROVE  BrokerInv'
<1>1. PICK m \in inbox : Receive(l, m) /\ inbox' = inbox \ {m}
  BY DEF TakeMessage
<1>2. /\ listener[l] = "get"
      /\ \E next \in {"callback", "quarantine"} : listener' = [listener EXCEPT ![l] = next]
      /\ message' = [message EXCEPT ![l] = m]
      /\ taken' = taken \cup {m}
      /\ UNCHANGED <<publishVars, subscribed, running, processed, dead_letter, closing>>
  BY <1>1 DEF Receive, Goto
<1>3. m \in Message /\ m # None
  BY BrokerAssumption DEF BrokerInv, TypeOK
<1>4. m \notin taken
  BY <1>3 DEF BrokerInv, HandledOnce, Waits
<1>5. \A k \in Listeners : message[k] # m
  BY <1>3, <1>4 DEF BrokerInv, DealtIsTaken
<1>6. ~Settled(m)
  BY <1>4 DEF BrokerInv, DealtIsTaken, Settled
<1>7. TypeOK'
  BY <1>1, <1>2, <1>3 DEF BrokerInv, TypeOK, ListenerPoint, publishVars
<1>8. EntryPrecedesBroadcast' /\ BroadcastIsStored' /\ HeardIsPublished'
  BY <1>1, <1>2 DEF BrokerInv, EntryPrecedesBroadcast, BroadcastIsStored,
     HeardIsPublished, publishVars
<1>9. DealtIsTaken'
  BY <1>2 DEF BrokerInv, TypeOK, DealtIsTaken
<1>10. HandledOnce'
  BY <1>1, <1>2, <1>5, <1>6 DEF BrokerInv, TypeOK, HandledOnce, Waits, Held, Settled
<1>11. NothingVanishes'
  <2>1. message[l] = None
    BY <1>2 DEF BrokerInv, TypeOK
  <2>2. \A k \in Listeners : listener'[k] # "raised" => listener[k] # "raised"
    BY <1>2 DEF BrokerInv, TypeOK
  <2>3. \A x \in Message, k \in Listeners : message[k] = x => message'[k] = x
    BY <1>2, <2>1, BrokerAssumption DEF BrokerInv, TypeOK
  <2>4. message'[l] = m
    BY <1>2 DEF BrokerInv, TypeOK
  <2> QED BY <1>2, <2>2, <2>3, <2>4 DEF BrokerInv, TypeOK, NothingVanishes, Held, Settled
<1> QED BY <1>7, <1>8, <1>9, <1>10, <1>11 DEF BrokerInv

(* The message in hand is settled once, or dropped by a listener that ends  *)
(* with an exception (callback, quarantine_poison_payload, cancellation).   *)
LEMMA SettleInv ==
  ASSUME BrokerInv, NEW l \in Listeners,
         CallbackReturns(l) \/ Quarantine(l) \/ QuarantineFails(l) \/ Cancel(l)
  PROVE  BrokerInv'
<1>1. /\ \E to \in {"sleep", "raised"} : listener' = [listener EXCEPT ![l] = to]
      /\ message' = [message EXCEPT ![l] = None]
      /\ UNCHANGED <<publishVars, pubsubVars, running, taken, closing>>
  BY DEF CallbackReturns, Quarantine, QuarantineFails, Cancel, Goto, Drop, outcomeVars
<1>2. \/ message[l] # None /\ processed' = processed \cup {message[l]} /\ dead_letter' = dead_letter
      \/ message[l] # None /\ processed' = processed /\ dead_letter' = dead_letter \cup {message[l]}
      \/ processed' = processed /\ dead_letter' = dead_letter /\ listener'[l] = "raised"
  BY DEF CallbackReturns, Quarantine, QuarantineFails, Cancel, Goto, outcomeVars,
     BrokerInv, TypeOK
<1>3. message[l] # None =>
        message[l] \in taken /\ message[l] \in Message /\ ~Settled(message[l])
  BY DEF BrokerInv, TypeOK, DealtIsTaken, HandledOnce, Held
<1>4. TypeOK'
  BY <1>1, <1>2, <1>3 DEF BrokerInv, TypeOK, ListenerPoint, publishVars, pubsubVars
<1>5. EntryPrecedesBroadcast' /\ BroadcastIsStored' /\ HeardIsPublished'
  BY <1>1 DEF BrokerInv, EntryPrecedesBroadcast, BroadcastIsStored, HeardIsPublished,
     publishVars, pubsubVars
<1>6. DealtIsTaken'
  BY <1>1, <1>2, <1>3 DEF BrokerInv, TypeOK, DealtIsTaken
<1>7. \A k \in Listeners, m \in Message : message'[k] = m => message[k] = m /\ k # l
  BY <1>1, BrokerAssumption DEF BrokerInv, TypeOK
<1>8. HandledOnce'
  BY <1>1, <1>2, <1>3, <1>7 DEF BrokerInv, HandledOnce, Waits, Held, Settled, pubsubVars
<1>9. NothingVanishes'
  <2> SUFFICES ASSUME \A k \in Listeners : listener'[k] # "raised", NEW m \in taken'
               PROVE  Settled(m)' \/ \E k \in Listeners : Held(m, k)'
    BY DEF NothingVanishes
  <2>1. \A k \in Listeners : listener[k] # "raised"
    BY <1>1 DEF BrokerInv, TypeOK, CallbackReturns, Quarantine, QuarantineFails, Cancel, Goto
  <2>2. Settled(m) \/ \E k \in Listeners : Held(m, k)
    BY <2>1, <1>1 DEF BrokerInv, NothingVanishes
  <2>3. \A k \in Listeners : k # l => message'[k] = message[k]
    BY <1>1 DEF BrokerInv, TypeOK
  <2> QED BY <1>2, <2>2, <2>3 DEF Settled, Held
<1> QED BY <1>4, <1>5, <1>6, <1>8, <1>9 DEF BrokerInv

(* Every step preserves the invariant.                                      *)
LEMMA NextInv == BrokerInv /\ [Next]_vars => BrokerInv'
<1> SUFFICES ASSUME BrokerInv, [Next]_vars PROVE BrokerInv'
  OBVIOUS
<1>1. ASSUME NEW l \in Listeners,
             Subscribe(l) \/ Subscribed(l) \/ NoMessage(l) \/ CallbackRaises(l) \/ Wake(l)
      PROVE  BrokerInv'
  <2>1. /\ UNCHANGED <<publishVars, message, outcomeVars, inbox, closing>>
        /\ subscribed' \subseteq Listeners /\ running' \in BOOLEAN
    BY <1>1 DEF Subscribe, Subscribed, NoMessage, CallbackRaises, Wake, Move,
       pubsubVars, BrokerInv, TypeOK
  <2>2. \E from \in ListenerPoint, to \in ListenerPoint :
          /\ listener[l] = from /\ from # "raised"
          /\ from \in {"callback", "quarantine"} <=> to \in {"callback", "quarantine"}
          /\ listener' = [listener EXCEPT ![l] = to]
    BY <1>1 DEF Subscribe, Subscribed, NoMessage, CallbackRaises, Wake, Move, Goto, ListenerPoint
  <2>3. \A k \in Listeners :
          /\ listener'[k] \in {"callback", "quarantine"} <=>
               listener[k] \in {"callback", "quarantine"}
          /\ listener[k] = "raised" => listener'[k] = "raised"
    BY <2>2 DEF BrokerInv, TypeOK
  <2>4. listener' \in [Listeners -> ListenerPoint]
    BY <2>2 DEF BrokerInv, TypeOK
  <2> QED BY <2>1, <2>3, <2>4, QuietInv DEF BrokerInv, TypeOK
<1>2. CASE CloseBegins \/ CloseConnection \/ CloseRaises \/ ConnectionLost
  <2>1. /\ UNCHANGED <<publishVars, message, outcomeVars, listener>>
        /\ subscribed' \subseteq Listeners /\ inbox' \subseteq inbox /\ running' \in BOOLEAN
        /\ closing' \in {"open", "unsubscribe", "closed", "raised"}
    BY <1>2 DEF CloseBegins, CloseConnection, CloseRaises, ConnectionLost,
       pubsubVars, listenVars, BrokerInv, TypeOK
  <2> QED BY <2>1, QuietInv DEF BrokerInv, TypeOK
<1>3. CASE UNCHANGED vars
  BY <1>3, QuietInv DEF vars, pubsubVars, listenVars, BrokerInv, TypeOK
<1> QED BY <1>1, <1>2, <1>3, AppendInv, PublishInv, TakeInv, SettleInv DEF Next, Listen

(* The inductive invariant holds for any number of calls and listeners.     *)
THEOREM BrokerInvariant == Spec => []BrokerInv
BY InitInv, NextInv, PTL DEF Spec

(* Every variable stays in its range. *)
THEOREM BrokerTypes == Spec => []TypeOK
<1>1. BrokerInv => TypeOK BY DEF BrokerInv
<1> QED BY <1>1, BrokerInvariant, PTL

(* Whoever hears of a published event finds it in the stream.               *)
THEOREM HeardIsStored == Spec => []BroadcastIsStored
<1>1. BrokerInv => BroadcastIsStored BY DEF BrokerInv
<1> QED BY <1>1, BrokerInvariant, PTL

(* No message is dealt with twice, by however many listeners.               *)
THEOREM DealtWithOnce == Spec => []HandledOnce
<1>1. BrokerInv => HandledOnce BY DEF BrokerInv
<1> QED BY <1>1, BrokerInvariant, PTL

(* A message that was taken is accounted for while no listener has ended    *)
(* with an exception.                                                       *)
THEOREM AllAccountedFor == Spec => []NothingVanishes
<1>1. BrokerInv => NothingVanishes BY DEF BrokerInv
<1> QED BY <1>1, BrokerInvariant, PTL

=============================================================================

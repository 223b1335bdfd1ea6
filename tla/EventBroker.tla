---------------------------- MODULE EventBroker ----------------------------
(***************************************************************************)
(* EventBroker (event_broker.py) and trigger.py: publish_event appends to  *)
(* the stream and then broadcasts; one broker object runs several calls of *)
(* subscribe_wildcard, its listeners, which share one Pub/Sub connection   *)
(* and one flag, and closes.  A step is what happens between two awaits.   *)
(* A message is a publish call together with the listener whose pattern it *)
(* matched: Redis sends one copy per pattern of the connection.  Nothing   *)
(* trims the stream here: it is the set of entries ever added.             *)
(***************************************************************************)

CONSTANTS
  Calls,      \* calls of publish_event
  Triggers,   \* runs of trigger.py, which only broadcasts
  Listeners,  \* calls of subscribe_wildcard
  None

Publishers == Calls \cup Triggers
Message == Publishers \X Listeners

ASSUME BrokerAssumption ==
  /\ Calls \cap Triggers = {}
  /\ None \notin Message

VARIABLES
  stream,       \* calls whose entry has been added to STREAM_KEY
  call,         \* per publisher: its next command, or how it ended
  subscribed,   \* listeners whose pattern the connection has subscribed to
  inbox,        \* messages that wait on the connection
  running,      \* self._running
  listener,     \* per listener: where subscribe_wildcard is
  message,      \* per listener: its local variable, None when it holds none
  processed,    \* messages whose callback has returned
  dead_letter,  \* messages in DLQ_KEY
  taken,        \* messages get_message has ever returned (history)
  closing       \* where close is

publishVars == <<stream, call>>
pubsubVars == <<subscribed, inbox>>
outcomeVars == <<processed, dead_letter, taken>>
listenVars == <<running, listener, message, outcomeVars>>
vars == <<publishVars, pubsubVars, listenVars, closing>>

ListenerPoint ==
  {"off", "psubscribe", "get", "callback", "quarantine", "sleep", "ended", "raised"}

Init ==
  /\ stream = {}
  /\ call = [p \in Publishers |-> IF p \in Calls THEN "xadd" ELSE "publish"]
  /\ subscribed = {} /\ inbox = {}
  /\ running = FALSE
  /\ listener = [l \in Listeners |-> "off"]
  /\ message = [l \in Listeners |-> None]
  /\ processed = {} /\ dead_letter = {} /\ taken = {}
  /\ closing = "open"

-----------------------------------------------------------------------------
(* publish_event; trigger.py's main *)

XAdd(c) ==
  /\ call[c] = "xadd"
  /\ stream' = stream \cup {c}
  /\ call' = [call EXCEPT ![c] = "publish"]
  /\ UNCHANGED <<pubsubVars, listenVars, closing>>

(* The exception is raised to the caller; the entry may have been stored.   *)
XAddFails(c) ==
  /\ call[c] = "xadd"
  /\ stream' \in {stream, stream \cup {c}}
  /\ call' = [call EXCEPT ![c] = "raised"]
  /\ UNCHANGED <<pubsubVars, listenVars, closing>>

(* PUBLISH reaches the listeners whose pattern matches the channel and      *)
(* whose connection is up at this moment, and nobody else ever.             *)
Broadcast(p) ==
  \E reached \in SUBSET subscribed : inbox' = inbox \cup ({p} \X reached)

(* Variant (BroadcastIsStored): PUBLISH does not wait for XADD. *)
PublishAtOnce(p) ==
  /\ call[p] \in {"xadd", "publish"}
  /\ Broadcast(p)
  /\ call' \in {[call EXCEPT ![p] = "returned"], [call EXCEPT ![p] = "raised"]}
  /\ UNCHANGED <<stream, subscribed, listenVars, closing>>

(* PUBLISH, whose reply may be lost. *)
Publish(p) ==
  /\ call[p] = "publish"
  /\ Broadcast(p)
  /\ call' \in {[call EXCEPT ![p] = "returned"], [call EXCEPT ![p] = "raised"]}
  /\ UNCHANGED <<stream, subscribed, listenVars, closing>>

-----------------------------------------------------------------------------
(* subscribe_wildcard *)

Goto(l, from, to) ==
  /\ listener[l] \in from
  /\ listener' = [listener EXCEPT ![l] = to]

Drop(l) == message' = [message EXCEPT ![l] = None]

(* A step of control alone. *)
Move(l, from, to) ==
  /\ Goto(l, from, to)
  /\ UNCHANGED <<publishVars, pubsubVars, running, message, outcomeVars, closing>>

Subscribe(l) == Move(l, {"off"}, "psubscribe")

(* psubscribe returns, whatever close has done meanwhile: a connection that *)
(* was closed is opened again.                                              *)
Subscribed(l) ==
  /\ Goto(l, {"psubscribe"}, "get")
  /\ subscribed' = subscribed \cup {l}
  /\ running' = TRUE
  /\ UNCHANGED <<publishVars, inbox, message, outcomeVars, closing>>

(* The callback is called with m, or decoding m has failed. *)
Receive(l, m) ==
  /\ \E next \in {"callback", "quarantine"} : Goto(l, {"get"}, next)
  /\ message' = [message EXCEPT ![l] = m]
  /\ taken' = taken \cup {m}
  /\ UNCHANGED <<publishVars, subscribed, running, processed, dead_letter, closing>>

(* Variant (HandledOnce): the message stays on the connection.   *)
PeekMessage(l) ==
  \E m \in inbox : Receive(l, m) /\ inbox' = inbox

(* Variant (InboxDrains): a listener leaves what another pattern matched.   *)
TakeOwnMessage(l) ==
  \E m \in inbox : m[2] = l /\ Receive(l, m) /\ inbox' = inbox \ {m}

(* get_message returns any message of the connection, whichever pattern it  *)
(* matched.                                                                 *)
TakeMessage(l) ==
  \E m \in inbox : Receive(l, m) /\ inbox' = inbox \ {m}

(* It timed out or raised: message is None, nothing is quarantined. *)
NoMessage(l) == Move(l, {"get"}, "sleep")

CallbackReturns(l) ==
  /\ Goto(l, {"callback"}, "sleep")
  /\ processed' = processed \cup {message[l]}
  /\ Drop(l)
  /\ UNCHANGED <<publishVars, pubsubVars, running, dead_letter, taken, closing>>

(* Variant (NothingVanishes): the handler forgets the message. *)
CallbackSwallowed(l) ==
  /\ Goto(l, {"callback"}, "sleep")
  /\ Drop(l)
  /\ UNCHANGED <<publishVars, pubsubVars, running, outcomeVars, closing>>

CallbackRaises(l) == Move(l, {"callback"}, "quarantine")

(* Variant (TypeOK): message is not reset for the next turn of the loop.    *)
QuarantineKeeps(l) ==
  /\ Goto(l, {"quarantine"}, "sleep")
  /\ dead_letter' = dead_letter \cup {message[l]}
  /\ UNCHANGED <<publishVars, pubsubVars, running, message, processed, taken, closing>>

(* quarantine_poison_payload: LPUSH. *)
Quarantine(l) ==
  /\ Goto(l, {"quarantine"}, "sleep")
  /\ dead_letter' = dead_letter \cup {message[l]}
  /\ Drop(l)
  /\ UNCHANGED <<publishVars, pubsubVars, running, processed, taken, closing>>

(* LPUSH raises inside the except clause: the exception leaves the loop,    *)
(* and running stays as it is.                                              *)
QuarantineFails(l) ==
  /\ Goto(l, {"quarantine"}, "raised")
  /\ dead_letter' \in {dead_letter, dead_letter \cup {message[l]}}
  /\ Drop(l)
  /\ UNCHANGED <<publishVars, pubsubVars, running, processed, taken, closing>>

(* Variant (FlagEndsListeners): while True. *)
WakeAlways(l) == Move(l, {"sleep"}, "get")

(* asyncio.sleep, then the test of the while loop. *)
Wake(l) == Move(l, {"sleep"}, IF running THEN "get" ELSE "ended")

(* psubscribe raises, or the task is cancelled at an await, which           *)
(* "except Exception" does not catch.                                       *)
Cancel(l) ==
  /\ Goto(l, {"psubscribe", "get", "callback", "quarantine", "sleep"}, "raised")
  /\ Drop(l)
  /\ UNCHANGED <<publishVars, pubsubVars, running, outcomeVars, closing>>

-----------------------------------------------------------------------------
(* close.  Its unsubscribe names channels, not patterns, so the patterns    *)
(* stay until the connection goes.                                          *)

CloseBegins ==
  /\ closing = "open"
  /\ closing' = IF \E l \in Listeners : listener[l] # "off" THEN "unsubscribe" ELSE "closed"
  /\ running' = FALSE
  /\ UNCHANGED <<publishVars, pubsubVars, listener, message, outcomeVars>>

CloseConnection ==
  /\ closing = "unsubscribe"
  /\ closing' = "closed"
  /\ subscribed' = {} /\ inbox' = {}
  /\ UNCHANGED <<publishVars, listenVars>>

CloseRaises ==
  /\ closing = "unsubscribe"
  /\ closing' = "raised"
  /\ UNCHANGED <<publishVars, pubsubVars, listenVars>>

(* The connection breaks: what waits on it is lost; it is opened again with *)
(* its patterns by the next get_message.                                    *)
ConnectionLost ==
  /\ inbox # {}
  /\ inbox' = {}
  /\ UNCHANGED <<publishVars, subscribed, listenVars, closing>>

-----------------------------------------------------------------------------

(* The steps of a listener that is not interrupted. *)
Listen(l) ==
  \/ TakeMessage(l) \/ NoMessage(l) \/ CallbackReturns(l) \/ CallbackRaises(l)
  \/ Quarantine(l) \/ QuarantineFails(l) \/ Wake(l)

Next ==
  \/ \E c \in Calls : XAdd(c) \/ XAddFails(c)
  \/ \E p \in Publishers : Publish(p)
  \/ \E l \in Listeners : Subscribe(l) \/ Subscribed(l) \/ Listen(l) \/ Cancel(l)
  \/ CloseBegins \/ CloseConnection \/ CloseRaises
  \/ ConnectionLost

Spec == Init /\ [][Next]_vars

(* Callbacks return or raise, sleeps end, and get_message does not fail for *)
(* ever while a message waits for it.                                       *)
FairSpec ==
  Spec /\ \A l \in Listeners : WF_vars(Listen(l)) /\ SF_vars(TakeMessage(l))

-----------------------------------------------------------------------------

(* Every variable stays in its range; a listener holds a message exactly    *)
(* while it deals with one.                                                 *)
TypeOK ==
  /\ stream \subseteq Calls
  /\ call \in [Publishers -> {"xadd", "publish", "returned", "raised"}]
  /\ subscribed \subseteq Listeners /\ inbox \subseteq Message
  /\ running \in BOOLEAN
  /\ listener \in [Listeners -> ListenerPoint]
  /\ message \in [Listeners -> Message \cup {None}]
  /\ \A l \in Listeners :
       message[l] # None <=> listener[l] \in {"callback", "quarantine"}
  /\ processed \subseteq Message /\ dead_letter \subseteq Message /\ taken \subseteq Message
  /\ closing \in {"open", "unsubscribe", "closed", "raised"}

(* Whoever hears of a published event hears of one whose entry has been     *)
(* added to the stream before, however publishing, lost replies and         *)
(* listening interleave (publish_event; whether a trim has taken the entry  *)
(* away since is not looked at here).                                       *)
BroadcastIsStored ==
  \A m \in inbox \cup taken : m[1] \in Calls => m[1] \in stream

(* Listeners share a connection, yet no two of them ever deal with the same *)
(* message, and none is quarantined once processed (subscribe_wildcard).    *)
Waits(m) == m \in inbox
Held(m, l) == message[l] = m
Settled(m) == m \in processed \cup dead_letter

HandledOnce ==
  /\ processed \cap dead_letter = {}
  /\ \A m \in Message :
       /\ Waits(m) => m \notin taken
       /\ \A l \in Listeners : Held(m, l) => ~Settled(m)
       /\ \A k, l \in Listeners : Held(m, k) /\ Held(m, l) => k = l

(* What get_message returned is processed, quarantined or in hand, unless   *)
(* an exception or a cancellation has ended a listener                      *)
(* (quarantine_poison_payload).                                             *)
NothingVanishes ==
  (\A l \in Listeners : listener[l] # "raised") =>
    \A m \in taken : Settled(m) \/ \E l \in Listeners : Held(m, l)

(* The inductive invariant: a publisher that still has to broadcast has     *)
(* been heard of by nobody, and everything settled or in hand was taken.    *)
EntryPrecedesBroadcast == \A c \in Calls : call[c] = "publish" => c \in stream
HeardIsPublished ==
  \A m \in inbox \cup taken : call[m[1]] \in {"returned", "raised"}
DealtIsTaken ==
  /\ processed \cup dead_letter \subseteq taken
  /\ \A l \in Listeners : message[l] # None => message[l] \in taken

BrokerInv ==
  /\ TypeOK
  /\ EntryPrecedesBroadcast /\ BroadcastIsStored /\ HeardIsPublished
  /\ DealtIsTaken /\ HandledOnce /\ NothingVanishes

Listening(l) == listener[l] \in {"get", "callback", "quarantine", "sleep"}

(* Poison payloads, failing reads and the end of other listeners do not     *)
(* keep a message from being taken while anybody listens.                   *)
InboxDrains ==
  \A m \in Message : Waits(m) ~> (~Waits(m) \/ \A l \in Listeners : ~Listening(l))

(* Once the flag stays down, every listener ends, in whatever it was.       *)
FlagEndsListeners == <>[]~running => <>[](\A l \in Listeners : ~Listening(l))

=============================================================================

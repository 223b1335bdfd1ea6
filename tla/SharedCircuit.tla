---------------------------- MODULE SharedCircuit ----------------------------
(***************************************************************************)
(* The breaker's key as two programs use it: the clients of                *)
(* circuit_breaker.py, and nodes that ask AgentStateMemory                 *)
(* (state_memory.py) for the circuit of the same name.  A node reads the   *)
(* same key, calls the service unless it is OPEN, and sets the key by the  *)
(* one result: it keeps no count, writes no stamp and waits for no         *)
(* cooldown.  How a node uses the two methods is not in the repository.    *)
(***************************************************************************)
EXTENDS CircuitBreaker

CONSTANT Nodes

VARIABLE node  \* per node: outside, in its call, or about to report

sharedVars == <<vars, node>>

NodePoint == {"idle", "call", "report success", "report failure"}

SharedInit == Init /\ node = [n \in Nodes |-> "idle"]

Moves(n, from, to) ==
  /\ node[n] = from
  /\ node' = [node EXCEPT ![n] = to]

(* check_circuit_status: a GET that raises is answered CLOSED. *)
CheckStatus(n) ==
  /\ Moves(n, "idle", "call")
  /\ Current # "OPEN" \/ ~reliable
  /\ UNCHANGED vars

NodeAnswer(n) ==
  /\ Moves(n, "call", IF healthy THEN "report success" ELSE "report failure")
  /\ UNCHANGED vars

(* report_node_execution_result, whose SET may have taken effect or not     *)
(* when it raises; nobody is told.  A CLOSED written over a trip is marked  *)
(* in the history `clean`.                                                  *)
ReportSuccess(n) ==
  /\ Moves(n, "report success", "idle")
  /\ state' = "CLOSED"
  /\ clean' = (clean /\ Current = "CLOSED")
  /\ UNCHANGED <<failures, since, opened, pc, tally, healthy, reliable>>

(* Variant (OutageTrips): a failure is reported as CLOSED. *)
ReportFailureClosed(n) ==
  /\ Moves(n, "report failure", "idle")
  /\ state' = "CLOSED"
  /\ clean' = (clean /\ Current = "CLOSED")
  /\ UNCHANGED <<failures, since, opened, pc, tally, healthy, reliable>>

ReportFailure(n) ==
  /\ Moves(n, "report failure", "idle")
  /\ state' = "OPEN"
  /\ UNCHANGED <<failures, since, opened, pc, tally, world>>

ReportIsLost(n) ==
  /\ ~reliable
  /\ \/ Moves(n, "report success", "idle")
     \/ Moves(n, "report failure", "idle")
  /\ UNCHANGED vars

NodeStep(n) ==
  \/ CheckStatus(n) \/ NodeAnswer(n)
  \/ ReportSuccess(n) \/ ReportFailure(n) \/ ReportIsLost(n)

SharedNext ==
  \/ Next /\ UNCHANGED node
  \/ \E n \in Nodes : NodeStep(n)

SharedSpec == SharedInit /\ [][SharedNext]_sharedVars

(* As FairSpec; a call of a node returns and is reported.                   *)
SharedFairSpec ==
  /\ SharedSpec
  /\ WF_sharedVars(Tick /\ UNCHANGED node)
  /\ \A c \in Clients : WF_sharedVars(Step(c) /\ UNCHANGED node)
  /\ \A n \in Nodes : WF_sharedVars(NodeStep(n))

-----------------------------------------------------------------------------

(* Every variable stays in its range.                                       *)
SharedTypeOK == TypeOK /\ node \in [Nodes -> NodePoint]

=============================================================================

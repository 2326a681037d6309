----------------------------- MODULE MCExamples -----------------------------
(***************************************************************************)
(* An instance of the programs that run by themselves for TLC: the thread  *)
(* and process examples and the nodes of the client lists.  One of them    *)
(* runs, chosen at the start.                                              *)
(***************************************************************************)
EXTENDS ThreadExamples, ProcessExamples, ListNodes

CONSTANTS k1, k2, u1, u2  \* client names and topics

\* A client that receives (type RECEIVE_REQUEST), and one that only sends, whose name
\* begins with the name of the first.
ListRows == {[client_name |-> k1, type |-> 1, topic |-> u1],
             [client_name |-> k2, type |-> 2, topic |-> u2]}

NameBeginnings == {<<k1, k2>>}

exampleVars == <<threadVars, exchangeVars, nodeVars>>

ExamplesInit ==
  /\ ThreadsInit
  /\ ExchangesInit
  /\ NodesInit
  /\ program = "none" \/ exchange = "none"
  /\ version = "demo_1" => program = "none" /\ exchange = "none"

Threading == ThreadsNext /\ UNCHANGED <<exchangeVars, nodeVars>>
Exchanging == ExchangesNext /\ UNCHANGED <<threadVars, nodeVars>>
Listing ==
  /\ program = "none" /\ exchange = "none"
  /\ NodesNext
  /\ UNCHANGED <<threadVars, exchangeVars>>

\* The scheduler runs every thread and every process that can go on.
ExamplesSpec ==
  /\ ExamplesInit
  /\ [][Threading \/ Exchanging \/ Listing]_exampleVars
  /\ WF_exampleVars(MainReturns /\ UNCHANGED <<exchangeVars, nodeVars>>)
  /\ \A t \in {t1, t2, t3} : WF_exampleVars(ThreadStep(t) /\ UNCHANGED <<exchangeVars, nodeVars>>)
  /\ \A p \in Processes : WF_exampleVars(ProcessStep(p) /\ UNCHANGED <<threadVars, nodeVars>>)
=============================================================================

------------------------- MODULE ExperimentControl -------------------------
(***************************************************************************)
(* The experiment-control scripts of src/implementation/src/:              *)
(* manage_experiment.py (run_experiment: connect the validators, start the *)
(* producer, poll it until it finishes, tear every node down) and the      *)
(* command line of send_start_signal.py (connect_validators,               *)
(* start_production, teardown).  One invocation of a script is one        *)
(* thread that opens one control connection after another; each           *)
(* connection carries a fixed list of ExperimentControlV1 calls.           *)
(*                                                                         *)
(* The nodes are external: a node is only the calls it has received.  A   *)
(* connection may be refused (the node is down or the address has no      *)
(* node), and a call may fail after the earlier calls of its connection   *)
(* were delivered; either exception ends the script.                      *)
(***************************************************************************)
EXTENDS Naturals, Sequences, SequencesExt

CONSTANTS
    NumNodes,      \* nodes of the testbed, addressed 10.10.1.1 .. NumNodes
    Invocations    \* the script invocations to check, one per behaviour

NodeIds == 1 .. NumNodes

\* One control connection: the node it connects to and the calls it makes.
Conn(idx, rpcs) == [node |-> idx, rpcs |-> rpcs]

\* connect_and_send_signal (manage_experiment.py 8-12,
\* send_start_signal.py 5-9).
connect_and_send_signal(idx) == <<Conn(idx, <<"signal_start">>)>>

\* Mutant: the commented-out get_measurements call (line 22) restored in
\* place of the closing signal_start.
teardown_node_fetching(idx) ==
    <<Conn(idx, <<"write_measurements", "get_measurements">>)>>

\* teardown_node (manage_experiment.py 17-24, send_start_signal.py 11-16).
teardown_node(idx) ==
    <<Conn(idx, <<"write_measurements", "signal_start">>)>>

\* Both connect_validators (manage_experiment.py 26-29,
\* send_start_signal.py 18-21): range(0, num_nodes - 1), idx = i + 2.
connect_validators(num_nodes) ==
    FlattenSeq([k \in 1 .. num_nodes - 1 |-> connect_and_send_signal(k + 1)])

\* send_start_signal.py 28-31: the same range, with teardown_node.
write_validator_measurements(num_nodes) ==
    FlattenSeq([k \in 1 .. num_nodes - 1 |-> teardown_node(k + 1)])

\* send_start_signal.py 23-24: the producer is node 1.
start_production == connect_and_send_signal(1)

\* manage_experiment.py 31-33: send_signal_to_all.
send_signal_to_all(nodes) ==
    FlattenSeq([k \in DOMAIN nodes |-> connect_and_send_signal(nodes[k])])

\* manage_experiment.py 37-47: poll_target opens a connection and loops
\* calling is_running.
poll_target(index) == <<Conn(index, <<"poll">>)>>

\* manage_experiment.py 51-56: teardown_experiment over nodes 1 .. 4.
teardown_experiment ==
    FlattenSeq([k \in 1 .. 4 |-> teardown_node(k)])

\* The connections of one invocation: manage_experiment.py 59-64 and the
\* three commands of send_start_signal.py 46-51.
Plan(inv) ==
    CASE inv.cmd = "run_experiment" ->
              connect_validators(4) \o send_signal_to_all(<<1>>)
                \o poll_target(1) \o teardown_experiment
      [] inv.cmd = "connect_validators" -> connect_validators(inv.arg)
      [] inv.cmd = "start_production" -> start_production
      [] inv.cmd = "teardown" -> write_validator_measurements(inv.arg)

VARIABLES
    inv,       \* the invocation being run
    pc,        \* the next connection of Plan(inv)
    status,    \* "running", "exited", "refused", "failed" or "crashed"
    calls      \* the control calls each node has received, in order

vars == <<inv, pc, status, calls>>

Init ==
    /\ inv \in Invocations
    /\ pc = 1
    /\ status = "running"
    /\ calls = [n \in NodeIds |-> <<>>]

Current == Plan(inv)[pc]

\* The script ends when its last connection has closed.
Exit ==
    /\ status = "running"
    /\ pc > Len(Plan(inv))
    /\ status' = "exited"
    /\ UNCHANGED <<inv, pc, calls>>

\* s.connect raises: no node at the address, or the node is down.
Refused ==
    /\ status = "running"
    /\ pc <= Len(Plan(inv))
    /\ status' = "refused"
    /\ UNCHANGED <<inv, pc, calls>>

\* Mutant: an exception of a call is swallowed and the script goes on.
DeliverSwallowing ==
    /\ status = "running"
    /\ pc <= Len(Plan(inv))
    /\ Current.node \in NodeIds
    /\ Current.rpcs # <<"poll">>
    /\ \E k \in 1 .. Len(Current.rpcs) :
         /\ calls' = [calls EXCEPT ![Current.node] =
                         @ \o SubSeq(Current.rpcs, 1, k)]
         /\ pc' = pc + 1
    /\ UNCHANGED <<inv, status>>

\* The connection is accepted and its calls are made in order; a call may
\* raise after the first k were delivered, ending the script.
Deliver ==
    /\ status = "running"
    /\ pc <= Len(Plan(inv))
    /\ Current.node \in NodeIds
    /\ Current.rpcs # <<"poll">>
    /\ \E k \in 1 .. Len(Current.rpcs) :
         /\ calls' = [calls EXCEPT ![Current.node] =
                         @ \o SubSeq(Current.rpcs, 1, k)]
         /\ IF k = Len(Current.rpcs)
              THEN pc' = pc + 1 /\ UNCHANGED status
              ELSE status' = "failed" /\ UNCHANGED pc
    /\ UNCHANGED inv

\* manage_experiment.py 42: the first statement of the polling loop reads
\* str(i), a name bound nowhere in poll_target or the module: NameError,
\* before is_running is called.
Poll ==
    /\ status = "running"
    /\ pc <= Len(Plan(inv))
    /\ Current.node \in NodeIds
    /\ Current.rpcs = <<"poll">>
    /\ status' = "crashed"
    /\ UNCHANGED <<inv, pc, calls>>

Next == Exit \/ Refused \/ Deliver \/ Poll

\* An invocation is one thread that runs until it exits; which node
\* refuses is up to the environment, and no fairness is assumed of it.
Spec == Init /\ [][Next]_vars /\ WF_vars(Exit \/ Deliver \/ Poll)

(***************************************************************************)
(* Properties.                                                             *)
(***************************************************************************)

Received(n, rpc) == \E k \in DOMAIN calls[n] : calls[n][k] = rpc

\* Every variable holds a value of its intended type.
TypeOK ==
    /\ inv \in Invocations
    /\ pc \in 1 .. Len(Plan(inv)) + 1
    /\ status \in {"running", "exited", "refused", "failed", "crashed"}
    /\ calls \in [NodeIds -> Seq({"signal_start", "write_measurements"})]

\* A node is left torn down halfway (measurements written but no
\* signal_start after them) only when the script reports the failure: a
\* script that exits normally, or is still running, has completed every
\* teardown_node connection it opened.  About the two calls of
\* teardown_node and the exception that ends the script between them.
NoSilentHalfTeardown ==
    status \in {"running", "exited"} =>
      \A n \in NodeIds : calls[n] # <<>> => Last(calls[n]) = "signal_start"

\* run_experiment (manage_experiment.py 59-64) exists to end with every
\* node's measurements written: unless a node refuses a connection or a
\* call fails, every node eventually receives write_measurements.
AllMeasurementsWritten ==
    <>(\/ status \in {"refused", "failed"}
       \/ \A n \in NodeIds : Received(n, "write_measurements"))

=============================================================================

---------------------------- MODULE MCTupleSpace ----------------------------
(* Bounded instances of TupleSpace for TLC. *)
EXTENDS TupleSpace, TLC

CONSTANTS s1, a, b, c1, c2, c3, d1, d2, d3

\* One handler; blocking GET of any tuple and of name a, READ, asynchronous GET, and
\* PUT of either name.
FullRequests ==
       {[op |-> "PUT", space |-> s1, name |-> n, data |-> d, pri |-> 1]
          : n \in {a, b}, d \in Data}
  \cup {[op |-> "GET", space |-> s1, expr |-> {a, b}, wait |-> TRUE],
        [op |-> "GET", space |-> s1, expr |-> {b}, wait |-> TRUE],
        [op |-> "READ", space |-> s1, expr |-> {a, b}, wait |-> TRUE],
        [op |-> "GET", space |-> s1, expr |-> {a}, wait |-> FALSE]}

\* Applications as Getting-started.txt:245 describes them: every GET is a wildcard.
TaskRequests ==
       {[op |-> "PUT", space |-> s1, name |-> n, data |-> d, pri |-> 1]
          : n \in {a, b}, d \in Data}
  \cup {[op |-> "GET", space |-> s1, expr |-> {a, b}, wait |-> TRUE]}

\* Rounds of tasks with requests for the task map; EOT announces |Data| tasks.
InfoRequests ==
       {[op |-> "PUT", space |-> s1, name |-> a, data |-> d, pri |-> 1] : d \in Data}
  \cup {[op |-> "GET", space |-> s1, expr |-> {a}, wait |-> TRUE],
        [op |-> "SOT", space |-> s1], [op |-> "GTS", space |-> s1],
        [op |-> "EOT", space |-> s1, tids |-> Cardinality(Data)]}

\* The master of a round sends SOT and EOT: one at a time, and one EOT per SOT.
RoundCall(c, r) ==
  /\ r.op \in {"SOT", "EOT"} =>
        \A d \in Clients : call[d] # Nil => call[d].op \notin {"SOT", "EOT"}
  /\ r.op = "EOT" => ~info[r.space].eot
  /\ Call(c, r)

RoundNext ==
  \/ \E c \in Clients, r \in Requests : RoundCall(c, r)
  \/ \E c \in Clients : CallFails(c)
  \/ \E s \in Spaces, c \in Clients : Serve(s, c)
  \/ \E s \in Spaces : ConsumeTuple(s) \/ StoreHand(s) \/ OpExit(s)

RoundSpec == Init /\ [][RoundNext]_vars
FairRoundSpec == RoundSpec /\ Fairness

ClientDataSymmetry == Permutations(Clients) \cup Permutations(Data)
=============================================================================

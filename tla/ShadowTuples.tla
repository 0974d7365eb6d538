---------------------------- MODULE ShadowTuples ----------------------------
(***************************************************************************)
(* What a tuple space handler promises about each tuple content, whatever  *)
(* its lists look like: the life of a "shadow tuple"                       *)
(* (Getting-started.txt:94).  A content is offered, then stored or given   *)
(* to one client; the handler remembers the last content each client took  *)
(* until the client takes another one or is fenced off, and the content    *)
(* of a fenced client is offered again.  A fenced client is given nothing. *)
(***************************************************************************)
CONSTANTS Spaces, Clients, Data, Nil

VARIABLES where, fenced

Unknown     == [at |-> "unknown", by |-> Nil]
Stored      == [at |-> "stored", by |-> Nil]
Gone        == [at |-> "gone", by |-> Nil]
Held(c)     == [at |-> "held", by |-> c]
Offered(c)  == [at |-> "offered", by |-> c]   \* by the recovery of c, or a PUT (Nil)

Init ==
  /\ where = [s \in Spaces |-> [d \in Data |-> Unknown]]
  /\ fenced = [s \in Spaces |-> {}]

\* A PUT brings a new content; the handler works on one content at a time.
Offer(s, d) ==
  /\ where[s][d] = Unknown
  /\ \A e \in Data : where[s][e].at # "offered"
  /\ where' = [where EXCEPT ![s][d] = Offered(Nil)]
  /\ UNCHANGED fenced

\* The previous holder of an offered content is fenced once the content is placed.
Placed(s, d) ==
  fenced' = IF where[s][d].at = "offered" /\ where[s][d].by # Nil
            THEN [fenced EXCEPT ![s] = @ \cup {where[s][d].by}]
            ELSE fenced

\* The content is stored, in place of a content of the same name if there is one.
Store(s, d) ==
  /\ where[s][d].at = "offered"
  /\ \/ where' = [where EXCEPT ![s][d] = Stored]
     \/ \E e \in Data : where[s][e] = Stored
                        /\ where' = [where EXCEPT ![s][d] = Stored, ![s][e] = Gone]
  /\ Placed(s, d)

\* The content goes to one client, whose previous content is now forgotten.
Give(s, d, c) ==
  /\ where[s][d].at \in {"offered", "stored"}
  /\ c \notin fenced[s]
  /\ where' = [where EXCEPT ![s] =
        [e \in Data |-> IF e = d THEN Held(c) ELSE IF @[e] = Held(c) THEN Gone ELSE @[e]]]
  /\ Placed(s, d)

\* Recovery: what a lost client held is offered again.
Recover(s, d, c) ==
  /\ where[s][d] = Held(c)
  /\ \A e \in Data : where[s][e].at # "offered"
  /\ where' = [where EXCEPT ![s][d] = Offered(c)]
  /\ UNCHANGED fenced

\* A lost client that holds nothing is only fenced off.
Fence(s, c) ==
  /\ \A d \in Data : where[s][d] # Held(c)
  /\ fenced' = [fenced EXCEPT ![s] = @ \cup {c}]
  /\ UNCHANGED where

\* The handler exits with all it stored.
Discard(s) ==
  /\ where' = [where EXCEPT ![s] =
        [d \in Data |-> IF @[d] = Unknown THEN Unknown ELSE Gone]]
  /\ fenced' = [fenced EXCEPT ![s] = {}]

Next ==
  \E s \in Spaces :
    \/ \E d \in Data : Offer(s, d) \/ Store(s, d)
    \/ \E d \in Data, c \in Clients : Give(s, d, c) \/ Recover(s, d, c)
    \/ \E c \in Clients : Fence(s, c)
    \/ Discard(s)

Spec == Init /\ [][Next]_<<where, fenced>>
=============================================================================

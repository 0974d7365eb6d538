---------------------------- MODULE MCApplication ----------------------------
EXTENDS Application

p1 == "p1"
p2 == "p2"
p3 == "p3"
ts == "ts"
MCProcList    == <<p1, p2, p3>>
MCHandlerList == <<ts>>
\* p3 follows p1 and p2 and is alone on the host that may be lost.
MCHostOf      == [n \in {p1, p2, p3, ts} |-> IF n = p3 THEN "h1" ELSE "h0"]
MCPrecedents  == [n \in {p1, p2, p3} |-> IF n = p3 THEN {p1, p2} ELSE {}]
MCOutside     == {Event("KILL", p1), Event("KILL", p3), Event("KILL_ALL", Nil), Event("SIGTERM", Nil),
                  Event("KILL_APP", "h1"), Event("CRASH", "h1")}
=============================================================================

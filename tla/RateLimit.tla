----------------------------- MODULE RateLimit -----------------------------
(***************************************************************************)
(* What a rate limiter of the server promises: tokenBucket for chat and    *)
(* commands, slidingCounter for room creation (limits.go), and the         *)
(* connection limiter Hub.allowConnection (hub.go).  A request is granted  *)
(* exactly when fewer than Limit requests were granted in the last Window. *)
(* Nothing is ever forgotten here; SlidingWindow shows that forgetting     *)
(* what the code forgets makes no difference.                              *)
(***************************************************************************)
EXTENDS Integers, FiniteSets

CONSTANTS
    Grants,        \* identities of grants: bounds how many there can be
    Window, Limit,
    ZeroRefuses,   \* TRUE: allowConnection; FALSE: the two allow() methods
    Granted, Refused

VARIABLES
    now,           \* the clock
    granted,       \* the grants given
    at,            \* when each was given
    answer         \* what the last request got

absVars == <<now, granted, at, answer>>

Init ==
    /\ now = 0
    /\ granted = {}
    /\ at = [g \in Grants |-> 0]
    /\ answer = Granted

\* A time is in the window when it is strictly after the cutoff.
Recent(S) == {g \in S : at[g] > now - Window}

Unlimited == Limit = 0 /\ ~ZeroRefuses

Tick ==
    /\ now' = now + 1
    /\ UNCHANGED <<granted, at, answer>>

Grant(g) ==
    /\ Unlimited \/ Cardinality(Recent(granted)) < Limit
    /\ g \in Grants \ granted
    /\ granted' = granted \cup {g}
    /\ at' = [at EXCEPT ![g] = now]
    /\ answer' = Granted
    /\ UNCHANGED now

Refuse ==
    /\ ~Unlimited /\ Cardinality(Recent(granted)) >= Limit
    /\ answer' = Refused
    /\ UNCHANGED <<now, granted, at>>

Next == Tick \/ (\E g \in Grants : Grant(g)) \/ Refuse

Spec == Init /\ [][Next]_absVars
=============================================================================

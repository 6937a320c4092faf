--------------------------- MODULE SlidingWindow ---------------------------
(***************************************************************************)
(* The rate limiter as it is written three times in the server: a list of  *)
(* grant times, pruned under the limiter's lock on each request, and       *)
(* stored back only when the request is granted.                           *)
(*   tokenBucket.allow, slidingCounter.allow   ZeroRefuses = FALSE         *)
(*   Hub.allowConnection                       ZeroRefuses = TRUE          *)
(* The list is a set of grants with their times: its order is never used.  *)
(***************************************************************************)
EXTENDS Integers, FiniteSets

CONSTANTS Grants, Window, Limit, ZeroRefuses, MaxTime

Granted == "granted"
Refused == "refused"
Answers == {Granted, Refused}

ASSUME WindowAssumption ==
    /\ IsFiniteSet(Grants)
    /\ Window \in Nat /\ Limit \in Nat /\ MaxTime \in Nat
    /\ ZeroRefuses \in BOOLEAN

VARIABLES
    now, granted, at, answer,    \* as in RateLimit; granted is history
    times                        \* b.times, s.times, h.connRate[ip]

limiterVars == <<now, granted, at, answer, times>>

\* The limiter that remembers every grant, under the same names.
Promise == INSTANCE RateLimit
    WITH now <- now, granted <- granted, at <- at, answer <- answer,
         Grants <- Grants, Window <- Window, Limit <- Limit,
         ZeroRefuses <- ZeroRefuses, Granted <- Granted, Refused <- Refused

LimiterInit ==
    /\ Promise!Init
    /\ times = {}

RecentNotBefore(S) == {g \in S : at[g] >= now - Window}

\* The pruning loop: t.After(cutoff).
Recent(S) == {g \in S : at[g] > now - Window}

\* limit <= 0 returns true before anything is looked at; allowConnection has
\* no such test.
Unlimited == Limit = 0 /\ ~ZeroRefuses

\* Bounded by MaxTime for TLC.
Tick ==
    /\ now < MaxTime
    /\ now' = now + 1
    /\ UNCHANGED <<granted, at, answer, times>>

Note(g) ==
    /\ g \in Grants \ granted
    /\ granted' = granted \cup {g}
    /\ at' = [at EXCEPT ![g] = now]
    /\ answer' = Granted
    /\ UNCHANGED now

Allow(g) ==
    /\ Unlimited \/ Cardinality(Recent(times)) < Limit
    /\ Note(g)
    /\ times' = IF Unlimited THEN times ELSE Recent(times) \cup {g}

\* The pruned list is dropped: times keeps what the last grant stored.
Deny ==
    /\ ~Unlimited
    /\ Cardinality(Recent(times)) >= Limit
    /\ answer' = Refused
    /\ UNCHANGED <<now, granted, at, times>>

LimiterNext ==
    \/ Tick
    \/ \E g \in Grants : Allow(g)
    \/ Deny

LimiterSpec == LimiterInit /\ [][LimiterNext]_limiterVars

-----------------------------------------------------------------------------
LimiterTypeOK ==
    /\ now \in Nat
    /\ granted \subseteq Grants
    /\ at \in [Grants -> Nat]
    /\ answer \in Answers
    /\ times \subseteq granted
    /\ \A g \in granted : at[g] <= now

\* What the pruned list has lost can never count again.
ListComplete == ~Unlimited => Promise!Recent(granted) \subseteq times

\* The limit holds in every window there ever was, not only in the one that
\* ends now: no Window-long interval contains more than Limit grants, though
\* the code only ever looks at the interval that ends at the request.
InWindow(t) == {g \in granted : t - Window < at[g] /\ at[g] <= t}

NoWindowOverLimit ==
    ~Unlimited => \A t \in 0 .. MaxTime : Cardinality(InWindow(t)) <= Limit

\* The pruned list decides every request as the full history would: the code
\* implements RateLimit.
KeepsPromise == Promise!Spec
=============================================================================

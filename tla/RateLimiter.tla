---------------------------- MODULE RateLimiter ----------------------------
(***************************************************************************)
(* The request limiter of the app's two public routes (rateLimit.ts), one  *)
(* log per server instance, and what /api/audit-args answers behind it.    *)
(* Handling up to the limiter's verdict is one synchronous step; the       *)
(* clock is read once in it.                                               *)
(***************************************************************************)
EXTENDS Integers, Sequences, FiniteSets

CONSTANTS
    Clients,
    KeyOf,               \* the first hop of each client's x-forwarded-for
    WINDOW_MS,           \* the window
    MAX_TRACKED_CLIENTS,
    PerMinute,           \* the limit of each route
    TokenConfigured,     \* TXLINE_API_TOKEN is set
    ClockBound, MaxRequests \* bounds: the clock, the requests

Routes == {"audit-args", "receipt"}

LimiterAssumption ==
    /\ WINDOW_MS \in Nat \ {0} /\ MAX_TRACKED_CLIENTS \in Nat \ {0}
    /\ PerMinute \in [Routes -> Nat \ {0}]
    /\ TokenConfigured \in BOOLEAN
    /\ ClockBound \in Nat \ {0} /\ MaxRequests \in Nat

VARIABLES
    clock,
    requestLog,  \* the requests let through and remembered, by client key
    anchored,    \* the quote asked about is in an anchored batch
    asked        \* every request so far, and what it was answered

limiterVars == <<clock, requestLog, anchored, asked>>

LimiterInit ==
    /\ clock = 1
    /\ requestLog = [k \in {} |-> {}]
    /\ anchored = FALSE
    /\ asked = <<>>

-----------------------------------------------------------------------------
(* isRateLimited                                                           *)

\* At the cap all bookkeeping is dropped, the caller's own included.
Tracked == IF Cardinality(DOMAIN requestLog) >= MAX_TRACKED_CLIENTS THEN [k \in {} |-> {}]
           ELSE requestLog

\* An entry of the log, a time in the code, is the request that left it.
Recent(entries) == {i \in entries : asked[i].at > clock - WINDOW_MS}
RecentOf(key) == IF key \in DOMAIN Tracked THEN Recent(Tracked[key]) ELSE {}

IsRateLimited(key, max) == Cardinality(RecentOf(key)) >= max

\* A refused request is not recorded.
RecordedAnyhow(key, max) == RecentOf(key) \cup {Len(asked) + 1}
Recorded(key, max) ==
    IF IsRateLimited(key, max) THEN RecentOf(key) ELSE RecentOf(key) \cup {Len(asked) + 1}

isRateLimited(key, max) ==
    requestLog' = [k \in DOMAIN Tracked \cup {key} |->
                     IF k = key THEN Recorded(key, max) ELSE Tracked[k]]

-----------------------------------------------------------------------------
(* The routes.                                                             *)

\* What the proof service can answer; that it cannot be reached, fails or sends
\* no JSON is one answer here.
fetchTxlineProof ==
    IF ~TokenConfigured THEN {"unconfigured"}
    ELSE {"unavailable", IF anchored THEN "proof" ELSE "not anchored"}

\* The limiter comes before the request is looked into.
Answers(client, route, wellFormed) ==
    IF IsRateLimited(KeyOf[client], PerMinute[route]) THEN {"limited"}
    ELSE IF ~wellFormed THEN {"malformed"}
    ELSE IF route = "receipt" THEN {"assembled"} ELSE fetchTxlineProof

Handle(client, route) ==
    /\ Len(asked) < MaxRequests
    /\ isRateLimited(KeyOf[client], PerMinute[route])
    /\ \E wellFormed \in BOOLEAN : \E answer \in Answers(client, route, wellFormed) :
         asked' = Append(asked, [client |-> client, route |-> route, at |-> clock, answer |-> answer])
    /\ UNCHANGED <<clock, anchored>>

BatchLands == ~anchored /\ anchored' = TRUE /\ UNCHANGED <<clock, requestLog, asked>>

Ticks == clock < ClockBound /\ clock' = clock + 1 /\ UNCHANGED <<requestLog, anchored, asked>>

LimiterNext ==
    \/ \E client \in Clients, route \in Routes : Handle(client, route)
    \/ BatchLands
    \/ Ticks

LimiterSpec == LimiterInit /\ [][LimiterNext]_limiterVars

-----------------------------------------------------------------------------
(* Properties.                                                             *)

Passed(i) == asked[i].answer # "limited"

\* The requests of the same key before request i, less than a window older.
Before(i) ==
    {j \in 1..(i - 1) : /\ KeyOf[asked[j].client] = KeyOf[asked[i].client]
                        /\ asked[j].at > asked[i].at - WINDOW_MS}

\* The log never holds more clients than it may, and no more requests of a
\* client than the most generous route lets through in a window.
LimiterTypeOK ==
    /\ clock \in 1..ClockBound
    /\ Cardinality(DOMAIN requestLog) <= MAX_TRACKED_CLIENTS
    /\ \A k \in DOMAIN requestLog :
         \E route \in Routes : Cardinality(Recent(requestLog[k])) <= PerMinute[route]
    /\ anchored \in BOOLEAN

\* "True when this client already made maxPerMinute requests in the current
\* window" (rateLimit.ts:26): none is let through after that many, but where as
\* many clients have been seen as may be tracked, and every count was dropped.
WereDropped(i) == Cardinality({KeyOf[asked[j].client] : j \in 1..(i - 1)}) >= MAX_TRACKED_CLIENTS
LimitIsKept ==
    \A i \in DOMAIN asked :
        Passed(i) =>
            \/ Cardinality({j \in Before(i) : Passed(j)}) < PerMinute[asked[i].route]
            \/ WereDropped(i)

\* "Wait a minute and retry": a client that made no request, or only refused
\* ones, for a window is let through, so that insisting is never punished.
WaitingIsEnough ==
    \A i \in DOMAIN asked : ~Passed(i) => \E j \in Before(i) : Passed(j)

\* No client is let through beyond its limit until every count is dropped, none is
\* refused that has waited, and the log never outgrows its cap.
LimiterKeepsItsWord == LimitIsKept /\ WaitingIsEnough /\ LimiterTypeOK

\* "Too many receipt requests" (api/receipt/route.ts:98) is answered to a client
\* that made as many receipt requests as it may.
RefusedReceiptsWereMany ==
    \A i \in DOMAIN asked :
        ~Passed(i) /\ asked[i].route = "receipt" =>
            Cardinality({j \in Before(i) : Passed(j) /\ asked[j].route = "receipt"})
                >= PerMinute["receipt"]

=============================================================================

---------------------------- MODULE AppProofs --------------------------------
(***************************************************************************)
(* Proofs about the request limiter (RateLimiter), the judge panel         *)
(* (JudgeFunding), the verify page and the board (ChainViews): for any     *)
(* clients, limits, wallets, amounts, requests, loads and books at first.  *)
(***************************************************************************)
EXTENDS MCApp, TrueBookProofs

-----------------------------------------------------------------------------
(* The request limiter.                                                    *)

Request ==
    [client : Clients, route : Routes, at : Nat,
     answer : {"limited", "malformed", "assembled",
               "unconfigured", "unavailable", "not anchored", "proof"}]

KeyAt(i) == KeyOf[asked[i].client]

\* The clients seen before request i.
Seen(i) == {KeyAt(j) : j \in 1..(i - 1)}

\* The history, in the order of time.
HistoryIsSound ==
    /\ clock \in 1..ClockBound /\ anchored \in BOOLEAN
    /\ asked \in Seq(Request)
    /\ \A i \in DOMAIN asked : asked[i].at <= clock

\* What the log holds was let through, for the client it is under.
LogIsSound ==
    /\ requestLog = [k \in DOMAIN requestLog |-> requestLog[k]]
    /\ DOMAIN requestLog \subseteq Seen(Len(asked) + 1)
    /\ \A k \in DOMAIN requestLog : \A i \in requestLog[k] :
         i \in DOMAIN asked /\ KeyAt(i) = k /\ Passed(i)

\* While fewer clients have been seen than may be tracked, it holds every request
\* let through in the window.
LogIsComplete ==
    Cardinality(Seen(Len(asked) + 1)) < MAX_TRACKED_CLIENTS =>
        \A i \in DOMAIN asked :
            Passed(i) /\ asked[i].at > clock - WINDOW_MS =>
                KeyAt(i) \in DOMAIN requestLog /\ i \in requestLog[KeyAt(i)]

\* LimiterKeepsItsWord is about the history of requests, and the limiter knows
\* only its log.
LimiterInv == HistoryIsSound /\ LogIsSound /\ LogIsComplete /\ LimiterKeepsItsWord

-----------------------------------------------------------------------------
(* The history grows.                                                      *)

LEMMA SeenIsFinite ==
    ASSUME NEW i \in Nat
    PROVE  IsFiniteSet(Seen(i))
<1> DEFINE f == [j \in 1..(i - 1) |-> KeyAt(j)]
<1>1. IsFiniteSet(1..(i - 1))
  BY FS_Interval
<1>2. f \in Surjection(1..(i - 1), Seen(i))
  BY DEF Surjection, Seen
<1> QED BY <1>1, <1>2, FS_Surjection

\* What has been answered is not changed by another request.
LEMMA PastStays ==
    ASSUME HistoryIsSound, NEW entry, asked' = Append(asked, entry),
           NEW i \in 1..Len(asked)
    PROVE  /\ asked'[i] = asked[i] /\ KeyAt(i)' = KeyAt(i) /\ (Passed(i)' <=> Passed(i))
           /\ Before(i)' = Before(i) /\ Seen(i)' = Seen(i)
           /\ (WereDropped(i)' <=> WereDropped(i))
<1>1. PICK before, after : before = asked /\ after = asked'
  OBVIOUS
<1>2. Len(before) \in Nat /\ \A j \in 1..Len(before) : after[j] = before[j]
  BY <1>1 DEF HistoryIsSound
<1>3. \A j \in 1..i : j \in 1..Len(before)
  BY <1>1, <1>2
<1>4. \A j \in 1..i : after[j] = before[j]
  BY <1>2, <1>3
<1>5. \A j \in 1..(i - 1) : after[j] = before[j]
  BY <1>2, <1>3
<1>6. after[i] = before[i]
  BY <1>4
<1>7. Before(i)' = Before(i)
  BY <1>1, <1>5, <1>6 DEF Before
<1>8. Seen(i)' = Seen(i)
  BY <1>1, <1>5 DEF Seen, KeyAt
<1>9. WereDropped(i)' <=> WereDropped(i)
  BY <1>8 DEF WereDropped, Seen, KeyAt
<1> QED BY <1>1, <1>6, <1>7, <1>8, <1>9 DEF KeyAt, Passed


-----------------------------------------------------------------------------
(* A request is handled.                                                   *)

\* What the limiter finds of a client it has seen.
LEMMA RecentIsSound ==
    ASSUME HistoryIsSound, LogIsSound, NEW caller
    PROVE  /\ RecentOf(caller) \subseteq DOMAIN asked
           /\ IsFiniteSet(RecentOf(caller)) /\ Cardinality(RecentOf(caller)) \in Nat
           /\ \A i \in RecentOf(caller) :
                KeyAt(i) = caller /\ Passed(i) /\ asked[i].at > clock - WINDOW_MS
<1>1. DOMAIN Tracked \subseteq DOMAIN requestLog
      /\ \A k \in DOMAIN Tracked : Tracked[k] = requestLog[k]
  BY DEF Tracked
<1>2. \A i \in RecentOf(caller) :
        /\ i \in DOMAIN asked /\ KeyAt(i) = caller /\ Passed(i)
        /\ asked[i].at > clock - WINDOW_MS
  BY <1>1 DEF RecentOf, Recent, LogIsSound
<1>3. Len(asked) \in Nat /\ DOMAIN asked = 1..Len(asked)
  BY DEF HistoryIsSound
<1>4. IsFiniteSet(DOMAIN asked)
  BY <1>3, FS_Interval
<1>5. RecentOf(caller) \subseteq DOMAIN asked
  BY <1>2
<1>6. IsFiniteSet(RecentOf(caller))
  BY <1>4, <1>5, FS_Subset
<1> QED BY <1>2, <1>5, <1>6, FS_CardinalityType

\* A request is answered, and left in the log if it is let through.
LEMMA HandleEffect ==
    ASSUME LimiterAssumption, HistoryIsSound, LogIsSound, NEW client \in Clients,
           NEW route \in Routes, Handle(client, route)
    PROVE  \E entry \in Request :
             /\ entry.client = client /\ entry.route = route /\ entry.at = clock
             /\ entry.answer = "limited" <=>
                  Cardinality(RecentOf(KeyOf[client])) >= PerMinute[route]
             /\ asked' = Append(asked, entry)
<1>1. PICK answer :
        /\ \E wellFormed \in BOOLEAN : answer \in Answers(client, route, wellFormed)
        /\ asked' = Append(asked, [client |-> client, route |-> route, at |-> clock,
                                   answer |-> answer])
  BY DEF Handle
<1>2. clock \in Nat
  BY DEF HistoryIsSound, LimiterAssumption
<1>3. /\ answer \in {"limited", "malformed", "assembled",
                     "unconfigured", "unavailable", "not anchored", "proof"}
      /\ answer = "limited" <=> IsRateLimited(KeyOf[client], PerMinute[route])
  BY <1>1 DEF Answers, fetchTxlineProof
<1>4. [client |-> client, route |-> route, at |-> clock, answer |-> answer] \in Request
  BY <1>2, <1>3 DEF Request
<1> QED BY <1>1, <1>3, <1>4 DEF IsRateLimited


\* It holds no more clients than have been seen.
LEMMA LogIsFinite ==
    ASSUME HistoryIsSound, LogIsSound
    PROVE  /\ IsFiniteSet(DOMAIN requestLog) /\ Cardinality(DOMAIN requestLog) \in Nat
           /\ Cardinality(DOMAIN requestLog) <= Cardinality(Seen(Len(asked) + 1))
           /\ Cardinality(Seen(Len(asked) + 1)) \in Nat
<1>1. IsFiniteSet(Seen(Len(asked) + 1))
  BY SeenIsFinite DEF HistoryIsSound
<1> QED BY <1>1, FS_Subset, FS_CardinalityType DEF LogIsSound

\* What is recorded of a request that is let through or refused.
LEMMA LogEffect ==
    ASSUME LimiterAssumption, HistoryIsSound, LogIsSound, NEW client, NEW route,
           Handle(client, route)
    PROVE  /\ requestLog' = [k \in DOMAIN requestLog' |-> requestLog'[k]]
           /\ KeyOf[client] \in DOMAIN requestLog'
           /\ DOMAIN requestLog' = DOMAIN Tracked \cup {KeyOf[client]}
           /\ requestLog'[KeyOf[client]] =
                IF Cardinality(RecentOf(KeyOf[client])) >= PerMinute[route]
                THEN RecentOf(KeyOf[client])
                ELSE RecentOf(KeyOf[client]) \cup {Len(asked) + 1}
           /\ \A k \in DOMAIN Tracked : k # KeyOf[client] => requestLog'[k] = requestLog[k]
           /\ DOMAIN Tracked \subseteq DOMAIN requestLog
           /\ Cardinality(DOMAIN requestLog) < MAX_TRACKED_CLIENTS => Tracked = requestLog
<1>1. DOMAIN Tracked \subseteq DOMAIN requestLog
      /\ \A k \in DOMAIN Tracked : Tracked[k] = requestLog[k]
  BY DEF Tracked
<1>2. PICK log, caller :
        /\ log = requestLog' /\ caller = KeyOf[client]
        /\ log = [k \in DOMAIN Tracked \cup {caller} |->
                    IF k = caller THEN Recorded(caller, PerMinute[route]) ELSE Tracked[k]]
  BY DEF Handle, isRateLimited
<1>3. DOMAIN log = DOMAIN Tracked \cup {caller}
  BY <1>2
<1>4. log[caller] = Recorded(caller, PerMinute[route])
  BY <1>2
<1>5. \A k \in DOMAIN Tracked : k # caller => log[k] = requestLog[k]
  BY <1>1, <1>2
<1>6. log = [k \in DOMAIN log |-> log[k]]
  BY <1>2, <1>3
<1>7. Cardinality(DOMAIN requestLog) < MAX_TRACKED_CLIENTS => Tracked = requestLog
  <2> SUFFICES ASSUME Cardinality(DOMAIN requestLog) < MAX_TRACKED_CLIENTS
               PROVE  Tracked = requestLog
    OBVIOUS
  <2>1. Cardinality(DOMAIN requestLog) \in Nat
    BY LogIsFinite
  <2>2. ~(Cardinality(DOMAIN requestLog) >= MAX_TRACKED_CLIENTS)
    BY <2>1 DEF LimiterAssumption
  <2> QED BY <2>2 DEF Tracked
<1> QED BY <1>1, <1>2, <1>3, <1>4, <1>5, <1>6, <1>7 DEF Recorded, IsRateLimited


LEMMA HandleKeeps ==
    ASSUME LimiterAssumption, LimiterInv, NEW client \in Clients, NEW route \in Routes,
           Handle(client, route)
    PROVE  LimiterInv'
<1>1. PICK entry \in Request :
        /\ entry.client = client /\ entry.route = route /\ entry.at = clock
        /\ entry.answer = "limited" <=>
             Cardinality(RecentOf(KeyOf[client])) >= PerMinute[route]
        /\ asked' = Append(asked, entry)
  BY HandleEffect DEF LimiterInv
<1>2. PICK caller, max, recent, n :
        /\ caller = KeyOf[client] /\ max = PerMinute[route] /\ recent = RecentOf(caller)
        /\ n = Len(asked)
  OBVIOUS
<1>3. /\ n \in Nat /\ DOMAIN asked = 1..n /\ max \in Nat \ {0}
      /\ Len(asked') = n + 1 /\ DOMAIN asked' = 1..(n + 1) /\ asked'[n + 1] = entry
      /\ asked' \in Seq(Request) /\ clock \in Nat
      /\ clock' = clock /\ anchored' = anchored
  BY <1>1, <1>2 DEF LimiterInv, HistoryIsSound, LimiterAssumption, Handle
<1>4. /\ recent \subseteq 1..n /\ IsFiniteSet(recent) /\ Cardinality(recent) \in Nat
      /\ \A i \in recent : KeyAt(i) = caller /\ Passed(i) /\ asked[i].at > clock - WINDOW_MS
  BY <1>2, <1>3, RecentIsSound DEF LimiterInv
<1>5. \A i \in 1..n :
        /\ asked'[i] = asked[i] /\ KeyAt(i)' = KeyAt(i) /\ (Passed(i)' <=> Passed(i))
        /\ Before(i)' = Before(i) /\ Seen(i)' = Seen(i)
        /\ (WereDropped(i)' <=> WereDropped(i))
  BY <1>1, <1>2, PastStays DEF LimiterInv
<1>6. /\ KeyAt(n + 1)' = caller
      /\ Passed(n + 1)' <=> Cardinality(recent) < max
  BY <1>1, <1>2, <1>3, <1>4 DEF KeyAt, Passed
<1>7. PICK log :
        /\ log = requestLog' /\ log = [k \in DOMAIN log |-> log[k]]
        /\ caller \in DOMAIN log /\ DOMAIN log = DOMAIN Tracked \cup {caller}
        /\ log[caller] = IF Cardinality(recent) >= max THEN recent ELSE recent \cup {n + 1}
        /\ \A k \in DOMAIN Tracked : k # caller => log[k] = requestLog[k]
        /\ DOMAIN Tracked \subseteq DOMAIN requestLog
        /\ Cardinality(DOMAIN requestLog) < MAX_TRACKED_CLIENTS => Tracked = requestLog
  BY <1>2, LogEffect DEF LimiterInv
<1>8. /\ Seen(Len(asked) + 1)' = Seen(n + 1) \cup {caller}
      /\ Seen(n + 1)' = Seen(n + 1)
  <2>1. PICK seen, then, after :
          /\ seen = Seen(n + 1) /\ then = Seen(Len(asked) + 1)' /\ after = Seen(n + 1)'
    OBVIOUS
  <2>2. seen = {KeyAt(j) : j \in 1..n}
    BY <1>3, <2>1 DEF Seen
  <2>3. then = {KeyOf[asked'[j].client] : j \in 1..(n + 1)}
    BY <1>3, <2>1 DEF Seen, KeyAt
  <2>4. after = {KeyOf[asked'[j].client] : j \in 1..n}
    BY <1>3, <2>1 DEF Seen, KeyAt
  <2>5. \A j \in 1..(n + 1) : j \in 1..n \/ j = n + 1
    BY <1>3
  <2>6. \A j \in 1..n : KeyOf[asked'[j].client] = KeyAt(j) /\ j \in 1..(n + 1)
    BY <1>3, <1>5 DEF KeyAt
  <2>7. KeyOf[asked'[n + 1].client] = caller /\ n + 1 \in 1..(n + 1)
    BY <1>3, <1>6 DEF KeyAt
  <2>8. then = seen \cup {caller}
    BY <2>2, <2>3, <2>5, <2>6, <2>7
  <2>9. after = seen
    BY <2>2, <2>4, <2>6
  <2> QED BY <2>1, <2>8, <2>9
<1>9. HistoryIsSound'
  <2>1. \A i \in 1..(n + 1) : i \in 1..n \/ i = n + 1
    BY <1>3
  <2>2. \A i \in 1..(n + 1) : asked'[i].at <= clock
    BY <1>1, <1>3, <1>5, <2>1 DEF LimiterInv, HistoryIsSound
  <2> QED BY <1>3, <2>2 DEF LimiterInv, HistoryIsSound
<1>10. LogIsSound'
  <2>1. DOMAIN log \subseteq Seen(Len(asked) + 1)'
    BY <1>2, <1>7, <1>8 DEF LimiterInv, LogIsSound
  <2>2. ASSUME NEW k \in DOMAIN log, NEW i \in log[k]
        PROVE  i \in 1..(n + 1) /\ KeyAt(i)' = k /\ Passed(i)'
    <3>1. CASE i = n + 1 /\ k = caller /\ Cardinality(recent) < max
      BY <1>3, <1>6, <3>1
    <3>2. CASE k = caller /\ i \in recent
      <4>1. i \in 1..n /\ KeyAt(i) = caller /\ Passed(i)
        BY <1>4, <3>2
      <4> QED BY <1>3, <1>5, <3>2, <4>1
    <3>3. CASE k # caller
      <4>1. k \in DOMAIN requestLog /\ i \in requestLog[k]
        BY <1>7, <2>2, <3>3
      <4>2. i \in 1..n /\ KeyAt(i) = k /\ Passed(i)
        BY <1>3, <4>1 DEF LimiterInv, LogIsSound
      <4> QED BY <1>3, <1>5, <4>2
    <3> QED BY <1>3, <1>4, <1>7, <3>1, <3>2, <3>3
  <2> QED BY <1>3, <1>7, <2>1, <2>2 DEF LogIsSound
\* Without a drop, the log knows what was let through in the window.
<1>11. ASSUME Cardinality(Seen(n + 1)) < MAX_TRACKED_CLIENTS
       PROVE  /\ Tracked = requestLog
              /\ \A i \in 1..n : Passed(i) /\ asked[i].at > clock - WINDOW_MS =>
                   KeyAt(i) \in DOMAIN requestLog /\ i \in requestLog[KeyAt(i)]
  <2>1. Cardinality(DOMAIN requestLog) \in Nat /\ Cardinality(Seen(n + 1)) \in Nat
        /\ Cardinality(DOMAIN requestLog) <= Cardinality(Seen(n + 1))
    BY <1>2, LogIsFinite DEF LimiterInv
  <2>2. Cardinality(DOMAIN requestLog) < MAX_TRACKED_CLIENTS
    BY <1>11, <2>1 DEF LimiterAssumption
  <2> QED BY <1>2, <1>3, <1>7, <1>11, <2>2 DEF LimiterInv, LogIsComplete
<1>12. ASSUME Cardinality(Seen(n + 1)) < MAX_TRACKED_CLIENTS, NEW i \in 1..n, Passed(i),
              KeyAt(i) = caller, asked[i].at > clock - WINDOW_MS
       PROVE  i \in recent
  <2>1. Tracked = requestLog /\ caller \in DOMAIN requestLog /\ i \in requestLog[caller]
    BY <1>11, <1>12
  <2> QED BY <1>2, <1>12, <2>1 DEF RecentOf, Recent
<1>13. LogIsComplete'
  <2> SUFFICES ASSUME Cardinality(Seen(Len(asked) + 1)') < MAX_TRACKED_CLIENTS,
                      NEW i \in 1..(n + 1), Passed(i)', asked'[i].at > clock - WINDOW_MS
               PROVE  KeyAt(i)' \in DOMAIN log /\ i \in log[KeyAt(i)']
    BY <1>3, <1>7 DEF LogIsComplete
  <2>1. Cardinality(Seen(n + 1)) < MAX_TRACKED_CLIENTS
    <3>1. IsFiniteSet(Seen(n + 1))
      BY <1>3, SeenIsFinite
    <3>2. IsFiniteSet(Seen(n + 1) \cup {caller})
      BY <3>1, FS_AddElement
    <3>3. /\ Cardinality(Seen(n + 1)) <= Cardinality(Seen(n + 1) \cup {caller})
          /\ Cardinality(Seen(n + 1)) \in Nat /\ Cardinality(Seen(n + 1) \cup {caller}) \in Nat
      BY <3>1, <3>2, FS_Subset, FS_CardinalityType
    <3>4. Cardinality(Seen(n + 1) \cup {caller}) < MAX_TRACKED_CLIENTS
      BY <1>8, Zenon
    <3> QED BY <3>3, <3>4 DEF LimiterAssumption
  <2>2. CASE i = n + 1
    BY <1>3, <1>4, <1>6, <1>7, <2>2
  <2>3. CASE i \in 1..n
    <3>1. Passed(i) /\ asked[i].at > clock - WINDOW_MS /\ KeyAt(i)' = KeyAt(i)
      BY <1>5, <2>3
    <3>2. KeyAt(i) \in DOMAIN requestLog /\ i \in requestLog[KeyAt(i)]
          /\ Tracked = requestLog
      BY <1>11, <2>1, <2>3, <3>1
    <3>3. CASE KeyAt(i) = caller
      <4>1. i \in recent
        BY <1>12, <2>1, <2>3, <3>1, <3>3
      <4> QED BY <1>7, <3>1, <3>3, <4>1
    <3>4. CASE KeyAt(i) # caller
      BY <1>7, <3>1, <3>2, <3>4
    <3> QED BY <3>3, <3>4
  <2> QED BY <1>3, <2>2, <2>3
<1>14. /\ Before(n + 1)' = {j \in 1..n : KeyAt(j) = caller /\ asked[j].at > clock - WINDOW_MS}
       /\ \A i \in 1..n : \A j \in Before(i) : j \in 1..n
  <2>1. Before(n + 1)' = {j \in 1..n : KeyOf[asked'[j].client] = caller
                                       /\ asked'[j].at > clock - WINDOW_MS}
    BY <1>1, <1>2, <1>3 DEF Before
  <2>2. \A j \in 1..n : KeyOf[asked'[j].client] = KeyAt(j) /\ asked'[j].at = asked[j].at
    BY <1>5 DEF KeyAt
  <2> QED BY <1>3, <2>1, <2>2 DEF Before
<1>15. LimitIsKept'
  <2> SUFFICES ASSUME NEW i \in 1..(n + 1), Passed(i)', ~WereDropped(i)'
               PROVE  Cardinality({j \in Before(i) : Passed(j)}') < PerMinute[asked'[i].route]
    BY <1>3 DEF LimitIsKept
  <2>1. CASE i \in 1..n
    <3>1. {j \in Before(i) : Passed(j)}' = {j \in Before(i) : Passed(j)}
      BY <1>5, <1>14, <2>1
    <3>2. Passed(i) /\ ~WereDropped(i) /\ asked'[i] = asked[i]
      BY <1>5, <2>1
    <3> QED BY <1>3, <2>1, <3>1, <3>2 DEF LimiterInv, LimiterKeepsItsWord, LimitIsKept
  <2>2. CASE i = n + 1
    <3>1. Cardinality(Seen(n + 1)) < MAX_TRACKED_CLIENTS
      <4>1. ~(Cardinality(Seen(n + 1)) >= MAX_TRACKED_CLIENTS)
        BY <1>8, <2>2 DEF WereDropped, Seen, KeyAt
      <4>2. Cardinality(Seen(n + 1)) \in Nat
        BY <1>3, SeenIsFinite, FS_CardinalityType
      <4> QED BY <4>1, <4>2 DEF LimiterAssumption
    <3>2. \A j \in {j \in Before(i) : Passed(j)}' : j \in recent
      BY <1>5, <1>12, <1>14, <2>2, <3>1
    <3>3. Cardinality({j \in Before(i) : Passed(j)}') \in Nat
          /\ Cardinality({j \in Before(i) : Passed(j)}') <= Cardinality(recent)
      BY <1>4, <3>2, FS_Subset, FS_CardinalityType
    <3> QED BY <1>1, <1>2, <1>3, <1>4, <1>6, <2>2, <3>3
  <2> QED BY <1>3, <2>1, <2>2
<1>16. WaitingIsEnough'
  <2> SUFFICES ASSUME NEW i \in 1..(n + 1), ~Passed(i)'
               PROVE  \E j \in Before(i)' : Passed(j)'
    BY <1>3 DEF WaitingIsEnough
  <2>1. CASE i \in 1..n
    <3>1. ~Passed(i) /\ Before(i)' = Before(i)
      BY <1>5, <2>1
    <3>2. PICK j \in Before(i) : Passed(j)
      BY <1>3, <2>1, <3>1 DEF LimiterInv, LimiterKeepsItsWord, WaitingIsEnough
    <3>3. Passed(j)'
      BY <1>5, <1>14, <2>1, <3>2
    <3> QED BY <3>1, <3>2, <3>3
  <2>2. CASE i = n + 1
    <3>1. recent # {}
      <4>1. Cardinality(recent) > 0
        BY <1>3, <1>4, <1>6, <2>2
      <4> QED BY <1>4, <4>1, FS_EmptySet
    <3>2. PICK j : j \in recent
      BY <3>1
    <3>3. j \in 1..n /\ KeyAt(j) = caller /\ Passed(j) /\ asked[j].at > clock - WINDOW_MS
      BY <1>4, <3>2
    <3> QED BY <1>5, <1>14, <2>2, <3>3
  <2> QED BY <1>3, <2>1, <2>2
<1>17. LimiterTypeOK'
  <2>1. Cardinality(DOMAIN log) <= MAX_TRACKED_CLIENTS
    <3>1. IsFiniteSet(DOMAIN Tracked) /\ Cardinality(DOMAIN Tracked) \in Nat
          /\ Cardinality(DOMAIN Tracked) < MAX_TRACKED_CLIENTS
      <4>1. IsFiniteSet(DOMAIN requestLog) /\ Cardinality(DOMAIN requestLog) \in Nat
        BY LogIsFinite DEF LimiterInv
      <4>2. CASE Cardinality(DOMAIN requestLog) >= MAX_TRACKED_CLIENTS
        <5>1. DOMAIN Tracked = {}
          BY <4>2 DEF Tracked
        <5> QED BY <5>1, FS_EmptySet DEF LimiterAssumption
      <4>3. CASE ~(Cardinality(DOMAIN requestLog) >= MAX_TRACKED_CLIENTS)
        <5>1. Tracked = requestLog
          BY <4>3 DEF Tracked
        <5> QED BY <4>1, <4>3, <5>1 DEF LimiterAssumption
      <4> QED BY <4>2, <4>3
    <3>2. Cardinality(DOMAIN Tracked \cup {caller}) \in
            {Cardinality(DOMAIN Tracked), Cardinality(DOMAIN Tracked) + 1}
      BY <3>1, FS_AddElement, Zenon
    <3>3. MAX_TRACKED_CLIENTS \in Nat
      BY DEF LimiterAssumption
    <3> QED BY <1>7, <3>1, <3>2, <3>3
  <2>2. ASSUME NEW k \in DOMAIN log
        PROVE  \E r \in Routes : Cardinality(Recent(log[k])') <= PerMinute[r]
    <3>1. CASE k = caller /\ Cardinality(recent) < max
      <4>1. IsFiniteSet(recent \cup {n + 1})
            /\ Cardinality(recent \cup {n + 1}) <= max
        <5>1. IsFiniteSet(recent \cup {n + 1})
              /\ Cardinality(recent \cup {n + 1}) \in {Cardinality(recent), Cardinality(recent) + 1}
          BY <1>4, FS_AddElement, Zenon
        <5> QED BY <1>3, <1>4, <3>1, <5>1
      <4>2. log[k] = recent \cup {n + 1}
        BY <1>3, <1>4, <1>7, <3>1
      <4>3. Recent(log[k])' \subseteq recent \cup {n + 1}
        BY <1>7, <4>2 DEF Recent
      <4>4. Cardinality(Recent(log[k])') <= max
        BY <1>3, <4>1, <4>3, FS_Subset, FS_CardinalityType
      <4> QED BY <1>2, <4>4
    <3>2. CASE ~(k = caller /\ Cardinality(recent) < max)
      <4>1. k \in DOMAIN requestLog /\ Recent(log[k])' \subseteq Recent(requestLog[k])
        <5>1. CASE k = caller
          <6>1. Cardinality(recent) >= max /\ recent # {}
            BY <1>3, <1>4, <3>2, <5>1, FS_EmptySet
          <6>2. caller \in DOMAIN Tracked /\ recent = Recent(Tracked[caller])
            BY <1>2, <6>1 DEF RecentOf
          <6>3. Tracked = requestLog
            BY <6>2 DEF Tracked
          <6>4. log[k] = recent
            BY <1>7, <5>1, <6>1
          <6> QED BY <1>7, <5>1, <6>2, <6>3, <6>4 DEF Recent
        <5>2. CASE k # caller
          <6>1. k \in DOMAIN requestLog /\ log[k] = requestLog[k]
            BY <1>7, <5>2
          <6>2. \A i \in requestLog[k] : asked'[i].at = asked[i].at
            BY <1>3, <1>5, <6>1 DEF LimiterInv, LogIsSound
          <6> QED BY <1>3, <6>1, <6>2 DEF Recent
        <5> QED BY <5>1, <5>2
      <4>2. PICK r \in Routes : Cardinality(Recent(requestLog[k])) <= PerMinute[r]
        BY <4>1 DEF LimiterInv, LimiterKeepsItsWord, LimiterTypeOK
      <4>3. IsFiniteSet(Recent(requestLog[k])) /\ IsFiniteSet(Recent(log[k])')
            /\ Cardinality(Recent(log[k])') <= Cardinality(Recent(requestLog[k]))
        <5>1. Recent(requestLog[k]) \subseteq 1..n
          BY <1>3, <4>1 DEF LimiterInv, LogIsSound, Recent
        <5>2. IsFiniteSet(1..n)
          BY <1>3, FS_Interval
        <5> QED BY <4>1, <5>1, <5>2, FS_Subset
      <4>4. /\ Cardinality(Recent(requestLog[k])) \in Nat
            /\ Cardinality(Recent(log[k])') \in Nat /\ PerMinute[r] \in Nat
        BY <4>3, FS_CardinalityType DEF LimiterAssumption
      <4> QED BY <4>2, <4>3, <4>4
    <3> QED BY <3>1, <3>2
  <2> QED BY <1>3, <1>7, <2>1, <2>2 DEF LimiterTypeOK, LimiterInv, HistoryIsSound
<1> QED BY <1>9, <1>10, <1>13, <1>15, <1>16, <1>17 DEF LimiterInv, LimiterKeepsItsWord


-----------------------------------------------------------------------------
(* Nobody asks.                                                            *)

\* What has been answered stays answered.
LEMMA AnswersStay ==
    ASSUME LimitIsKept, WaitingIsEnough, UNCHANGED asked
    PROVE  (LimitIsKept /\ WaitingIsEnough)'
<1>1. PICK requests : requests = asked /\ requests = asked'
  OBVIOUS
<1>2. ASSUME NEW i
      PROVE  /\ Before(i)' = Before(i) /\ (Passed(i)' <=> Passed(i))
             /\ (WereDropped(i)' <=> WereDropped(i))
  BY <1>1 DEF Before, Passed, WereDropped
<1>3. ASSUME NEW i
      PROVE  {j \in Before(i) : Passed(j)}' = {j \in Before(i) : Passed(j)}
  BY <1>2
<1>4. LimitIsKept'
  BY <1>1, <1>2, <1>3 DEF LimitIsKept
<1>5. WaitingIsEnough'
  BY <1>1, <1>2 DEF WaitingIsEnough
<1> QED BY <1>4, <1>5

\* Time passes, and the window with it.
LEMMA TicksKeep ==
    ASSUME LimiterAssumption, LimiterInv, Ticks
    PROVE  LimiterInv'
<1>1. /\ clock' = clock + 1 /\ clock \in Nat /\ clock < ClockBound
      /\ requestLog' = requestLog /\ anchored' = anchored /\ asked' = asked
      /\ WINDOW_MS \in Nat /\ ClockBound \in Nat
  BY DEF Ticks, LimiterInv, HistoryIsSound, LimiterAssumption
<1>2. \A i \in DOMAIN asked :
        asked[i].at \in Nat /\ (asked[i].at > clock' - WINDOW_MS => asked[i].at > clock - WINDOW_MS)
  <2> TAKE i \in DOMAIN asked
  <2>1. asked[i] \in Request
    BY DEF LimiterInv, HistoryIsSound
  <2>2. asked[i].at \in Nat
    BY <2>1 DEF Request
  <2> QED BY <1>1, <2>2
<1>3. HistoryIsSound'
  BY <1>1, <1>2 DEF LimiterInv, HistoryIsSound
<1>4. Seen(Len(asked) + 1)' = Seen(Len(asked) + 1)
  BY <1>1 DEF Seen, KeyAt
<1>5. LogIsSound'
  BY <1>1, <1>4 DEF LimiterInv, LogIsSound, KeyAt, Passed
<1>6. LogIsComplete'
  BY <1>1, <1>2, <1>4 DEF LimiterInv, LogIsComplete, KeyAt, Passed
<1>7. (LimitIsKept /\ WaitingIsEnough)'
  BY <1>1, AnswersStay DEF LimiterInv, LimiterKeepsItsWord
<1>8. ASSUME NEW k \in DOMAIN requestLog
      PROVE  \E route \in Routes : Cardinality(Recent(requestLog[k])') <= PerMinute[route]
  <2>1. Recent(requestLog[k])' \subseteq Recent(requestLog[k])
        /\ Recent(requestLog[k]) \subseteq DOMAIN asked
    BY <1>1, <1>2 DEF Recent, LimiterInv, LogIsSound
  <2>2. DOMAIN asked = 1..Len(asked) /\ Len(asked) \in Nat
    BY DEF LimiterInv, HistoryIsSound
  <2>3. IsFiniteSet(DOMAIN asked)
    BY <2>2, FS_Interval
  <2>4. IsFiniteSet(Recent(requestLog[k]))
    BY <2>1, <2>3, FS_Subset
  <2>5. IsFiniteSet(Recent(requestLog[k])')
        /\ Cardinality(Recent(requestLog[k])') <= Cardinality(Recent(requestLog[k]))
    BY <2>1, <2>4, FS_Subset
  <2>6. /\ Cardinality(Recent(requestLog[k])) \in Nat
        /\ Cardinality(Recent(requestLog[k])') \in Nat
    BY <2>4, <2>5, FS_CardinalityType
  <2>7. PICK route \in Routes : Cardinality(Recent(requestLog[k])) <= PerMinute[route]
    BY DEF LimiterInv, LimiterKeepsItsWord, LimiterTypeOK
  <2>8. PerMinute[route] \in Nat
    BY DEF LimiterAssumption
  <2> QED BY <2>5, <2>6, <2>7, <2>8
<1>9. LimiterTypeOK'
  BY <1>1, <1>8 DEF LimiterInv, LimiterKeepsItsWord, LimiterTypeOK
<1> QED BY <1>3, <1>5, <1>6, <1>7, <1>9 DEF LimiterInv, LimiterKeepsItsWord

LEMMA BatchKeeps ==
    ASSUME LimiterInv, BatchLands \/ UNCHANGED limiterVars
    PROVE  LimiterInv'
<1>1. /\ clock' = clock /\ requestLog' = requestLog /\ asked' = asked
      /\ anchored' \in BOOLEAN
  BY DEF BatchLands, limiterVars, LimiterInv, HistoryIsSound
<1>2. HistoryIsSound'
  BY <1>1 DEF LimiterInv, HistoryIsSound
<1>3. Seen(Len(asked) + 1)' = Seen(Len(asked) + 1)
  BY <1>1 DEF Seen, KeyAt
<1>4. LogIsSound'
  BY <1>1, <1>3 DEF LimiterInv, LogIsSound, KeyAt, Passed
<1>5. LogIsComplete'
  BY <1>1, <1>3 DEF LimiterInv, LogIsComplete, KeyAt, Passed
<1>6. (LimitIsKept /\ WaitingIsEnough)'
  BY <1>1, AnswersStay DEF LimiterInv, LimiterKeepsItsWord
<1>7. LimiterTypeOK'
  BY <1>1 DEF LimiterInv, LimiterKeepsItsWord, LimiterTypeOK, Recent
<1> QED BY <1>2, <1>4, <1>5, <1>6, <1>7 DEF LimiterInv, LimiterKeepsItsWord

-----------------------------------------------------------------------------
(* The limiter keeps its word.                                             *)

LEMMA LimiterInitInv ==
    ASSUME LimiterAssumption, LimiterInit
    PROVE  LimiterInv
<1>1. anchored \in BOOLEAN
  BY Zenon DEF LimiterInit
<1>2. /\ clock = 1 /\ clock \in 1..ClockBound
      /\ asked = <<>> /\ Len(asked) = 0 /\ DOMAIN asked = {}
      /\ requestLog = [k \in {} |-> {}] /\ DOMAIN requestLog = {}
  BY DEF LimiterInit, LimiterAssumption
<1>3. HistoryIsSound /\ LogIsSound /\ LogIsComplete
  <2>1. HistoryIsSound
    <3>1. asked \in Seq(Request) /\ \A i \in DOMAIN asked : asked[i].at <= clock
      BY <1>2
    <3> QED BY <1>1, <1>2, <3>1 DEF HistoryIsSound
  <2>2. LogIsSound
    BY <1>2 DEF LogIsSound
  <2>3. LogIsComplete
    BY <1>2 DEF LogIsComplete
  <2> QED BY <2>1, <2>2, <2>3
<1>4. LimitIsKept /\ WaitingIsEnough
  BY <1>2 DEF LimitIsKept, WaitingIsEnough
<1>5. LimiterTypeOK
  <2>1. Cardinality(DOMAIN requestLog) = 0
    BY <1>2, FS_EmptySet
  <2>2. MAX_TRACKED_CLIENTS \in Nat
    BY DEF LimiterAssumption
  <2> QED BY <1>1, <1>2, <2>1, <2>2 DEF LimiterTypeOK
<1> QED BY <1>3, <1>4, <1>5 DEF LimiterInv, LimiterKeepsItsWord

\* Whoever asks, however often and when: nobody is let through beyond the limit
\* of a route before every count is dropped, nobody is refused who has not been
\* let through within the window, and the log stays within its cap
\* (rateLimit.ts, isRateLimited).
THEOREM LimiterHolds ==
    ASSUME LimiterAssumption
    PROVE  LimiterSpec => []LimiterKeepsItsWord
<1>1. LimiterInit => LimiterInv
  BY LimiterInitInv
<1>2. LimiterInv /\ [LimiterNext]_limiterVars => LimiterInv'
  BY HandleKeeps, TicksKeep, BatchKeeps DEF LimiterNext
<1>3. LimiterInv => LimiterKeepsItsWord
  BY DEF LimiterInv
<1> QED BY <1>1, <1>2, <1>3, PTL DEF LimiterSpec

-----------------------------------------------------------------------------
(* The judge panel.                                                        *)

\* What a wallet held before the faucet gave it anything; what it has held since;
\* and what a request takes it to have held, which is nothing where that has not
\* been read.
FirstUsdt(o) == funds[o].usdt - granted[o]
HasHad(o, usdt) == o \in Owners /\ FirstUsdt(o) <= usdt /\ usdt <= funds[o].usdt
StartsFrom(o, before) == before = 0 \/ (o \in Owners /\ FirstUsdt(o) <= before)

WalletsAreSound ==
    /\ funds \in [Owners -> Wallets] /\ granted \in [Owners -> Nat]
    /\ \A o \in Owners : granted[o] <= funds[o].usdt
    /\ connected \in Owners \cup {Nil}

Working == {"preparing", "asking", "signing", "confirming", "accepted", "refreshing"}
RequestRecords ==
    [kind : Kinds \cup {Nil}, owner : Owners \cup {Nil}, before : Nat,
     stage : Working \cup {"none", "timer", "over"}, mounted : BOOLEAN, sent : BOOLEAN,
     landed : BOOLEAN]

\* A request that works on chain is for a wallet, and so is what it has sent.
RequestIsSound(i) ==
    /\ request[i].stage = "none" => request[i] = NotMade
    /\ request[i].stage # "none" => request[i].kind \in Kinds
    /\ StartsFrom(request[i].owner, request[i].before)
    /\ request[i].sent \/ request[i].stage \in Working => request[i].owner \in Owners
RequestsAreSound ==
    /\ request \in [Requests -> RequestRecords]
    /\ \A i \in Requests : RequestIsSound(i)

\* The panel knows of the one request that it waits for.
RunsAreKnown ==
    /\ \A i \in Requests : request[i].mounted => IsOpen
    /\ \A i \in Requests : IsRunning(i) =>
         /\ judge.requestKind = request[i].kind
         /\ request[i].stage = "timer" <=> judge.dataSource = "demo"
    /\ IsOpen /\ judge.requestKind # Nil => \E i \in Requests : IsRunning(i)
    /\ \A i, j \in Requests : IsRunning(i) /\ IsRunning(j) => i = j

\* What a row says was granted was, unless the request started from nothing.
IsGranted(row) ==
    /\ row.owner \in Owners
    /\ \/ row.amount <= granted[row.owner]
       \/ \E i \in Requests :
            request[i].owner = row.owner /\ request[i].before = 0 /\ FirstUsdt(row.owner) > 0

\* What Retry calls is for a wallet, on chain.
ActionIsSound(action) ==
    /\ StartsFrom(action.owner, action.before)
    /\ judge.dataSource = "chain" => action.owner \in Owners

\* A row has a timer, and no other is left.
PanelIsSound ==
    IsOpen =>
        /\ judge \in OpenPanels
        /\ judge.errorMessage => judge.requestKind = Nil
        /\ judge.retryAction # Nil => ActionIsSound(judge.retryAction)
        /\ judge.fundsSnapshot # Nil =>
             HasHad(judge.fundsSnapshot.owner, judge.fundsSnapshot.funds.usdt)
        /\ judge.fundedRow # Nil =>
             /\ judge.fundedRow.age < FUNDED_DISMISS
             /\ judge.timers = {FUNDED_DISMISS - judge.fundedRow.age}
             /\ judge.fundedRow.kind = "usdt" /\ judge.dataSource = "chain" =>
                  IsGranted(judge.fundedRow)

ReadIsSound ==
    read # Nil =>
        /\ OnChain /\ read.owner \in Owners
        /\ read = [owner |-> read.owner, holds |-> read.holds]
        /\ read.holds # Nil =>
             read.holds \in [sol : Nat, usdt : Nat] /\ HasHad(read.owner, read.holds.usdt)

\* The panel tells the truth because whatever it remembers has once been read.
JudgeInv ==
    WalletsAreSound /\ RequestsAreSound /\ RunsAreKnown /\ PanelIsSound /\ ReadIsSound

\* What a step leaves of the wallets, and of the requests made.
WalletsGrow ==
    \A o \in Owners : /\ FirstUsdt(o)' = FirstUsdt(o)
                      /\ funds'[o].usdt >= funds[o].usdt /\ granted'[o] >= granted[o]
RequestsKept ==
    \A i \in Requests : request[i].owner \in Owners =>
        request'[i].owner = request[i].owner /\ request'[i].before = request[i].before

LEMMA AmountTypes ==
    ASSUME JudgeAssumption
    PROVE  /\ FAUCET_USDT \in Nat /\ AIRDROP_SOL \in Nat /\ FUNDED_DISMISS \in Nat \ {0}
           /\ \A o \in Owners : lamportsNeeded(o) \in Nat
           /\ Nil \notin Owners /\ Nil \notin Kinds /\ Nil \notin Rows /\ Nil \notin OpenPanels
<1>1. TRANSACTION_FEE \in Nat /\ TOKEN_ACCOUNT_RENT \in Nat
  BY DEF JudgeAssumption
<1> QED BY <1>1 DEF JudgeAssumption, lamportsNeeded

\* Only what lands at the cluster changes a wallet, and the faucet's account of it.
LEMMA WalletsLand ==
    ASSUME JudgeAssumption, JudgeInv, NEW i \in Requests, LandRequest(i)
    PROVE  WalletsAreSound' /\ WalletsGrow
<1>1. /\ funds \in [Owners -> Wallets] /\ granted \in [Owners -> Nat]
      /\ \A o \in Owners : granted[o] <= funds[o].usdt
      /\ connected' \in Owners \cup {Nil}
  BY DEF JudgeInv, WalletsAreSound, LandRequest
<1>2. PICK o \in Owners : o = request[i].owner
  BY DEF LandRequest, JudgeInv, RequestsAreSound, RequestIsSound
<1>3. PICK needed \in Nat : needed = lamportsNeeded(o)
  BY AmountTypes
<1>4. FAUCET_USDT \in Nat /\ AIRDROP_SOL \in Nat
  BY AmountTypes
<1>5. CASE request[i].kind = "usdt"
  <2>1. /\ funds[o].sol >= needed
        /\ funds' = [funds EXCEPT ![o] = Minted(@, needed)]
        /\ granted' = [granted EXCEPT ![o] = @ + FAUCET_USDT]
    BY <1>2, <1>3, <1>5 DEF LandRequest
  <2>2. PICK w : w = Minted(funds[o], needed)
    OBVIOUS
  <2>3. w \in Wallets /\ w.usdt = funds[o].usdt + FAUCET_USDT
    <3>1. PICK was \in Wallets : was = funds[o]
      BY <1>1
    <3>2. was.sol - needed \in Nat /\ was.usdt + FAUCET_USDT \in Nat
      BY <1>3, <1>4, <2>1, <3>1 DEF Wallets
    <3> QED BY <2>2, <3>1, <3>2 DEF Minted, Wallets
  <2>4. funds' = [funds EXCEPT ![o] = w]
    BY <2>1, <2>2
  <2>5. \A p \in Owners : /\ funds[p].usdt \in Nat /\ granted[p] \in Nat
                          /\ funds'[p] = IF p = o THEN w ELSE funds[p]
                          /\ granted'[p] = IF p = o THEN granted[o] + FAUCET_USDT ELSE granted[p]
    BY <1>1, <2>1, <2>4 DEF Wallets
  <2>6. WalletsAreSound'
    BY <1>1, <1>4, <2>1, <2>3, <2>4, <2>5 DEF WalletsAreSound
  <2>7. WalletsGrow
    BY <1>4, <2>3, <2>5 DEF WalletsGrow, FirstUsdt
  <2> QED BY <2>6, <2>7
<1>6. CASE request[i].kind # "usdt"
  <2>1. funds' = [funds EXCEPT ![o] = Airdropped(@)] /\ granted' = granted
    BY <1>2, <1>6 DEF LandRequest
  <2>2. PICK w : w = Airdropped(funds[o])
    OBVIOUS
  <2>3. w \in Wallets /\ w.usdt = funds[o].usdt
    BY <1>1, <1>4, <2>2 DEF Airdropped, Wallets
  <2>4. funds' = [funds EXCEPT ![o] = w]
    BY <2>1, <2>2
  <2>5. \A p \in Owners : /\ funds[p].usdt \in Nat /\ granted[p] \in Nat
                          /\ funds'[p] = IF p = o THEN w ELSE funds[p]
    BY <1>1, <2>4 DEF Wallets
  <2>6. WalletsAreSound'
    BY <1>1, <2>1, <2>3, <2>4, <2>5 DEF WalletsAreSound
  <2>7. WalletsGrow
    BY <2>1, <2>3, <2>5 DEF WalletsGrow, FirstUsdt
  <2> QED BY <2>6, <2>7
<1> QED BY <1>5, <1>6

LEMMA WalletsStay ==
    ASSUME JudgeInv, UNCHANGED chainVars, connected' \in Owners \cup {Nil}
    PROVE  WalletsAreSound' /\ WalletsGrow
<1>1. /\ funds' = funds /\ granted' = granted
      /\ \A o \in Owners : funds[o].usdt \in Nat /\ granted[o] \in Nat
  BY DEF chainVars, JudgeInv, WalletsAreSound, Wallets
<1> QED BY <1>1 DEF JudgeInv, WalletsAreSound, WalletsGrow, FirstUsdt

-----------------------------------------------------------------------------
(* What is remembered stays sound.                                         *)

\* A request is made, or goes on.
LEMMA RequestMoves ==
    ASSUME JudgeInv, WalletsGrow, NEW i \in Requests, NEW r \in RequestRecords,
           request' = [request EXCEPT ![i] = r], r.stage # "none", r.kind \in Kinds,
           StartsFrom(r.owner, r.before), r.sent \/ r.stage \in Working => r.owner \in Owners,
           request[i].owner \in Owners =>
               r.owner = request[i].owner /\ r.before = request[i].before
    PROVE  RequestsAreSound' /\ RequestsKept
<1>1. /\ request \in [Requests -> RequestRecords] /\ \A j \in Requests : RequestIsSound(j)
  BY DEF JudgeInv, RequestsAreSound
<1>2. /\ request' \in [Requests -> RequestRecords]
      /\ \A j \in Requests : request'[j] = IF j = i THEN r ELSE request[j]
  BY <1>1
<1>3. \A o \in Owners : FirstUsdt(o)' = FirstUsdt(o)
  BY DEF WalletsGrow
<1>4. RequestIsSound(i)'
  BY <1>2, <1>3 DEF RequestIsSound, StartsFrom
<1>5. ASSUME NEW j \in Requests, j # i
      PROVE  RequestIsSound(j)'
  BY <1>1, <1>2, <1>3, <1>5 DEF RequestIsSound, StartsFrom
<1>6. RequestsAreSound'
  BY <1>2, <1>4, <1>5 DEF RequestsAreSound
<1>7. RequestsKept
  BY <1>2 DEF RequestsKept
<1> QED BY <1>6, <1>7

LEMMA RequestsStay ==
    ASSUME JudgeInv, WalletsGrow, request' = request
    PROVE  RequestsAreSound' /\ RequestsKept
<1>1. \A o \in Owners : FirstUsdt(o)' = FirstUsdt(o)
  BY DEF WalletsGrow
<1>2. ASSUME NEW j \in Requests
      PROVE  RequestIsSound(j)'
  BY <1>1 DEF RequestIsSound, StartsFrom, JudgeInv, RequestsAreSound
<1> QED BY <1>2 DEF JudgeInv, RequestsAreSound, RequestsKept

\* A row stays true, and a balance had.
LEMMA GrantStays ==
    ASSUME JudgeInv, WalletsAreSound', WalletsGrow, RequestsKept,
           NEW row, row.amount \in Int, IsGranted(row)
    PROVE  IsGranted(row)'
<1>1. row.owner \in Owners
  BY DEF IsGranted
<1>2. /\ granted[row.owner] \in Nat /\ granted'[row.owner] \in Nat
      /\ granted[row.owner] <= granted'[row.owner]
      /\ FirstUsdt(row.owner)' = FirstUsdt(row.owner)
  BY <1>1 DEF JudgeInv, WalletsAreSound, WalletsGrow
<1>3. CASE row.amount <= granted[row.owner]
  BY <1>1, <1>2, <1>3 DEF IsGranted
<1>4. CASE \E i \in Requests :
             request[i].owner = row.owner /\ request[i].before = 0 /\ FirstUsdt(row.owner) > 0
  BY <1>1, <1>2, <1>4 DEF IsGranted, RequestsKept
<1> QED BY <1>3, <1>4 DEF IsGranted

LEMMA BalanceStays ==
    ASSUME JudgeInv, WalletsAreSound', WalletsGrow, NEW o, NEW usdt \in Nat, HasHad(o, usdt)
    PROVE  HasHad(o, usdt)'
<1>1. o \in Owners
  BY DEF HasHad
<1>2. /\ FirstUsdt(o)' = FirstUsdt(o) /\ funds'[o].usdt >= funds[o].usdt
      /\ funds[o].usdt \in Nat /\ funds'[o].usdt \in Nat
  BY <1>1 DEF WalletsGrow, JudgeInv, WalletsAreSound, Wallets
<1> QED BY <1>1, <1>2 DEF HasHad

\* What a panel that is told something becomes.
LEMMA PanelMoves ==
    ASSUME JudgeAssumption, JudgeInv, WalletsAreSound', WalletsGrow, RequestsKept, IsOpen,
           judge' \in OpenPanels, judge'.dataSource = judge.dataSource,
           judge'.errorMessage => judge'.requestKind = Nil,
           judge'.retryAction # Nil =>
               judge'.retryAction = judge.retryAction \/ ActionIsSound(judge'.retryAction),
           judge'.fundsSnapshot # Nil =>
               \/ judge'.fundsSnapshot = judge.fundsSnapshot
               \/ HasHad(judge'.fundsSnapshot.owner, judge'.fundsSnapshot.funds.usdt),
           judge'.fundedRow # Nil =>
               \/ judge'.fundedRow = judge.fundedRow /\ judge'.timers = judge.timers
               \/ /\ judge'.fundedRow.age = 0 /\ judge'.timers = {FUNDED_DISMISS}
                  /\ judge.dataSource = "chain" /\ judge'.fundedRow.kind = "usdt" =>
                       IsGranted(judge'.fundedRow)
    PROVE  PanelIsSound'
<1>1. PICK panel \in OpenPanels : panel = judge'
  OBVIOUS
<1>2. \A o \in Owners : FirstUsdt(o)' = FirstUsdt(o)
  BY DEF WalletsGrow
<1>3. ASSUME panel.retryAction # Nil
      PROVE  ActionIsSound(panel.retryAction)'
  <2>1. ActionIsSound(panel.retryAction)
    BY <1>1, <1>3 DEF JudgeInv, PanelIsSound
  <2> QED BY <1>1, <1>2, <2>1 DEF ActionIsSound, StartsFrom
<1>4. ASSUME panel.fundsSnapshot # Nil
      PROVE  HasHad(panel.fundsSnapshot.owner, panel.fundsSnapshot.funds.usdt)'
  <2>1. HasHad(panel.fundsSnapshot.owner, panel.fundsSnapshot.funds.usdt)
    BY <1>1, <1>4 DEF JudgeInv, PanelIsSound
  <2>2. panel.fundsSnapshot.funds.usdt \in Nat
    BY <1>4 DEF OpenPanels
  <2> QED BY <2>1, <2>2, BalanceStays
<1>5. ASSUME panel.fundedRow # Nil
      PROVE  /\ panel.fundedRow.age < FUNDED_DISMISS
             /\ panel.timers = {FUNDED_DISMISS - panel.fundedRow.age}
             /\ panel.fundedRow.kind = "usdt" /\ panel.dataSource = "chain" =>
                  IsGranted(panel.fundedRow)'
  <2>1. panel.fundedRow.amount \in Int
    BY <1>5 DEF OpenPanels, Rows
  <2>2. IsGranted(panel.fundedRow) => IsGranted(panel.fundedRow)'
    BY <2>1, GrantStays
  <2>3. CASE panel.fundedRow = judge.fundedRow /\ panel.timers = judge.timers
    BY <1>1, <1>5, <2>2, <2>3 DEF JudgeInv, PanelIsSound
  <2>4. CASE /\ panel.fundedRow.age = 0 /\ panel.timers = {FUNDED_DISMISS}
             /\ judge.dataSource = "chain" /\ panel.fundedRow.kind = "usdt" =>
                  IsGranted(panel.fundedRow)
    BY <1>1, <2>2, <2>4, AmountTypes
  <2> QED BY <1>1, <1>5, <2>3, <2>4
<1> QED BY <1>1, <1>3, <1>4, <1>5 DEF PanelIsSound

\* A read stays sound while its panel is open.
LEMMA ReadStays ==
    ASSUME JudgeInv, WalletsAreSound', WalletsGrow, read' = read,
           OnChain => OnChain'
    PROVE  ReadIsSound'
<1>1. PICK was : was = read /\ was = read'
  OBVIOUS
<1>2. ASSUME was # Nil, was.holds # Nil
      PROVE  was.holds \in [sol : Nat, usdt : Nat] /\ HasHad(was.owner, was.holds.usdt)'
  <2>1. was.holds \in [sol : Nat, usdt : Nat] /\ HasHad(was.owner, was.holds.usdt)
    BY <1>1, <1>2 DEF JudgeInv, ReadIsSound
  <2> QED BY <2>1, BalanceStays
<1> QED BY <1>1, <1>2 DEF JudgeInv, ReadIsSound

LEMMA PanelStays ==
    ASSUME JudgeAssumption, JudgeInv, WalletsAreSound', WalletsGrow, RequestsKept, judge' = judge
    PROVE  PanelIsSound' /\ RowStep
<1>1. CASE IsOpen
  <2>1. judge' \in OpenPanels /\ (judge'.errorMessage => judge'.requestKind = Nil)
    BY <1>1 DEF JudgeInv, PanelIsSound
  <2> QED BY <1>1, <2>1, PanelMoves DEF RowStep
<1>2. CASE ~IsOpen
  BY <1>2 DEF PanelIsSound, RowStep, IsOpen
<1> QED BY <1>1, <1>2

\* The panel goes on waiting for what it has waited for.
LEMMA RunsStay ==
    ASSUME JudgeInv, request' = request, IsOpen' <=> IsOpen,
           IsOpen => judge'.requestKind = judge.requestKind /\ judge'.dataSource = judge.dataSource
    PROVE  RunsAreKnown'
<1>1. \A i \in Requests : IsRunning(i)' <=> IsRunning(i)
  BY DEF IsRunning
<1>2. \A i \in Requests : IsRunning(i) => IsOpen
  BY DEF JudgeInv, RunsAreKnown, IsRunning
<1> QED BY <1>1, <1>2 DEF JudgeInv, RunsAreKnown

LEMMA RunsGoOn ==
    ASSUME JudgeInv, NEW i \in Requests, NEW r \in RequestRecords,
           request' = [request EXCEPT ![i] = r], judge' = judge,
           r.mounted = request[i].mounted, r.kind = request[i].kind,
           \/ r.stage = request[i].stage
           \/ r.stage \in Working /\ request[i].stage \in Working
    PROVE  RunsAreKnown'
<1>1. \A j \in Requests : request'[j] = IF j = i THEN r ELSE request[j]
  BY DEF JudgeInv, RequestsAreSound
<1>2. \A j \in Requests : /\ IsRunning(j)' <=> IsRunning(j)
                          /\ request'[j].mounted = request[j].mounted
                          /\ request'[j].kind = request[j].kind
                          /\ request'[j].stage = "timer" <=> request[j].stage = "timer"
  BY <1>1 DEF IsRunning, Working
<1> QED BY <1>2 DEF JudgeInv, RunsAreKnown, IsOpen

\* A request is over, and the panel it was made in is told, or gone.
LEMMA RunsEnd ==
    ASSUME JudgeInv, NEW i \in Requests, Over(i), request[i].stage \notin {"none", "over"},
           IF request[i].mounted
           THEN IsOpen' /\ judge'.requestKind = Nil /\ judge'.dataSource = judge.dataSource
           ELSE judge' = judge
    PROVE  RunsAreKnown'
<1>1. \A j \in Requests : /\ request'[j].mounted = request[j].mounted
                          /\ request'[j].kind = request[j].kind
                          /\ j # i => request'[j] = request[j]
  BY DEF JudgeInv, RequestsAreSound, Over, RequestRecords
<1>2. request'[i].stage = "over"
  BY DEF JudgeInv, RequestsAreSound, Over, RequestRecords
<1>3. \A j \in Requests : IsRunning(j)' <=> j # i /\ IsRunning(j)
  BY <1>1, <1>2 DEF IsRunning
<1>4. CASE request[i].mounted
  <2>1. IsRunning(i)
    BY <1>4 DEF IsRunning
  <2>2. \A j \in Requests : ~IsRunning(j)'
    BY <1>3, <2>1 DEF JudgeInv, RunsAreKnown
  <2> QED BY <1>1, <1>4, <2>2 DEF RunsAreKnown
<1>5. CASE ~request[i].mounted
  <2>1. \A j \in Requests : IsRunning(j)' <=> IsRunning(j)
    BY <1>3, <1>5 DEF IsRunning
  <2>2. \A j \in Requests : IsRunning(j) =>
          (request'[j].stage = "timer" <=> request[j].stage = "timer")
    BY <1>1, <1>5 DEF IsRunning
  <2> QED BY <1>1, <1>5, <2>1, <2>2 DEF JudgeInv, RunsAreKnown, IsOpen
<1> QED BY <1>4, <1>5

-----------------------------------------------------------------------------
(* The balances of the connected wallet are read.                          *)

\* A read begins without an answer.
LEMMA ReadBegins ==
    ASSUME NEW source, NEW owner \in Owners \cup {Nil}, readFirst(source, owner),
           source = "chain" /\ owner # Nil => OnChain'
    PROVE  ReadIsSound'
<1>1. CASE source = "chain" /\ owner # Nil
  <2>1. read' = [owner |-> owner, holds |-> Nil]
    BY <1>1 DEF readFirst
  <2> QED BY <1>1, <2>1 DEF ReadIsSound
<1>2. CASE ~(source = "chain" /\ owner # Nil)
  BY <1>2 DEF readFirst, ReadIsSound
<1> QED BY <1>1, <1>2

LEMMA ConnectKeeps ==
    ASSUME JudgeAssumption, JudgeInv, Connect
    PROVE  JudgeInv' /\ RowStep
<1>1. /\ UNCHANGED <<chainVars, judge, request>> /\ connected' \in Owners \cup {Nil}
      /\ IF IsOpen THEN readFirst(judge.dataSource, connected') ELSE UNCHANGED read
  BY DEF Connect
<1>2. WalletsAreSound' /\ WalletsGrow
  BY <1>1, WalletsStay
<1>3. RequestsAreSound' /\ RequestsKept
  BY <1>1, <1>2, RequestsStay
<1>4. RunsAreKnown'
  BY <1>1, RunsStay DEF IsOpen
<1>5. PanelIsSound' /\ RowStep
  BY <1>1, <1>2, <1>3, PanelStays
<1>6. ReadIsSound'
  <2>1. CASE IsOpen
    <3>1. PICK source, owner : source = judge.dataSource /\ owner = connected'
      OBVIOUS
    <3>2. readFirst(source, owner) /\ owner \in Owners \cup {Nil}
      BY <1>1, <2>1, <3>1
    <3>3. source = "chain" => OnChain'
      BY <1>1, <2>1, <3>1 DEF OnChain, IsOpen
    <3> QED BY <3>2, <3>3, ReadBegins
  <2>2. CASE ~IsOpen
    <3>1. OnChain => OnChain'
      BY <1>1 DEF OnChain, IsOpen
    <3> QED BY <1>1, <1>2, <2>2, <3>1, ReadStays
  <2> QED BY <2>1, <2>2
<1> QED BY <1>2, <1>3, <1>4, <1>5, <1>6 DEF JudgeInv

LEMMA FetchedIsHad ==
    ASSUME JudgeInv, NEW o \in Owners
    PROVE  /\ fetchWalletFunds(o) \in [sol : Nat, usdt : Nat]
           /\ fetchWalletFunds(o).usdt = funds[o].usdt
           /\ HasHad(o, funds[o].usdt)
<1>1. funds[o] \in Wallets /\ granted[o] \in Nat
  BY DEF JudgeInv, WalletsAreSound
<1> QED BY <1>1 DEF fetchWalletFunds, HasHad, FirstUsdt, Wallets

LEMMA ReadKeeps ==
    ASSUME JudgeAssumption, JudgeInv, ReadFirst
    PROVE  JudgeInv' /\ RowStep
<1>1. /\ UNCHANGED <<chainVars, connected, judge, request>>
      /\ read # Nil /\ read' = [read EXCEPT !.holds = fetchWalletFunds(read.owner)]
  BY DEF ReadFirst
<1>2. WalletsAreSound' /\ WalletsGrow
  BY <1>1, WalletsStay DEF JudgeInv, WalletsAreSound
<1>3. RequestsAreSound' /\ RequestsKept
  BY <1>1, <1>2, RequestsStay
<1>4. RunsAreKnown'
  BY <1>1, RunsStay DEF IsOpen
<1>5. PanelIsSound' /\ RowStep
  BY <1>1, <1>2, <1>3, PanelStays
<1>6. ReadIsSound'
  <2>1. /\ OnChain /\ read.owner \in Owners
        /\ read = [owner |-> read.owner, holds |-> read.holds]
    BY <1>1 DEF JudgeInv, ReadIsSound
  <2>2. PICK o \in Owners : o = read.owner
    BY <2>1
  <2>3. read' = [owner |-> o, holds |-> fetchWalletFunds(o)]
    BY <1>1, <2>1, <2>2
  <2>4. fetchWalletFunds(o) \in [sol : Nat, usdt : Nat]
        /\ fetchWalletFunds(o).usdt = funds[o].usdt
    BY FetchedIsHad
  <2>5. funds[o].usdt \in Nat /\ HasHad(o, funds[o].usdt)
    BY <2>4, FetchedIsHad
  <2>6. PICK usdt \in Nat : usdt = funds[o].usdt
    BY <2>5
  <2>7. HasHad(o, usdt)'
    BY <1>2, <2>5, <2>6, BalanceStays
  <2>8. OnChain'
    BY <1>1, <2>1 DEF OnChain, IsOpen
  <2>9. PICK holds : holds = fetchWalletFunds(o)
    OBVIOUS
  <2>10. read' = [owner |-> o, holds |-> holds] /\ holds \in [sol : Nat, usdt : Nat]
         /\ holds.usdt = usdt
    BY <2>3, <2>4, <2>6, <2>9
  <2>11. read'.owner = o /\ read'.holds = holds
    BY <2>10
  <2> QED BY <2>7, <2>8, <2>10, <2>11 DEF ReadIsSound
<1> QED BY <1>2, <1>3, <1>4, <1>5, <1>6 DEF JudgeInv

LEMMA ShownKeeps ==
    ASSUME JudgeAssumption, JudgeInv, FirstFundsShown
    PROVE  JudgeInv' /\ RowStep
<1>1. /\ UNCHANGED <<chainVars, connected, request>> /\ read # Nil /\ read' = Nil
      /\ \/ /\ read.holds # Nil
            /\ judge' = [judge EXCEPT !.fundsSnapshot = Snapshot(read.owner, read.holds)]
         \/ judge' = judge
  BY DEF FirstFundsShown
<1>2. WalletsAreSound' /\ WalletsGrow
  BY <1>1, WalletsStay DEF JudgeInv, WalletsAreSound
<1>3. RequestsAreSound' /\ RequestsKept
  BY <1>1, <1>2, RequestsStay
<1>4. ReadIsSound'
  BY <1>1 DEF ReadIsSound
<1>5. CASE judge' = judge
  <2>1. RunsAreKnown'
    BY <1>1, <1>5, RunsStay DEF IsOpen
  <2>2. PanelIsSound' /\ RowStep
    BY <1>2, <1>3, <1>5, PanelStays
  <2> QED BY <1>2, <1>3, <1>4, <2>1, <2>2 DEF JudgeInv
<1>6. CASE /\ read.holds # Nil
           /\ judge' = [judge EXCEPT !.fundsSnapshot = Snapshot(read.owner, read.holds)]
  <2>1. /\ IsOpen /\ read.owner \in Owners /\ read.holds \in [sol : Nat, usdt : Nat]
        /\ HasHad(read.owner, read.holds.usdt)
    BY <1>1, <1>6 DEF JudgeInv, ReadIsSound, OnChain
  <2>2. judge \in OpenPanels /\ (judge.errorMessage => judge.requestKind = Nil)
    BY <2>1 DEF JudgeInv, PanelIsSound
  <2>3. PICK snapshot : snapshot = Snapshot(read.owner, read.holds)
    OBVIOUS
  <2>4. /\ snapshot \in [owner : Owners, funds : [sol : Nat, usdt : Nat]]
        /\ HasHad(snapshot.owner, snapshot.funds.usdt)
    BY <2>1, <2>3 DEF Snapshot
  <2>5. judge' = [judge EXCEPT !.fundsSnapshot = snapshot]
    BY <1>6, <2>3
  <2>6. /\ judge' \in OpenPanels /\ judge'.fundsSnapshot = snapshot
        /\ judge'.dataSource = judge.dataSource /\ judge'.errorMessage = judge.errorMessage
        /\ judge'.requestKind = judge.requestKind /\ judge'.retryAction = judge.retryAction
        /\ judge'.fundedRow = judge.fundedRow /\ judge'.timers = judge.timers
    BY <2>2, <2>4, <2>5 DEF OpenPanels
  <2>7. IsOpen'
    BY <2>6, AmountTypes DEF IsOpen
  <2>8. RunsAreKnown'
    BY <1>1, <2>1, <2>6, <2>7, RunsStay
  <2>9. PanelIsSound'
    BY <1>2, <1>3, <2>1, <2>2, <2>4, <2>6, PanelMoves
  <2>10. RowStep
    BY <2>6 DEF RowStep
  <2> QED BY <1>2, <1>3, <1>4, <2>8, <2>9, <2>10 DEF JudgeInv
<1> QED BY <1>1, <1>5, <1>6

-----------------------------------------------------------------------------
(* Requests are made.                                                      *)

\* A panel that waits for nothing has nothing running.
LEMMA IdleRunsNothing ==
    ASSUME JudgeAssumption, JudgeInv, judge.requestKind = Nil, NEW i \in Requests
    PROVE  ~IsRunning(i)
<1> SUFFICES ASSUME IsRunning(i) PROVE FALSE
  OBVIOUS
<1>1. judge.requestKind = request[i].kind
  BY DEF JudgeInv, RunsAreKnown
<1>2. request[i].kind \in Kinds
  BY DEF JudgeInv, RequestsAreSound, RequestIsSound, IsRunning
<1> QED BY <1>1, <1>2, AmountTypes

LEMMA MakeKeeps ==
    ASSUME JudgeAssumption, JudgeInv, IsOpen, judge.requestKind = Nil,
           NEW action \in [kind : Kinds, owner : Owners \cup {Nil}, before : Nat],
           ActionIsSound(action), Make(action), UNCHANGED <<chainVars, connected, read>>
    PROVE  JudgeInv' /\ RowStep
<1>1. judge \in OpenPanels
  BY DEF JudgeInv, PanelIsSound
<1>2. PICK i \in Requests :
        /\ \A j \in Requests : request[j].stage = "none" <=> j >= i
        /\ request' = [request EXCEPT ![i] = Made(action)]
  BY DEF Make
<1>3. PICK stage : stage = FirstStage(action)
  OBVIOUS
<1>4. /\ stage \in Working \cup {"timer"}
      /\ stage = "timer" <=> judge.dataSource = "demo"
  BY <1>1, <1>3 DEF FirstStage, OpenPanels, Working
<1>5. PICK r : r = Made(action)
  OBVIOUS
<1>6. /\ request' = [request EXCEPT ![i] = r]
      /\ r = [kind |-> action.kind, owner |-> action.owner, before |-> action.before,
              stage |-> stage, mounted |-> TRUE, sent |-> FALSE, landed |-> FALSE]
  BY <1>2, <1>3, <1>5 DEF Made
<1>7. /\ r \in RequestRecords /\ r.stage # "none" /\ r.stage # "over" /\ r.kind \in Kinds
      /\ r.mounted /\ ~r.sent
  BY <1>4, <1>6 DEF RequestRecords, Working
<1>8. StartsFrom(r.owner, r.before) /\ (r.stage \in Working => r.owner \in Owners)
  <2>1. r.stage \in Working => judge.dataSource = "chain"
    BY <1>1, <1>4, <1>6 DEF OpenPanels, Working
  <2> QED BY <1>6, <2>1 DEF ActionIsSound
<1>9. request[i].owner \notin Owners
  <2>1. i >= i
    BY DEF JudgeAssumption
  <2> QED BY <1>2, <2>1, AmountTypes DEF JudgeInv, RequestsAreSound, RequestIsSound, NotMade
<1>10. WalletsAreSound' /\ WalletsGrow
  BY WalletsStay DEF JudgeInv, WalletsAreSound
<1>11. RequestsAreSound' /\ RequestsKept
  BY <1>6, <1>7, <1>8, <1>9, <1>10, RequestMoves
<1>12. /\ judge' \in OpenPanels /\ judge'.dataSource = judge.dataSource
       /\ judge'.requestKind = action.kind /\ judge'.errorMessage = FALSE
       /\ judge'.fundedRow = Nil /\ judge'.retryAction = action
       /\ judge'.fundsSnapshot = judge.fundsSnapshot
  <2>1. judge' = [judge EXCEPT !.requestKind = action.kind, !.errorMessage = FALSE,
                               !.fundedRow = Nil, !.retryAction = action]
    BY DEF Make, Begun
  <2>2. PICK panel \in OpenPanels : panel = judge
    BY <1>1
  <2>3. judge' = [dataSource |-> panel.dataSource, faucetFails |-> panel.faucetFails,
                  fundsSnapshot |-> panel.fundsSnapshot, requestKind |-> action.kind,
                  fundedRow |-> Nil, errorMessage |-> FALSE, retryAction |-> action,
                  timers |-> panel.timers, demoUsdc |-> panel.demoUsdc]
    BY <2>1, <2>2 DEF OpenPanels
  <2>4. judge' \in OpenPanels
    BY <2>2, <2>3 DEF OpenPanels
  <2> QED BY <2>2, <2>3, <2>4
<1>13. IsOpen'
  BY <1>12, AmountTypes DEF IsOpen
<1>14. RunsAreKnown'
  <2>1. \A j \in Requests : request'[j] = IF j = i THEN r ELSE request[j]
    BY <1>6 DEF JudgeInv, RequestsAreSound
  <2>2. \A j \in Requests : IsRunning(j)' <=> j = i
    BY <1>7, <2>1, IdleRunsNothing DEF IsRunning
  <2> QED BY <1>4, <1>6, <1>12, <1>13, <2>1, <2>2 DEF RunsAreKnown
<1>15. PanelIsSound'
  BY <1>10, <1>11, <1>12, PanelMoves
<1>16. ReadIsSound'
  <2>1. OnChain => OnChain'
    BY <1>12, <1>13 DEF OnChain
  <2> QED BY <1>10, <2>1, ReadStays
<1>17. RowStep
  BY <1>12, AmountTypes DEF RowStep
<1> QED BY <1>10, <1>11, <1>14, <1>15, <1>16, <1>17 DEF JudgeInv

LEMMA RequestFundsKeeps ==
    ASSUME JudgeAssumption, JudgeInv, NEW kind \in Kinds, requestFunds(kind)
    PROVE  JudgeInv' /\ RowStep
<1>1. /\ IsOpen /\ judge.requestKind = Nil /\ ~(OnChain /\ connected = Nil)
      /\ Make(Action(kind)) /\ UNCHANGED <<chainVars, connected, read>>
  BY DEF requestFunds, actionsDisabled
<1>2. connected \in Owners \cup {Nil} /\ judge \in OpenPanels
  BY <1>1 DEF JudgeInv, WalletsAreSound, PanelIsSound
<1>3. PICK before : before = IF OnChain /\ chainFunds # Nil THEN chainFunds.usdt ELSE 0
  OBVIOUS
<1>4. before \in Nat /\ StartsFrom(connected, before)
  <2>1. CASE before = 0
    BY <2>1 DEF StartsFrom
  <2>2. CASE before # 0
    <3>1. /\ judge.fundsSnapshot # Nil /\ judge.fundsSnapshot.owner = connected
          /\ before = judge.fundsSnapshot.funds.usdt
      BY <1>3, <2>2 DEF chainFunds
    <3>2. HasHad(judge.fundsSnapshot.owner, judge.fundsSnapshot.funds.usdt)
      BY <1>1, <3>1 DEF JudgeInv, PanelIsSound
    <3>3. judge.fundsSnapshot.funds.usdt \in Nat
      BY <1>2, <3>1 DEF OpenPanels
    <3> QED BY <3>1, <3>2, <3>3 DEF HasHad, StartsFrom
  <2> QED BY <2>1, <2>2
<1>5. PICK action : action = Action(kind)
  OBVIOUS
<1>6. action = [kind |-> kind, owner |-> connected, before |-> before]
  BY <1>3, <1>5 DEF Action
<1>7. /\ action \in [kind : Kinds, owner : Owners \cup {Nil}, before : Nat]
      /\ ActionIsSound(action) /\ Make(action)
  BY <1>1, <1>2, <1>4, <1>5, <1>6 DEF ActionIsSound, OnChain
<1> QED BY <1>1, <1>7, MakeKeeps

LEMMA RetryKeeps ==
    ASSUME JudgeAssumption, JudgeInv, Retry
    PROVE  JudgeInv' /\ RowStep
<1>1. /\ IsOpen /\ judge.errorMessage /\ judge.retryAction # Nil
      /\ Make(judge.retryAction) /\ UNCHANGED <<chainVars, connected, read>>
  BY DEF Retry
<1>2. /\ judge \in OpenPanels /\ judge.requestKind = Nil
      /\ ActionIsSound(judge.retryAction)
  BY <1>1 DEF JudgeInv, PanelIsSound
<1>3. judge.retryAction \in [kind : Kinds, owner : Owners \cup {Nil}, before : Nat]
  BY <1>1, <1>2 DEF OpenPanels
<1> QED BY <1>1, <1>2, <1>3, MakeKeeps

LEMMA CannotSignKeeps ==
    ASSUME JudgeAssumption, JudgeInv, CannotSign
    PROVE  JudgeInv' /\ RowStep
<1>1. /\ IsOpen /\ judge.requestKind = Nil /\ judge' = [judge EXCEPT !.errorMessage = TRUE]
      /\ UNCHANGED <<chainVars, connected, request, read>>
  BY DEF CannotSign, OnChain, actionsDisabled
<1>2. judge \in OpenPanels
  BY <1>1 DEF JudgeInv, PanelIsSound
<1>3. /\ judge' \in OpenPanels /\ judge'.dataSource = judge.dataSource
      /\ judge'.requestKind = Nil /\ judge'.retryAction = judge.retryAction
      /\ judge'.fundsSnapshot = judge.fundsSnapshot
      /\ judge'.fundedRow = judge.fundedRow /\ judge'.timers = judge.timers
  BY <1>1, <1>2 DEF OpenPanels
<1>4. IsOpen'
  BY <1>3, AmountTypes DEF IsOpen
<1>5. WalletsAreSound' /\ WalletsGrow
  BY <1>1, WalletsStay DEF JudgeInv, WalletsAreSound
<1>6. RequestsAreSound' /\ RequestsKept
  BY <1>1, <1>5, RequestsStay
<1>7. RunsAreKnown'
  BY <1>1, <1>3, <1>4, RunsStay
<1>8. PanelIsSound'
  BY <1>1, <1>3, <1>5, <1>6, PanelMoves
<1>9. ReadIsSound'
  <2>1. OnChain => OnChain'
    BY <1>3, <1>4 DEF OnChain
  <2> QED BY <1>1, <1>5, <2>1, ReadStays
<1>10. RowStep
  BY <1>3 DEF RowStep
<1> QED BY <1>5, <1>6, <1>7, <1>8, <1>9, <1>10 DEF JudgeInv

-----------------------------------------------------------------------------
(* Requests take their course.                                             *)

\* One goes on, and the panel is not told.
LEMMA CourseGoesOn ==
    ASSUME JudgeAssumption, JudgeInv, WalletsAreSound', WalletsGrow, NEW i \in Requests,
           NEW r \in RequestRecords, request' = [request EXCEPT ![i] = r],
           UNCHANGED <<connected, judge, read>>, request[i].stage # "none",
           r.mounted = request[i].mounted, r.kind = request[i].kind, r.owner = request[i].owner,
           r.before = request[i].before, r.sent => request[i].owner \in Owners,
           \/ r.stage = request[i].stage
           \/ r.stage \in Working /\ request[i].stage \in Working
    PROVE  JudgeInv' /\ RowStep
<1>1. /\ request[i].kind \in Kinds /\ StartsFrom(request[i].owner, request[i].before)
      /\ request[i].stage \in Working => request[i].owner \in Owners
  BY DEF JudgeInv, RequestsAreSound, RequestIsSound
<1>2. r.stage # "none" /\ (r.sent \/ r.stage \in Working => r.owner \in Owners)
  BY <1>1 DEF Working
<1>3. RequestsAreSound' /\ RequestsKept
  BY <1>1, <1>2, RequestMoves
<1>4. RunsAreKnown'
  BY RunsGoOn
<1>5. PanelIsSound' /\ RowStep
  BY <1>3, PanelStays
<1>6. ReadIsSound'
  BY ReadStays DEF OnChain, IsOpen
<1> QED BY <1>3, <1>4, <1>5, <1>6 DEF JudgeInv

LEMMA StagesKeep ==
    ASSUME JudgeAssumption, JudgeInv, NEW i \in Requests,
           PrepareFaucet(i) \/ SignAndSend(i) \/ requestDevnetSolAirdrop(i) \/ Confirmed(i)
    PROVE  JudgeInv' /\ RowStep
<1>1. UNCHANGED <<chainVars, connected, judge, read>>
  BY DEF PrepareFaucet, SignAndSend, requestDevnetSolAirdrop, Confirmed
<1>2. WalletsAreSound' /\ WalletsGrow
  BY <1>1, WalletsStay DEF JudgeInv, WalletsAreSound
<1>3. request[i].stage \in Working
      /\ \/ request' = [request EXCEPT ![i].stage = "signing"]
         \/ request' = [request EXCEPT ![i].stage = "confirming", ![i].sent = TRUE]
         \/ request' = [request EXCEPT ![i].stage = "accepted", ![i].sent = TRUE]
         \/ request' = [request EXCEPT ![i].stage = "refreshing"]
  BY DEF PrepareFaucet, SignAndSend, requestDevnetSolAirdrop, Confirmed, Working
<1>4. /\ request \in [Requests -> RequestRecords] /\ request[i].stage # "none"
      /\ request[i].owner \in Owners
  BY <1>3 DEF JudgeInv, RequestsAreSound, RequestIsSound, Working
<1>5. PICK stage \in Working : \E sent \in BOOLEAN :
        request' = [request EXCEPT ![i] = [request[i] EXCEPT !.stage = stage, !.sent = sent]]
  <2>1. PICK was \in RequestRecords : was = request[i]
    BY <1>4
  <2>2. was.sent \in BOOLEAN
    BY <2>1 DEF RequestRecords
  <2>3. \A stage : [was EXCEPT !.stage = stage] = [was EXCEPT !.stage = stage, !.sent = was.sent]
    BY <2>1 DEF RequestRecords
  <2>4. CASE request' = [request EXCEPT ![i].stage = "signing"]
    <3>1. request' = [request EXCEPT ![i] = [was EXCEPT !.stage = "signing"]]
      BY <2>1, <2>4
    <3>2. request' = [request EXCEPT ![i] = [was EXCEPT !.stage = "signing", !.sent = was.sent]]
      BY <2>3, <3>1
    <3> QED BY <2>1, <2>2, <3>2 DEF Working
  <2>5. CASE request' = [request EXCEPT ![i].stage = "confirming", ![i].sent = TRUE]
    <3>1. request' = [request EXCEPT ![i] = [was EXCEPT !.stage = "confirming", !.sent = TRUE]]
      BY <1>4, <2>1, <2>5
    <3> QED BY <2>1, <3>1 DEF Working
  <2>6. CASE request' = [request EXCEPT ![i].stage = "accepted", ![i].sent = TRUE]
    <3>1. request' = [request EXCEPT ![i] = [was EXCEPT !.stage = "accepted", !.sent = TRUE]]
      BY <1>4, <2>1, <2>6
    <3> QED BY <2>1, <3>1 DEF Working
  <2>7. CASE request' = [request EXCEPT ![i].stage = "refreshing"]
    <3>1. request' = [request EXCEPT ![i] = [was EXCEPT !.stage = "refreshing"]]
      BY <2>1, <2>7
    <3>2. request' = [request EXCEPT ![i] = [was EXCEPT !.stage = "refreshing", !.sent = was.sent]]
      BY <2>3, <3>1
    <3> QED BY <2>1, <2>2, <3>2 DEF Working
  <2> QED BY <1>3, <2>4, <2>5, <2>6, <2>7
<1>6. PICK sent \in BOOLEAN :
        request' = [request EXCEPT ![i] = [request[i] EXCEPT !.stage = stage, !.sent = sent]]
  BY <1>5
<1>7. PICK was \in RequestRecords : was = request[i]
  BY <1>4
<1>8. PICK r : r = [was EXCEPT !.stage = stage, !.sent = sent]
  OBVIOUS
<1>9. r = [kind |-> was.kind, owner |-> was.owner, before |-> was.before, stage |-> stage,
           mounted |-> was.mounted, sent |-> sent, landed |-> was.landed]
  BY <1>7, <1>8 DEF RequestRecords
<1>10. r \in RequestRecords
  BY <1>5, <1>6, <1>7, <1>9 DEF RequestRecords
<1>11. /\ r.stage \in Working
       /\ r.mounted = request[i].mounted /\ r.kind = request[i].kind
       /\ r.owner = request[i].owner /\ r.before = request[i].before
  BY <1>5, <1>7, <1>9
<1>12. request' = [request EXCEPT ![i] = r]
  BY <1>6, <1>7, <1>8
<1>13. r.sent => request[i].owner \in Owners
  BY <1>4
<1>14. request[i].stage # "none" /\ r.stage \in Working /\ request[i].stage \in Working
  BY <1>3, <1>4, <1>11
<1> QED BY <1>1, <1>2, <1>10, <1>11, <1>12, <1>13, <1>14, CourseGoesOn

LEMMA LandKeeps ==
    ASSUME JudgeAssumption, JudgeInv, NEW i \in Requests, LandRequest(i)
    PROVE  JudgeInv' /\ RowStep
<1>1. /\ request[i].sent /\ request' = [request EXCEPT ![i].landed = TRUE]
      /\ UNCHANGED <<connected, judge, read>>
  BY DEF LandRequest
<1>2. WalletsAreSound' /\ WalletsGrow
  BY WalletsLand
<1>3. /\ request \in [Requests -> RequestRecords] /\ RequestIsSound(i)
  BY DEF JudgeInv, RequestsAreSound
<1>4. request[i].owner \in Owners /\ request[i].stage # "none"
  BY <1>1, <1>3 DEF RequestIsSound, NotMade
<1>5. PICK r : r = [request[i] EXCEPT !.landed = TRUE]
  OBVIOUS
<1>6. /\ r \in RequestRecords /\ request' = [request EXCEPT ![i] = r]
      /\ r.mounted = request[i].mounted /\ r.kind = request[i].kind
      /\ r.owner = request[i].owner /\ r.before = request[i].before
      /\ r.stage = request[i].stage
  BY <1>1, <1>3, <1>5 DEF RequestRecords
<1> QED BY <1>1, <1>2, <1>4, <1>6, CourseGoesOn

\* One is over, and a panel that is still there is told.
LEMMA CourseEnds ==
    ASSUME JudgeAssumption, JudgeInv, NEW i \in Requests, Over(i),
           UNCHANGED <<chainVars, connected, read>>, request[i].stage \in Working \cup {"timer"},
           ~request[i].mounted => judge' = judge,
           request[i].mounted =>
               /\ judge' \in OpenPanels /\ judge'.requestKind = Nil
               /\ judge'.dataSource = judge.dataSource /\ judge'.retryAction = judge.retryAction
               /\ \/ judge'.fundsSnapshot = judge.fundsSnapshot
                  \/ HasHad(judge'.fundsSnapshot.owner, judge'.fundsSnapshot.funds.usdt)
               /\ \/ judge'.fundedRow = judge.fundedRow /\ judge'.timers = judge.timers
                  \/ /\ judge'.fundedRow \in Rows /\ judge'.fundedRow.age = 0
                     /\ judge'.timers = {FUNDED_DISMISS}
                     /\ judge.dataSource = "chain" /\ judge'.fundedRow.kind = "usdt" =>
                          IsGranted(judge'.fundedRow)
    PROVE  JudgeInv' /\ RowStep
<1>1. WalletsAreSound' /\ WalletsGrow
  BY WalletsStay DEF JudgeInv, WalletsAreSound
<1>2. /\ request \in [Requests -> RequestRecords] /\ RequestIsSound(i)
      /\ request[i].mounted => IsOpen
  BY DEF JudgeInv, RequestsAreSound, RunsAreKnown
<1>3. request[i].stage # "none" /\ request[i].stage # "over"
  BY DEF Working
<1>4. RequestsAreSound' /\ RequestsKept
  <2>1. PICK r : r = [request[i] EXCEPT !.stage = "over"]
    OBVIOUS
  <2>2. /\ r \in RequestRecords /\ request' = [request EXCEPT ![i] = r]
        /\ r.kind = request[i].kind /\ r.owner = request[i].owner
        /\ r.before = request[i].before /\ r.sent = request[i].sent /\ r.stage = "over"
    BY <1>2, <2>1 DEF Over, RequestRecords
  <2>3. /\ r.kind \in Kinds /\ StartsFrom(r.owner, r.before) /\ r.stage # "none"
        /\ r.sent \/ r.stage \in Working => r.owner \in Owners
    BY <1>2, <1>3, <2>2 DEF RequestIsSound, Working
  <2> QED BY <1>1, <2>2, <2>3, RequestMoves
<1>5. CASE ~request[i].mounted
  <2>1. RunsAreKnown'
    BY <1>3, <1>5, RunsEnd
  <2>2. PanelIsSound' /\ RowStep
    BY <1>1, <1>4, <1>5, PanelStays
  <2>3. ReadIsSound'
    BY <1>1, <1>5, ReadStays DEF OnChain, IsOpen
  <2> QED BY <1>1, <1>4, <2>1, <2>2, <2>3 DEF JudgeInv
<1>6. CASE request[i].mounted
  <2>1. IsOpen' /\ IsOpen
    BY <1>2, <1>6, AmountTypes DEF IsOpen
  <2>2. RunsAreKnown'
    BY <1>3, <1>6, <2>1, RunsEnd
  <2>3. PanelIsSound'
    BY <1>1, <1>4, <1>6, <2>1, PanelMoves
  <2>4. ReadIsSound'
    <3>1. OnChain => OnChain'
      BY <1>6, <2>1 DEF OnChain
    <3> QED BY <1>1, <3>1, ReadStays
  <2>5. RowStep
    BY <1>6, AmountTypes DEF RowStep
  <2> QED BY <1>1, <1>4, <2>2, <2>3, <2>4, <2>5 DEF JudgeInv
<1> QED BY <1>5, <1>6

LEMMA FailsKeeps ==
    ASSUME JudgeAssumption, JudgeInv, NEW i \in Requests, RequestFails(i)
    PROVE  JudgeInv' /\ RowStep
<1>1. /\ Over(i) /\ UNCHANGED <<chainVars, connected, read>>
      /\ request[i].stage \in Working \cup {"timer"}
      /\ Told(i, [judge EXCEPT !.errorMessage = TRUE])
  BY DEF RequestFails, Working
<1>2. ~request[i].mounted => judge' = judge
  BY <1>1 DEF Told
<1>3. ASSUME request[i].mounted
      PROVE  /\ judge' \in OpenPanels /\ judge'.requestKind = Nil
             /\ judge'.dataSource = judge.dataSource /\ judge'.retryAction = judge.retryAction
             /\ judge'.fundsSnapshot = judge.fundsSnapshot
             /\ judge'.fundedRow = judge.fundedRow /\ judge'.timers = judge.timers
  <2>1. judge \in OpenPanels
    BY <1>3 DEF JudgeInv, RunsAreKnown, PanelIsSound
  <2>2. judge' = [[judge EXCEPT !.errorMessage = TRUE] EXCEPT !.requestKind = Nil]
    BY <1>1, <1>3 DEF Told
  <2> QED BY <2>1, <2>2 DEF OpenPanels
<1> QED BY <1>1, <1>2, <1>3, CourseEnds

\* What is said to be granted is what the wallet has beyond what it started from.
LEMMA GrantIsGranted ==
    ASSUME JudgeAssumption, JudgeInv, NEW i \in Requests, NEW o \in Owners, o = request[i].owner,
           request[i].kind = "usdt",
           NEW holds \in {fetchWalletFunds(o), Nil}, NEW row, row.amount = Grant(i, holds),
           row.owner = o
    PROVE  row.amount \in Int /\ IsGranted(row)
<1>1. /\ StartsFrom(o, request[i].before) /\ request[i].before \in Nat
      /\ granted[o] \in Nat /\ funds[o].usdt \in Nat
  BY DEF JudgeInv, RequestsAreSound, RequestIsSound, RequestRecords, WalletsAreSound, Wallets
<1>2. CASE holds = Nil
  <2>1. row.amount = 0
    BY <1>2 DEF Grant
  <2> QED BY <1>1, <2>1 DEF IsGranted
<1>3. CASE holds # Nil
  <2>1. row.amount = funds[o].usdt - request[i].before
    BY <1>3, FetchedIsHad DEF Grant
  <2>2. CASE FirstUsdt(o) <= request[i].before
    BY <1>1, <2>1, <2>2 DEF IsGranted, FirstUsdt
  <2>3. CASE request[i].before = 0 /\ ~(FirstUsdt(o) <= request[i].before)
    <3>1. FirstUsdt(o) > 0
      BY <1>1, <2>3 DEF FirstUsdt
    <3> QED BY <1>1, <2>1, <2>3, <3>1 DEF IsGranted
  <2> QED BY <1>1, <2>2, <2>3 DEF StartsFrom
<1> QED BY <1>2, <1>3

LEMMA RefreshKeeps ==
    ASSUME JudgeAssumption, JudgeInv, NEW i \in Requests, refreshChainFunds(i)
    PROVE  JudgeInv' /\ RowStep
<1>1. /\ Over(i) /\ UNCHANGED <<chainVars, connected, read>> /\ request[i].stage \in Working
      /\ request[i].stage = "refreshing"
  BY DEF refreshChainFunds, Working
<1>2. /\ request[i].owner \in Owners /\ request[i].kind \in Kinds
  BY <1>1 DEF JudgeInv, RequestsAreSound, RequestIsSound
<1>3. PICK o \in Owners : o = request[i].owner
  BY <1>2
<1>4. PICK holds \in {fetchWalletFunds(o), Nil} :
        Told(i, showFundedRow(
            IF holds = Nil THEN judge ELSE [judge EXCEPT !.fundsSnapshot = Snapshot(o, holds)],
            Row(Grant(i, holds), request[i].kind, o)))
  BY <1>3 DEF refreshChainFunds
<1>5. ~request[i].mounted => judge' = judge
  BY <1>4 DEF Told
<1>6. PICK row : row = Row(Grant(i, holds), request[i].kind, o)
  OBVIOUS
<1>7. row = [amount |-> Grant(i, holds), kind |-> request[i].kind, owner |-> o, age |-> 0]
  BY <1>6 DEF Row
<1>8. row.amount \in Int /\ (row.kind = "usdt" => IsGranted(row))
  <2>1. CASE request[i].kind = "usdt"
    <3>1. row.amount = Grant(i, holds) /\ row.owner = o
      BY <1>7
    <3> QED BY <1>3, <2>1, <3>1, GrantIsGranted
  <2>2. CASE request[i].kind # "usdt"
    BY <1>2, <1>7, <2>2, AmountTypes DEF Grant, Kinds
  <2> QED BY <2>1, <2>2
<1>9. row \in Rows /\ row.age = 0
  BY <1>2, <1>7, <1>8 DEF Rows
<1>10. ASSUME request[i].mounted
       PROVE  /\ judge' \in OpenPanels /\ judge'.requestKind = Nil
              /\ judge'.dataSource = judge.dataSource /\ judge'.retryAction = judge.retryAction
              /\ \/ judge'.fundsSnapshot = judge.fundsSnapshot
                 \/ HasHad(judge'.fundsSnapshot.owner, judge'.fundsSnapshot.funds.usdt)
              /\ judge'.fundedRow = row /\ judge'.timers = {FUNDED_DISMISS}
  <2>1. judge \in OpenPanels
    BY <1>10 DEF JudgeInv, RunsAreKnown, PanelIsSound
  <2>2. PICK base :
          base = IF holds = Nil THEN judge ELSE [judge EXCEPT !.fundsSnapshot = Snapshot(o, holds)]
    OBVIOUS
  <2>3. /\ base \in OpenPanels /\ base.dataSource = judge.dataSource
        /\ base.retryAction = judge.retryAction
        /\ \/ base.fundsSnapshot = judge.fundsSnapshot
           \/ HasHad(base.fundsSnapshot.owner, base.fundsSnapshot.funds.usdt)
    <3>1. CASE holds = Nil
      BY <2>1, <2>2, <3>1
    <3>2. CASE holds # Nil
      <4>1. /\ holds \in [sol : Nat, usdt : Nat] /\ holds.usdt = funds[o].usdt
            /\ HasHad(o, holds.usdt)
        BY <3>2, FetchedIsHad
      <4>2. PICK snapshot : snapshot = Snapshot(o, holds)
        OBVIOUS
      <4>3. /\ snapshot \in [owner : Owners, funds : [sol : Nat, usdt : Nat]]
            /\ HasHad(snapshot.owner, snapshot.funds.usdt)
        BY <4>1, <4>2 DEF Snapshot
      <4>4. base = [judge EXCEPT !.fundsSnapshot = snapshot]
        BY <2>2, <3>2, <4>2
      <4> QED BY <2>1, <4>3, <4>4 DEF OpenPanels
    <3> QED BY <3>1, <3>2
  <2>4. judge' = [showFundedRow(base, row) EXCEPT !.requestKind = Nil]
    BY <1>4, <1>6, <1>10, <2>2 DEF Told
  <2>5. judge' = [base EXCEPT !.fundedRow = row, !.timers = {FUNDED_DISMISS}, !.requestKind = Nil]
    BY <2>3, <2>4 DEF showFundedRow, OpenPanels
  <2> QED BY <1>9, <2>3, <2>5, AmountTypes DEF OpenPanels
<1> QED BY <1>1, <1>5, <1>8, <1>9, <1>10, CourseEnds

LEMMA DemoKeeps ==
    ASSUME JudgeAssumption, JudgeInv, NEW i \in Requests, requestDemo(i)
    PROVE  JudgeInv' /\ RowStep
<1>1. /\ Over(i) /\ UNCHANGED <<chainVars, connected, read>>
      /\ request[i].stage = "timer" /\ request[i].mounted
  BY DEF requestDemo
<1>2. judge \in OpenPanels /\ judge.dataSource = "demo"
  BY <1>1 DEF JudgeInv, RunsAreKnown, PanelIsSound, IsRunning
<1>3. \/ judge' = [[judge EXCEPT !.errorMessage = TRUE] EXCEPT !.requestKind = Nil]
      \/ judge' = [showFundedRow([judge EXCEPT !.demoUsdc = @ + FAUCET_USDT],
                                 Row(FAUCET_USDT, "usdt", Nil)) EXCEPT !.requestKind = Nil]
      \/ judge' = [showFundedRow(judge, Row(AIRDROP_SOL, "sol", Nil)) EXCEPT !.requestKind = Nil]
  BY <1>1 DEF requestDemo, Told
<1>4. ASSUME NEW amount \in Nat, NEW kind \in Kinds
      PROVE  Row(amount, kind, Nil) \in Rows /\ Row(amount, kind, Nil).age = 0
  BY DEF Row, Rows
<1>5. /\ judge' \in OpenPanels /\ judge'.requestKind = Nil
      /\ judge'.dataSource = judge.dataSource /\ judge'.retryAction = judge.retryAction
      /\ judge'.fundsSnapshot = judge.fundsSnapshot
      /\ \/ judge'.fundedRow = judge.fundedRow /\ judge'.timers = judge.timers
         \/ /\ judge'.fundedRow \in Rows /\ judge'.fundedRow.age = 0
            /\ judge'.timers = {FUNDED_DISMISS}
  <2>1. CASE judge' = [[judge EXCEPT !.errorMessage = TRUE] EXCEPT !.requestKind = Nil]
    BY <1>2, <2>1 DEF OpenPanels
  <2>2. CASE judge' = [showFundedRow([judge EXCEPT !.demoUsdc = @ + FAUCET_USDT],
                                     Row(FAUCET_USDT, "usdt", Nil)) EXCEPT !.requestKind = Nil]
    <3>1. PICK row : row = Row(FAUCET_USDT, "usdt", Nil)
      OBVIOUS
    <3>2. row \in Rows /\ row.age = 0
      BY <1>4, <3>1, AmountTypes DEF Kinds
    <3>3. PICK base : base = [judge EXCEPT !.demoUsdc = @ + FAUCET_USDT]
      OBVIOUS
    <3>4. /\ base \in OpenPanels /\ base.dataSource = judge.dataSource
          /\ base.retryAction = judge.retryAction /\ base.fundsSnapshot = judge.fundsSnapshot
      BY <1>2, <3>3, AmountTypes DEF OpenPanels
    <3>5. judge' = [showFundedRow(base, row) EXCEPT !.requestKind = Nil]
      BY <2>2, <3>1, <3>3
    <3> QED BY <3>2, <3>4, <3>5, AmountTypes DEF showFundedRow, OpenPanels
  <2>3. CASE judge' = [showFundedRow(judge, Row(AIRDROP_SOL, "sol", Nil)) EXCEPT !.requestKind = Nil]
    <3>1. PICK row : row = Row(AIRDROP_SOL, "sol", Nil)
      OBVIOUS
    <3>2. row \in Rows /\ row.age = 0
      BY <1>4, <3>1, AmountTypes DEF Kinds
    <3>3. judge' = [showFundedRow(judge, row) EXCEPT !.requestKind = Nil]
      BY <2>3, <3>1
    <3> QED BY <1>2, <3>2, <3>3, AmountTypes DEF showFundedRow, OpenPanels
  <2> QED BY <1>3, <2>1, <2>2, <2>3
<1> QED BY <1>1, <1>2, <1>5, CourseEnds

-----------------------------------------------------------------------------
(* The panel is opened and shut, and its timers go on.                     *)

LEMMA OpenKeeps ==
    ASSUME JudgeAssumption, JudgeInv, OpenPanel
    PROVE  JudgeInv' /\ RowStep
<1>1. PICK props \in Panels : judge' = Fresh(props) /\ readFirst(props.dataSource, connected)
  BY DEF OpenPanel
<1>2. ~IsOpen /\ UNCHANGED <<chainVars, connected, request>> /\ connected \in Owners \cup {Nil}
  BY DEF OpenPanel, JudgeInv, WalletsAreSound
<1>3. judge' = [dataSource |-> props.dataSource, faucetFails |-> props.faucetFails,
                fundsSnapshot |-> Nil, requestKind |-> Nil, fundedRow |-> Nil,
                errorMessage |-> FALSE, retryAction |-> Nil, timers |-> {}, demoUsdc |-> 0]
  BY <1>1 DEF Fresh
<1>4. props \in [dataSource : {"chain", "demo"}, faucetFails : BOOLEAN]
  BY DEF JudgeAssumption
<1>5. judge' \in OpenPanels
  BY <1>3, <1>4 DEF OpenPanels
<1>6. IsOpen' /\ judge'.dataSource = props.dataSource
  BY <1>3, <1>5, AmountTypes DEF IsOpen
<1>7. WalletsAreSound' /\ WalletsGrow
  BY <1>2, WalletsStay DEF JudgeInv, WalletsAreSound
<1>8. RequestsAreSound'
  BY <1>2, <1>7, RequestsStay
<1>9. RunsAreKnown'
  <2>1. \A i \in Requests : ~request'[i].mounted
    BY <1>2 DEF JudgeInv, RunsAreKnown
  <2> QED BY <1>3, <2>1 DEF RunsAreKnown, IsRunning
<1>10. PanelIsSound'
  BY <1>3, <1>5 DEF PanelIsSound
<1>11. ReadIsSound'
  <2>1. PICK source : source = props.dataSource
    OBVIOUS
  <2>2. readFirst(source, connected) /\ (source = "chain" => OnChain')
    BY <1>1, <1>6, <2>1 DEF OnChain
  <2> QED BY <1>2, <2>2, ReadBegins
<1>12. RowStep
  BY <1>2 DEF RowStep
<1> QED BY <1>7, <1>8, <1>9, <1>10, <1>11, <1>12 DEF JudgeInv

LEMMA CloseKeeps ==
    ASSUME JudgeAssumption, JudgeInv, onClose
    PROVE  JudgeInv' /\ RowStep
<1>1. /\ UNCHANGED <<chainVars, connected>> /\ judge' = Nil /\ read' = Nil
      /\ request' = [i \in Requests |->
           [request[i] EXCEPT !.mounted = FALSE, !.stage = IF @ = "timer" THEN "over" ELSE @]]
  BY DEF onClose
<1>2. WalletsAreSound' /\ WalletsGrow
  BY <1>1, WalletsStay DEF JudgeInv, WalletsAreSound
<1>3. request \in [Requests -> RequestRecords] /\ \A i \in Requests : RequestIsSound(i)
  BY DEF JudgeInv, RequestsAreSound
<1>4. ASSUME NEW i \in Requests
      PROVE  request'[i] \in RequestRecords /\ RequestIsSound(i)' /\ ~request'[i].mounted
  <2>1. PICK was \in RequestRecords : was = request[i]
    BY <1>3
  <2>2. request'[i] = [was EXCEPT !.mounted = FALSE,
                                  !.stage = IF was.stage = "timer" THEN "over" ELSE was.stage]
    BY <1>1, <2>1
  <2>3. PICK r : r = request'[i]
    OBVIOUS
  <2>4. /\ r \in RequestRecords /\ ~r.mounted /\ r.kind = was.kind /\ r.owner = was.owner
        /\ r.before = was.before /\ r.sent = was.sent
        /\ r.stage = IF was.stage = "timer" THEN "over" ELSE was.stage
    BY <2>2, <2>3 DEF RequestRecords
  <2>5. r.stage = "none" => r = NotMade
    <3>1. ASSUME r.stage = "none"
          PROVE  r = NotMade
      <4>1. was.stage = "none"
        BY <2>4, <3>1
      <4>2. was = NotMade
        BY <1>3, <2>1, <4>1 DEF RequestIsSound
      <4> QED BY <2>2, <2>3, <4>2 DEF NotMade
    <3> QED BY <3>1
  <2>6. \A o \in Owners : FirstUsdt(o)' = FirstUsdt(o)
    BY <1>2 DEF WalletsGrow
  <2>7. /\ r.stage # "none" => r.kind \in Kinds
        /\ StartsFrom(r.owner, r.before)
        /\ r.sent \/ r.stage \in Working => r.owner \in Owners
    BY <1>3, <2>1, <2>4 DEF RequestIsSound, Working
  <2>8. StartsFrom(r.owner, r.before)'
    BY <2>6, <2>7 DEF StartsFrom
  <2> QED BY <2>3, <2>4, <2>5, <2>7, <2>8 DEF RequestIsSound, StartsFrom, FirstUsdt
<1>5. RequestsAreSound'
  BY <1>1, <1>4 DEF RequestsAreSound
<1>6. RunsAreKnown'
  BY <1>1, <1>4 DEF RunsAreKnown, IsRunning, IsOpen
<1>7. PanelIsSound' /\ ReadIsSound' /\ RowStep
  BY <1>1 DEF PanelIsSound, ReadIsSound, RowStep, IsOpen
<1> QED BY <1>2, <1>5, <1>6, <1>7 DEF JudgeInv

\* The only timer of a row takes it away when its time is over.
LEMMA TimersKeep ==
    ASSUME JudgeAssumption, JudgeInv, TimersTick
    PROVE  JudgeInv' /\ RowStep
<1>1. /\ IsOpen /\ UNCHANGED <<chainVars, connected, request, read>>
      /\ judge' = [judge EXCEPT !.timers = TimersLeft, !.fundedRow = RowLeft]
  BY DEF TimersTick
<1>2. judge \in OpenPanels
  BY <1>1 DEF JudgeInv, PanelIsSound
<1>3. PICK timers, row : timers = TimersLeft /\ row = RowLeft
  OBVIOUS
<1>4. judge' = [judge EXCEPT !.timers = timers, !.fundedRow = row]
  BY <1>1, <1>3
<1>5. /\ judge'.timers = timers /\ judge'.fundedRow = row
      /\ judge'.dataSource = judge.dataSource /\ judge'.errorMessage = judge.errorMessage
      /\ judge'.requestKind = judge.requestKind /\ judge'.retryAction = judge.retryAction
      /\ judge'.fundsSnapshot = judge.fundsSnapshot
  BY <1>2, <1>4 DEF OpenPanels
<1>6. timers \in SUBSET (Nat \ {0})
  <2>1. judge.timers \in SUBSET (Nat \ {0})
    BY <1>2 DEF OpenPanels
  <2> QED BY <1>3, <2>1 DEF TimersLeft
<1>7. FUNDED_DISMISS \in Nat \ {0} /\ Nil \notin Rows
  BY DEF JudgeAssumption
\* A row that is left has not been there for its time.
<1>8. ASSUME row # Nil
      PROVE  /\ judge.fundedRow # Nil /\ row \in Rows
             /\ row.kind = judge.fundedRow.kind /\ row.owner = judge.fundedRow.owner
             /\ row.amount = judge.fundedRow.amount
             /\ row.age < FUNDED_DISMISS /\ timers = {FUNDED_DISMISS - row.age}
  <2>1. 1 \notin judge.timers /\ judge.fundedRow # Nil /\ row = Aged(judge.fundedRow)
    BY <1>3, <1>8 DEF RowLeft
  <2>2. PICK was \in Rows : was = judge.fundedRow
    BY <1>2, <2>1 DEF OpenPanels
  <2>3. row = [was EXCEPT !.age = was.age + 1]
    BY <2>1, <2>2 DEF Aged
  <2>4. /\ row \in Rows /\ row.kind = was.kind /\ row.owner = was.owner
        /\ row.amount = was.amount /\ row.age = was.age + 1 /\ was.age \in Nat
    BY <2>3 DEF Rows
  <2>5. was.age < FUNDED_DISMISS /\ judge.timers = {FUNDED_DISMISS - was.age}
    BY <1>1, <2>1, <2>2 DEF JudgeInv, PanelIsSound
  <2>6. FUNDED_DISMISS - was.age # 1
    BY <2>1, <2>5
  <2>7. timers = {FUNDED_DISMISS - was.age - 1}
    BY <1>3, <2>5, <2>6 DEF TimersLeft
  <2>8. FUNDED_DISMISS - was.age - 1 = FUNDED_DISMISS - row.age /\ row.age < FUNDED_DISMISS
    BY <1>7, <2>4, <2>5, <2>6
  <2> QED BY <2>1, <2>2, <2>4, <2>7, <2>8
<1>9. judge' \in OpenPanels
  <2>1. row \in Rows \cup {Nil}
    BY <1>8
  <2> QED BY <1>2, <1>4, <1>6, <2>1 DEF OpenPanels
<1>10. WalletsAreSound' /\ WalletsGrow
  BY <1>1, WalletsStay DEF JudgeInv, WalletsAreSound
<1>11. RequestsAreSound' /\ RequestsKept
  BY <1>1, <1>10, RequestsStay
<1>12. IsOpen'
  BY <1>9, AmountTypes DEF IsOpen
<1>13. RunsAreKnown'
  BY <1>1, <1>5, <1>12, RunsStay
<1>14. OnChain => OnChain'
  BY <1>5, <1>12 DEF OnChain
<1>15. ReadIsSound'
  BY <1>1, <1>10, <1>14, ReadStays
<1>16. \A o \in Owners : FirstUsdt(o)' = FirstUsdt(o)
  BY <1>10 DEF WalletsGrow
<1>17. PICK panel \in OpenPanels : panel = judge'
  BY <1>9
<1>18. ASSUME panel.retryAction # Nil
       PROVE  ActionIsSound(panel.retryAction)'
  <2>1. ActionIsSound(panel.retryAction)
    BY <1>1, <1>5, <1>17, <1>18 DEF JudgeInv, PanelIsSound
  <2> QED BY <1>5, <1>16, <1>17, <2>1 DEF ActionIsSound, StartsFrom
<1>19. ASSUME panel.fundsSnapshot # Nil
       PROVE  HasHad(panel.fundsSnapshot.owner, panel.fundsSnapshot.funds.usdt)'
  <2>1. HasHad(panel.fundsSnapshot.owner, panel.fundsSnapshot.funds.usdt)
    BY <1>1, <1>5, <1>17, <1>19 DEF JudgeInv, PanelIsSound
  <2>2. panel.fundsSnapshot.funds.usdt \in Nat
    BY <1>19 DEF OpenPanels
  <2> QED BY <1>10, <2>1, <2>2, BalanceStays
<1>20. ASSUME panel.fundedRow # Nil, panel.fundedRow.kind = "usdt", panel.dataSource = "chain"
       PROVE  IsGranted(panel.fundedRow)'
  <2>1. row = panel.fundedRow /\ row # Nil
    BY <1>5, <1>17, <1>20
  <2>2. IsGranted(judge.fundedRow)
    BY <1>1, <1>5, <1>8, <1>17, <1>20, <2>1 DEF JudgeInv, PanelIsSound
  <2>3. IsGranted(row)
    BY <1>8, <2>1, <2>2 DEF IsGranted
  <2>4. row.amount \in Int
    BY <1>8, <2>1 DEF Rows
  <2>5. IsGranted(row)'
    BY <1>10, <1>11, <2>3, <2>4, GrantStays
  <2> QED BY <2>1, <2>5
<1>21. PanelIsSound'
  <2>1. judge'.errorMessage => judge'.requestKind = Nil
    BY <1>1, <1>5 DEF JudgeInv, PanelIsSound
  <2>2. judge'.fundedRow # Nil =>
          /\ judge'.fundedRow.age < FUNDED_DISMISS
          /\ judge'.timers = {FUNDED_DISMISS - judge'.fundedRow.age}
    BY <1>5, <1>8
  <2> QED BY <1>9, <1>17, <1>18, <1>19, <1>20, <2>1, <2>2 DEF PanelIsSound
\* A row that goes has been.
<1>22. RowStep
  <2>1. ASSUME judge.fundedRow # Nil, row = Nil
        PROVE  judge.fundedRow.age = FUNDED_DISMISS - 1
    <3>1. PICK was \in Rows : was = judge.fundedRow
      BY <1>2, <2>1 DEF OpenPanels
    <3>2. was.age < FUNDED_DISMISS /\ judge.timers = {FUNDED_DISMISS - was.age}
      BY <1>1, <2>1, <3>1 DEF JudgeInv, PanelIsSound
    <3>3. [was EXCEPT !.age = was.age + 1] \in Rows
      BY <3>1 DEF Rows
    <3>4. 1 \in judge.timers
      BY <1>3, <1>7, <2>1, <3>1, <3>3 DEF RowLeft, Aged
    <3>5. was.age \in Nat
      BY <3>1 DEF Rows
    <3> QED BY <1>7, <3>1, <3>2, <3>4, <3>5
  <2> QED BY <1>5, <2>1 DEF RowStep
<1> QED BY <1>10, <1>11, <1>13, <1>15, <1>21, <1>22 DEF JudgeInv

-----------------------------------------------------------------------------
(* The whole of the panel.                                                 *)

\* The panel is shut at first, and nothing has been asked for.
LEMMA JudgeInitInv ==
    ASSUME JudgeAssumption, JudgeInit
    PROVE  JudgeInv
<1>1. /\ funds \in [Owners -> Wallets] /\ granted = [o \in Owners |-> 0] /\ connected = Nil
      /\ judge = Nil /\ read = Nil
  BY DEF JudgeInit, JudgeAssumption
<1>2. WalletsAreSound
  BY <1>1 DEF WalletsAreSound, Wallets
<1>3. request = [i \in Requests |-> NotMade]
  BY DEF JudgeInit
<1>4. NotMade \in RequestRecords
  BY DEF NotMade, RequestRecords
<1>5. RequestsAreSound
  BY <1>3, <1>4 DEF RequestsAreSound, RequestIsSound, NotMade, StartsFrom, Working
<1>6. RunsAreKnown
  BY <1>1, <1>3 DEF RunsAreKnown, NotMade, IsRunning, IsOpen
<1>7. PanelIsSound /\ ReadIsSound
  BY <1>1 DEF PanelIsSound, ReadIsSound, IsOpen
<1> QED BY <1>2, <1>5, <1>6, <1>7 DEF JudgeInv

LEMMA JudgeStays ==
    ASSUME JudgeAssumption, JudgeInv, UNCHANGED judgeVars
    PROVE  JudgeInv' /\ RowStep
<1>1. UNCHANGED chainVars /\ connected' = connected /\ judge' = judge /\ request' = request
      /\ read' = read
  BY DEF judgeVars, chainVars
<1>2. WalletsAreSound' /\ WalletsGrow
  BY <1>1, WalletsStay DEF JudgeInv, WalletsAreSound
<1>3. RequestsAreSound' /\ RequestsKept
  BY <1>1, <1>2, RequestsStay
<1>4. RunsAreKnown'
  BY <1>1, RunsStay DEF IsOpen
<1>5. PanelIsSound' /\ RowStep
  BY <1>1, <1>2, <1>3, PanelStays
<1>6. ReadIsSound'
  BY <1>1, <1>2, ReadStays DEF OnChain, IsOpen
<1> QED BY <1>2, <1>3, <1>4, <1>5, <1>6 DEF JudgeInv

LEMMA JudgeSteps ==
    ASSUME JudgeAssumption, JudgeInv, JudgeNext
    PROVE  JudgeInv' /\ RowStep
<1>1. CASE Connect \/ ReadFirst \/ FirstFundsShown
  BY <1>1, ConnectKeeps, ReadKeeps, ShownKeeps
<1>2. CASE \E kind \in Kinds : requestFunds(kind)
  BY <1>2, RequestFundsKeeps
<1>3. CASE CannotSign \/ Retry
  BY <1>3, CannotSignKeeps, RetryKeeps
<1>4. CASE \E i \in Requests : Course(i) \/ LandRequest(i)
  BY <1>4, StagesKeep, LandKeeps, FailsKeeps, RefreshKeeps, DemoKeeps DEF Course
<1>5. CASE OpenPanel \/ onClose \/ TimersTick
  BY <1>5, OpenKeeps, CloseKeeps, TimersKeep
<1> QED BY <1>1, <1>2, <1>3, <1>4, <1>5 DEF JudgeNext

\* What is so of a sound panel is what it tells.
LEMMA SoundPanelsTellTheTruth ==
    ASSUME JudgeAssumption, JudgeInv
    PROVE  PanelTellsTheTruth
<1>1. BusyWhileItsRequestRuns
  <2>1. CASE \E i \in Requests : IsRunning(i)
    <3>1. PICK i \in Requests : i = CHOOSE j \in Requests : IsRunning(j)
      BY <2>1
    <3>2. IsRunning(i)
      BY <2>1, <3>1
    <3>3. {j \in Requests : IsRunning(j)} = {i}
      BY <3>2 DEF JudgeInv, RunsAreKnown
    <3>4. Cardinality({j \in Requests : IsRunning(j)}) = 1
      BY <3>3, FS_Singleton
    <3>5. judge.requestKind = request[i].kind
      BY <3>2 DEF JudgeInv, RunsAreKnown
    <3> QED BY <2>1, <3>1, <3>4, <3>5 DEF BusyWhileItsRequestRuns
  <2>2. CASE ~\E i \in Requests : IsRunning(i)
    <3>1. {i \in Requests : IsRunning(i)} = {}
      BY <2>2
    <3>2. Cardinality({i \in Requests : IsRunning(i)}) = 0
      BY <3>1, FS_EmptySet
    <3>3. IsOpen => judge.requestKind = Nil
      BY <2>2 DEF JudgeInv, RunsAreKnown
    <3> QED BY <2>2, <3>2, <3>3 DEF BusyWhileItsRequestRuns
  <2> QED BY <2>1, <2>2
<1>2. BalanceIsOfTheConnected
  <2>1. ASSUME OnChain, connected # Nil
        PROVE  usdtDisplay <= funds[connected].usdt
    <3>1. connected \in Owners /\ funds[connected].usdt \in Nat
      BY <2>1 DEF JudgeInv, WalletsAreSound, Wallets
    <3>2. IsOpen /\ judge.dataSource = "chain"
      BY <2>1 DEF OnChain
    <3>3. usdtDisplay = IF chainFunds # Nil THEN chainFunds.usdt ELSE 0
      BY <3>2 DEF usdtDisplay
    <3>4. ASSUME chainFunds # Nil
          PROVE  chainFunds.usdt <= funds[connected].usdt
      <4>1. /\ judge.fundsSnapshot # Nil /\ judge.fundsSnapshot.owner = connected
            /\ chainFunds = judge.fundsSnapshot.funds
        BY <3>4 DEF chainFunds
      <4> QED BY <3>2, <4>1 DEF JudgeInv, PanelIsSound, HasHad
    <3> QED BY <3>1, <3>3, <3>4
  <2> QED BY <2>1 DEF BalanceIsOfTheConnected
<1>3. GrantWasGiven
  <2>1. ASSUME OnChain, judge.fundedRow # Nil, judge.fundedRow.kind = "usdt"
        PROVE  LET o == judge.fundedRow.owner
               IN  \/ judge.fundedRow.amount <= granted[o]
                   \/ \E i \in Requests :
                        request[i].owner = o /\ request[i].before = 0 /\ funds[o].usdt > granted[o]
    <3>1. IsGranted(judge.fundedRow)
      BY <2>1 DEF OnChain, JudgeInv, PanelIsSound
    <3>2. PICK o : o = judge.fundedRow.owner
      OBVIOUS
    <3>3. funds[o].usdt \in Nat /\ granted[o] \in Nat
      BY <3>1, <3>2 DEF IsGranted, JudgeInv, WalletsAreSound, Wallets
    <3> QED BY <3>1, <3>2, <3>3 DEF IsGranted, FirstUsdt
  <2> QED BY <2>1 DEF GrantWasGiven
<1> QED BY <1>1, <1>2, <1>3 DEF PanelTellsTheTruth

-----------------------------------------------------------------------------
(* The verify page.                                                        *)

\* What a page has read as verified is on chain.
IsOnChain(m, view) ==
    view # None /\ view.status = "verified" =>
        m \in MarketIds /\ outcome[m] = view.outcome /\ outcome[m] # "Unverified"

\* The page reads a resolution once, one load at a time, and again only when the
\* load has failed: no answer is left that could come in late.
OneLoad(loads) ==
    /\ loads = [l \in Loads |-> loads[l]]
    /\ \A l \in Loads : loads[l] = [asked |-> loads[l].asked, at |-> loads[l].at]
    /\ \A l, k \in Loads : loads[l] # Idle /\ loads[k] # Idle => l = k
LoadsAreSound ==
    hook = "verify" =>
        /\ OneLoad(load)
        /\ state = Loading \/ \A l \in Loads : load[l] = Idle
        /\ \A l \in Loads : load[l].at # None => IsOnChain(load[l].asked, load[l].at.view)
        /\ state.status = "ready" => IsOnChain(state.for, state.view)

ViewsInv ==
    /\ hook \in Hooks /\ outcome \in [MarketIds -> {"Unverified", "Yes", "No"}]
    /\ LoadsAreSound

\* What the page shows as verified is the outcome on chain, as long as it shows it.
LEMMA VerifiedStands ==
    ASSUME ViewsInv, state' = state
    PROVE  VerifiedStep
BY DEF ViewsInv, LoadsAreSound, IsOnChain, VerifiedStep

\* The page opens, and the first load begins.
LEMMA ViewsInitInv ==
    ASSUME ViewsInit
    PROVE  ViewsInv
<1>1. /\ hook \in Hooks /\ outcome = [m \in MarketIds |-> "Unverified"] /\ state = Loading
      /\ load = [l \in Loads |-> IF l = TheFirst THEN Asked(key) ELSE Idle]
  BY DEF ViewsInit, BookWith
<1>2. OneLoad(load) /\ \A l \in Loads : load[l].at = None
  BY <1>1 DEF OneLoad, Asked, Idle
<1> QED BY <1>1, <1>2 DEF ViewsInv, LoadsAreSound, Loading

\* A load begins where there is room for one.
LEMMA LoadBegins ==
    ASSUME NEW k, Load(k, load), OneLoad(load), \A l \in Loads : load[l] = Idle
    PROVE  OneLoad(load') /\ \A l \in Loads : load'[l].at = None
<1>1. CASE k = None
  BY <1>1 DEF Load, OneLoad, Idle
<1>2. CASE k # None
  <2>1. PICK l \in Loads : load' = [load EXCEPT ![l] = Asked(k)]
    BY <1>2 DEF Load
  <2>2. PICK loads : loads = load'
    OBVIOUS
  <2>3. /\ loads = [j \in Loads |-> loads[j]]
        /\ \A j \in Loads : loads[j] = IF j = l THEN Asked(k) ELSE Idle
    BY <2>1, <2>2 DEF OneLoad
  <2> QED BY <2>2, <2>3 DEF OneLoad, Asked, Idle
<1> QED BY <1>1, <1>2

\* A load moves on, and no other is there.
LEMMA LoadMoves ==
    ASSUME OneLoad(load), NEW l \in Loads, load[l] # Idle, NEW r,
           r = [asked |-> r.asked, at |-> r.at], load' = [load EXCEPT ![l] = r]
    PROVE  OneLoad(load') /\ \A j \in Loads : load'[j] = IF j = l THEN r ELSE Idle
<1>1. PICK loads : loads = load'
  OBVIOUS
<1>2. /\ loads = [j \in Loads |-> loads[j]]
      /\ \A j \in Loads : loads[j] = IF j = l THEN r ELSE Idle
  BY <1>1 DEF OneLoad
<1>3. OneLoad(loads)
  BY <1>2 DEF OneLoad, Idle
<1> QED BY <1>1, <1>2, <1>3

\* What the node answers is on chain.
LEMMA FetchedIsOnChain ==
    ASSUME ViewsInv, hook = "verify", NEW m
    PROVE  IsOnChain(m, Fetch(m))
<1>1. Fetch(m) = fetchChainVerify(m)
  BY DEF Fetch
<1>2. CASE m \notin MarketIds \/ market[m] = NoMarket
  BY <1>1, <1>2 DEF fetchChainVerify, IsOnChain
<1>3. CASE m \in MarketIds /\ market[m] # NoMarket /\ outcome[m] = "Unverified"
  BY <1>1, <1>3 DEF fetchChainVerify, IsOnChain
<1>4. CASE m \in MarketIds /\ market[m] # NoMarket /\ outcome[m] # "Unverified"
  BY <1>1, <1>4 DEF fetchChainVerify, IsOnChain
<1> QED BY <1>2, <1>3, <1>4

\* No outcome is overwritten, whoever cranks.
LEMMA OutcomesStay ==
    ASSUME ViewsInv, ChainMoves
    PROVE  /\ outcome' \in [MarketIds -> {"Unverified", "Yes", "No"}]
           /\ \A m \in MarketIds : outcome[m] # "Unverified" => outcome'[m] = outcome[m]
<1>1. outcome \in [MarketIds -> {"Unverified", "Yes", "No"}]
  BY DEF ViewsInv
<1>2. CASE \E m \in MarketIds, proof \in ScoreProofs : VerifyMarket(m, proof)
  BY <1>1, <1>2 DEF VerifyMarket
<1>3. CASE outcome' = outcome
  BY <1>1, <1>3
<1>4. \/ \E m \in MarketIds, proof \in ScoreProofs : VerifyMarket(m, proof)
      \/ outcome' = outcome
  BY DEF ChainMoves, PostQuote, LockMarket, VoidMarket, SettleTicket, Tick, accounts
<1> QED BY <1>2, <1>3, <1>4

LEMMA OnChainStays ==
    ASSUME ViewsInv, \A m \in MarketIds : outcome[m] # "Unverified" => outcome'[m] = outcome[m],
           NEW m, NEW view, IsOnChain(m, view)
    PROVE  IsOnChain(m, view)'
BY DEF IsOnChain

LEMMA ChainKeepsViews ==
    ASSUME ViewsInv, ChainMoves
    PROVE  ViewsInv' /\ VerifiedStep
<1>1. hook' = hook /\ load' = load /\ state' = state
  BY DEF ChainMoves, viewVars
<1>2. /\ outcome' \in [MarketIds -> {"Unverified", "Yes", "No"}]
      /\ \A m \in MarketIds : outcome[m] # "Unverified" => outcome'[m] = outcome[m]
  BY OutcomesStay
<1>3. \A m, view : IsOnChain(m, view) => IsOnChain(m, view)'
  BY <1>2, OnChainStays
<1>4. PICK loads, shown : loads = load /\ shown = state
  OBVIOUS
<1>5. ASSUME hook = "verify", NEW l \in Loads, loads[l].at # None
      PROVE  IsOnChain(loads[l].asked, loads[l].at.view)'
  <2>1. IsOnChain(loads[l].asked, loads[l].at.view)
    BY <1>4, <1>5 DEF ViewsInv, LoadsAreSound
  <2> QED BY <1>3, <2>1
<1>6. ASSUME hook = "verify", shown.status = "ready"
      PROVE  IsOnChain(shown.for, shown.view)'
  <2>1. IsOnChain(shown.for, shown.view)
    BY <1>4, <1>6 DEF ViewsInv, LoadsAreSound
  <2> QED BY <1>3, <2>1
<1>7. LoadsAreSound'
  BY <1>1, <1>4, <1>5, <1>6 DEF ViewsInv, LoadsAreSound
<1> QED BY <1>1, <1>2, <1>7, VerifiedStands DEF ViewsInv

\* Once it shows what it has read the page loads nothing more.
LEMMA LoadsKeepViews ==
    ASSUME ViewsInv, NEW l \in Loads, NodeReads(l) \/ Arrives(l) \/ Fails(l)
    PROVE  ViewsInv' /\ VerifiedStep
<1>1. UNCHANGED <<vars, hook>>
  BY DEF NodeReads, Arrives, Fails
<1>2. outcome' = outcome /\ hook' = hook
  BY <1>1 DEF vars, accounts
<1>3. CASE hook # "verify"
  BY <1>2, <1>3 DEF ViewsInv, LoadsAreSound, VerifiedStep
<1>4. CASE hook = "verify"
  <2>1. OneLoad(load) /\ load[l] = [asked |-> load[l].asked, at |-> load[l].at]
    BY <1>4 DEF ViewsInv, LoadsAreSound, OneLoad
  <2>2. load[l] # Idle
    BY DEF NodeReads, Arrives, Fails, Idle
  <2>3. state = Loading /\ VerifiedStep
    BY <1>4, <2>2 DEF ViewsInv, LoadsAreSound, VerifiedStep, Loading
  <2>4. CASE NodeReads(l)
    <3>1. PICK r : r = [asked |-> load[l].asked, at |-> [view |-> Fetch(load[l].asked)]]
      OBVIOUS
    <3>2. load' = [load EXCEPT ![l] = r] /\ state' = state
      <4>1. PICK k, at, view :
              k = load[l].asked /\ at = load[l].at /\ view = Fetch(load[l].asked)
        OBVIOUS
      <4>2. load[l] = [asked |-> k, at |-> at] /\ r = [asked |-> k, at |-> [view |-> view]]
        BY <2>1, <3>1, <4>1
      <4>3. [load[l] EXCEPT !.at = [view |-> view]] = r
        BY <4>2
      <4>4. /\ load' = [load EXCEPT ![l] = [load[l] EXCEPT !.at = [view |-> Fetch(load[l].asked)]]]
            /\ state' = state
        BY <2>4 DEF NodeReads
      <4> QED BY <4>1, <4>3, <4>4
    <3>3. OneLoad(load') /\ \A j \in Loads : load'[j] = IF j = l THEN r ELSE Idle
      <4>1. r = [asked |-> r.asked, at |-> r.at]
        BY <3>1
      <4> QED BY <2>1, <2>2, <3>2, <4>1, LoadMoves
    <3>4. IsOnChain(r.asked, r.at.view)
      BY <1>4, <3>1, FetchedIsOnChain
    <3>5. IsOnChain(r.asked, r.at.view)'
      BY <1>2, <3>4 DEF IsOnChain
    <3>6. \A j \in Loads : load'[j].at # None => j = l /\ load'[j] = r
      BY <3>3 DEF Idle
    <3>7. LoadsAreSound'
      BY <2>3, <3>2, <3>3, <3>5, <3>6 DEF LoadsAreSound, Loading
    <3> QED BY <1>2, <2>3, <3>7 DEF ViewsInv
  <2>5. CASE Arrives(l) \/ Fails(l)
    <3>1. load' = [load EXCEPT ![l] = Idle]
      BY <2>5 DEF Arrives, Fails, LoadFails
    <3>2. Idle = [asked |-> Idle.asked, at |-> Idle.at]
      BY DEF Idle
    <3>3. OneLoad(load') /\ \A j \in Loads : load'[j] = IF j = l THEN Idle ELSE Idle
      BY <2>1, <2>2, <3>1, <3>2, LoadMoves
    <3>4. \A j \in Loads : load'[j] = Idle /\ load'[j].at = None
      BY <3>3 DEF Idle
    <3>5. PICK shown : shown = state'
      OBVIOUS
    <3>6. shown.status = "ready" => IsOnChain(shown.for, shown.view)'
      <4>1. CASE Arrives(l)
        <5>1. load[l].at # None /\ shown = Ready(load[l].asked, load[l].at.view)
          BY <3>5, <4>1 DEF Arrives
        <5>2. IsOnChain(load[l].asked, load[l].at.view)
          BY <1>4, <5>1 DEF ViewsInv, LoadsAreSound
        <5>3. shown.for = load[l].asked /\ shown.view = load[l].at.view
          BY <5>1 DEF Ready
        <5>4. IsOnChain(shown.for, shown.view)
          BY <5>2, <5>3
        <5> QED BY <1>2, <5>4 DEF IsOnChain
      <4>2. CASE Fails(l)
        BY <3>5, <4>2 DEF Fails, LoadFails, LoadError
      <4> QED BY <2>5, <4>1, <4>2
    <3>7. LoadsAreSound'
      BY <3>3, <3>4, <3>5, <3>6 DEF LoadsAreSound
    <3> QED BY <1>2, <2>3, <3>7 DEF ViewsInv
  <2> QED BY <2>4, <2>5
<1> QED BY <1>3, <1>4

\* Another load begins when the first has failed.
LEMMA CallsKeepViews ==
    ASSUME ViewsInv, Poll \/ RetryOnError \/ SwitchWallet
    PROVE  ViewsInv' /\ VerifiedStep
<1>1. UNCHANGED <<vars, hook>>
  BY DEF Poll, RetryOnError, SwitchWallet
<1>2. outcome' = outcome /\ hook' = hook
  BY <1>1 DEF vars, accounts
<1>3. CASE hook # "verify"
  BY <1>2, <1>3 DEF ViewsInv, LoadsAreSound, VerifiedStep
<1>4. CASE hook = "verify"
  <2>1. /\ state = LoadError /\ state' = Loading /\ Load(key, load)
    BY <1>4 DEF Poll, RetryOnError, SwitchWallet
  <2>2. OneLoad(load) /\ \A l \in Loads : load[l] = Idle
    BY <1>4, <2>1 DEF ViewsInv, LoadsAreSound, LoadError, Loading
  <2>3. OneLoad(load') /\ \A l \in Loads : load'[l].at = None
    BY <2>1, <2>2, LoadBegins
  <2>4. LoadsAreSound'
    BY <2>1, <2>3 DEF LoadsAreSound, Loading
  <2>5. VerifiedStep
    BY <2>1 DEF VerifiedStep, LoadError
  <2> QED BY <1>2, <2>4, <2>5 DEF ViewsInv
<1> QED BY <1>3, <1>4

LEMMA ViewsStay ==
    ASSUME ViewsInv, UNCHANGED viewsVars
    PROVE  ViewsInv' /\ VerifiedStep
<1>1. outcome' = outcome /\ hook' = hook /\ load' = load /\ state' = state
  BY DEF viewsVars, viewVars, vars, accounts
<1>2. ViewsInv'
  BY <1>1 DEF ViewsInv, LoadsAreSound, IsOnChain
<1> QED BY <1>1, <1>2, VerifiedStands

LEMMA ViewsSteps ==
    ASSUME ViewsInv, ViewsNext
    PROVE  ViewsInv' /\ VerifiedStep
BY ChainKeepsViews, LoadsKeepViews, CallsKeepViews DEF ViewsNext

-----------------------------------------------------------------------------
(* The board.                                                              *)

\* A bet is only taken on a market that takes bets.
LEMMA TakenBets ==
    ASSUME NEW t, NEW m, NEW side, NEW stake, PlaceBet(t, m, side, stake)
    PROVE  TakesBets(m)
BY DEF PlaceBet, TakesBets

\* Every clock of the chain is past the age at which a quote expires: what takes
\* bets has been quoted.
LEMMA BettableIsShown ==
    ASSUME ProgramInv
    PROVE  BettableIsOffered
<1> SUFFICES ASSUME NEW m \in MarketIds, TakesBets(m),
                    now - market[m].quote_posted_ts <=
                        QUOTE_VALIDITY_SECONDS - QUOTE_SAFETY_SECONDS
             PROVE  \E match \in fetchChainBoard :
                      /\ m \in DOMAIN match.markets
                      /\ match.markets[m].phase = "open"
                      /\ match.markets[m].odds = market[m].odds
  BY DEF BettableIsOffered
<1>1. TypeOK
  BY DEF ProgramInv, PaymentInv, VerdictInv, NumberingInv, BookInv
<1>2. market[m].state = "Open" /\ QuoteIsFresh(m)
  BY DEF TakesBets
<1>3. PICK posted \in Nat : posted = market[m].quote_posted_ts
  BY <1>1 DEF TypeOK, Market
<1>4. posted > 0
  <2>1. now \in Int /\ now > QUOTE_VALIDITY_SECONDS /\ QUOTE_VALIDITY_SECONDS \in Nat
    BY <1>1, ClockAssumption, BoundsAssumption DEF TypeOK
  <2>2. now - posted <= QUOTE_VALIDITY_SECONDS
    BY <1>2, <1>3 DEF QuoteIsFresh
  <2> QED BY <2>1, <2>2
<1>5. isQuoteFresh(market[m].quote_posted_ts)
  BY <1>3, <1>4 DEF isQuoteFresh
<1>6. m \in OnBoard /\ SomeOpen
  BY <1>2 DEF OnBoard, SomeOpen
<1>7. toMarketView(m).phase = "open" /\ toMarketView(m).odds = market[m].odds
  BY <1>2, <1>5 DEF toMarketView
<1>8. PICK match :
        match = [phase |-> IF kickoffMs <= now THEN "live" ELSE "upcoming",
                 markets |-> [n \in OnBoard |-> toMarketView(n)]]
  OBVIOUS
<1>9. match \in fetchChainBoard
  BY <1>6, <1>8 DEF fetchChainBoard
<1>10. match.markets = [n \in OnBoard |-> toMarketView(n)]
  BY <1>8
<1>11. m \in DOMAIN match.markets /\ match.markets[m] = toMarketView(m)
  BY <1>6, <1>10
<1> QED BY <1>7, <1>9, <1>11

\* What is offered takes bets, but for a market past its deadline that nobody has
\* locked yet, and for a house that is paused.
OfferedTakesBets ==
    \A match \in fetchChainBoard :
        \A m \in DOMAIN match.markets :
            /\ match.markets[m].phase = "open" /\ match.markets[m].odds # None
            /\ now < market[m].kickoff_ts /\ ~house.paused
            => TakesBets(m) /\ match.markets[m].odds = market[m].odds

LEMMA ShownIsBettable ==
    ASSUME ProgramInv
    PROVE  OfferedTakesBets
<1>1. TypeOK
  BY DEF ProgramInv, PaymentInv, VerdictInv, NumberingInv, BookInv
<1>2. ASSUME NEW match \in fetchChainBoard, NEW m \in DOMAIN match.markets,
             match.markets[m].phase = "open", match.markets[m].odds # None,
             now < market[m].kickoff_ts, ~house.paused
      PROVE  TakesBets(m) /\ match.markets[m].odds = market[m].odds
  <2>1. match.markets = [n \in OnBoard |-> toMarketView(n)]
    BY <1>2 DEF fetchChainBoard
  <2>2. m \in OnBoard /\ match.markets[m] = toMarketView(m)
    BY <1>2, <2>1
  <2>3. toMarketView(m).phase = "open" /\ toMarketView(m).odds # None
    BY <1>2, <2>2
  <2>4. m \in MarketIds /\ market[m].state = "Open"
    BY <2>2, <2>3 DEF OnBoard, toMarketView
  <2>5. isQuoteFresh(market[m].quote_posted_ts) /\ toMarketView(m).odds = market[m].odds
    BY <2>3 DEF toMarketView
  <2>6. QuoteIsFresh(m)
    <3>1. PICK posted \in Nat : posted = market[m].quote_posted_ts
      BY <1>1, <2>4 DEF TypeOK, Market
    <3>2. now \in Int /\ QUOTE_VALIDITY_SECONDS \in Nat /\ QUOTE_SAFETY_SECONDS \in Nat
      BY <1>1, ClockAssumption, BoundsAssumption, PartsAssumption DEF TypeOK
    <3>3. now - posted <= QUOTE_VALIDITY_SECONDS - QUOTE_SAFETY_SECONDS
      BY <2>5, <3>1 DEF isQuoteFresh
    <3>4. now - posted <= QUOTE_VALIDITY_SECONDS
      BY <3>2, <3>3
    <3> QED BY <3>1, <3>4 DEF QuoteIsFresh
  <2> QED BY <1>2, <2>2, <2>4, <2>5, <2>6 DEF TakesBets
<1> QED BY <1>2 DEF OfferedTakesBets

\* The book of each page at first.
LEMMA ViewsAtFirst ==
    ASSUME ViewsInit
    PROVE  ProgramInv
<1>1. hook \in Hooks /\ BookWith(MarketsAtFirst[hook], TicketsAtFirst[hook], Liquidity)
  BY DEF ViewsInit
<1>2. IsBook(MarketsAtFirst[hook], TicketsAtFirst[hook], Liquidity)
  BY <1>1, PartsAssumption
<1>3. PICK markets, tickets : markets = MarketsAtFirst[hook] /\ tickets = TicketsAtFirst[hook]
  OBVIOUS
<1> QED BY <1>1, <1>2, <1>3, ProgramAtFirst

\* The pages read; what happens to the book is done by instructions of others.
LEMMA ViewsRead ==
    ASSUME ViewsNext \/ UNCHANGED viewsVars
    PROVE  [Instruction]_vars
<1>1. CASE ChainMoves
  <2>1. ASSUME NEW m \in MarketIds, NEW q \in Quotes, NEW r \in RecordIds, PostQuote(m, q, r)
        PROVE  Instruction
    <3>1. q \in [Sides -> Nat]
      BY ConstantTypes
    <3> QED BY <2>1, <3>1 DEF Instruction
  <2>2. ASSUME NEW m \in MarketIds, LockMarket(m) PROVE Instruction
    BY <2>2 DEF Instruction
  <2>3. ASSUME NEW m \in MarketIds, NEW proof \in ScoreProofs, VerifyMarket(m, proof)
        PROVE  Instruction
    BY <2>3 DEF Instruction
  <2>4. ASSUME NEW m \in MarketIds, NEW byAuthority \in BOOLEAN, VoidMarket(m, byAuthority)
        PROVE  Instruction
    BY <2>4, Zenon DEF Instruction
  <2>5. ASSUME NEW t \in TicketIds, SettleTicket(t) PROVE Instruction
    BY <2>5 DEF Instruction
  <2>6. Tick => Instruction
    BY DEF Instruction
  <2> QED BY <1>1, <2>1, <2>2, <2>3, <2>4, <2>5, <2>6, Zenon DEF ChainMoves
<1>2. CASE Poll \/ RetryOnError \/ SwitchWallet
  BY <1>2 DEF Poll, RetryOnError, SwitchWallet
<1>3. CASE \E l \in Loads : NodeReads(l) \/ Arrives(l) \/ Fails(l)
  BY <1>3 DEF NodeReads, Arrives, Fails
<1>4. CASE UNCHANGED viewsVars
  BY <1>4 DEF viewsVars
<1> QED BY <1>1, <1>2, <1>3, <1>4 DEF ViewsNext

-----------------------------------------------------------------------------
(* The app.                                                                *)

AppInv == JudgeInv /\ ViewsInv

LEMMA AppNextInv ==
    ASSUME AppInv, [AppNext]_appVars
    PROVE  AppInv' /\ VerifiedStep /\ RowStep
<1>1. JudgeAssumption
  BY PartsAssumption
<1>2. ViewsNext \/ UNCHANGED viewsVars
  BY DEF AppNext, appVars
<1>3. JudgeNext \/ UNCHANGED judgeVars
  BY DEF AppNext, appVars
<1>4. ViewsInv' /\ VerifiedStep
  BY <1>2, ViewsSteps, ViewsStay DEF AppInv
<1>5. JudgeInv' /\ RowStep
  BY <1>1, <1>3, JudgeSteps, JudgeStays DEF AppInv
<1> QED BY <1>4, <1>5 DEF AppInv

LEMMA AppInitInv == AppInit => AppInv
<1> SUFFICES ASSUME AppInit PROVE AppInv
  OBVIOUS
<1>1. JudgeAssumption /\ ViewsInit /\ JudgeInit
  BY PartsAssumption DEF AppInit
<1> QED BY <1>1, JudgeInitInv, ViewsInitInv DEF AppInv

\* The book stays the program's while the pages read it.
LEMMA AppProgram == AppSpec => []ProgramInv /\ [][Instruction]_vars
<1>1. AppInit => ProgramInv
  BY ViewsAtFirst DEF AppInit
<1>2. [AppNext]_appVars => [Instruction]_vars
  <2> SUFFICES ASSUME [AppNext]_appVars
               PROVE  [Instruction]_vars
    OBVIOUS
  <2>1. ViewsNext \/ UNCHANGED viewsVars
    BY DEF AppNext, appVars
  <2> QED BY <2>1, ViewsRead
<1>3. ProgramInv /\ [Instruction]_vars => ProgramInv'
  BY ClientNext
<1> QED BY <1>1, <1>2, <1>3, PTL DEF AppSpec

\* A market the program would take bets on for as long as the slip's margin is on
\* the board, at the odds they would be sold at, whatever markets of its fixture
\* are locked by then (truebookClient.ts, fetchChainBoard).
THEOREM BettableIsAlwaysOffered == AppSpec => []BoardOffersTheBettable
<1>1. ProgramInv => BoardOffersTheBettable
  BY BettableIsShown DEF BoardOffersTheBettable
<1> QED BY <1>1, AppProgram, PTL

\* The other way round, what is offered is placeable, as truebookClient.ts:58 has
\* it, wherever a lock is not overdue and the house is not paused.
THEOREM OfferedIsBettable == AppSpec => []OfferedTakesBets
<1>1. ProgramInv => OfferedTakesBets
  BY ShownIsBettable
<1> QED BY <1>1, AppProgram, PTL

\* What the pages read is a sound book at all times: what the program keeps and
\* promises (TrueBookProofs), it keeps and promises under them.
THEOREM ViewsReadTheProgram ==
    AppSpec =>
        /\ []BookIsSound
        /\ VerdictsAreFinal /\ OutcomesAreFinal /\ [][Claims!ClaimNext]_(Claims!claimVars)
<1>1. ProgramInv /\ [Instruction]_vars =>
        /\ [KeepsVerdicts]_vars /\ [KeepsOutcomes]_vars
        /\ [Claims!ClaimNext]_(Claims!claimVars)
  BY ClientNext
<1>2. ProgramInv => BookIsSound
  BY ProgramIsSound
<1> QED
  BY <1>1, <1>2, AppProgram, PTL DEF VerdictsAreFinal, OutcomesAreFinal

\* Whatever requests fail, land late or outlive their panel, and whichever wallet
\* is connected by then: a panel is busy exactly while the one request of its own
\* runs, it shows of the connected wallet no more than that wallet has, and no row
\* says that more was granted than was, unless what the wallet held had not been
\* read (JudgePanel.tsx).
THEOREM PanelsTellTheTruth == AppSpec => []PanelTellsTheTruth
<1>1. AppInit => AppInv
  BY AppInitInv
<1>2. AppInv /\ [AppNext]_appVars => AppInv'
  BY AppNextInv
<1>3. AppInv => PanelTellsTheTruth
  BY PartsAssumption, SoundPanelsTellTheTruth DEF AppInv
<1> QED BY <1>1, <1>2, <1>3, PTL DEF AppSpec

\* An outcome that the verify page has shown as verified stays on it and is the
\* one on chain, whatever loads failed before and whoever cranks since
\* (useChainVerify.ts); and a row of what was funded stays its time, whatever rows
\* came before it, unless a request begins (JudgePanel.tsx, showFundedRow).
THEOREM ShownStays == AppSpec => WhatIsShownStays
<1>1. AppInit => AppInv
  BY AppInitInv
<1>2. AppInv /\ [AppNext]_appVars => AppInv'
  BY AppNextInv
<1>3. AppInv /\ [AppNext]_appVars => [VerifiedStep /\ RowStep]_appVars
  BY AppNextInv
<1> QED BY <1>1, <1>2, <1>3, PTL DEF AppSpec, WhatIsShownStays

=============================================================================

----------------------------- MODULE CostLedger -----------------------------
(***************************************************************************)
(* The backend's books in redis: CostLogger with the daily cap             *)
(* (backend/app/services/cost_logger.py), the session keys of              *)
(* create_session (backend/app/api/sessions.py) and the one-shot           *)
(* translate_text (backend/app/api/translate.py), as concurrent requests   *)
(* whose every redis call is one atomic step (a pipeline is a MULTI/EXEC). *)
(*                                                                         *)
(* A response's usage is an amount of money; the six token counters move   *)
(* in the same pipeline as the amount.  Time passes in ticks.              *)
(***************************************************************************)
EXTENDS Integers, Sequences, FiniteSetsExt

CONSTANTS
    Requests,       \* requests the server handles at the same time
    Amounts,        \* what a response may cost
    Cap,            \* daily_usd_cap; 0 disables the check
    DayLength,      \* ticks of a day
    SessionTtl,     \* SESSION_TTL_SECONDS
    CostTtl,        \* session_ttl_seconds + 600
    MaxTime,        \* bound: ticks
    MaxIds,         \* bound: session and request ids
    CreateIds,      \* bound: ids after which no session is created
    MaxBills,       \* bound: calls of record
    MaxDeaths       \* bound: requests cut off half done

ASSUME LedgerConstants ==
    /\ IsFiniteSet(Requests) /\ Cap \in Nat
    /\ IsFiniteSet(Amounts) /\ Amounts # {} /\ Amounts \subseteq Nat
    /\ DayLength \in Nat \ {0} /\ SessionTtl \in Nat \ {0} /\ CostTtl \in Nat \ {0}
    /\ MaxTime \in Nat /\ MaxIds \in Nat /\ CreateIds \in 0..MaxIds /\ MaxBills \in Nat /\ MaxDeaths \in Nat

Ids  == 1..MaxIds
DailyTtl == 2 * DayLength       \* _DAILY_TTL_SECONDS, 48 h
Day(t) == t \div DayLength
Days == 0..Day(MaxTime)
NoKey == -2                     \* TTL of a key that does not exist
NoTtl == -1                     \* TTL of a key that never expires

VARIABLES
    now,
    key,        \* session:{id}: when it expires
    cost,       \* session:{id}:cost: its usd and when it expires
    daily,      \* cost:daily:{day}: its usd, sessions and when it expires
    counted,    \* cost:daily:{day}:sessions; expires with its day
    request,    \* the requests being handled
    ids,        \* ids given out
    bills,      \* history: the records that were executed
    deaths      \* history: requests cut off half done

vars == <<now, key, cost, daily, counted, request, ids, bills, deaths>>
redis == <<key, cost, daily, counted>>

Idle == [pc |-> "Idle", kind |-> "none", id |-> 0, usd |-> 0, stamp |-> 0]
EmptyDay == [usd |-> 0, sessions |-> 0, expires |-> NoKey]

Init ==
    /\ now = 0
    /\ key = [s \in Ids |-> NoKey]
    /\ cost = [s \in Ids |-> [usd |-> 0, expires |-> NoKey]]
    /\ daily = [d \in Days |-> EmptyDay]
    /\ counted = [d \in Days |-> {}]
    /\ request = [r \in Requests |-> Idle]
    /\ ids = 0 /\ bills = <<>> /\ deaths = 0

Goes(r, pc) == request' = [request EXCEPT ![r].pc = pc]
Ends(r) == request' = [request EXCEPT ![r] = Idle]
Streams(r, s) ==
    request' = [request EXCEPT ![r] = [Idle EXCEPT !.pc = "Streaming", !.kind = "stream", !.id = s]]

----------------------------------------------------------------------------
\* Requests.

\* enforce_daily_cap takes the day, then awaits the read of its bucket.
BeginRequest(r, kind) ==
    /\ request[r] = Idle /\ ids < IF kind = "create" THEN CreateIds ELSE MaxIds
    /\ request' = [request EXCEPT ![r] =
          [Idle EXCEPT !.pc = IF Cap = 0 THEN "Admitted" ELSE "Checking",
                       !.kind = kind, !.stamp = now]]
    /\ UNCHANGED <<now, redis, ids, bills, deaths>>

\* Mutant: the cap itself may still be spent.
ReachesCapBeyond(usd) == usd > Cap

ReachesCap(usd) == usd >= Cap

\* stats.usd >= cap_usd: 429.
CheckCap(r) ==
    /\ request[r].pc = "Checking"
    /\ \/ /\ ReachesCap(daily[Day(request[r].stamp)].usd)
          /\ Ends(r)
       \/ /\ ~ReachesCap(daily[Day(request[r].stamp)].usd)
          /\ request' = [request EXCEPT ![r].pc = "Admitted", ![r].stamp = 0]
    /\ UNCHANGED <<now, redis, ids, bills, deaths>>

\* create_session: HSET session:{id}; EXPIRE is a call of its own.
StoreSession(r) ==
    /\ request[r].pc = "Admitted" /\ request[r].kind = "create" /\ ids < MaxIds
    /\ ids' = ids + 1
    /\ key' = [key EXCEPT ![ids + 1] = NoTtl]
    /\ request' = [request EXCEPT ![r].pc = "Expiring", ![r].id = ids + 1]
    /\ UNCHANGED <<now, cost, daily, counted, bills, deaths>>

\* Mutant: the key is created and never told to expire.
ExpireSessionForgotten(r) ==
    /\ request[r].pc = "Expiring"
    /\ Ends(r)
    /\ UNCHANGED <<now, redis, ids, bills, deaths>>

ExpireSession(r) ==
    /\ request[r].pc = "Expiring"
    /\ key' = [key EXCEPT ![request[r].id] = now + SessionTtl]
    /\ Ends(r)
    /\ UNCHANGED <<now, cost, daily, counted, ids, bills, deaths>>

\* record takes the day from the clock before it awaits redis.
Charges(r, id, usd) ==
    /\ Len(bills) < MaxBills
    /\ request' = [request EXCEPT ![r].pc = "Recording", ![r].id = id,
                                  ![r].usd = usd, ![r].stamp = now]

\* translate_text: OpenAI answered, and its usage is recorded under a fresh id.
TranslateAnswered(r, usd) ==
    /\ request[r].pc = "Admitted" /\ request[r].kind = "translate" /\ ids < MaxIds
    /\ ids' = ids + 1
    /\ Charges(r, ids + 1, usd)
    /\ UNCHANGED <<now, redis, bills, deaths>>

\* It answered without usage: the request succeeds and nothing is recorded; or
\* the call raised, which is a 502, whatever OpenAI charges for it.
TranslateUnpaid(r) ==
    /\ request[r].pc = "Admitted" /\ request[r].kind = "translate"
    /\ Ends(r)
    /\ UNCHANGED <<now, redis, ids, bills, deaths>>

\* session_stream: it starts only while session:{id} exists, checks no cap,
\* and records each response of its OpenAI session.
OpenStream(r, s) ==
    /\ request[r] = Idle /\ key[s] # NoKey
    /\ Streams(r, s)
    /\ UNCHANGED <<now, redis, ids, bills, deaths>>

StreamAnswered(r, usd) ==
    /\ request[r].pc = "Streaming"
    /\ Charges(r, request[r].id, usd)
    /\ UNCHANGED <<now, redis, ids, bills, deaths>>

CloseStream(r) ==
    /\ request[r].pc = "Streaming"
    /\ Ends(r)
    /\ UNCHANGED <<now, redis, ids, bills, deaths>>

----------------------------------------------------------------------------
\* record.

Returns(r) == IF request[r].kind = "stream" THEN Streams(r, request[r].id) ELSE Ends(r)

\* Mutant: the session's total is set, not increased.
ChargeSessionSet(s, usd) ==
    cost' = [cost EXCEPT ![s] = [usd |-> usd, expires |-> now + CostTtl]]

ChargeSession(s, usd) ==
    cost' = [cost EXCEPT ![s] = [usd |-> @.usd + usd, expires |-> now + CostTtl]]

\* Mutant: the bucket lives for one day.
ChargeDayOneDay(d, usd) ==
    daily' = [daily EXCEPT ![d].usd = @ + usd, ![d].expires = now + DayLength]

ChargeDay(d, usd) ==
    daily' = [daily EXCEPT ![d].usd = @ + usd, ![d].expires = now + DailyTtl]

AddMember(d, id) == counted' = [counted EXCEPT ![d] = @ \cup {id}]

\* Mutant: every record counts its session, whatever SADD returned.
FirstOfDayAlways(d, id) == TRUE

\* SADD returned 1.
FirstOfDay(d, id) == id \notin counted[d]

\* The first pipeline: session hash, daily hash and SADD together; what SADD
\* returned decides whether the session is counted.
WriteRecord(r) ==
    LET q == request[r]
        d == Day(q.stamp)
    IN
    /\ q.pc = "Recording"
    /\ ChargeSession(q.id, q.usd)
    /\ ChargeDay(d, q.usd)
    /\ AddMember(d, q.id)
    /\ bills' = Append(bills, [id |-> q.id, usd |-> q.usd, day |-> d, at |-> now,
                               kind |-> q.kind])
    /\ IF FirstOfDay(d, q.id) THEN Goes(r, "Counting") ELSE Returns(r)
    /\ UNCHANGED <<now, key, ids, deaths>>

\* The second pipeline counts the session in the day.
CountSession(r) ==
    /\ request[r].pc = "Counting"
    /\ daily' = [daily EXCEPT ![Day(request[r].stamp)].sessions = @ + 1]
    /\ Returns(r)
    /\ UNCHANGED <<now, key, cost, counted, ids, bills, deaths>>

----------------------------------------------------------------------------
\* Between the two redis calls of one operation.
HalfDone(r) == request[r].pc \in {"Expiring", "Counting"}

\* The server process dies, or a redis call raises, between two steps.
RequestDies(r) ==
    /\ request[r] # Idle
    /\ deaths' = IF HalfDone(r) THEN deaths + 1 ELSE deaths
    /\ deaths' <= MaxDeaths
    /\ Ends(r)
    /\ UNCHANGED <<now, redis, ids, bills>>

\* Redis drops what expires.  Bound: no request takes a day from reading the
\* clock to using it.
Tick ==
    LET gone(t) == t \in 0..(now + 1) IN
    /\ now < MaxTime
    /\ \A r \in Requests :
          request[r].pc \in {"Checking", "Recording", "Counting"} =>
              now - request[r].stamp < DayLength
    /\ now' = now + 1
    /\ key' = [s \in Ids |-> IF gone(key[s]) THEN NoKey ELSE key[s]]
    /\ cost' = [s \in Ids |-> IF gone(cost[s].expires)
                              THEN [usd |-> 0, expires |-> NoKey] ELSE cost[s]]
    /\ daily' = [d \in Days |-> IF gone(daily[d].expires) THEN EmptyDay ELSE daily[d]]
    /\ counted' = [d \in Days |-> IF gone(daily[d].expires) THEN {} ELSE counted[d]]
    /\ UNCHANGED <<request, ids, bills, deaths>>

Next ==
    \/ \E r \in Requests :
          \/ \E kind \in {"create", "translate"} : BeginRequest(r, kind)
          \/ CheckCap(r) \/ StoreSession(r) \/ ExpireSession(r)
          \/ \E usd \in Amounts : TranslateAnswered(r, usd) \/ StreamAnswered(r, usd)
          \/ \E s \in Ids : OpenStream(r, s)
          \/ TranslateUnpaid(r) \/ CloseStream(r)
          \/ WriteRecord(r) \/ CountSession(r) \/ RequestDies(r)
    \/ Tick

Spec == Init /\ [][Next]_vars

----------------------------------------------------------------------------
Deadlines == {NoKey, NoTtl} \cup Nat
Handlers ==
    [pc : {"Idle", "Checking", "Admitted", "Expiring", "Streaming", "Recording", "Counting"},
     kind : {"none", "create", "translate", "stream"}, id : 0..MaxIds,
     usd : Amounts \cup {0}, stamp : 0..MaxTime]

Bills == [id : 0..MaxIds, usd : Nat, day : Nat, at : Nat,
          kind : {"none", "create", "translate", "stream"}]

TypeOK ==
    /\ now \in 0..MaxTime /\ ids \in 0..MaxIds /\ deaths \in 0..MaxDeaths
    /\ key \in [Ids -> Deadlines]
    /\ cost \in [Ids -> [usd : Nat, expires : Deadlines]]
    /\ daily \in [Days -> [usd : Nat, sessions : Nat, expires : Deadlines]]
    /\ counted \in [Days -> SUBSET (0..MaxIds)]
    /\ request \in [Requests -> Handlers]
    /\ bills \in Seq(Bills)

\* The days /v1/stats and the cap may ask for: today and yesterday.
Reported == {d \in Days : d \in {Day(now), Day(now) - 1}}

BillsOf(P(_)) == {i \in DOMAIN bills : P(bills[i])}
Usd == [i \in DOMAIN bills |-> bills[i].usd]
Total(indices) == SumFunctionOnSet(Usd, indices)

\* The bucket of a reported day holds exactly what was recorded for that day,
\* by however many requests and across midnight, and does not expire before
\* /v1/stats has stopped asking for it.
DailyBalanced ==
    \A d \in Reported : daily[d].usd = Total(BillsOf(LAMBDA b : b.day = d))

LaterBills(i) == {j \in DOMAIN bills : j > i /\ bills[j].id = bills[i].id}

\* A session that was never silent for CostTtl has all its records in
\* session:{id}:cost.
SessionBalanced ==
    \A s \in Ids :
        LET mine == BillsOf(LAMBDA b : b.id = s)
            kept == \A i \in mine :
                       IF LaterBills(i) = {} THEN now < bills[i].at + CostTtl
                       ELSE bills[Min(LaterBills(i))].at < bills[i].at + CostTtl
        IN kept => cost[s].usd = Total(mine)

SessionsOf(d) == {bills[i].id : i \in BillsOf(LAMBDA b : b.day = d)}
BetweenPipelines(d) ==
    {r \in Requests : request[r].pc = "Counting" /\ Day(request[r].stamp) = d}

\* "the distinct-session sessions counter" (cost_logger.py:13): the counter of
\* a reported day and the records still between their two pipelines make up
\* the distinct sessions of the day.  None is ever counted twice, and one is
\* missed for each request cut off midway at most.
SessionsCounted ==
    \A d \in Reported :
        LET seen == daily[d].sessions + Cardinality(BetweenPipelines(d))
            due  == Cardinality(SessionsOf(d))
        IN seen <= due /\ due - deaths <= seen

\* The session keys that never expire, but for those whose create_session is
\* between HSET and EXPIRE.
Orphans ==
    {s \in Ids : /\ key[s] = NoTtl
                 /\ \A r \in Requests : request[r].pc = "Expiring" => request[r].id # s}

\* "stores metadata in Redis with 1 h TTL" (openapi.yaml:21): no session key
\* stays for ever, but for one for each request that was cut off midway.
SessionKeysExpire == Cardinality(Orphans) <= deaths

\* The cap is checked before OpenAI is called and the cost is known after it:
\* one-shot translations can exceed the cap by no more than one response for
\* each request the server handles at a time.
OvershootBounded ==
    Cap > 0 => \A d \in Days :
        Total(BillsOf(LAMBDA b : b.day = d /\ b.kind = "translate"))
            <= Cap - 1 + Max(Amounts) * Cardinality(Requests)
=============================================================================

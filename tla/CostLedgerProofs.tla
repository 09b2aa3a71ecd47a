-------------------------- MODULE CostLedgerProofs --------------------------
(***************************************************************************)
(* The types of the ledger, that session keys expire, that sessions are    *)
(* counted once, that the buckets of the reported days and the totals of   *)
(* the sessions hold exactly what was recorded, and that the daily cap is  *)
(* overshot by one response for each request at a time at most, whatever   *)
(* the number of requests, the cap, the prices and the lifetimes.          *)
(***************************************************************************)
EXTENDS CostLedger, FiniteSetTheorems, WellFoundedInduction, TLAPS

Pcs == {"Idle", "Checking", "Admitted", "Expiring", "Streaming", "Recording", "Counting"}

----------------------------------------------------------------------------
\* Types.

LEMMA HandlerGoes ==
    ASSUME NEW q \in Handlers, NEW pc \in Pcs
    PROVE  [q EXCEPT !.pc = pc] \in Handlers
BY DEF Handlers, Pcs

LEMMA IdleIsHandler == Idle \in Handlers
BY LedgerConstants DEF Idle, Handlers

\* A request that goes on, ends, or returns from record.
LEMMA GoesTyped ==
    ASSUME TypeOK, NEW r \in Requests, NEW pc \in Pcs, Goes(r, pc)
    PROVE  request' \in [Requests -> Handlers]
BY HandlerGoes DEF Goes, TypeOK

LEMMA EndsTyped ==
    ASSUME TypeOK, NEW r \in Requests, Ends(r)
    PROVE  request' \in [Requests -> Handlers]
BY IdleIsHandler DEF Ends, TypeOK

LEMMA StreamsTyped ==
    ASSUME TypeOK, NEW r \in Requests, NEW s \in 0..MaxIds, Streams(r, s)
    PROVE  request' \in [Requests -> Handlers]
<1>1. [Idle EXCEPT !.pc = "Streaming", !.kind = "stream", !.id = s] \in Handlers
  BY IdleIsHandler DEF Handlers
<1> QED BY <1>1 DEF Streams, TypeOK

LEMMA ReturnsTyped ==
    ASSUME TypeOK, NEW r \in Requests, Returns(r)
    PROVE  request' \in [Requests -> Handlers]
<1>1. request[r].id \in 0..MaxIds
  BY DEF TypeOK, Handlers
<1> QED BY <1>1, StreamsTyped, EndsTyped DEF Returns

\* A request that calls record.
LEMMA ChargesTyped ==
    ASSUME TypeOK, NEW r \in Requests, NEW id \in 0..MaxIds, NEW usd \in Amounts,
           Charges(r, id, usd)
    PROVE  request' \in [Requests -> Handlers]
<1>1. [request[r] EXCEPT !.pc = "Recording", !.id = id, !.usd = usd, !.stamp = now]
          \in Handlers
  BY DEF TypeOK, Handlers
<1> QED BY <1>1 DEF Charges, TypeOK

LEMMA InitTyped == Init => TypeOK
<1> SUFFICES ASSUME Init PROVE TypeOK
  OBVIOUS
<1>1. request \in [Requests -> Handlers]
  BY IdleIsHandler DEF Init
<1> QED BY <1>1, LedgerConstants DEF Init, TypeOK, EmptyDay, Deadlines, NoKey

LEMMA BeginRequestTyped ==
    ASSUME TypeOK, NEW r \in Requests, NEW kind \in {"create", "translate"},
           BeginRequest(r, kind)
    PROVE  TypeOK'
<1>1. [Idle EXCEPT !.pc = IF Cap = 0 THEN "Admitted" ELSE "Checking",
                   !.kind = kind, !.stamp = now] \in Handlers
  <2>1. Idle \in Handlers /\ now \in 0..MaxTime
    BY IdleIsHandler DEF TypeOK
  <2> QED BY <2>1 DEF Handlers
<1>2. request' \in [Requests -> Handlers]
  BY <1>1 DEF BeginRequest, TypeOK
<1> QED BY <1>2 DEF BeginRequest, TypeOK, redis

LEMMA CheckCapTyped ==
    ASSUME TypeOK, NEW r \in Requests, CheckCap(r)
    PROVE  TypeOK'
<1>1. [request[r] EXCEPT !.pc = "Admitted", !.stamp = 0] \in Handlers
  <2>1. request[r] \in Handlers /\ 0 \in 0..MaxTime
    BY LedgerConstants DEF TypeOK
  <2> QED BY <2>1 DEF Handlers
<1>2. request' \in [Requests -> Handlers]
  BY <1>1, EndsTyped DEF CheckCap, TypeOK
<1> QED BY <1>2 DEF CheckCap, TypeOK, redis

LEMMA StoreSessionTyped ==
    ASSUME TypeOK, NEW r \in Requests, StoreSession(r)
    PROVE  TypeOK'
<1>1. ids + 1 \in 0..MaxIds
  BY LedgerConstants DEF StoreSession, TypeOK
<1>2. [request[r] EXCEPT !.pc = "Expiring", !.id = ids + 1] \in Handlers
  BY <1>1 DEF TypeOK, Handlers
<1>3. request' \in [Requests -> Handlers]
  BY <1>2 DEF StoreSession, TypeOK
<1>4. key' \in [Ids -> Deadlines]
  BY DEF StoreSession, TypeOK, Deadlines
<1> QED BY <1>1, <1>3, <1>4 DEF StoreSession, TypeOK

LEMMA ExpireSessionTyped ==
    ASSUME TypeOK, NEW r \in Requests, ExpireSession(r)
    PROVE  TypeOK'
<1>1. request' \in [Requests -> Handlers]
  BY EndsTyped DEF ExpireSession
<1>2. now + SessionTtl \in Deadlines
  BY LedgerConstants DEF TypeOK, Deadlines
<1>3. key' \in [Ids -> Deadlines]
  BY <1>2 DEF ExpireSession, TypeOK
<1> QED BY <1>1, <1>3 DEF ExpireSession, TypeOK

LEMMA AnsweredTyped ==
    ASSUME TypeOK, NEW r \in Requests, NEW usd \in Amounts,
           TranslateAnswered(r, usd) \/ StreamAnswered(r, usd)
    PROVE  TypeOK'
<1>1. CASE TranslateAnswered(r, usd)
  <2>1. ids + 1 \in 0..MaxIds
    BY <1>1, LedgerConstants DEF TranslateAnswered, TypeOK
  <2>2. request' \in [Requests -> Handlers]
    BY <1>1, <2>1, ChargesTyped DEF TranslateAnswered
  <2> QED BY <1>1, <2>1, <2>2 DEF TranslateAnswered, TypeOK, redis
<1>2. CASE StreamAnswered(r, usd)
  <2>1. request[r].id \in 0..MaxIds
    BY DEF TypeOK, Handlers
  <2>2. request' \in [Requests -> Handlers]
    BY <1>2, <2>1, ChargesTyped DEF StreamAnswered
  <2> QED BY <1>2, <2>2 DEF StreamAnswered, TypeOK, redis
<1> QED BY <1>1, <1>2

LEMMA OpenStreamTyped ==
    ASSUME TypeOK, NEW r \in Requests, NEW s \in Ids, OpenStream(r, s)
    PROVE  TypeOK'
<1>1. s \in 0..MaxIds
  BY LedgerConstants DEF Ids
<1>2. request' \in [Requests -> Handlers]
  BY <1>1, StreamsTyped DEF OpenStream
<1> QED BY <1>2 DEF OpenStream, TypeOK, redis

LEMMA LeavesTyped ==
    ASSUME TypeOK, NEW r \in Requests,
           TranslateUnpaid(r) \/ CloseStream(r) \/ RequestDies(r)
    PROVE  TypeOK'
<1>1. request' \in [Requests -> Handlers]
  BY EndsTyped DEF TranslateUnpaid, CloseStream, RequestDies
<1>2. deaths' \in 0..MaxDeaths
  BY LedgerConstants DEF TranslateUnpaid, CloseStream, RequestDies, HalfDone, TypeOK
<1> QED BY <1>1, <1>2 DEF TranslateUnpaid, CloseStream, RequestDies, TypeOK, redis

\* Days.
LEMMA DayTyped ==
    ASSUME NEW t \in Nat
    PROVE  Day(t) \in Nat
BY LedgerConstants DEF Day

LEMMA DayMonotone ==
    ASSUME NEW t \in Nat, NEW u \in Nat, t <= u
    PROVE  Day(t) <= Day(u)
BY LedgerConstants DEF Day

LEMMA TwoDaysLater ==
    ASSUME NEW t \in Nat
    PROVE  Day(t + DailyTtl) = Day(t) + 2
BY LedgerConstants DEF Day, DailyTtl

LEMMA WriteRecordTyped ==
    ASSUME TypeOK, NEW r \in Requests, WriteRecord(r)
    PROVE  TypeOK'
<1> DEFINE q == request[r]
           d == Day(q.stamp)
<1>1. q.usd \in Nat /\ q.id \in 0..MaxIds
  <2>1. request[r] \in Handlers
    BY DEF TypeOK
  <2>2. request[r].usd \in Amounts \cup {0} /\ request[r].id \in 0..MaxIds
    BY <2>1 DEF Handlers
  <2>3. Amounts \cup {0} \subseteq Nat
    BY LedgerConstants
  <2> QED BY <2>2, <2>3 DEF q
<1>2. now + CostTtl \in Deadlines /\ now + DailyTtl \in Deadlines
  <2>1. now \in Nat /\ CostTtl \in Nat /\ DayLength \in Nat
    BY LedgerConstants DEF TypeOK
  <2>2. now + CostTtl \in Nat /\ now + 2 * DayLength \in Nat
    BY <2>1
  <2> QED BY <2>2 DEF Deadlines, DailyTtl
<1>3. request' \in [Requests -> Handlers]
  BY GoesTyped, ReturnsTyped DEF WriteRecord, Pcs
<1>4. cost' \in [Ids -> [usd : Nat, expires : Deadlines]]
  <2>1. ASSUME NEW c \in [usd : Nat, expires : Deadlines]
        PROVE  [usd |-> c.usd + q.usd, expires |-> now + CostTtl]
                   \in [usd : Nat, expires : Deadlines]
    BY <1>1, <1>2
  <2> QED BY <2>1 DEF WriteRecord, ChargeSession, TypeOK
<1>5. daily' \in [Days -> [usd : Nat, sessions : Nat, expires : Deadlines]]
  <2>1. ASSUME NEW b \in [usd : Nat, sessions : Nat, expires : Deadlines]
        PROVE  [b EXCEPT !.usd = b.usd + q.usd, !.expires = now + DailyTtl]
                   \in [usd : Nat, sessions : Nat, expires : Deadlines]
    <3>1. [b EXCEPT !.usd = b.usd + q.usd] \in [usd : Nat, sessions : Nat, expires : Deadlines]
      BY <1>1
    <3> QED BY <1>2, <3>1
  <2> QED BY <2>1 DEF WriteRecord, ChargeDay, TypeOK
<1>6. counted' \in [Days -> SUBSET (0..MaxIds)]
  BY <1>1 DEF WriteRecord, AddMember, TypeOK
<1>7. bills' \in Seq(Bills)
  <2>1. q \in Handlers
    BY DEF TypeOK
  <2>2. q.kind \in {"none", "create", "translate", "stream"} /\ q.stamp \in Nat /\ now \in Nat
    BY <2>1, LedgerConstants DEF Handlers, TypeOK
  <2>3. d \in Nat
    BY <2>2, DayTyped
  <2>4. [id |-> q.id, usd |-> q.usd, day |-> d, at |-> now, kind |-> q.kind]
            \in Bills
    BY <1>1, <2>2, <2>3 DEF Bills
  <2>5. bills' = Append(bills, [id |-> q.id, usd |-> q.usd, day |-> d, at |-> now,
                                kind |-> q.kind])
    BY DEF WriteRecord
  <2> HIDE DEF q, d
  <2> QED BY <2>4, <2>5 DEF TypeOK
<1> QED BY <1>3, <1>4, <1>5, <1>6, <1>7 DEF WriteRecord, TypeOK

LEMMA CountSessionTyped ==
    ASSUME TypeOK, NEW r \in Requests, CountSession(r)
    PROVE  TypeOK'
<1>1. ASSUME NEW b \in [usd : Nat, sessions : Nat, expires : Deadlines]
      PROVE  [b EXCEPT !.sessions = b.sessions + 1]
                 \in [usd : Nat, sessions : Nat, expires : Deadlines]
  OBVIOUS
<1>2. daily' \in [Days -> [usd : Nat, sessions : Nat, expires : Deadlines]]
  BY <1>1 DEF CountSession, TypeOK
<1>3. request' \in [Requests -> Handlers]
  BY ReturnsTyped DEF CountSession
<1> QED BY <1>2, <1>3 DEF CountSession, TypeOK

LEMMA TickTyped ==
    ASSUME TypeOK, Tick
    PROVE  TypeOK'
<1>1. now' \in 0..MaxTime
  BY LedgerConstants DEF Tick, TypeOK
<1>2. key' \in [Ids -> Deadlines]
  BY DEF Tick, TypeOK, Deadlines
<1>3. cost' \in [Ids -> [usd : Nat, expires : Deadlines]]
  BY DEF Tick, TypeOK, Deadlines
<1>4. daily' \in [Days -> [usd : Nat, sessions : Nat, expires : Deadlines]]
  BY DEF Tick, TypeOK, EmptyDay, Deadlines
<1>5. counted' \in [Days -> SUBSET (0..MaxIds)]
  BY DEF Tick, TypeOK
<1> QED BY <1>1, <1>2, <1>3, <1>4, <1>5 DEF Tick, TypeOK

----------------------------------------------------------------------------
\* Orphaned session keys.

\* There are finitely many keys.
LEMMA OrphansFinite == IsFiniteSet(Orphans) /\ Cardinality(Orphans) \in Nat
<1>1. IsFiniteSet(Ids)
  BY LedgerConstants, FS_Interval DEF Ids
<1> QED BY <1>1, FS_Subset, FS_CardinalityType DEF Orphans

\* A step keeps the bound when no key is orphaned by it: no key loses its
\* deadline, and every request between HSET and EXPIRE stays there.
LEMMA NoNewOrphan ==
    ASSUME SessionKeysExpire, deaths \in Nat, deaths' \in Nat, deaths <= deaths', Orphans' \subseteq Orphans
    PROVE  SessionKeysExpire'
<1>1. Cardinality(Orphans') <= Cardinality(Orphans) /\ Cardinality(Orphans') \in Nat
  BY OrphansFinite, FS_Subset, FS_CardinalityType
<1> QED BY <1>1, OrphansFinite DEF SessionKeysExpire

LEMMA CreatesKept ==
    ASSUME \A s \in Ids : key'[s] = NoTtl => key[s] = NoTtl,
           \A r \in Requests : request[r].pc = "Expiring" => request'[r] = request[r]
    PROVE  Orphans' \subseteq Orphans
BY DEF Orphans

\* A handler whose request is not between HSET and EXPIRE may do what it likes
\* with its own state.
LEMMA OneMoves ==
    ASSUME TypeOK, NEW r \in Requests, request[r].pc # "Expiring", key' = key,
           NEW q, request' = [request EXCEPT ![r] = q]
    PROVE  Orphans' \subseteq Orphans
<1>1. \A t \in Requests : request[t].pc = "Expiring" => request'[t] = request[t]
  BY DEF TypeOK
<1> QED BY <1>1, CreatesKept

\* The ways a handler that holds no key goes on.
Moves(r) ==
    \/ Ends(r) \/ Returns(r) \/ Goes(r, "Counting")
    \/ \E s \in Ids : Streams(r, s)
    \/ \E id, usd : Charges(r, id, usd)
    \/ CheckCap(r)
    \/ \E kind \in {"create", "translate"} : BeginRequest(r, kind)

LEMMA MovesOne ==
    ASSUME NEW r \in Requests, Moves(r)
    PROVE  \E q : request' = [request EXCEPT ![r] = q]
BY DEF Moves, Ends, Returns, Goes, Streams, Charges, CheckCap, BeginRequest

LEMMA MovesKeepOrphans ==
    ASSUME TypeOK, NEW r \in Requests, request[r].pc # "Expiring", key' = key, Moves(r)
    PROVE  Orphans' \subseteq Orphans
<1>1. PICK q : request' = [request EXCEPT ![r] = q]
  BY MovesOne
<1> QED BY <1>1, OneMoves

\* HSET: the new key belongs to the request that is about to expire it.
LEMMA StoreSessionOrphans ==
    ASSUME TypeOK, NEW r \in Requests, StoreSession(r)
    PROVE  Orphans' \subseteq Orphans
<1> SUFFICES ASSUME NEW s \in Orphans' PROVE s \in Orphans
  OBVIOUS
<1>1. request'[r].pc = "Expiring" /\ request'[r].id = ids + 1 /\ request[r].pc = "Admitted"
  <2>1. request[r] \in Handlers
    BY DEF TypeOK
  <2> QED BY <2>1 DEF StoreSession, TypeOK, Handlers
<1>2. s \in Ids /\ s # ids + 1
  BY <1>1 DEF Orphans
<1>3. key[s] = NoTtl
  BY <1>2 DEF StoreSession, Orphans, TypeOK
<1>4. \A t \in Requests : request[t].pc = "Expiring" => request'[t] = request[t]
  BY <1>1 DEF StoreSession, TypeOK
<1> QED BY <1>2, <1>3, <1>4 DEF Orphans

\* EXPIRE: the key of the request gets its deadline.
LEMMA ExpireSessionOrphans ==
    ASSUME TypeOK, NEW r \in Requests, ExpireSession(r)
    PROVE  Orphans' \subseteq Orphans
<1> SUFFICES ASSUME NEW s \in Orphans' PROVE s \in Orphans
  OBVIOUS
<1>1. now + SessionTtl # NoTtl
  <2>1. now \in Nat /\ SessionTtl \in Nat
    BY LedgerConstants DEF TypeOK
  <2> QED BY <2>1 DEF NoTtl
<1>2. s \in Ids /\ s # request[r].id /\ key[s] = NoTtl
  BY <1>1 DEF ExpireSession, Orphans, TypeOK
<1>3. \A t \in Requests \ {r} : request'[t] = request[t]
  BY DEF ExpireSession, Ends, TypeOK
<1> QED BY <1>2, <1>3 DEF Orphans

\* A request that is cut off leaves the key it was about to expire at most.
LEMMA RequestDiesOrphans ==
    ASSUME TypeOK, SessionKeysExpire, NEW r \in Requests, RequestDies(r),
           request[r].pc = "Expiring"
    PROVE  SessionKeysExpire'
<1> DEFINE Left == Orphans \cup {request[r].id}
<1>1. Orphans' \subseteq Left
  <2> SUFFICES ASSUME NEW s \in Orphans', s # request[r].id PROVE s \in Orphans
    OBVIOUS
  <2>1. \A t \in Requests \ {r} : request'[t] = request[t]
    BY DEF RequestDies, Ends, TypeOK
  <2> QED BY <2>1 DEF Orphans, RequestDies, redis
<1>2. IsFiniteSet(Left) /\ Cardinality(Left) <= Cardinality(Orphans) + 1
  <2>1. IsFiniteSet(Orphans)
    BY OrphansFinite
  <2>2. IsFiniteSet(Left)
    BY <2>1, FS_AddElement
  <2>3. \/ Cardinality(Left) = Cardinality(Orphans)
        \/ Cardinality(Left) = Cardinality(Orphans) + 1
    BY <2>1, FS_AddElement
  <2> QED BY <2>2, <2>3, OrphansFinite
<1>3. Cardinality(Orphans') \in Nat /\ Cardinality(Orphans') <= Cardinality(Left)
      /\ Cardinality(Left) \in Nat
  BY <1>1, <1>2, FS_Subset, FS_CardinalityType
<1>4. deaths' = deaths + 1 /\ deaths \in Nat
  BY LedgerConstants DEF RequestDies, HalfDone, TypeOK
<1> QED BY <1>2, <1>3, <1>4, OrphansFinite DEF SessionKeysExpire

\* Redis never takes the deadline of a key away.
LEMMA TickOrphans ==
    ASSUME TypeOK, Tick
    PROVE  Orphans' \subseteq Orphans
<1>1. \A s \in Ids : key'[s] = NoTtl => key[s] = NoTtl
  BY DEF Tick, NoKey, NoTtl
<1> QED BY <1>1, CreatesKept DEF Tick

----------------------------------------------------------------------------
LEMMA StepTyped == TypeOK /\ [Next]_vars => TypeOK'
<1> SUFFICES ASSUME TypeOK, [Next]_vars PROVE TypeOK'
  OBVIOUS
<1>1. CASE UNCHANGED vars
  BY <1>1 DEF vars, TypeOK
<1>2. CASE Tick
  BY <1>2, TickTyped
<1>3. ASSUME NEW r \in Requests,
             \/ \E kind \in {"create", "translate"} : BeginRequest(r, kind)
             \/ \E usd \in Amounts : TranslateAnswered(r, usd) \/ StreamAnswered(r, usd)
             \/ \E s \in Ids : OpenStream(r, s)
      PROVE  TypeOK'
  BY <1>3, BeginRequestTyped, AnsweredTyped, OpenStreamTyped
<1>4. ASSUME NEW r \in Requests,
             \/ CheckCap(r) \/ StoreSession(r) \/ ExpireSession(r)
             \/ TranslateUnpaid(r) \/ CloseStream(r) \/ WriteRecord(r)
             \/ CountSession(r) \/ RequestDies(r)
      PROVE  TypeOK'
  BY <1>4, CheckCapTyped, StoreSessionTyped, ExpireSessionTyped, LeavesTyped,
     WriteRecordTyped, CountSessionTyped
<1> QED BY <1>1, <1>2, <1>3, <1>4 DEF Next

\* Every counter of the ledger stays in its type: no total goes negative, no
\* key has a deadline that is not one, for any number of requests and prices.
THEOREM LedgerTypeOK == Spec => []TypeOK
<1> QED BY InitTyped, StepTyped, PTL DEF Spec

LEMMA StepKeysExpire == TypeOK /\ SessionKeysExpire /\ [Next]_vars => SessionKeysExpire'
<1> SUFFICES ASSUME TypeOK, SessionKeysExpire, [Next]_vars PROVE SessionKeysExpire'
  OBVIOUS
<1>0. deaths \in Nat
  BY LedgerConstants DEF TypeOK
<1>1. CASE UNCHANGED vars
  BY <1>1 DEF vars, SessionKeysExpire, Orphans
<1>2. CASE Tick
  BY <1>0, <1>2, TickOrphans, NoNewOrphan DEF Tick
<1>3. ASSUME NEW r \in Requests, StoreSession(r) PROVE SessionKeysExpire'
  <2>1. Orphans' \subseteq Orphans /\ deaths' = deaths
    BY <1>3, StoreSessionOrphans DEF StoreSession
  <2> QED BY <1>0, <2>1, NoNewOrphan
<1>4. ASSUME NEW r \in Requests, ExpireSession(r) PROVE SessionKeysExpire'
  <2>1. Orphans' \subseteq Orphans /\ deaths' = deaths
    BY <1>4, ExpireSessionOrphans DEF ExpireSession
  <2> QED BY <1>0, <2>1, NoNewOrphan
<1>5. ASSUME NEW r \in Requests, RequestDies(r) PROVE SessionKeysExpire'
  <2>1. CASE request[r].pc = "Expiring"
    BY <1>5, <2>1, RequestDiesOrphans
  <2>2. CASE request[r].pc # "Expiring"
    <3>1. key' = key /\ Moves(r) /\ deaths' \in Nat /\ deaths <= deaths'
      BY <1>0, <1>5 DEF RequestDies, Moves, redis
    <3> QED BY <1>0, <2>2, <3>1, MovesKeepOrphans, NoNewOrphan
  <2> QED BY <2>1, <2>2
<1>6. ASSUME NEW r \in Requests,
             \/ \E kind \in {"create", "translate"} : BeginRequest(r, kind)
             \/ CheckCap(r)
             \/ \E usd \in Amounts : TranslateAnswered(r, usd) \/ StreamAnswered(r, usd)
             \/ \E s \in Ids : OpenStream(r, s)
             \/ TranslateUnpaid(r) \/ CloseStream(r)
             \/ WriteRecord(r) \/ CountSession(r)
      PROVE  SessionKeysExpire'
  <2>1. request[r].pc # "Expiring" /\ key' = key /\ deaths' = deaths
    BY <1>6 DEF BeginRequest, CheckCap, TranslateAnswered, StreamAnswered, OpenStream,
                TranslateUnpaid, CloseStream, WriteRecord, CountSession, Idle, redis
  <2>2. Moves(r)
    BY <1>6 DEF Moves, TranslateAnswered, StreamAnswered, OpenStream,
                TranslateUnpaid, CloseStream, WriteRecord, CountSession
  <2> QED BY <1>0, <2>1, <2>2, MovesKeepOrphans, NoNewOrphan
<1> QED BY <1>1, <1>2, <1>3, <1>4, <1>5, <1>6 DEF Next

LEMMA InitKeysExpire == Init => SessionKeysExpire
<1> SUFFICES ASSUME Init PROVE SessionKeysExpire
  OBVIOUS
<1>1. Orphans = {}
  BY DEF Init, Orphans, NoKey, NoTtl
<1> QED BY <1>1, FS_EmptySet DEF SessionKeysExpire, Init

\* create_session stores and expires its key in two calls.  Whatever the
\* interleaving, the keys that will stay for ever are no more than the
\* requests that were cut off midway; with none, every key expires.
THEOREM LedgerKeysExpire == Spec => []SessionKeysExpire
<1> QED BY LedgerTypeOK, InitKeysExpire, StepKeysExpire, PTL DEF Spec

----------------------------------------------------------------------------
\* SessionsCounted: the counter of a reported day and the records between
\* their two pipelines make up the distinct sessions of the day.
\*
\* What is inductive speaks of the set of the day instead, for today,
\* yesterday and the days to come, and needs to know that a bucket does not
\* expire before its day has left the reports.

Current(d) == d >= Day(now) - 1

\* The set of the day is that of its records, and the counter is behind it by
\* the records between their pipelines and those that were cut off there.
Counted(d) ==
    LET seen == daily[d].sessions + Cardinality(BetweenPipelines(d)) IN
    /\ counted[d] = SessionsOf(d)
    /\ seen <= Cardinality(counted[d])
    /\ Cardinality(counted[d]) - deaths <= seen

\* A bucket outlives the day after its own.
OutlivesReports(d) == daily[d].expires \in Nat => Day(daily[d].expires) >= d + 2

CountInv ==
    /\ TypeOK
    /\ \A r \in Requests : request[r].stamp <= now
    /\ \A d \in Days : OutlivesReports(d)
    /\ \A d \in Days : Current(d) => Counted(d)

----------------------------------------------------------------------------
LEMMA BetweenFinite ==
    ASSUME NEW d
    PROVE  IsFiniteSet(BetweenPipelines(d)) /\ Cardinality(BetweenPipelines(d)) \in Nat
<1>1. BetweenPipelines(d) \subseteq Requests
  BY DEF BetweenPipelines
<1> QED BY <1>1, LedgerConstants, FS_Subset, FS_CardinalityType

LEMMA CountedFinite ==
    ASSUME TypeOK, NEW d \in Days
    PROVE  IsFiniteSet(counted[d]) /\ Cardinality(counted[d]) \in Nat
<1>1. IsFiniteSet(0..MaxIds)
  BY LedgerConstants, FS_Interval
<1>2. counted[d] \subseteq 0..MaxIds
  BY DEF TypeOK
<1> QED BY <1>1, <1>2, FS_Subset, FS_CardinalityType

LEMMA SessionsOfDay ==
    ASSUME NEW d
    PROVE  SessionsOf(d) = {bills[i].id : i \in {j \in DOMAIN bills : bills[j].day = d}}
BY DEF SessionsOf, BillsOf

LEMMA AppendAdds ==
    ASSUME NEW S, NEW s \in Seq(S), NEW e \in S, NEW t, t = Append(s, e)
    PROVE  /\ DOMAIN t = DOMAIN s \cup {Len(s) + 1} /\ Len(s) + 1 \notin DOMAIN s
           /\ t[Len(s) + 1] = e /\ \A i \in DOMAIN s : t[i] = s[i]
OBVIOUS

\* One more record.
LEMMA SessionsOfAppend ==
    ASSUME TypeOK, NEW b \in Bills,
           bills' = Append(bills, b), NEW d
    PROVE  SessionsOf(d)' = IF b.day = d THEN SessionsOf(d) \cup {b.id} ELSE SessionsOf(d)
<1>1. SessionsOf(d)' = {bills'[i].id : i \in {j \in DOMAIN bills' : bills'[j].day = d}}
  BY DEF SessionsOf, BillsOf
<1>2. bills \in Seq(Bills)
  BY DEF TypeOK
<1>3. /\ DOMAIN bills' = DOMAIN bills \cup {Len(bills) + 1}
      /\ Len(bills) + 1 \notin DOMAIN bills
      /\ bills'[Len(bills) + 1] = b
      /\ \A i \in DOMAIN bills : bills'[i] = bills[i]
  BY <1>2, AppendAdds
<1> QED BY <1>1, <1>3, SessionsOfDay

\* The stamp of a handler is that of a moment of the run.
LEMMA StampTyped ==
    ASSUME TypeOK, NEW r \in Requests
    PROVE  request[r] \in Handlers /\ request[r].stamp \in Nat /\ now \in Nat
<1>1. request[r] \in Handlers
  BY DEF TypeOK
<1> QED BY <1>1, LedgerConstants DEF TypeOK, Handlers

----------------------------------------------------------------------------
\* Steps that touch neither the books of the days nor a request between its
\* pipelines.
Quiet(r, q) ==
    /\ UNCHANGED <<now, daily, counted, bills>>
    /\ request' = [request EXCEPT ![r] = q]
    /\ request[r].pc # "Counting" /\ q.pc # "Counting" /\ q.stamp <= now
    /\ deaths' \in Nat /\ deaths <= deaths'

LEMMA QuietCounts ==
    ASSUME CountInv, TypeOK', NEW r \in Requests, NEW q, Quiet(r, q)
    PROVE  CountInv'
<1>1. \A t \in Requests : request'[t] = IF t = r THEN q ELSE request[t]
  BY DEF CountInv, TypeOK, Quiet
<1>2. \A t \in Requests : request'[t].stamp <= now'
  BY <1>1 DEF CountInv, Quiet
<1>3. \A d \in Days : OutlivesReports(d)'
  BY DEF CountInv, Quiet, OutlivesReports
<1>4. ASSUME NEW d \in Days, Current(d)' PROVE Counted(d)'
  <2>1. BetweenPipelines(d)' = BetweenPipelines(d)
    BY <1>1 DEF Quiet, BetweenPipelines
  <2>2. SessionsOf(d)' = SessionsOf(d) /\ counted' = counted /\ daily' = daily
    BY DEF Quiet, SessionsOf, BillsOf
  <2>3. Counted(d)
    BY <1>4 DEF CountInv, Current, Quiet
  <2>4. daily[d].sessions + Cardinality(BetweenPipelines(d)) \in Nat
    BY BetweenFinite DEF CountInv, TypeOK
  <2>5. Cardinality(counted[d]) \in Nat /\ deaths \in Nat
    BY CountedFinite, LedgerConstants DEF CountInv, TypeOK
  <2> QED BY <2>1, <2>2, <2>3, <2>4, <2>5 DEF Counted, Quiet
<1> QED BY <1>2, <1>3, <1>4 DEF CountInv

\* The actions that are quiet.
LEMMA QuietSteps ==
    ASSUME CountInv, NEW r \in Requests,
           \/ \E kind \in {"create", "translate"} : BeginRequest(r, kind)
           \/ CheckCap(r) \/ StoreSession(r) \/ ExpireSession(r)
           \/ \E usd \in Amounts : TranslateAnswered(r, usd) \/ StreamAnswered(r, usd)
           \/ \E s \in Ids : OpenStream(r, s)
           \/ TranslateUnpaid(r) \/ CloseStream(r)
           \/ RequestDies(r) /\ request[r].pc # "Counting"
    PROVE  \E q : Quiet(r, q)
<1>0. /\ deaths \in Nat /\ now \in Nat /\ request[r] \in Handlers
      /\ request[r].stamp \in Nat /\ request[r].stamp <= now
      /\ Idle \in Handlers /\ Idle.stamp = 0 /\ Idle.pc = "Idle"
  <2>1. TypeOK /\ request[r].stamp <= now
    BY DEF CountInv
  <2> QED BY <2>1, StampTyped, IdleIsHandler, LedgerConstants DEF TypeOK, Idle
<1>1. ASSUME NEW kind \in {"create", "translate"}, BeginRequest(r, kind)
      PROVE  \E q : Quiet(r, q)
  <2> DEFINE q == [Idle EXCEPT !.pc = IF Cap = 0 THEN "Admitted" ELSE "Checking",
                               !.kind = kind, !.stamp = now]
  <2>1. q.pc # "Counting" /\ q.stamp = now
    BY <1>0 DEF Handlers
  <2>2. request' = [request EXCEPT ![r] = q]
    BY <1>1 DEF BeginRequest
  <2>3. request[r] = Idle /\ UNCHANGED <<now, daily, counted, bills, deaths>>
    BY <1>1 DEF BeginRequest, redis
  <2>4. Quiet(r, q)
    <3> HIDE DEF q
    <3> QED BY <1>0, <2>1, <2>2, <2>3 DEF Quiet
  <2> QED BY <2>4
<1>2. ASSUME Ends(r), request[r].pc # "Counting", UNCHANGED <<now, daily, counted, bills>>,
             deaths' \in Nat, deaths <= deaths'
      PROVE  \E q : Quiet(r, q)
  <2>1. Quiet(r, Idle)
    BY <1>0, <1>2 DEF Ends, Quiet
  <2> QED BY <2>1
<1>3. CASE CheckCap(r)
  <2> DEFINE q == [request[r] EXCEPT !.pc = "Admitted", !.stamp = 0]
  <2>1. CASE Ends(r)
    BY <1>0, <1>2, <1>3, <2>1 DEF CheckCap, redis
  <2>2. CASE request' = [request EXCEPT ![r] = q]
    <3>1. q.pc # "Counting" /\ q.stamp = 0
      BY <1>0 DEF Handlers
    <3>2. Quiet(r, q)
      <4> HIDE DEF q
      <4> QED BY <1>0, <1>3, <2>2, <3>1 DEF CheckCap, Quiet, redis
    <3> QED BY <3>2
  <2>3. request' = [request EXCEPT ![r] = q] \/ Ends(r)
    BY <1>3 DEF CheckCap
  <2> QED BY <2>1, <2>2, <2>3
<1>4. CASE StoreSession(r)
  <2> DEFINE q == [request[r] EXCEPT !.pc = "Expiring", !.id = ids + 1]
  <2>1. q.pc # "Counting" /\ q.stamp = request[r].stamp
    BY <1>0 DEF Handlers
  <2>2. request' = [request EXCEPT ![r] = q]
    BY <1>4 DEF StoreSession
  <2>3. request[r].pc = "Admitted" /\ UNCHANGED <<now, daily, counted, bills, deaths>>
    BY <1>4 DEF StoreSession
  <2>4. Quiet(r, q)
    <3> HIDE DEF q
    <3> QED BY <1>0, <2>1, <2>2, <2>3 DEF Quiet
  <2> QED BY <2>4
<1>5. CASE ExpireSession(r)
  BY <1>0, <1>2, <1>5 DEF ExpireSession
<1>6. CASE TranslateUnpaid(r) \/ CloseStream(r)
  BY <1>0, <1>2, <1>6 DEF TranslateUnpaid, CloseStream, redis
<1>7. ASSUME NEW usd \in Amounts, TranslateAnswered(r, usd) \/ StreamAnswered(r, usd)
      PROVE  \E q : Quiet(r, q)
  <2>1. PICK id : Charges(r, id, usd)
    BY <1>7 DEF TranslateAnswered, StreamAnswered
  <2> DEFINE q == [request[r] EXCEPT !.pc = "Recording", !.id = id, !.usd = usd, !.stamp = now]
  <2>2. q.pc # "Counting" /\ q.stamp = now
    BY <1>0 DEF Handlers
  <2>3. request' = [request EXCEPT ![r] = q]
    BY <2>1 DEF Charges
  <2>4. Quiet(r, q)
    <3> HIDE DEF q
    <3> QED BY <1>0, <1>7, <2>2, <2>3 DEF TranslateAnswered, StreamAnswered, Quiet, redis
  <2> QED BY <2>4
<1>8. ASSUME NEW s \in Ids, OpenStream(r, s) PROVE \E q : Quiet(r, q)
  <2> DEFINE q == [Idle EXCEPT !.pc = "Streaming", !.kind = "stream", !.id = s]
  <2>1. q.pc # "Counting" /\ q.stamp = 0
    BY <1>0 DEF Handlers
  <2>2. request' = [request EXCEPT ![r] = q]
    BY <1>8 DEF OpenStream, Streams
  <2>3. Quiet(r, q)
    <3> HIDE DEF q
    <3> QED BY <1>0, <1>8, <2>1, <2>2 DEF OpenStream, Quiet, redis
  <2> QED BY <2>3
<1>9. CASE RequestDies(r) /\ request[r].pc # "Counting"
  BY <1>0, <1>2, <1>9 DEF RequestDies, redis
<1> QED BY <1>1, <1>3, <1>4, <1>5, <1>6, <1>7, <1>8, <1>9

----------------------------------------------------------------------------
\* Where the books of the days change.

\* A request that leaves the second pipeline, or never comes to it.
LEMMA LeavesBetween ==
    ASSUME TypeOK, NEW r \in Requests, NEW q, q.pc # "Counting",
           request' = [request EXCEPT ![r] = q], NEW d
    PROVE  BetweenPipelines(d)' = BetweenPipelines(d) \ {r}
<1>1. \A t \in Requests : request'[t] = IF t = r THEN q ELSE request[t]
  BY DEF TypeOK
<1> QED BY <1>1 DEF BetweenPipelines

LEMMA ReturnsTo ==
    ASSUME TypeOK, NEW r \in Requests, Returns(r) \/ Ends(r)
    PROVE  \E q : /\ q.pc # "Counting" /\ q.stamp = 0
                  /\ request' = [request EXCEPT ![r] = q]
<1> DEFINE q == [Idle EXCEPT !.pc = "Streaming", !.kind = "stream", !.id = request[r].id]
<1>1. q.pc # "Counting" /\ q.stamp = 0
  BY IdleIsHandler DEF Handlers, Idle
<1>2. Idle.pc # "Counting" /\ Idle.stamp = 0
  BY DEF Idle
<1>3. request' = [request EXCEPT ![r] = q] \/ request' = [request EXCEPT ![r] = Idle]
  BY DEF Returns, Ends, Streams
<1> HIDE DEF q
<1> QED BY <1>1, <1>2, <1>3

\* A request whose record is a day's first of its session goes between.
LEMMA GoesBetween ==
    ASSUME TypeOK, NEW r \in Requests, request[r].pc # "Counting", Goes(r, "Counting"), NEW d
    PROVE  /\ request'[r].stamp = request[r].stamp
           /\ \A t \in Requests \ {r} : request'[t] = request[t]
           /\ r \notin BetweenPipelines(d)
           /\ BetweenPipelines(d)' =
                 IF d = Day(request[r].stamp) THEN BetweenPipelines(d) \cup {r}
                 ELSE BetweenPipelines(d)
<1>1. /\ request'[r].pc = "Counting" /\ request'[r].stamp = request[r].stamp
      /\ \A t \in Requests \ {r} : request'[t] = request[t]
  <2>1. request[r] \in Handlers
    BY DEF TypeOK
  <2> QED BY <2>1 DEF Goes, TypeOK, Handlers
<1> QED BY <1>1 DEF BetweenPipelines

\* Time and clock of a day's bucket.
LEMMA WriteRecordOutlives ==
    ASSUME CountInv, NEW r \in Requests, WriteRecord(r), NEW d \in Days
    PROVE  OutlivesReports(d)'
<1>1. OutlivesReports(d) /\ request[r].stamp <= now /\ TypeOK
  BY DEF CountInv
<1>2. request[r].stamp \in Nat /\ now \in Nat
  BY <1>1, StampTyped
<1>3. CASE d = Day(request[r].stamp)
  <2>1. daily'[d].expires = now + DailyTtl
    BY <1>1, <1>3 DEF WriteRecord, ChargeDay, TypeOK
  <2>2. Day(now + DailyTtl) = Day(now) + 2
    BY <1>2, TwoDaysLater
  <2>3. d <= Day(now) /\ d \in Nat /\ Day(now) \in Nat
    BY <1>1, <1>2, <1>3, DayMonotone, DayTyped
  <2> QED BY <2>1, <2>2, <2>3 DEF OutlivesReports
<1>4. CASE d # Day(request[r].stamp)
  <2>1. daily'[d] = daily[d]
    BY <1>1, <1>4 DEF WriteRecord, ChargeDay, TypeOK
  <2> QED BY <1>1, <2>1 DEF OutlivesReports
<1> QED BY <1>3, <1>4

LEMMA WriteRecordCounts ==
    ASSUME CountInv, TypeOK', NEW r \in Requests, WriteRecord(r)
    PROVE  CountInv'
<1> DEFINE q == request[r]
           e == Day(q.stamp)
           b == [id |-> q.id, usd |-> q.usd, day |-> e, at |-> now, kind |-> q.kind]
<1>1. /\ TypeOK /\ q \in Handlers /\ q.stamp \in Nat /\ q.stamp <= now /\ now \in Nat
      /\ q.pc = "Recording" /\ now' = now /\ deaths' = deaths
      /\ bills' = Append(bills, b) /\ counted' = [counted EXCEPT ![e] = @ \cup {q.id}]
  BY StampTyped DEF CountInv, WriteRecord, AddMember
<1>2. e \in Nat /\ b \in Bills
  <2>1. e \in Nat
    BY <1>1, DayTyped
  <2>2. q.id \in 0..MaxIds /\ q.usd \in Nat
        /\ q.kind \in {"none", "create", "translate", "stream"}
    <3>1. q.usd \in Amounts \cup {0} /\ Amounts \cup {0} \subseteq Nat
      BY <1>1, LedgerConstants DEF Handlers
    <3> QED BY <1>1, <3>1 DEF Handlers
  <2> HIDE DEF q, e
  <2> QED BY <1>1, <2>1, <2>2 DEF Bills
<1>3. \A t \in Requests : request'[t].stamp <= now'
  <2>1. CASE Goes(r, "Counting")
    <3>1. request'[r].stamp = request[r].stamp
          /\ \A t \in Requests \ {r} : request'[t] = request[t]
      BY <1>1, <2>1, GoesBetween
    <3> QED BY <1>1, <3>1 DEF CountInv
  <2>2. CASE Returns(r)
    <3>1. PICK p : p.stamp = 0 /\ request' = [request EXCEPT ![r] = p]
      BY <1>1, <2>2, ReturnsTo
    <3>2. \A t \in Requests : request'[t] = IF t = r THEN p ELSE request[t]
      BY <1>1, <3>1 DEF TypeOK
    <3> QED BY <1>1, <3>1, <3>2 DEF CountInv
  <2> QED BY <2>1, <2>2 DEF WriteRecord
<1>4. \A d \in Days : OutlivesReports(d)'
  BY WriteRecordOutlives
<1>5. ASSUME NEW d \in Days, Current(d)' PROVE Counted(d)'
  <2>1. /\ Counted(d) /\ daily'[d].sessions = daily[d].sessions
        /\ daily[d].sessions \in Nat /\ deaths \in Nat /\ deaths' = deaths
    <3>1. Current(d)
      BY <1>1, <1>5 DEF Current
    <3>2. daily[d] \in [usd : Nat, sessions : Nat, expires : Deadlines]
      BY <1>1 DEF TypeOK
    <3>3. daily'[d].sessions = daily[d].sessions
      BY <1>1, <3>2 DEF WriteRecord, ChargeDay, TypeOK
    <3> QED BY <1>1, <3>1, <3>2, <3>3, LedgerConstants DEF CountInv, TypeOK
  <2>2. SessionsOf(d)' = IF e = d THEN SessionsOf(d) \cup {q.id} ELSE SessionsOf(d)
    <3>1. SessionsOf(d)' = IF b.day = d THEN SessionsOf(d) \cup {b.id} ELSE SessionsOf(d)
      BY <1>1, <1>2, SessionsOfAppend
    <3> QED BY <3>1
  <2>3. counted'[d] = IF e = d THEN counted[d] \cup {q.id} ELSE counted[d]
    BY <1>1 DEF TypeOK
  <2>4. counted'[d] = SessionsOf(d)'
    BY <2>1, <2>2, <2>3 DEF Counted
  <2>5. /\ IsFiniteSet(counted[d]) /\ Cardinality(counted[d]) \in Nat
        /\ IsFiniteSet(BetweenPipelines(d)) /\ Cardinality(BetweenPipelines(d)) \in Nat
    BY <1>1, CountedFinite, BetweenFinite
  <2>6. CASE e = d /\ q.id \notin counted[d]
    <3>1. Goes(r, "Counting")
      BY <2>6 DEF WriteRecord, FirstOfDay
    <3>2. r \notin BetweenPipelines(d) /\ BetweenPipelines(d)' = BetweenPipelines(d) \cup {r}
      BY <1>1, <2>6, <3>1, GoesBetween
    <3>3. Cardinality(BetweenPipelines(d)') = Cardinality(BetweenPipelines(d)) + 1
      BY <2>5, <3>2, FS_AddElement
    <3>4. Cardinality(counted'[d]) = Cardinality(counted[d]) + 1
      BY <2>3, <2>5, <2>6, FS_AddElement
    <3> HIDE DEF q, e, b
    <3> QED BY <2>1, <2>4, <2>5, <3>3, <3>4 DEF Counted
  <2>7. CASE e # d \/ q.id \in counted[d]
    <3>1. counted'[d] = counted[d]
      BY <2>3, <2>7
    <3>2. BetweenPipelines(d)' = BetweenPipelines(d)
      <4>1. CASE FirstOfDay(e, q.id)
        <5>1. e # d /\ Goes(r, "Counting")
          BY <2>7, <4>1 DEF WriteRecord, FirstOfDay
        <5> QED BY <1>1, <5>1, GoesBetween
      <4>2. CASE ~FirstOfDay(e, q.id)
        <5>1. PICK p : p.pc # "Counting" /\ request' = [request EXCEPT ![r] = p]
          <6>1. Returns(r)
            BY <4>2 DEF WriteRecord
          <6> QED BY <1>1, <6>1, ReturnsTo
        <5>2. BetweenPipelines(d)' = BetweenPipelines(d) \ {r}
          BY <1>1, <5>1, LeavesBetween
        <5> QED BY <1>1, <5>2 DEF BetweenPipelines
      <4> QED BY <4>1, <4>2
    <3> HIDE DEF q, e, b
    <3> QED BY <2>1, <2>4, <2>5, <3>1, <3>2 DEF Counted
  <2> QED BY <2>6, <2>7
<1> QED BY <1>3, <1>4, <1>5 DEF CountInv

\* The second pipeline: the record leaves, and its session is counted.
LEMMA CountSessionCounts ==
    ASSUME CountInv, TypeOK', NEW r \in Requests, CountSession(r)
    PROVE  CountInv'
<1> DEFINE e == Day(request[r].stamp)
<1>1. /\ TypeOK /\ request[r].pc = "Counting" /\ Returns(r) /\ now' = now /\ deaths' = deaths
      /\ counted' = counted /\ bills' = bills
      /\ daily' = [daily EXCEPT ![e].sessions = @ + 1]
  BY DEF CountInv, CountSession
<1>2. PICK p : /\ p.pc # "Counting" /\ p.stamp = 0
               /\ request' = [request EXCEPT ![r] = p]
  BY <1>1, ReturnsTo
<1>3. \A t \in Requests : request'[t].stamp <= now'
  <2>1. \A t \in Requests : request'[t] = IF t = r THEN p ELSE request[t]
    BY <1>1, <1>2 DEF TypeOK
  <2>2. 0 <= now
    BY <1>1, StampTyped
  <2> QED BY <1>1, <1>2, <2>1, <2>2 DEF CountInv
<1>4. ASSUME NEW d \in Days
      PROVE  /\ daily[d].sessions \in Nat /\ daily'[d].expires = daily[d].expires
             /\ daily'[d].sessions = IF d = e THEN daily[d].sessions + 1 ELSE daily[d].sessions
  <2>1. daily[d] \in [usd : Nat, sessions : Nat, expires : Deadlines]
    BY <1>1 DEF TypeOK
  <2> HIDE DEF e
  <2> QED BY <1>1, <2>1 DEF TypeOK
<1>5. \A d \in Days : OutlivesReports(d)'
  BY <1>4 DEF CountInv, OutlivesReports
<1>6. ASSUME NEW d \in Days, Current(d)' PROVE Counted(d)'
  <2>1. Counted(d)
    BY <1>1, <1>6 DEF CountInv, Current
  <2>2. SessionsOf(d)' = SessionsOf(d)
    BY <1>1 DEF SessionsOf, BillsOf
  <2>3. /\ Cardinality(counted[d]) \in Nat /\ deaths \in Nat
        /\ IsFiniteSet(BetweenPipelines(d)) /\ Cardinality(BetweenPipelines(d)) \in Nat
    <3>1. deaths \in Nat
      BY <1>1, LedgerConstants DEF TypeOK
    <3> QED BY <1>1, <3>1, CountedFinite, BetweenFinite
  <2>4. BetweenPipelines(d)' = BetweenPipelines(d) \ {r}
    BY <1>1, <1>2, LeavesBetween
  <2>5. daily'[d].sessions + Cardinality(BetweenPipelines(d)')
          = daily[d].sessions + Cardinality(BetweenPipelines(d))
    <3>1. CASE d = e
      <4>1. r \in BetweenPipelines(d)
        BY <1>1, <3>1 DEF BetweenPipelines
      <4>2. Cardinality(BetweenPipelines(d)') = Cardinality(BetweenPipelines(d)) - 1
        BY <2>3, <2>4, <4>1, FS_RemoveElement
      <4> QED BY <1>4, <2>3, <3>1, <4>2
    <3>2. CASE d # e
      <4>1. BetweenPipelines(d)' = BetweenPipelines(d)
        BY <2>4, <3>2 DEF BetweenPipelines
      <4> QED BY <1>4, <3>2, <4>1
    <3> QED BY <3>1, <3>2
  <2> QED BY <1>1, <2>1, <2>2, <2>5 DEF Counted
<1> QED BY <1>3, <1>5, <1>6 DEF CountInv

\* A request cut off between its pipelines: one more death for one session
\* the counter will miss.
LEMMA DeathBetweenCounts ==
    ASSUME CountInv, TypeOK', NEW r \in Requests, RequestDies(r), request[r].pc = "Counting"
    PROVE  CountInv'
<1>1. /\ TypeOK /\ Ends(r) /\ UNCHANGED <<now, daily, counted, bills>>
      /\ deaths' = deaths + 1 /\ deaths \in Nat
  BY LedgerConstants DEF CountInv, RequestDies, HalfDone, redis, TypeOK
<1>2. PICK p : /\ p.pc # "Counting" /\ p.stamp = 0
               /\ request' = [request EXCEPT ![r] = p]
  BY <1>1, ReturnsTo
<1>3. \A t \in Requests : request'[t].stamp <= now'
  <2>1. \A t \in Requests : request'[t] = IF t = r THEN p ELSE request[t]
    BY <1>1, <1>2 DEF TypeOK
  <2>2. 0 <= now
    BY <1>1, StampTyped
  <2> QED BY <1>1, <1>2, <2>1, <2>2 DEF CountInv
<1>4. \A d \in Days : OutlivesReports(d)'
  BY <1>1 DEF CountInv, OutlivesReports
<1>5. ASSUME NEW d \in Days, Current(d)' PROVE Counted(d)'
  <2>1. Counted(d)
    BY <1>1, <1>5 DEF CountInv, Current
  <2>2. SessionsOf(d)' = SessionsOf(d)
    BY <1>1 DEF SessionsOf, BillsOf
  <2>3. /\ Cardinality(counted[d]) \in Nat /\ daily[d].sessions \in Nat
        /\ IsFiniteSet(BetweenPipelines(d)) /\ Cardinality(BetweenPipelines(d)) \in Nat
    BY <1>1, CountedFinite, BetweenFinite DEF TypeOK
  <2>4. BetweenPipelines(d)' = BetweenPipelines(d) \ {r}
    BY <1>1, <1>2, LeavesBetween
  <2>5. Cardinality(BetweenPipelines(d)') \in
          {Cardinality(BetweenPipelines(d)), Cardinality(BetweenPipelines(d)) - 1}
    BY <2>3, <2>4, FS_RemoveElement
  <2> QED BY <1>1, <2>1, <2>2, <2>3, <2>5 DEF Counted
<1> QED BY <1>3, <1>4, <1>5 DEF CountInv

\* A tick drops only buckets whose day has left the reports.
LEMMA TickKeepsReported ==
    ASSUME CountInv, Tick, NEW d \in Days, Current(d)'
    PROVE  Current(d) /\ daily'[d] = daily[d] /\ counted'[d] = counted[d]
<1>1. /\ TypeOK /\ now \in Nat /\ now' = now + 1
  BY LedgerConstants DEF CountInv, TypeOK, Tick
<1>2. d \in Nat /\ Day(now) \in Nat /\ Day(now + 1) \in Nat /\ Day(now) <= Day(now + 1)
  BY <1>1, DayTyped, DayMonotone, LedgerConstants DEF Days
<1>3. Current(d)
  BY <1>1, <1>2 DEF Current
<1>4. \/ daily'[d] = daily[d] /\ counted'[d] = counted[d]
      \/ daily[d].expires \in 0..(now + 1)
  BY <1>1 DEF Tick, TypeOK
<1>5. ASSUME daily[d].expires \in 0..(now + 1) PROVE FALSE
  <2>1. Day(daily[d].expires) >= d + 2
    BY <1>1, <1>5 DEF CountInv, OutlivesReports
  <2>2. Day(daily[d].expires) <= Day(now + 1) /\ Day(daily[d].expires) \in Nat
    BY <1>1, <1>5, DayMonotone, DayTyped
  <2> QED BY <1>1, <1>2, <2>1, <2>2 DEF Current
<1> QED BY <1>3, <1>4, <1>5

LEMMA TickCounts ==
    ASSUME CountInv, TypeOK', Tick
    PROVE  CountInv'
<1>1. /\ TypeOK /\ now \in Nat /\ now' = now + 1
      /\ UNCHANGED <<request, bills, deaths>>
  BY LedgerConstants DEF CountInv, TypeOK, Tick
<1>2. \A t \in Requests : request'[t].stamp <= now'
  BY <1>1, StampTyped DEF CountInv
<1>3. ASSUME NEW d \in Days
      PROVE  \/ daily'[d] = daily[d] /\ counted'[d] = counted[d]
             \/ daily'[d] = EmptyDay /\ daily[d].expires \in 0..(now + 1)
  BY <1>1 DEF Tick, TypeOK
<1>4. \A d \in Days : OutlivesReports(d)'
  BY <1>3 DEF CountInv, OutlivesReports, EmptyDay, NoKey
<1>5. ASSUME NEW d \in Days, Current(d)' PROVE Counted(d)'
  <2>1. Current(d) /\ daily'[d] = daily[d] /\ counted'[d] = counted[d]
    BY <1>5, TickKeepsReported
  <2>2. Counted(d)
    BY <2>1 DEF CountInv
  <2>5. SessionsOf(d)' = SessionsOf(d) /\ BetweenPipelines(d)' = BetweenPipelines(d)
    BY <1>1 DEF SessionsOf, BillsOf, BetweenPipelines
  <2> QED BY <1>1, <2>1, <2>2, <2>5 DEF Counted
<1> QED BY <1>2, <1>4, <1>5 DEF CountInv

----------------------------------------------------------------------------
\* The initial states.
LEMMA InitCounts == Init => CountInv
<1> SUFFICES ASSUME Init PROVE CountInv
  OBVIOUS
<1>1. TypeOK
  BY InitTyped
<1>2. \A t \in Requests : request[t] = Idle /\ request[t].stamp <= now
  BY DEF Init, Idle
<1>3. ASSUME NEW d \in Days PROVE OutlivesReports(d) /\ Counted(d)
  <2>1. daily[d].expires = -2 /\ daily[d].sessions = 0 /\ counted[d] = {} /\ deaths = 0
    BY DEF Init, EmptyDay, NoKey
  <2>2. BetweenPipelines(d) = {}
    BY <1>2 DEF BetweenPipelines, Idle
  <2>3. SessionsOf(d) = {}
    BY SessionsOfDay DEF Init
  <2>4. Cardinality({}) = 0
    BY FS_EmptySet
  <2> QED BY <2>1, <2>2, <2>3, <2>4 DEF OutlivesReports, Counted
<1> QED BY <1>1, <1>2, <1>3 DEF CountInv

\* Every step.
LEMMA NextCounts == CountInv /\ [Next]_vars => CountInv'
<1> SUFFICES ASSUME CountInv, [Next]_vars PROVE CountInv'
  OBVIOUS
<1>1. TypeOK'
  BY StepTyped DEF CountInv
<1>2. CASE UNCHANGED vars
  <2>1. /\ now' = now /\ request' = request /\ daily' = daily /\ counted' = counted
        /\ bills' = bills /\ deaths' = deaths
    BY <1>2 DEF vars
  <2> QED BY <1>1, <2>1 DEF CountInv, OutlivesReports, Current, Counted, SessionsOf, BillsOf,
                            BetweenPipelines
<1>3. CASE Tick
  BY <1>1, <1>3, TickCounts
<1>4. ASSUME NEW r \in Requests, WriteRecord(r) PROVE CountInv'
  BY <1>1, <1>4, WriteRecordCounts
<1>5. ASSUME NEW r \in Requests, CountSession(r) PROVE CountInv'
  BY <1>1, <1>5, CountSessionCounts
<1>6. ASSUME NEW r \in Requests, RequestDies(r), request[r].pc = "Counting" PROVE CountInv'
  BY <1>1, <1>6, DeathBetweenCounts
<1>7. ASSUME NEW r \in Requests,
             \/ \E kind \in {"create", "translate"} : BeginRequest(r, kind)
             \/ CheckCap(r) \/ StoreSession(r) \/ ExpireSession(r)
             \/ \E usd \in Amounts : TranslateAnswered(r, usd) \/ StreamAnswered(r, usd)
             \/ \E s \in Ids : OpenStream(r, s)
             \/ TranslateUnpaid(r) \/ CloseStream(r)
             \/ RequestDies(r) /\ request[r].pc # "Counting"
      PROVE  CountInv'
  <2>1. PICK q : Quiet(r, q)
    BY <1>7, QuietSteps
  <2> QED BY <1>1, <2>1, QuietCounts
<1> QED BY <1>2, <1>3, <1>4, <1>5, <1>6, <1>7 DEF Next

\* The counter of distinct sessions of a reported day is neither ahead of the
\* day's sessions nor behind them by more than the requests cut off between
\* the two pipelines of CostLogger.record (cost_logger.py:168-193).
THEOREM LedgerSessionsCounted == Spec => []SessionsCounted
<1>1. CountInv => SessionsCounted
  <2> SUFFICES ASSUME CountInv, NEW d \in Reported
               PROVE  LET seen == daily[d].sessions + Cardinality(BetweenPipelines(d))
                          due  == Cardinality(SessionsOf(d))
                      IN seen <= due /\ due - deaths <= seen
    BY DEF SessionsCounted
  <2>1. now \in Nat /\ d \in Days /\ Day(now) \in Nat
    <3>1. now \in Nat /\ d \in Days
      BY LedgerConstants DEF CountInv, TypeOK, Reported
    <3> QED BY <3>1, DayTyped
  <2>2. Current(d)
    BY <2>1 DEF Current, Reported
  <2> QED BY <2>1, <2>2 DEF CountInv, Counted
<1> QED BY <1>1, InitCounts, NextCounts, PTL DEF Spec

----------------------------------------------------------------------------
\* Sums.

\* Induction over the numbers, on a set in place of a predicate.
LEMMA NatSetInduction ==
    ASSUME NEW T, 0 \in T, \A n \in Nat : n \in T => n + 1 \in T
    PROVE  Nat \subseteq T
<1> DEFINE R == OpToRel(<, Nat)
           B == Nat \ T
<1>1. IsWellFoundedOn(R, Nat)
  BY NatLessThanWellFounded
<1> SUFFICES ASSUME B # {} PROVE FALSE
  OBVIOUS
<1>2. PICK x \in B : \A y \in B : <<y, x>> \notin R
  <2>1. B \subseteq Nat
    OBVIOUS
  <2> HIDE DEF B, R
  <2> QED BY <1>1, <2>1, WFMin
<1>3. \A y \in Nat : y < x => <<y, x>> \in R
  BY DEF OpToRel
<1>4. x \in Nat /\ x # 0 /\ x \notin T
  OBVIOUS
<1>5. x - 1 \in Nat /\ x - 1 < x
  BY <1>4
<1>6. x - 1 \in T
  BY <1>2, <1>3, <1>5
<1>7. (x - 1) + 1 = x
  BY <1>4
<1> QED BY <1>4, <1>5, <1>6, <1>7

\* The choice the sum makes, and the subsets of at most n elements.
Chosen(S) == CHOOSE x \in S : TRUE
UpTo(S, n) == {s \in SUBSET S : Cardinality(s) <= n}

\* g follows the recursion of the sum on the subsets it is defined on.
SumsUp(g, w, B) ==
    \A s \in B : g[s] = IF s = {} THEN 0 ELSE w[Chosen(s)] + g[s \ {Chosen(s)}]

\* The element the sum takes out first.
LEMMA ChosenIn ==
    ASSUME NEW S, S # {} PROVE Chosen(S) \in S
  BY DEF Chosen

\* Without it the set is one smaller.
LEMMA UpToSteps ==
    ASSUME NEW S, IsFiniteSet(S), NEW n \in Nat, NEW s \in UpTo(S, n + 1), s # {}
    PROVE  s \ {Chosen(s)} \in UpTo(S, n) /\ Chosen(s) \in s
<1>1. IsFiniteSet(s) /\ s \subseteq S /\ Cardinality(s) \in Nat
  BY FS_Subset, FS_CardinalityType DEF UpTo
<1>2. Chosen(s) \in s
  BY ChosenIn
<1>3. Cardinality(s \ {Chosen(s)}) = Cardinality(s) - 1
  BY <1>1, <1>2, FS_RemoveElement
<1> QED BY <1>1, <1>2, <1>3 DEF UpTo

\* The recursion of the sum has a solution on the subsets of a finite set: by
\* induction on their size.
LEMMA SumExists ==
    ASSUME NEW S, IsFiniteSet(S), NEW w \in [S -> Nat]
    PROVE  \E g \in [SUBSET S -> Nat] : SumsUp(g, w, SUBSET S)
<1> DEFINE G(n) == {g \in [UpTo(S, n) -> Nat] : SumsUp(g, w, UpTo(S, n))}
           T == {n \in Nat : G(n) # {}}
<1>1. 0 \in T
  <2> DEFINE g == [s \in UpTo(S, 0) |-> 0]
  <2>1. \A s \in UpTo(S, 0) : s = {}
    <3> SUFFICES ASSUME NEW s \in UpTo(S, 0) PROVE s = {}
      OBVIOUS
    <3>1. IsFiniteSet(s) /\ Cardinality(s) = 0
      BY FS_Subset, FS_CardinalityType DEF UpTo
    <3> QED BY <3>1, FS_EmptySet
  <2>2. g \in G(0)
    BY <2>1 DEF SumsUp
  <2> QED BY <2>2
<1>2. ASSUME NEW n \in Nat, n \in T PROVE n + 1 \in T
  <2>1. PICK g \in G(n) : TRUE
    BY <1>2
  <2> DEFINE h == [s \in UpTo(S, n + 1) |-> IF s = {} THEN 0 ELSE w[Chosen(s)] + g[s \ {Chosen(s)}]]
  <2>2. g \in [UpTo(S, n) -> Nat] /\ SumsUp(g, w, UpTo(S, n))
    BY <2>1
  <2>3. ASSUME NEW s \in UpTo(S, n + 1), s # {}
        PROVE  s \ {Chosen(s)} \in UpTo(S, n) /\ Chosen(s) \in S
    BY <2>3, UpToSteps DEF UpTo
  <2>4. h \in [UpTo(S, n + 1) -> Nat]
    <3>1. ASSUME NEW s \in UpTo(S, n + 1), s # {} PROVE w[Chosen(s)] + g[s \ {Chosen(s)}] \in Nat
      BY <2>2, <2>3, <3>1
    <3> QED BY <3>1
  <2>5. \A s \in UpTo(S, n) : s \in UpTo(S, n + 1)
    <3> SUFFICES ASSUME NEW s \in UpTo(S, n) PROVE Cardinality(s) <= n + 1
      BY DEF UpTo
    <3>1. Cardinality(s) \in Nat /\ Cardinality(s) <= n
      BY FS_Subset, FS_CardinalityType DEF UpTo
    <3> QED BY <3>1
  <2>6. \A s \in UpTo(S, n) : h[s] = g[s]
    BY <2>2, <2>5 DEF SumsUp
  <2>7. SumsUp(h, w, UpTo(S, n + 1))
    BY <2>3, <2>6 DEF SumsUp
  <2>8. h \in G(n + 1)
    BY <2>4, <2>7
  <2> HIDE DEF h, G
  <2> QED BY <2>8
<1> HIDE DEF T
<1>3. Cardinality(S) \in T
  BY <1>1, <1>2, NatSetInduction, FS_CardinalityType
<1>4. UpTo(S, Cardinality(S)) = SUBSET S
  BY FS_Subset DEF UpTo
<1> QED BY <1>3, <1>4 DEF T

\* It has only one.
LEMMA SumUnique ==
    ASSUME NEW S, IsFiniteSet(S), NEW w, NEW g, NEW h,
           SumsUp(g, w, SUBSET S), SumsUp(h, w, SUBSET S)
    PROVE  \A s \in SUBSET S : g[s] = h[s]
<1> DEFINE T == {n \in Nat : \A s \in SUBSET S : Cardinality(s) = n => g[s] = h[s]}
<1>1. \A s \in SUBSET S : IsFiniteSet(s) /\ Cardinality(s) \in Nat
  BY FS_Subset, FS_CardinalityType
<1>2. 0 \in T
  BY <1>1, FS_EmptySet DEF SumsUp
<1>3. ASSUME NEW n \in Nat, n \in T PROVE n + 1 \in T
  <2> SUFFICES ASSUME NEW s \in SUBSET S, Cardinality(s) = n + 1 PROVE g[s] = h[s]
    OBVIOUS
  <2>1. s # {} /\ Chosen(s) \in s /\ s \ {Chosen(s)} \in SUBSET S
    BY <1>1, FS_EmptySet, ChosenIn
  <2>2. Cardinality(s \ {Chosen(s)}) = n
    <3>1. IsFiniteSet(s)
      BY <1>1
    <3>2. Cardinality(s \ {Chosen(s)}) = Cardinality(s) - 1
      BY <2>1, <3>1, FS_RemoveElement
    <3> QED BY <3>2
  <2>3. g[s \ {Chosen(s)}] = h[s \ {Chosen(s)}]
    BY <1>3, <2>1, <2>2
  <2>4. g[s] = w[Chosen(s)] + g[s \ {Chosen(s)}] /\ h[s] = w[Chosen(s)] + h[s \ {Chosen(s)}]
    BY <2>1 DEF SumsUp
  <2> QED BY <2>1, <2>3, <2>4
<1> HIDE DEF T
<1>4. Nat \subseteq T
  BY <1>2, <1>3, NatSetInduction
<1> QED BY <1>1, <1>4 DEF T

\* The order in which the sum takes the elements does not matter.
LEMMA SumOfAny ==
    ASSUME NEW D, IsFiniteSet(D), NEW w \in [D -> Nat],
           NEW g \in [SUBSET D -> Nat], SumsUp(g, w, SUBSET D)
    PROVE  \A s \in SUBSET D : \A c \in s : g[s] = w[c] + g[s \ {c}]
<1> DEFINE T == {n \in Nat : \A s \in SUBSET D :
                   Cardinality(s) = n => \A c \in s : g[s] = w[c] + g[s \ {c}]}
<1>1. \A s \in SUBSET D : IsFiniteSet(s) /\ Cardinality(s) \in Nat
  BY FS_Subset, FS_CardinalityType
<1>2. 0 \in T
  BY <1>1, FS_EmptySet
<1>3. ASSUME NEW n \in Nat, n \in T PROVE n + 1 \in T
  <2> SUFFICES ASSUME NEW s \in SUBSET D, Cardinality(s) = n + 1, NEW c \in s
               PROVE  g[s] = w[c] + g[s \ {c}]
    OBVIOUS
  <2> DEFINE f == Chosen(s)
  <2>1. f \in s
    BY ChosenIn
  <2>2. g[s] = w[f] + g[s \ {f}]
    BY <2>1 DEF SumsUp
  <2> HIDE DEF f
  <2>3. ASSUME f # c PROVE g[s] = w[c] + g[s \ {c}]
    <3>1. \A x \in s : s \ {x} \in SUBSET D /\ Cardinality(s \ {x}) = n
      <4>1. IsFiniteSet(s)
        BY <1>1
      <4> SUFFICES ASSUME NEW x \in s PROVE Cardinality(s \ {x}) = n
        OBVIOUS
      <4>2. Cardinality(s \ {x}) = Cardinality(s) - 1
        BY <4>1, FS_RemoveElement
      <4> QED BY <4>2
    <3> DEFINE rest == (s \ {f}) \ {c}
    <3>2. rest = (s \ {c}) \ {f} /\ rest \in SUBSET D
      OBVIOUS
    <3>3. g[s \ {f}] = w[c] + g[rest]
      BY <1>3, <2>1, <2>3, <3>1
    <3>4. g[s \ {c}] = w[f] + g[rest]
      BY <1>3, <2>1, <2>3, <3>1, <3>2
    <3>5. w[c] \in Nat /\ w[f] \in Nat /\ g[rest] \in Nat
      BY <2>1, <3>2
    <3> HIDE DEF rest
    <3> QED BY <2>2, <3>3, <3>4, <3>5
  <2> QED BY <2>2, <2>3
<1> HIDE DEF T
<1>4. Nat \subseteq T
  BY <1>2, <1>3, NatSetInduction
<1> QED BY <1>1, <1>4 DEF T

\* What the library's sum returns.
LEMMA SumIs ==
    ASSUME NEW D, IsFiniteSet(D), NEW w, NEW g, SumsUp(g, w, SUBSET D),
           NEW S, S \subseteq D, NEW v, \A x \in S : v[x] = w[x]
    PROVE  SumFunctionOnSet(v, S) = g[S]
<1> DEFINE rec(f) == [s \in SUBSET S |->
                        IF s = {} THEN 0
                        ELSE v[CHOOSE x \in s : TRUE] + f[s \ {CHOOSE x \in s : TRUE}]]
           iter == CHOOSE f : f = rec(f)
           h == [s \in SUBSET S |-> g[s]]
<1>1. IsFiniteSet(S)
  BY FS_Subset
<1>2. h = rec(h)
  <2>1. ASSUME NEW s \in SUBSET S, s # {}
        PROVE  g[s] = v[Chosen(s)] + h[s \ {Chosen(s)}]
    <3>1. Chosen(s) \in s /\ s \in SUBSET D
      BY <2>1, ChosenIn
    <3>2. v[Chosen(s)] = w[Chosen(s)]
      BY <3>1
    <3>3. h[s \ {Chosen(s)}] = g[s \ {Chosen(s)}]
      OBVIOUS
    <3>4. g[s] = w[Chosen(s)] + g[s \ {Chosen(s)}]
      BY <2>1, <3>1 DEF SumsUp
    <3> QED BY <3>2, <3>3, <3>4
  <2>2. g[{}] = 0
    BY DEF SumsUp
  <2>3. \A s \in SUBSET S : h[s] = IF s = {} THEN 0 ELSE v[Chosen(s)] + h[s \ {Chosen(s)}]
    BY <2>1, <2>2
  <2>4. h = [s \in SUBSET S |-> h[s]]
    OBVIOUS
  <2> HIDE DEF h
  <2> QED BY <2>3, <2>4 DEF Chosen
<1>3. iter = rec(iter)
  <2> HIDE DEF h, rec
  <2> QED BY <1>2
<1>4. SumsUp(iter, v, SUBSET S)
  <2> HIDE DEF iter
  <2> QED BY <1>3 DEF SumsUp, Chosen
<1>5. iter[S] = g[S]
  <2> HIDE DEF iter
  <2>1. \A s \in SUBSET S : iter[s] = g[s]
    <3>1. SumsUp(g, v, SUBSET S)
      <4>1. \A s \in SUBSET S : s \in SUBSET D /\ (s # {} => v[Chosen(s)] = w[Chosen(s)])
        BY ChosenIn
      <4> QED BY <4>1 DEF SumsUp
    <3> HIDE DEF h, rec
    <3> QED BY <1>1, <1>4, <3>1, SumUnique
  <2> QED BY <2>1
<1>6. SumFunctionOnSet(v, S) = iter[S]
  BY DEF SumFunctionOnSet, FoldFunctionOnSet, MapThenFoldSet
<1> QED BY <1>5, <1>6

\* The sum over no index.
LEMMA SumOfNone == ASSUME NEW w PROVE SumFunctionOnSet(w, {}) = 0
<1> DEFINE S == {}
           u == [x \in S |-> w[x]]
<1>1. IsFiniteSet(S) /\ S \subseteq S /\ u \in [S -> Nat] /\ \A x \in S : w[x] = u[x]
  BY FS_EmptySet
<1> HIDE DEF u, S
<1>2. PICK g \in [SUBSET S -> Nat] : SumsUp(g, u, SUBSET S)
  BY <1>1, SumExists
<1>3. SumFunctionOnSet(w, S) = g[S]
  BY <1>1, <1>2, SumIs
<1>4. g[S] = 0
  BY <1>2 DEF SumsUp, S
<1> QED BY <1>3, <1>4 DEF S

\* The sum over one index more.
LEMMA SumOfMore ==
    ASSUME NEW S, IsFiniteSet(S), NEW x, x \notin S, NEW w, NEW v,
           \A y \in S : v[y] = w[y] /\ v[y] \in Nat, v[x] \in Nat
    PROVE  /\ SumFunctionOnSet(v, S \cup {x}) = v[x] + SumFunctionOnSet(w, S)
         /\ SumFunctionOnSet(w, S) \in Nat
<1> DEFINE D == S \cup {x}
           u == [y \in D |-> v[y]]
<1>1. IsFiniteSet(D)
  BY FS_AddElement
<1>2. u \in [D -> Nat]
  OBVIOUS
<1>3. PICK g \in [SUBSET D -> Nat] : SumsUp(g, u, SUBSET D)
  <2> HIDE DEF u, D
  <2> QED BY <1>1, <1>2, SumExists
<1>4. /\ D \in SUBSET D /\ S \in SUBSET D /\ x \in D /\ D \ {x} = S /\ u[x] = v[x]
      /\ \A y \in D : v[y] = u[y]
      /\ \A y \in S : w[y] = u[y]
  OBVIOUS
<1> HIDE DEF u, D
<1>5. SumFunctionOnSet(v, D) = g[D]
  BY <1>1, <1>2, <1>3, <1>4, SumIs
<1>6. SumFunctionOnSet(w, S) = g[S]
  BY <1>1, <1>2, <1>3, <1>4, SumIs
<1>7. g[D] = u[x] + g[D \ {x}]
  BY <1>1, <1>2, <1>3, <1>4, SumOfAny
<1>8. g[S] \in Nat
  BY <1>3, <1>4
<1>9. SumFunctionOnSet(v, D) = v[x] + SumFunctionOnSet(w, S)
  BY <1>4, <1>5, <1>6, <1>7
<1> QED BY <1>6, <1>8, <1>9 DEF D

\* The sum over indices whose amounts do not change.
LEMMA SumOfSame ==
    ASSUME NEW S, IsFiniteSet(S), NEW w, NEW v, \A y \in S : v[y] = w[y] /\ v[y] \in Nat
    PROVE  SumFunctionOnSet(v, S) = SumFunctionOnSet(w, S) /\ SumFunctionOnSet(w, S) \in Nat
<1> DEFINE u == [y \in S |-> v[y]]
<1>1. /\ u \in [S -> Nat] /\ S \subseteq S
      /\ \A y \in S : v[y] = u[y]
      /\ \A y \in S : w[y] = u[y]
  OBVIOUS
<1> HIDE DEF u
<1>2. PICK g \in [SUBSET S -> Nat] : SumsUp(g, u, SUBSET S)
  BY <1>1, SumExists
<1>3. SumFunctionOnSet(v, S) = g[S]
  BY <1>1, <1>2, SumIs
<1>4. SumFunctionOnSet(w, S) = g[S]
  BY <1>1, <1>2, SumIs
<1> QED BY <1>2, <1>3, <1>4

----------------------------------------------------------------------------
\* The records.

LEMMA BillsTyped ==
    ASSUME TypeOK
    PROVE  /\ IsFiniteSet(DOMAIN bills)
           /\ \A i \in DOMAIN bills : bills[i] \in Bills /\ bills[i].usd \in Nat
<1>1. bills \in Seq(Bills)
  BY DEF TypeOK
<1>2. DOMAIN bills = 1..Len(bills) /\ Len(bills) \in Nat /\ 1 \in Int /\ Len(bills) \in Int
  BY <1>1
<1>3. IsFiniteSet(1..Len(bills))
  BY <1>2, FS_Interval
<1>4. \A i \in DOMAIN bills : bills[i] \in Bills
  BY <1>1
<1> QED BY <1>2, <1>3, <1>4 DEF Bills

LEMMA BillsFinite ==
    ASSUME TypeOK, NEW S, S \subseteq DOMAIN bills
    PROVE  IsFiniteSet(S) /\ Total(S) \in Nat
<1>1. IsFiniteSet(S)
  BY BillsTyped, FS_Subset
<1>2. \A i \in S : Usd[i] = Usd[i] /\ Usd[i] \in Nat
  BY BillsTyped DEF Usd
<1> QED BY <1>1, <1>2, SumOfSame DEF Total

\* What record appends.
BillOf(r) == [id |-> request[r].id, usd |-> request[r].usd, day |-> Day(request[r].stamp),
              at |-> now, kind |-> request[r].kind]

\* The totals before and after a record.
LEMMA RecordAdds ==
    ASSUME TypeOK, NEW r \in Requests, WriteRecord(r)
    PROVE  LET n == Len(bills) + 1 IN
           /\ BillOf(r) \in Bills /\ bills' = Append(bills, BillOf(r))
           /\ DOMAIN bills' = DOMAIN bills \cup {n} /\ n \notin DOMAIN bills /\ n \in Nat
           /\ \A i \in DOMAIN bills : i \in Nat /\ i < n
           /\ bills'[n].id = request[r].id /\ bills'[n].day = Day(request[r].stamp)
           /\ bills'[n].at = now /\ bills'[n].kind = request[r].kind
           /\ \A i \in DOMAIN bills : bills'[i] = bills[i]
           /\ \A S \in SUBSET DOMAIN bills :
                 /\ SumFunctionOnSet(Usd', S) = Total(S)
                 /\ SumFunctionOnSet(Usd', S \cup {n}) = request[r].usd + Total(S)
<1> DEFINE n == Len(bills) + 1
           b == BillOf(r)
<1>1. b \in Bills
  <2>1. request[r] \in Handlers /\ request[r].stamp \in Nat /\ now \in Nat
    BY StampTyped
  <2>2. Day(request[r].stamp) \in Nat
    BY <2>1, DayTyped
  <2>3. request[r].id \in 0..MaxIds /\ request[r].usd \in Nat
        /\ request[r].kind \in {"none", "create", "translate", "stream"}
    <3>1. request[r].usd \in Amounts \cup {0} /\ Amounts \cup {0} \subseteq Nat
      BY <2>1, LedgerConstants DEF Handlers
    <3> QED BY <2>1, <3>1 DEF Handlers
  <2> QED BY <2>1, <2>2, <2>3 DEF Bills, BillOf
<1>2. bills \in Seq(Bills) /\ bills' = Append(bills, b)
  BY DEF TypeOK, WriteRecord, BillOf
<1>3. /\ b.usd = request[r].usd /\ b.id = request[r].id /\ b.day = Day(request[r].stamp)
      /\ b.at = now /\ b.kind = request[r].kind
  BY DEF BillOf
<1> HIDE DEF b
<1>4. /\ DOMAIN bills' = DOMAIN bills \cup {n} /\ n \notin DOMAIN bills /\ n \in Nat
      /\ \A i \in DOMAIN bills : i \in Nat /\ i < n
      /\ bills'[n] = b
      /\ \A i \in DOMAIN bills : bills'[i] = bills[i]
  BY <1>1, <1>2
<1> HIDE DEF n
<1>5. ASSUME NEW S \in SUBSET DOMAIN bills
      PROVE  /\ SumFunctionOnSet(Usd', S) = Total(S)
             /\ SumFunctionOnSet(Usd', S \cup {n}) = request[r].usd + Total(S)
  <2>1. IsFiniteSet(S)
    BY BillsFinite
  <2>2. \A i \in S : bills[i].usd \in Nat
    BY BillsTyped
  <2>3. \A i \in S : Usd'[i] = Usd[i] /\ Usd'[i] \in Nat
    BY <1>4, <2>2 DEF Usd
  <2>4. Usd'[n] = request[r].usd /\ Usd'[n] \in Nat /\ n \notin S
    BY <1>1, <1>3, <1>4 DEF Usd, Bills
  <2>5. SumFunctionOnSet(Usd', S) = SumFunctionOnSet(Usd, S)
    BY <2>1, <2>3, SumOfSame
  <2>6. SumFunctionOnSet(Usd', S \cup {n}) = Usd'[n] + SumFunctionOnSet(Usd, S)
    BY <2>1, <2>3, <2>4, SumOfMore
  <2> QED BY <2>4, <2>5, <2>6 DEF Total
<1> QED BY <1>1, <1>2, <1>3, <1>4, <1>5 DEF n, b

----------------------------------------------------------------------------
\* The buckets of the days.

DayBills(d) == {i \in DOMAIN bills : bills[i].day = d}

\* The bucket of a day a report may still ask for holds the day's records.
DaysBalanced == \A d \in Days : Current(d) => daily[d].usd = Total(DayBills(d))

LEMMA NothingBilled ==
    ASSUME bills' = bills
    PROVE  \A S : SumFunctionOnSet(Usd', S) = Total(S)
BY DEF Usd, Total

LEMMA WriteRecordDays ==
    ASSUME CountInv, DaysBalanced, NEW r \in Requests, WriteRecord(r)
    PROVE  DaysBalanced'
<1> DEFINE e == Day(request[r].stamp)
           n == Len(bills) + 1
<1>1. TypeOK /\ now' = now
  BY DEF CountInv, WriteRecord
<1> SUFFICES ASSUME NEW d \in Days, Current(d)
             PROVE  daily'[d].usd = SumFunctionOnSet(Usd', DayBills(d)')
  BY <1>1 DEF DaysBalanced, Current, Total
<1>2. daily[d].usd = Total(DayBills(d)) /\ daily[d].usd \in Nat /\ request[r].usd \in Nat
  <2>1. request[r].usd \in Nat
    BY <1>1, RecordAdds DEF Bills, BillOf
  <2> QED BY <1>1, <2>1 DEF DaysBalanced, TypeOK
<1>3. daily'[d].usd = IF d = e THEN daily[d].usd + request[r].usd ELSE daily[d].usd
  BY <1>1 DEF WriteRecord, ChargeDay, TypeOK
<1>4. DayBills(d)' = IF d = e THEN DayBills(d) \cup {n} ELSE DayBills(d)
  <2>1. bills'[n].day = e
    BY <1>1, RecordAdds
  <2> HIDE DEF e
  <2> QED BY <1>1, <2>1, RecordAdds DEF DayBills
<1>5. DayBills(d) \in SUBSET DOMAIN bills
  BY DEF DayBills
<1>6. /\ SumFunctionOnSet(Usd', DayBills(d)) = Total(DayBills(d))
      /\ SumFunctionOnSet(Usd', DayBills(d) \cup {n}) = request[r].usd + Total(DayBills(d))
  BY <1>1, <1>5, RecordAdds
<1> HIDE DEF e, n
<1> QED BY <1>2, <1>3, <1>4, <1>6

LEMMA TickDays ==
    ASSUME CountInv, DaysBalanced, Tick
    PROVE  DaysBalanced'
<1>1. bills' = bills
  BY DEF Tick
<1> SUFFICES ASSUME NEW d \in Days, Current(d)'
             PROVE  daily'[d].usd = SumFunctionOnSet(Usd', DayBills(d)')
  BY DEF DaysBalanced, Total
<1>2. Current(d) /\ daily'[d] = daily[d]
  BY TickKeepsReported
<1>3. DayBills(d)' = DayBills(d)
  BY <1>1 DEF DayBills
<1> QED BY <1>1, <1>2, <1>3, NothingBilled DEF DaysBalanced

LEMMA NextDays == CountInv /\ DaysBalanced /\ [Next]_vars => DaysBalanced'
<1> SUFFICES ASSUME CountInv, DaysBalanced, [Next]_vars PROVE DaysBalanced'
  OBVIOUS
<1>1. ASSUME now' = now, bills' = bills, \A d \in Days : daily'[d].usd = daily[d].usd
      PROVE  DaysBalanced'
  <2> SUFFICES ASSUME NEW d \in Days, Current(d)'
               PROVE  daily'[d].usd = SumFunctionOnSet(Usd', DayBills(d)')
    BY DEF DaysBalanced, Total
  <2>1. Current(d) /\ DayBills(d)' = DayBills(d)
    BY <1>1 DEF Current, DayBills
  <2> QED BY <1>1, <2>1, NothingBilled DEF DaysBalanced
<1>2. CASE UNCHANGED vars
  BY <1>1, <1>2 DEF vars
<1>3. CASE Tick
  BY <1>3, TickDays
<1>4. ASSUME NEW r \in Requests, WriteRecord(r) PROVE DaysBalanced'
  BY <1>4, WriteRecordDays
<1>5. ASSUME NEW r \in Requests, CountSession(r) PROVE DaysBalanced'
  <2>1. \A d \in Days : daily'[d].usd = daily[d].usd
    BY <1>5 DEF CountSession, CountInv, TypeOK
  <2> QED BY <1>1, <1>5, <2>1 DEF CountSession
<1>6. ASSUME NEW r \in Requests, request[r].pc = "Counting", RequestDies(r)
      PROVE  DaysBalanced'
  BY <1>1, <1>6 DEF RequestDies, redis
<1>7. ASSUME NEW r \in Requests,
             \/ \E kind \in {"create", "translate"} : BeginRequest(r, kind)
             \/ CheckCap(r) \/ StoreSession(r) \/ ExpireSession(r)
             \/ \E usd \in Amounts : TranslateAnswered(r, usd) \/ StreamAnswered(r, usd)
             \/ \E s \in Ids : OpenStream(r, s)
             \/ TranslateUnpaid(r) \/ CloseStream(r)
             \/ RequestDies(r) /\ request[r].pc # "Counting"
      PROVE  DaysBalanced'
  <2>1. PICK q : Quiet(r, q)
    BY <1>7, QuietSteps
  <2> QED BY <1>1, <2>1 DEF Quiet
<1> QED BY <1>2, <1>3, <1>4, <1>5, <1>6, <1>7 DEF Next

LEMMA InitDays == Init => DaysBalanced
<1> SUFFICES ASSUME Init, NEW d \in Days PROVE daily[d].usd = Total(DayBills(d))
  BY DEF DaysBalanced
<1>1. DayBills(d) = {}
  BY DEF Init, DayBills
<1>2. Total({}) = 0
  BY SumOfNone DEF Total
<1> QED BY <1>1, <1>2 DEF Init, EmptyDay

\* What /v1/stats reports for today and for yesterday, and what the cap is
\* compared with, is the sum of what CostLogger.record was given for the day
\* (cost_logger.py:154-193): however many requests record at a time, across
\* midnight, and whatever expires meanwhile.
THEOREM LedgerDailyBalanced == Spec => []DailyBalanced
<1>1. CountInv /\ DaysBalanced => DailyBalanced
  <2> SUFFICES ASSUME CountInv, DaysBalanced, NEW d \in Reported
               PROVE  daily[d].usd = Total(DayBills(d))
    BY DEF DailyBalanced, BillsOf, DayBills
  <2>1. now \in Nat /\ d \in Days
    BY LedgerConstants DEF CountInv, TypeOK, Reported
  <2>2. Day(now) \in Nat
    BY <2>1, DayTyped
  <2>3. Current(d)
    BY <2>2 DEF Current, Reported
  <2> QED BY <2>1, <2>3 DEF DaysBalanced
<1> QED BY <1>1, InitCounts, NextCounts, InitDays, NextDays, PTL DEF Spec

----------------------------------------------------------------------------
\* The totals of the sessions.

LEMMA LeastNumber ==
    ASSUME NEW A, A \subseteq Nat, A # {}
    PROVE  \E m \in A : \A y \in A : m <= y
<1> DEFINE R == OpToRel(<, Nat)
<1>1. IsWellFoundedOn(R, Nat)
  BY NatLessThanWellFounded
<1>2. PICK m \in A : \A y \in A : <<y, m>> \notin R
  <2> HIDE DEF R
  <2> QED BY <1>1, WFMin
<1>3. \A y \in A : ~(y < m)
  BY <1>2 DEF OpToRel
<1> QED BY <1>3

LEMMA LargestNumber ==
    ASSUME NEW A, IsFiniteSet(A), A \subseteq Nat, A # {}
    PROVE  \E m \in A : \A y \in A : y <= m
<1> DEFINE T == {n \in Nat : \A S \in SUBSET A :
                   Cardinality(S) = n => S = {} \/ \E m \in S : \A y \in S : y <= m}
<1>1. \A S \in SUBSET A : IsFiniteSet(S) /\ Cardinality(S) \in Nat
  BY FS_Subset, FS_CardinalityType
<1>2. 0 \in T
  BY <1>1, FS_EmptySet
<1>3. ASSUME NEW n \in Nat, n \in T PROVE n + 1 \in T
  <2> SUFFICES ASSUME NEW S \in SUBSET A, Cardinality(S) = n + 1, S # {}
               PROVE  \E m \in S : \A y \in S : y <= m
    OBVIOUS
  <2>1. PICK x : x \in S
    OBVIOUS
  <2>2. S \ {x} \in SUBSET A /\ Cardinality(S \ {x}) = n
    <3>1. IsFiniteSet(S)
      BY <1>1
    <3>2. Cardinality(S \ {x}) = Cardinality(S) - 1
      BY <2>1, <3>1, FS_RemoveElement
    <3>3. S \ {x} \in SUBSET A
      OBVIOUS
    <3> QED BY <3>2, <3>3
  <2>3. S \ {x} = {} \/ \E m \in S \ {x} : \A y \in S \ {x} : y <= m
    BY <1>3, <2>2
  <2>4. CASE S \ {x} = {}
    BY <2>1, <2>4
  <2>5. ASSUME NEW m \in S \ {x}, \A y \in S \ {x} : y <= m
        PROVE  \E k \in S : \A y \in S : y <= k
    <3>0. x \in Nat /\ m \in Nat
      BY <2>1
    <3>1. CASE x <= m
      BY <2>5, <3>1
    <3>2. CASE m < x
      <4>1. ASSUME NEW y \in S PROVE y <= x
        <5>1. CASE y = x
          BY <3>0, <5>1
        <5>2. CASE y # x
          <6>1. y <= m /\ y \in Nat
            BY <2>5, <5>2
          <6> QED BY <3>0, <3>2, <6>1
        <5> QED BY <5>1, <5>2
      <4> QED BY <2>1, <4>1
    <3> QED BY <3>0, <3>1, <3>2
  <2> QED BY <2>3, <2>4, <2>5
<1> HIDE DEF T
<1>4. Nat \subseteq T
  BY <1>2, <1>3, NatSetInduction
<1>5. A \in SUBSET A
  OBVIOUS
<1> QED BY <1>1, <1>4, <1>5 DEF T

LEMMA LeastOf ==
    ASSUME NEW A, A \subseteq Nat, A # {}
    PROVE  Min(A) \in A /\ \A y \in A : Min(A) <= y
BY LeastNumber DEF Min

\* A larger number does not become the least.
LEMMA LeastStays ==
    ASSUME NEW A, A \subseteq Nat, NEW n \in Nat, \A y \in A : y < n
    PROVE  Min(A \cup {n}) = IF A = {} THEN n ELSE Min(A)
<1> DEFINE B == A \cup {n}
<1>1. B \subseteq Nat /\ B # {}
  OBVIOUS
<1>2. Min(B) \in B /\ \A y \in B : Min(B) <= y
  <2> HIDE DEF B
  <2> QED BY <1>1, LeastOf
<1>3. CASE A = {}
  BY <1>2, <1>3
<1>4. CASE A # {}
  <2>1. Min(A) \in A /\ \A y \in A : Min(A) <= y
    BY <1>4, LeastOf
  <2>2. Min(B) = Min(A)
    <3> DEFINE least == Min(B)
               old == Min(A)
    <3>1. /\ least \in B /\ (\A y \in B : least <= y) /\ least \in Nat
          /\ old \in A /\ (\A y \in A : old <= y) /\ old \in Nat
      BY <1>2, <2>1
    <3> HIDE DEF least, old
    <3>2. least <= old /\ least # n
      BY <3>1
    <3>3. old <= least
      BY <3>1, <3>2
    <3>4. least = old
      BY <3>1, <3>2, <3>3
    <3> QED BY <3>4 DEF least, old
  <2> QED BY <1>4, <2>2
<1> QED BY <1>3, <1>4

SessionBills(s) == {i \in DOMAIN bills : bills[i].id = s}

\* The total of the session was alive from this record to its next, or to now.
Followed(i) ==
    IF LaterBills(i) = {} THEN now < bills[i].at + CostTtl
    ELSE bills[Min(LaterBills(i))].at < bills[i].at + CostTtl

Kept(s) == \A i \in SessionBills(s) : Followed(i)

\* The total of a session never silent for CostTtl holds its records, and it
\* expires CostTtl after the last of them.
SessionHolds(s) ==
    /\ cost[s].usd = Total(SessionBills(s))
    /\ \A i \in SessionBills(s) : LaterBills(i) = {} => cost[s].expires = bills[i].at + CostTtl

SessionsHold == \A s \in Ids : Kept(s) => SessionHolds(s)

\* The records after another, before and after a record is added.
LEMMA LaterAfterRecord ==
    ASSUME TypeOK, NEW r \in Requests, WriteRecord(r)
    PROVE  LET n == Len(bills) + 1 IN
           /\ \A i : i = n => LaterBills(i)' = {}
           /\ \A i \in DOMAIN bills :
                 /\ LaterBills(i)' = IF bills[i].id = request[r].id THEN LaterBills(i) \cup {n}
                                     ELSE LaterBills(i)
                 /\ LaterBills(i) \subseteq DOMAIN bills
                 /\ LaterBills(i) # {} => Min(LaterBills(i)) \in LaterBills(i)
                 /\ Min(LaterBills(i) \cup {n}) =
                       IF LaterBills(i) = {} THEN n ELSE Min(LaterBills(i))
<1> DEFINE n == Len(bills) + 1
<1>1. /\ DOMAIN bills' = DOMAIN bills \cup {n} /\ n \notin DOMAIN bills /\ n \in Nat
      /\ \A i \in DOMAIN bills : i \in Nat /\ i < n
      /\ bills'[n].id = request[r].id
      /\ \A i \in DOMAIN bills : bills'[i] = bills[i]
  BY RecordAdds
<1> HIDE DEF n
<1>2. ASSUME NEW i, i = n PROVE LaterBills(i)' = {}
  <2>1. LaterBills(i)' = {j \in DOMAIN bills' : j > i /\ bills'[j].id = bills'[i].id}
    BY DEF LaterBills
  <2>2. \A j \in DOMAIN bills' : ~(j > i)
    BY <1>1, <1>2
  <2> QED BY <2>1, <2>2
<1>3. ASSUME NEW i \in DOMAIN bills
      PROVE  /\ LaterBills(i)' = IF bills[i].id = request[r].id THEN LaterBills(i) \cup {n}
                                 ELSE LaterBills(i)
             /\ LaterBills(i) \subseteq DOMAIN bills
             /\ LaterBills(i) # {} => Min(LaterBills(i)) \in LaterBills(i)
             /\ Min(LaterBills(i) \cup {n}) =
                   IF LaterBills(i) = {} THEN n ELSE Min(LaterBills(i))
  <2>1. LaterBills(i) \subseteq DOMAIN bills
    BY DEF LaterBills
  <2>2. LaterBills(i) \subseteq Nat /\ \A j \in LaterBills(i) : j < n
    BY <1>1, <2>1
  <2>3. LaterBills(i)' = {j \in DOMAIN bills' : j > i /\ bills'[j].id = bills'[i].id}
    BY DEF LaterBills
  <2>4. LaterBills(i)' = IF bills[i].id = request[r].id THEN LaterBills(i) \cup {n}
                         ELSE LaterBills(i)
    BY <1>1, <2>3 DEF LaterBills
  <2> QED BY <1>1, <2>1, <2>2, <2>4, LeastOf, LeastStays
<1> QED BY <1>2, <1>3 DEF n

\* The session that is charged.
LEMMA WriteRecordSession ==
    ASSUME TypeOK, SessionsHold, NEW r \in Requests, WriteRecord(r),
           NEW s \in Ids, s = request[r].id, Kept(s)'
    PROVE  SessionHolds(s)'
<1> DEFINE n == Len(bills) + 1
<1>1. /\ now' = now
      /\ DOMAIN bills' = DOMAIN bills \cup {n} /\ n \notin DOMAIN bills
      /\ bills'[n].id = s /\ bills'[n].at = now
      /\ \A i \in DOMAIN bills : bills'[i] = bills[i]
      /\ \A i : i = n => LaterBills(i)' = {}
      /\ \A i \in DOMAIN bills :
            /\ bills[i].id = s => LaterBills(i)' = LaterBills(i) \cup {n}
            /\ LaterBills(i) \subseteq DOMAIN bills
            /\ LaterBills(i) # {} => Min(LaterBills(i)) \in LaterBills(i)
            /\ Min(LaterBills(i) \cup {n}) =
                  IF LaterBills(i) = {} THEN n ELSE Min(LaterBills(i))
  BY RecordAdds, LaterAfterRecord DEF WriteRecord
<1>2. SessionBills(s) \in SUBSET DOMAIN bills
  BY DEF SessionBills
<1>3. /\ SumFunctionOnSet(Usd', SessionBills(s) \cup {n})
            = request[r].usd + Total(SessionBills(s))
      /\ request[r].usd \in Nat /\ cost[s].usd \in Nat
  BY <1>2, RecordAdds DEF Bills, BillOf, TypeOK
<1>4. /\ cost'[s].usd = cost[s].usd + request[r].usd
      /\ cost'[s].expires = now + CostTtl
  BY DEF WriteRecord, ChargeSession, TypeOK
<1> HIDE DEF n
<1>5. SessionBills(s)' = SessionBills(s) \cup {n}
  BY <1>1 DEF SessionBills
<1>6. Kept(s)
  <2> SUFFICES ASSUME NEW i \in SessionBills(s) PROVE Followed(i)
    BY DEF Kept
  <2>1. i \in DOMAIN bills /\ bills[i].id = s /\ bills'[i] = bills[i]
    BY <1>1 DEF SessionBills
  <2>2. LaterBills(i)' = LaterBills(i) \cup {n}
    BY <1>1, <2>1
  <2>3. Followed(i)'
    BY <1>5 DEF Kept
  <2>4. bills'[Min(LaterBills(i) \cup {n})].at < bills[i].at + CostTtl
    BY <2>1, <2>2, <2>3 DEF Followed
  <2>5. CASE LaterBills(i) = {}
    BY <1>1, <2>1, <2>4, <2>5 DEF Followed
  <2>6. CASE LaterBills(i) # {}
    <3>1. Min(LaterBills(i)) \in DOMAIN bills
      BY <1>1, <2>1, <2>6
    <3> QED BY <1>1, <2>1, <2>4, <2>6, <3>1 DEF Followed
  <2> QED BY <2>5, <2>6
<1>7. cost'[s].usd = SumFunctionOnSet(Usd', SessionBills(s)')
  BY <1>3, <1>4, <1>5, <1>6 DEF SessionsHold, SessionHolds
<1>8. ASSUME NEW i \in SessionBills(s)', LaterBills(i)' = {}
      PROVE  cost'[s].expires = bills'[i].at + CostTtl
  <2>1. CASE i = n
    BY <1>1, <1>4, <2>1
  <2>2. CASE i \in SessionBills(s)
    <3>1. i \in DOMAIN bills /\ bills[i].id = s
      BY <2>2 DEF SessionBills
    <3> QED BY <1>1, <1>8, <3>1
  <2> QED BY <1>5, <2>1, <2>2
<1> QED BY <1>7, <1>8 DEF SessionHolds, Total

\* The other sessions.
LEMMA WriteRecordOthers ==
    ASSUME TypeOK, SessionsHold, NEW r \in Requests, WriteRecord(r),
           NEW s \in Ids, s # request[r].id, Kept(s)'
    PROVE  SessionHolds(s)'
<1> DEFINE n == Len(bills) + 1
<1>1. /\ now' = now
      /\ DOMAIN bills' = DOMAIN bills \cup {n} /\ n \notin DOMAIN bills
      /\ bills'[n].id = request[r].id
      /\ \A i \in DOMAIN bills : bills'[i] = bills[i]
      /\ \A i \in DOMAIN bills :
            /\ bills[i].id = s => LaterBills(i)' = LaterBills(i)
            /\ LaterBills(i) \subseteq DOMAIN bills
            /\ LaterBills(i) # {} => Min(LaterBills(i)) \in LaterBills(i)
  BY RecordAdds, LaterAfterRecord DEF WriteRecord
<1>2. SessionBills(s) \in SUBSET DOMAIN bills
  BY DEF SessionBills
<1>3. SumFunctionOnSet(Usd', SessionBills(s)) = Total(SessionBills(s))
  BY <1>2, RecordAdds
<1>4. cost'[s] = cost[s]
  BY DEF WriteRecord, ChargeSession, TypeOK
<1> HIDE DEF n
<1>5. SessionBills(s)' = SessionBills(s)
  BY <1>1 DEF SessionBills
<1>6. \A i \in SessionBills(s) :
         i \in DOMAIN bills /\ bills'[i] = bills[i] /\ LaterBills(i)' = LaterBills(i)
  BY <1>1 DEF SessionBills
<1>7. Kept(s)
  <2> SUFFICES ASSUME NEW i \in SessionBills(s) PROVE Followed(i)
    BY DEF Kept
  <2>1. Followed(i)'
    BY <1>5 DEF Kept
  <2>2. LaterBills(i) # {} => bills'[Min(LaterBills(i))] = bills[Min(LaterBills(i))]
    BY <1>1, <1>6
  <2> QED BY <1>1, <1>6, <2>1, <2>2 DEF Followed
<1> QED BY <1>3, <1>4, <1>5, <1>6, <1>7 DEF SessionsHold, SessionHolds, Total

\* A session with records has a last one.
LEMMA LastBill ==
    ASSUME TypeOK, NEW s, SessionBills(s) # {}
    PROVE  \E i \in SessionBills(s) : LaterBills(i) = {}
<1>1. IsFiniteSet(SessionBills(s)) /\ SessionBills(s) \subseteq Nat
  <2>1. SessionBills(s) \subseteq DOMAIN bills
    BY DEF SessionBills
  <2>2. bills \in Seq(Bills)
    BY DEF TypeOK
  <2>3. DOMAIN bills \subseteq Nat
    BY <2>2
  <2> QED BY <2>1, <2>3, BillsFinite
<1>2. PICK i \in SessionBills(s) : \A j \in SessionBills(s) : j <= i
  BY <1>1, LargestNumber
<1>3. \A j \in SessionBills(s) : ~(j > i)
  BY <1>1, <1>2
<1>4. LaterBills(i) = {}
  BY <1>3 DEF LaterBills, SessionBills
<1> QED BY <1>4

\* Time passes: a total that expires is that of a session that was silent.
LEMMA TickSessions ==
    ASSUME TypeOK, SessionsHold, Tick, NEW s \in Ids, Kept(s)'
    PROVE  SessionHolds(s)'
<1>1. bills' = bills /\ now' = now + 1 /\ now \in Nat
  BY LedgerConstants DEF Tick, TypeOK
<1>2. SessionBills(s)' = SessionBills(s) /\ \A i : LaterBills(i)' = LaterBills(i)
  BY <1>1 DEF SessionBills, LaterBills
<1>3. \A i \in SessionBills(s) : bills[i].at \in Nat
  BY BillsTyped DEF SessionBills, Bills
<1>4. Kept(s)
  <2> SUFFICES ASSUME NEW i \in SessionBills(s) PROVE Followed(i)
    BY DEF Kept
  <2>1. Followed(i)'
    BY <1>2 DEF Kept
  <2> QED BY <1>1, <1>2, <1>3, <2>1, LedgerConstants DEF Followed
<1>5. SessionHolds(s)
  BY <1>4 DEF SessionsHold
<1>6. cost'[s] = IF cost[s].expires \in 0..(now + 1)
                 THEN [usd |-> 0, expires |-> NoKey] ELSE cost[s]
  BY DEF Tick
<1>7. CASE SessionBills(s) = {}
  <2>1. cost[s].usd = 0
    BY <1>5, <1>7, SumOfNone DEF SessionHolds, Total
  <2>2. cost'[s].usd = 0
    BY <1>6, <2>1
  <2>3. SumFunctionOnSet(Usd', SessionBills(s)') = 0
    BY <1>2, <1>7, SumOfNone
  <2> QED BY <1>2, <1>7, <2>2, <2>3 DEF SessionHolds, Total
<1>8. CASE SessionBills(s) # {}
  <2>1. PICK i \in SessionBills(s) : LaterBills(i) = {}
    BY <1>8, LastBill
  <2>2. cost[s].expires = bills[i].at + CostTtl
    BY <1>5, <2>1 DEF SessionHolds
  <2>3. now + 1 < bills[i].at + CostTtl
    <3>1. Followed(i)'
      BY <1>2 DEF Kept
    <3> QED BY <1>1, <1>2, <2>1, <3>1 DEF Followed
  <2>4. cost'[s] = cost[s]
    <3>1. cost[s].expires \notin 0..(now + 1)
      BY <1>1, <2>2, <2>3
    <3> QED BY <1>6, <3>1
  <2> QED BY <1>1, <1>2, <1>5, <2>4, NothingBilled DEF SessionHolds, Total
<1> QED BY <1>7, <1>8

LEMMA NextSessions == TypeOK /\ SessionsHold /\ [Next]_vars => SessionsHold'
<1> SUFFICES ASSUME TypeOK, SessionsHold, [Next]_vars, NEW s \in Ids, Kept(s)'
             PROVE  SessionHolds(s)'
  BY DEF SessionsHold
<1>1. ASSUME now' = now, bills' = bills, cost' = cost PROVE SessionHolds(s)'
  <2>1. SessionBills(s)' = SessionBills(s) /\ \A i : LaterBills(i)' = LaterBills(i)
    BY <1>1 DEF SessionBills, LaterBills
  <2>2. Kept(s)
    BY <1>1, <2>1 DEF Kept, Followed
  <2> QED BY <1>1, <2>1, <2>2, NothingBilled DEF SessionsHold, SessionHolds, Total
<1>2. CASE UNCHANGED vars
  BY <1>1, <1>2 DEF vars
<1>3. CASE Tick
  BY <1>3, TickSessions
<1>4. ASSUME NEW r \in Requests, WriteRecord(r) PROVE SessionHolds(s)'
  BY <1>4, WriteRecordSession, WriteRecordOthers
<1>5. ASSUME NEW r \in Requests,
             \/ \E kind \in {"create", "translate"} : BeginRequest(r, kind)
             \/ CheckCap(r) \/ StoreSession(r) \/ ExpireSession(r)
             \/ \E usd \in Amounts : TranslateAnswered(r, usd) \/ StreamAnswered(r, usd)
             \/ \E t \in Ids : OpenStream(r, t)
             \/ TranslateUnpaid(r) \/ CloseStream(r) \/ CountSession(r) \/ RequestDies(r)
      PROVE  SessionHolds(s)'
  BY <1>1, <1>5 DEF BeginRequest, CheckCap, StoreSession, ExpireSession, TranslateAnswered,
     StreamAnswered, OpenStream, TranslateUnpaid, CloseStream, CountSession, RequestDies, redis
<1> QED BY <1>2, <1>3, <1>4, <1>5 DEF Next

LEMMA InitSessions == Init => SessionsHold
<1> SUFFICES ASSUME Init, NEW s \in Ids PROVE SessionHolds(s)
  BY DEF SessionsHold
<1>1. SessionBills(s) = {}
  BY DEF Init, SessionBills
<1>2. Total({}) = 0
  BY SumOfNone DEF Total
<1> QED BY <1>1, <1>2 DEF Init, SessionHolds

\* A session whose records follow one another within session_ttl_seconds + 600
\* has all of them in session:{id}:cost (cost_logger.py:169-173): no record of
\* another request overwrites one, and the key does not expire between them.
THEOREM LedgerSessionBalanced == Spec => []SessionBalanced
<1>1. SessionsHold => SessionBalanced
  <2> SUFFICES ASSUME SessionsHold, NEW s \in Ids,
                      \A i \in SessionBills(s) :
                         IF LaterBills(i) = {} THEN now < bills[i].at + CostTtl
                         ELSE bills[Min(LaterBills(i))].at < bills[i].at + CostTtl
               PROVE  cost[s].usd = Total(SessionBills(s))
    BY DEF SessionBalanced, BillsOf, SessionBills
  <2>1. Kept(s)
    BY DEF Kept, Followed
  <2> QED BY <2>1 DEF SessionsHold, SessionHolds
<1> QED BY <1>1, InitTyped, StepTyped, InitSessions, NextSessions, PTL DEF Spec

----------------------------------------------------------------------------
\* The cap.

LEMMA LargestOf ==
    ASSUME NEW A, IsFiniteSet(A), A \subseteq Nat, A # {}
    PROVE  Max(A) \in A /\ \A y \in A : y <= Max(A)
BY LargestNumber DEF Max

Dearest == Max(Amounts)

LEMMA DearestTyped == Dearest \in Nat /\ \A usd \in Amounts \cup {0} : usd <= Dearest
<1>1. Dearest \in Amounts /\ \A usd \in Amounts : usd <= Dearest
  BY LargestOf, LedgerConstants DEF Dearest
<1> QED BY <1>1, LedgerConstants

TranslateBills(d) == {i \in DOMAIN bills : bills[i].day = d /\ bills[i].kind = "translate"}

\* The handler q may still be charged to day d although the check it passed,
\* if any, has not seen what the day has now.
MayCharge(q, d) ==
    /\ q.kind = "translate"
    /\ \/ q.pc = "Recording" /\ Day(q.stamp) = d
       \/ q.pc = "Admitted" /\ d = Day(now)
       \/ q.pc = "Checking" /\ d = Day(now) /\ Day(q.stamp) # d

Pending(d) == {r \in Requests : MayCharge(request[r], d)}

\* What the translations of a day that has begun have cost, and what those
\* that got past the cap may still cost.
CapHolds(d) ==
    /\ Total(TranslateBills(d)) <= Total(DayBills(d))
    /\ d <= Day(now) =>
          Total(TranslateBills(d)) + Dearest * Cardinality(Pending(d))
              <= Cap - 1 + Dearest * Cardinality(Requests)
    /\ d > Day(now) => DayBills(d) = {}

CapInv ==
    /\ \A r \in Requests : request[r].pc = "Streaming" => request[r].kind = "stream"
    /\ Cap > 0 => \A d \in Days : CapHolds(d)

LEMMA TimesMore ==
    ASSUME NEW m \in Nat, NEW n \in Nat, NEW k \in Nat, n <= k
    PROVE  /\ m * n \in Nat /\ m * n <= m * k
           /\ m * (n + 1) = m * n + m
<1>1. m * n \in Nat
  BY Z3
<1>2. m * (n + 1) = m * n + m
  BY Z3
<1>3. m * n <= m * k
  <2>1. PICK j \in Nat : k = n + j
    <3>1. k - n \in Nat /\ k = n + (k - n)
      OBVIOUS
    <3> QED BY <3>1
  <2>2. m * k = m * n + m * j /\ m * j >= 0 /\ m * n \in Nat /\ m * j \in Nat
    BY <2>1, Z3
  <2> QED BY <2>2
<1> QED BY <1>1, <1>2, <1>3

LEMMA PendingTyped ==
    ASSUME NEW d
    PROVE  /\ IsFiniteSet(Pending(d)) /\ Cardinality(Pending(d)) \in Nat
           /\ Cardinality(Requests) \in Nat
           /\ Cardinality(Pending(d)) <= Cardinality(Requests)
<1>1. Pending(d) \subseteq Requests
  BY DEF Pending
<1> QED BY <1>1, LedgerConstants, FS_Subset, FS_CardinalityType

\* A step that records nothing keeps the bound of a day that has begun if no
\* request becomes pending, or if the day was below the cap.
LEMMA NoneRecorded ==
    ASSUME TypeOK, TypeOK', NEW d \in Days, CapHolds(d), Cap > 0, bills' = bills,
           now' \in {now, now + 1},
           \/ d <= Day(now) /\ Pending(d)' \subseteq Pending(d)
           \/ Total(DayBills(d)) <= Cap - 1
    PROVE  CapHolds(d)'
<1>1. /\ DayBills(d)' = DayBills(d) /\ TranslateBills(d)' = TranslateBills(d)
      /\ SumFunctionOnSet(Usd', DayBills(d)) = Total(DayBills(d))
      /\ SumFunctionOnSet(Usd', TranslateBills(d)) = Total(TranslateBills(d))
  BY NothingBilled DEF DayBills, TranslateBills
<1>2. /\ Total(DayBills(d)) \in Nat /\ Total(TranslateBills(d)) \in Nat
  BY BillsFinite DEF DayBills, TranslateBills
<1> DEFINE p == Cardinality(Pending(d))
           k == Cardinality(Pending(d)')
           all == Cardinality(Requests)
<1>3. IsFiniteSet(Pending(d)) /\ p \in Nat /\ all \in Nat
  BY PendingTyped
<1>4. k \in Nat /\ k <= all
  <2>1. Pending(d)' \subseteq Requests
    BY DEF Pending
  <2> QED BY <2>1, LedgerConstants, FS_Subset, FS_CardinalityType
<1>5. /\ Dearest \in Nat /\ Cap \in Nat
      /\ Dearest * p \in Nat /\ Dearest * k \in Nat /\ Dearest * all \in Nat
      /\ Dearest * k <= Dearest * all
  <2>1. Dearest \in Nat /\ Cap \in Nat
    BY DearestTyped, LedgerConstants
  <2> HIDE DEF p, k, all
  <2> QED BY <1>3, <1>4, <2>1, TimesMore
<1>6. d \in Nat /\ Day(now) \in Nat /\ Day(now') \in Nat /\ Day(now) <= Day(now')
  <2>1. now \in Nat /\ now' \in Nat /\ now <= now' /\ d \in Nat
    BY LedgerConstants, DayTyped DEF TypeOK, Days
  <2> QED BY <2>1, DayTyped, DayMonotone
<1>7. d <= Day(now') => Total(TranslateBills(d)) + Dearest * k <= Cap - 1 + Dearest * all
  <2>1. CASE d <= Day(now) /\ Pending(d)' \subseteq Pending(d)
    <3>1. k <= p
      BY <1>3, <2>1, FS_Subset
    <3>2. Dearest * k <= Dearest * p
      <4> HIDE DEF p, k, all
      <4> QED BY <1>3, <1>4, <1>5, <3>1, TimesMore
    <3>3. Total(TranslateBills(d)) + Dearest * p <= Cap - 1 + Dearest * all
      BY <2>1 DEF CapHolds
    <3> HIDE DEF p, k, all
    <3> QED BY <1>2, <1>5, <3>2, <3>3
  <2>2. CASE Total(DayBills(d)) <= Cap - 1
    <3>1. Total(TranslateBills(d)) <= Cap - 1
      BY <1>2, <1>5, <2>2 DEF CapHolds
    <3> HIDE DEF p, k, all
    <3> QED BY <1>2, <1>5, <3>1
  <2> QED BY <2>1, <2>2
<1>8. d > Day(now') => DayBills(d) = {}
  BY <1>6 DEF CapHolds
<1>9. Total(TranslateBills(d)) <= Total(DayBills(d))
  BY DEF CapHolds
<1>10. CapHolds(d)' =
         /\ SumFunctionOnSet(Usd', TranslateBills(d)') <= SumFunctionOnSet(Usd', DayBills(d)')
         /\ d <= Day(now') =>
               SumFunctionOnSet(Usd', TranslateBills(d)') + Dearest * k <= Cap - 1 + Dearest * all
         /\ d > Day(now') => DayBills(d)' = {}
  BY DEF CapHolds, Total, Day
<1> HIDE DEF p, k, all
<1> QED BY <1>1, <1>7, <1>8, <1>9, <1>10

\* A handler that moves on without time passing or anything being recorded.
LEMMA OneMovesCap ==
    ASSUME TypeOK, TypeOK', CapInv, Cap > 0, NEW r \in Requests, NEW q,
           now' = now, bills' = bills, request' = [request EXCEPT ![r] = q],
           NEW d \in Days, MayCharge(q, d) => MayCharge(request[r], d)
    PROVE  CapHolds(d)'
<1>1. \A t \in Requests : request'[t] = IF t = r THEN q ELSE request[t]
  BY DEF TypeOK
<1>2. Pending(d)' \subseteq Pending(d)
  BY <1>1 DEF Pending, MayCharge, Day
<1>3. CapHolds(d)
  BY DEF CapInv
<1>4. d > Day(now) => Total(DayBills(d)) <= Cap - 1
  <2> SUFFICES ASSUME d > Day(now) PROVE Total(DayBills(d)) <= Cap - 1
    OBVIOUS
  <2>1. Total(DayBills(d)) = 0
    BY <1>3, SumOfNone DEF CapHolds, Total
  <2> QED BY <2>1, LedgerConstants
<1>5. d <= Day(now) \/ d > Day(now)
  <2>1. now \in Nat /\ d \in Nat
    BY LedgerConstants, DayTyped DEF TypeOK, Days
  <2>2. Day(now) \in Nat
    BY <2>1, DayTyped
  <2> QED BY <2>1, <2>2
<1> QED BY <1>2, <1>3, <1>4, <1>5, NoneRecorded

\* Steps after which a handler may be charged to no day it could not be
\* charged to before.
Harmless(r, q) ==
    /\ now' = now /\ bills' = bills /\ request' = [request EXCEPT ![r] = q]
    /\ q.pc = "Streaming" => q.kind = "stream"
    /\ Cap > 0 => \A d : MayCharge(q, d) => MayCharge(request[r], d)

LEMMA HarmlessCap ==
    ASSUME TypeOK, TypeOK', CapInv, NEW r \in Requests, NEW q, Harmless(r, q)
    PROVE  CapInv'
<1>1. \A t \in Requests : request'[t] = IF t = r THEN q ELSE request[t]
  BY DEF TypeOK, Harmless
<1>2. \A t \in Requests : request'[t].pc = "Streaming" => request'[t].kind = "stream"
  BY <1>1 DEF CapInv, Harmless
<1>3. ASSUME Cap > 0, NEW d \in Days PROVE CapHolds(d)'
  BY <1>3, OneMovesCap DEF Harmless
<1> QED BY <1>2, <1>3 DEF CapInv

\* A handler that ends, or goes back to its stream.
LEMMA LeavesHarmless ==
    ASSUME TypeOK, NEW r \in Requests, now' = now, bills' = bills,
           \/ Ends(r) \/ Returns(r)
           \/ \E s : Streams(r, s)
    PROVE  \E q : Harmless(r, q)
<1>1. Idle.kind = "none" /\ Idle.pc = "Idle"
  BY DEF Idle
<1>2. ASSUME Ends(r) PROVE \E q : Harmless(r, q)
  <2>1. Harmless(r, Idle)
    BY <1>1, <1>2 DEF Ends, Harmless, MayCharge
  <2> QED BY <2>1
<1>3. ASSUME NEW s, Streams(r, s) PROVE \E q : Harmless(r, q)
  <2> DEFINE q == [Idle EXCEPT !.pc = "Streaming", !.kind = "stream", !.id = s]
  <2>1. q.kind = "stream"
    BY DEF Idle
  <2>2. request' = [request EXCEPT ![r] = q]
    BY <1>3 DEF Streams
  <2> HIDE DEF q
  <2>3. Harmless(r, q)
    BY <2>1, <2>2 DEF Harmless, MayCharge
  <2> QED BY <2>3
<1> QED BY <1>2, <1>3 DEF Returns

LEMMA HarmlessSteps ==
    ASSUME TypeOK, CapInv, NEW r \in Requests,
           \/ \E kind \in {"create", "translate"} : BeginRequest(r, kind)
           \/ StoreSession(r) \/ ExpireSession(r)
           \/ \E usd \in Amounts : TranslateAnswered(r, usd) \/ StreamAnswered(r, usd)
           \/ \E s \in Ids : OpenStream(r, s)
           \/ TranslateUnpaid(r) \/ CloseStream(r) \/ CountSession(r) \/ RequestDies(r)
    PROVE  \E q : Harmless(r, q)
<1>1. request[r] \in Handlers /\ Idle \in Handlers
  BY IdleIsHandler DEF TypeOK
<1>2. ASSUME NEW kind \in {"create", "translate"}, BeginRequest(r, kind)
      PROVE  \E q : Harmless(r, q)
  <2> DEFINE q == [Idle EXCEPT !.pc = IF Cap = 0 THEN "Admitted" ELSE "Checking",
                               !.kind = kind, !.stamp = now]
  <2>1. /\ q.pc # "Streaming" /\ q.stamp = now
        /\ Cap > 0 => q.pc = "Checking"
    BY <1>1, LedgerConstants DEF Handlers
  <2>2. now' = now /\ bills' = bills /\ request' = [request EXCEPT ![r] = q]
    BY <1>2 DEF BeginRequest
  <2> HIDE DEF q
  <2>3. Harmless(r, q)
    BY <2>1, <2>2 DEF Harmless, MayCharge
  <2> QED BY <2>3
<1>3. CASE StoreSession(r)
  <2> DEFINE q == [request[r] EXCEPT !.pc = "Expiring", !.id = ids + 1]
  <2>1. q.pc = "Expiring"
    BY <1>1 DEF Handlers
  <2>2. now' = now /\ bills' = bills /\ request' = [request EXCEPT ![r] = q]
    BY <1>3 DEF StoreSession
  <2> HIDE DEF q
  <2>3. Harmless(r, q)
    BY <2>1, <2>2 DEF Harmless, MayCharge
  <2> QED BY <2>3
<1>4. ASSUME NEW usd \in Amounts, TranslateAnswered(r, usd) \/ StreamAnswered(r, usd)
      PROVE  \E q : Harmless(r, q)
  <2>1. PICK id : Charges(r, id, usd)
    BY <1>4 DEF TranslateAnswered, StreamAnswered
  <2> DEFINE q == [request[r] EXCEPT !.pc = "Recording", !.id = id, !.usd = usd, !.stamp = now]
  <2>2. q.pc = "Recording" /\ q.stamp = now /\ q.kind = request[r].kind
    BY <1>1 DEF Handlers
  <2>3. now' = now /\ bills' = bills /\ request' = [request EXCEPT ![r] = q]
    <3>1. now' = now /\ bills' = bills
      BY <1>4 DEF TranslateAnswered, StreamAnswered
    <3> QED BY <2>1, <3>1 DEF Charges
  <2>4. request[r].pc = "Admitted" \/ request[r].kind = "stream"
    BY <1>4 DEF TranslateAnswered, StreamAnswered, CapInv
  <2> HIDE DEF q
  <2>5. Harmless(r, q)
    BY <2>2, <2>3, <2>4 DEF Harmless, MayCharge
  <2> QED BY <2>5
<1>5. ASSUME NEW s \in Ids, OpenStream(r, s) PROVE \E q : Harmless(r, q)
  BY <1>5, LeavesHarmless DEF OpenStream
<1>6. CASE ExpireSession(r) \/ TranslateUnpaid(r) \/ CloseStream(r) \/ CountSession(r)
           \/ RequestDies(r)
  BY <1>6, LeavesHarmless
     DEF ExpireSession, TranslateUnpaid, CloseStream, CountSession, RequestDies
<1> QED BY <1>2, <1>3, <1>4, <1>5, <1>6

\* The check of the cap: a request it lets through found the day below the cap.
LEMMA CheckCapCap ==
    ASSUME CountInv, TypeOK', DaysBalanced, CapInv, NEW r \in Requests, CheckCap(r)
    PROVE  CapInv'
<1>1. TypeOK /\ now' = now /\ bills' = bills /\ request[r] \in Handlers
      /\ request[r].pc = "Checking"
  BY DEF CountInv, CheckCap, TypeOK
<1>2. CASE Ends(r)
  BY <1>1, <1>2, LeavesHarmless, HarmlessCap
<1>3. CASE ~ReachesCap(daily[Day(request[r].stamp)].usd)
           /\ request' = [request EXCEPT ![r].pc = "Admitted", ![r].stamp = 0]
  <2> DEFINE q == [request[r] EXCEPT !.pc = "Admitted", !.stamp = 0]
  <2>1. q.pc = "Admitted" /\ q.kind = request[r].kind
    BY <1>1 DEF Handlers
  <2>2. request' = [request EXCEPT ![r] = q]
    BY <1>1, <1>3 DEF TypeOK
  <2> HIDE DEF q
  <2>3. \A t \in Requests : request'[t] = IF t = r THEN q ELSE request[t]
    BY <1>1, <2>2 DEF TypeOK
  <2>4. \A t \in Requests : request'[t].pc = "Streaming" => request'[t].kind = "stream"
    BY <2>1, <2>3 DEF CapInv
  <2>5. ASSUME Cap > 0, NEW d \in Days PROVE CapHolds(d)'
    <3>1. CASE MayCharge(q, d) => MayCharge(request[r], d)
      BY <1>1, <2>2, <2>5, <3>1, OneMovesCap
    <3>2. CASE MayCharge(q, d) /\ ~MayCharge(request[r], d)
      <4>1. d = Day(now) /\ Day(request[r].stamp) = d
        BY <1>1, <2>1, <3>2 DEF MayCharge
      <4>2. d \in Nat /\ Current(d)
        <5>1. d \in Nat
          BY LedgerConstants, DayTyped DEF Days
        <5> QED BY <4>1, <5>1 DEF Current
      <4>3. daily[d].usd = Total(DayBills(d)) /\ daily[d].usd \in Nat
        BY <1>1, <4>2 DEF DaysBalanced, TypeOK
      <4>4. Total(DayBills(d)) <= Cap - 1
        BY <1>3, <4>1, <4>3, LedgerConstants DEF ReachesCap
      <4> QED BY <1>1, <2>5, <4>4, NoneRecorded DEF CapInv
    <3> QED BY <3>1, <3>2
  <2> QED BY <2>4, <2>5 DEF CapInv
<1> QED BY <1>2, <1>3 DEF CheckCap

\* A record: what was pending is spent.
LEMMA WriteRecordCap ==
    ASSUME CountInv, TypeOK', CapInv, NEW r \in Requests, WriteRecord(r)
    PROVE  CapInv'
<1> DEFINE n == Len(bills) + 1
           e == Day(request[r].stamp)
           usd == request[r].usd
<1>1. /\ TypeOK /\ now' = now /\ request[r] \in Handlers /\ request[r].pc = "Recording"
      /\ now \in Nat /\ request[r].stamp \in Nat /\ request[r].stamp <= now
  BY StampTyped DEF CountInv, WriteRecord
<1>2. PICK q : /\ \/ q.pc = "Idle" \/ q.pc = "Counting"
                  \/ q.pc = "Streaming" /\ q.kind = "stream"
               /\ request' = [request EXCEPT ![r] = q]
  <2>1. CASE Goes(r, "Counting")
    <3> DEFINE q == [request[r] EXCEPT !.pc = "Counting"]
    <3>1. q.pc = "Counting" /\ request' = [request EXCEPT ![r] = q]
      BY <1>1, <2>1 DEF Handlers, Goes, TypeOK
    <3> HIDE DEF q
    <3> QED BY <3>1
  <2>2. CASE Streams(r, request[r].id)
    <3> DEFINE q == [Idle EXCEPT !.pc = "Streaming", !.kind = "stream", !.id = request[r].id]
    <3>1. q.pc = "Streaming" /\ q.kind = "stream" /\ request' = [request EXCEPT ![r] = q]
      BY <2>2 DEF Streams, Idle
    <3> HIDE DEF q
    <3> QED BY <3>1
  <2>3. CASE Ends(r)
    <3>1. Idle.pc = "Idle"
      BY DEF Idle
    <3> QED BY <2>3, <3>1 DEF Ends
  <2> QED BY <2>1, <2>2, <2>3 DEF WriteRecord, Returns
<1>3. \A t \in Requests : request'[t] = IF t = r THEN q ELSE request[t]
  BY <1>1, <1>2 DEF TypeOK
<1>4. \A t \in Requests : request'[t].pc = "Streaming" => request'[t].kind = "stream"
  BY <1>2, <1>3 DEF CapInv
<1>5. /\ DOMAIN bills' = DOMAIN bills \cup {n} /\ n \notin DOMAIN bills
      /\ bills'[n].day = e /\ bills'[n].kind = request[r].kind
      /\ \A i \in DOMAIN bills : bills'[i] = bills[i]
      /\ \A S \in SUBSET DOMAIN bills :
            /\ SumFunctionOnSet(Usd', S) = Total(S)
            /\ SumFunctionOnSet(Usd', S \cup {n}) = usd + Total(S)
  BY <1>1, RecordAdds
<1>6. usd \in Nat /\ usd <= Dearest
  <2>1. usd \in Amounts \cup {0}
    BY <1>1 DEF Handlers
  <2> HIDE DEF usd
  <2> QED BY <2>1, DearestTyped, LedgerConstants
<1>7. e \in Nat /\ Day(now) \in Nat /\ e <= Day(now)
  BY <1>1, DayTyped, DayMonotone
<1> HIDE DEF n, usd
<1>8. ASSUME Cap > 0, NEW d \in Days PROVE CapHolds(d)'
  <2> DEFINE p == Cardinality(Pending(d))
             k == Cardinality(Pending(d)')
             all == Cardinality(Requests)
             T == Total(TranslateBills(d))
             D == Total(DayBills(d))
             T2 == SumFunctionOnSet(Usd', TranslateBills(d)')
             D2 == SumFunctionOnSet(Usd', DayBills(d)')
  <2>1. /\ DayBills(d) \in SUBSET DOMAIN bills /\ TranslateBills(d) \in SUBSET DOMAIN bills
        /\ T \in Nat /\ D \in Nat
    BY <1>1, BillsFinite DEF DayBills, TranslateBills
  <2>2. D2 = IF d = e THEN usd + D ELSE D
    <3>1. DayBills(d)' = IF d = e THEN DayBills(d) \cup {n} ELSE DayBills(d)
      <4> HIDE DEF e
      <4> QED BY <1>5 DEF DayBills
    <3> HIDE DEF e
    <3> QED BY <1>5, <2>1, <3>1
  <2>3. T2 = IF d = e /\ request[r].kind = "translate" THEN usd + T ELSE T
    <3>1. TranslateBills(d)' = IF d = e /\ request[r].kind = "translate"
                               THEN TranslateBills(d) \cup {n} ELSE TranslateBills(d)
      <4> HIDE DEF e
      <4> QED BY <1>5 DEF TranslateBills
    <3> HIDE DEF e
    <3> QED BY <1>5, <2>1, <3>1
  <2>4. CapHolds(d)
    BY <1>8 DEF CapInv
  <2>5. Pending(d)' = Pending(d) \ {r}
    BY <1>1, <1>2, <1>3 DEF Pending, MayCharge, Day
  <2>6. /\ IsFiniteSet(Pending(d)) /\ p \in Nat /\ all \in Nat
        /\ Dearest \in Nat /\ Cap \in Nat
    BY PendingTyped, DearestTyped, LedgerConstants
  <2>7. k \in Nat /\ k <= p
    <3>1. Pending(d)' \subseteq Pending(d)
      BY <2>5
    <3> QED BY <2>6, <3>1, FS_Subset, FS_CardinalityType
  <2>8. ASSUME d = e, request[r].kind = "translate" PROVE p = k + 1
    <3>1. r \in Pending(d)
      BY <1>1, <2>8 DEF Pending, MayCharge
    <3>2. k = p - 1
      BY <2>5, <2>6, <3>1, FS_RemoveElement
    <3> HIDE DEF p, k
    <3> QED BY <2>6, <2>7, <3>2
  <2>9. /\ T <= D
        /\ d <= Day(now) => T + Dearest * p <= Cap - 1 + Dearest * all
        /\ d > Day(now) => DayBills(d) = {}
    BY <2>4 DEF CapHolds
  <2>10. CapHolds(d)' = /\ T2 <= D2
                        /\ d <= Day(now) => T2 + Dearest * k <= Cap - 1 + Dearest * all
                        /\ d > Day(now) => DayBills(d)' = {}
    BY <1>1 DEF CapHolds, Total, Day
  <2>11. d > Day(now) => DayBills(d)' = {}
    <3> SUFFICES ASSUME d > Day(now) PROVE DayBills(d)' = {}
      OBVIOUS
    <3>1. d # e
      BY <1>7
    <3>2. DayBills(d) = {}
      BY <2>9
    <3> HIDE DEF e
    <3> QED BY <1>5, <3>1, <3>2 DEF DayBills
  <2> HIDE DEF p, k, all, T, D, T2, D2, e
  <2>12. T2 <= D2
    BY <1>6, <2>1, <2>2, <2>3, <2>9
  <2>13. /\ Dearest * p \in Nat /\ Dearest * k \in Nat /\ Dearest * all \in Nat
         /\ Dearest * k <= Dearest * p
         /\ Dearest * (k + 1) = Dearest * k + Dearest
    BY <2>6, <2>7, TimesMore
  <2>14. ASSUME d <= Day(now) PROVE T2 + Dearest * k <= Cap - 1 + Dearest * all
    <3>1. T + Dearest * p <= Cap - 1 + Dearest * all
      BY <2>9, <2>14
    <3>2. CASE d = e /\ request[r].kind = "translate"
      <4>1. T2 = usd + T /\ Dearest * p = Dearest * k + Dearest
        BY <2>3, <2>8, <2>13, <3>2
      <4> QED BY <1>6, <2>1, <2>6, <2>13, <3>1, <4>1
    <3>3. CASE ~(d = e /\ request[r].kind = "translate")
      <4>1. T2 = T
        BY <2>3, <3>3
      <4> QED BY <2>1, <2>6, <2>13, <3>1, <4>1
    <3> QED BY <3>2, <3>3
  <2> QED BY <2>10, <2>11, <2>12, <2>14
<1> QED BY <1>4, <1>8 DEF CapInv

\* Midnight: every request may be charged to the new day, which has no record.
LEMMA TickCap ==
    ASSUME TypeOK, TypeOK', CapInv, Tick
    PROVE  CapInv'
<1>1. now' = now + 1 /\ bills' = bills /\ request' = request /\ now \in Nat
  BY LedgerConstants DEF Tick, TypeOK
<1>2. ASSUME Cap > 0, NEW d \in Days PROVE CapHolds(d)'
  <2>1. CapHolds(d)
    BY <1>2 DEF CapInv
  <2>2. d \in Nat /\ Day(now) \in Nat /\ Day(now') \in Nat /\ Day(now) <= Day(now')
    <3>1. d \in Nat
      BY LedgerConstants, DayTyped DEF Days
    <3>2. now' \in Nat /\ now <= now'
      BY <1>1
    <3> QED BY <1>1, <3>1, <3>2, DayTyped, DayMonotone
  <2>3. CASE d <= Day(now)
    <3>1. Pending(d)' = {t \in Requests : MayCharge(request[t], d)'}
      BY <1>1 DEF Pending
    <3>2. ASSUME NEW t \in Requests, MayCharge(request[t], d)'
          PROVE  MayCharge(request[t], d)
      <4>1. d = Day(now') => d = Day(now)
        BY <2>2, <2>3
      <4> QED BY <1>1, <3>2, <4>1 DEF MayCharge, Day
    <3>3. Pending(d)' \subseteq Pending(d)
      BY <3>1, <3>2 DEF Pending
    <3> QED BY <1>1, <1>2, <2>1, <2>3, <3>3, NoneRecorded
  <2>4. CASE d > Day(now)
    <3>1. Total(DayBills(d)) = 0
      BY <2>1, <2>4, SumOfNone DEF CapHolds, Total
    <3>2. Total(DayBills(d)) <= Cap - 1
      BY <1>2, <3>1, LedgerConstants
    <3> QED BY <1>1, <1>2, <2>1, <3>2, NoneRecorded
  <2> QED BY <2>2, <2>3, <2>4
<1> QED BY <1>1, <1>2 DEF CapInv

LEMMA NextCap == CountInv /\ DaysBalanced /\ CapInv /\ [Next]_vars => CapInv'
<1> SUFFICES ASSUME CountInv, DaysBalanced, CapInv, [Next]_vars PROVE CapInv'
  OBVIOUS
<1>1. TypeOK /\ TypeOK'
  BY StepTyped DEF CountInv
<1>2. CASE UNCHANGED vars
  <2>1. UNCHANGED <<now, request, bills>>
    BY <1>2 DEF vars
  <2>2. Usd' = Usd
    BY <2>1 DEF Usd
  <2>3. \A d : DayBills(d)' = DayBills(d) /\ TranslateBills(d)' = TranslateBills(d)
    BY <2>1 DEF DayBills, TranslateBills
  <2>4. \A d : Pending(d)' = Pending(d)
    BY <2>1 DEF Pending, MayCharge, Day
  <2> QED BY <2>1, <2>2, <2>3, <2>4 DEF CapInv, CapHolds, Total, Day
<1>3. CASE Tick
  BY <1>1, <1>3, TickCap
<1>4. ASSUME NEW r \in Requests, CheckCap(r) PROVE CapInv'
  BY <1>1, <1>4, CheckCapCap
<1>5. ASSUME NEW r \in Requests, WriteRecord(r) PROVE CapInv'
  BY <1>1, <1>5, WriteRecordCap
<1>6. ASSUME NEW r \in Requests,
             \/ \E kind \in {"create", "translate"} : BeginRequest(r, kind)
             \/ StoreSession(r) \/ ExpireSession(r)
             \/ \E usd \in Amounts : TranslateAnswered(r, usd) \/ StreamAnswered(r, usd)
             \/ \E s \in Ids : OpenStream(r, s)
             \/ TranslateUnpaid(r) \/ CloseStream(r) \/ CountSession(r) \/ RequestDies(r)
      PROVE  CapInv'
  BY <1>1, <1>6, HarmlessSteps, HarmlessCap
<1> QED BY <1>2, <1>3, <1>4, <1>5, <1>6 DEF Next

LEMMA InitCap == Init => CapInv
<1> SUFFICES ASSUME Init PROVE CapInv
  OBVIOUS
<1>1. \A t \in Requests : request[t].pc = "Idle"
  BY DEF Init, Idle
<1>2. ASSUME Cap > 0, NEW d \in Days PROVE CapHolds(d)
  <2>1. DayBills(d) = {} /\ TranslateBills(d) = {}
    BY DEF Init, DayBills, TranslateBills
  <2>2. Pending(d) = {}
    BY <1>1 DEF Pending, MayCharge
  <2>3. Total({}) = 0 /\ Cardinality({}) = 0
    BY SumOfNone, FS_EmptySet DEF Total
  <2>4. Cardinality(Requests) \in Nat /\ Cap \in Nat /\ Dearest \in Nat
    BY LedgerConstants, DearestTyped, FS_CardinalityType
  <2>5. Dearest * Cardinality(Requests) \in Nat /\ Dearest * 0 = 0
    BY <2>4, TimesMore, Z3
  <2> QED BY <1>2, <2>1, <2>2, <2>3, <2>4, <2>5 DEF CapHolds
<1> QED BY <1>1, <1>2 DEF CapInv

\* enforce_daily_cap reads the bucket before the OpenAI call whose cost it is
\* to limit (cost_logger.py:228-246, translate.py:95-123): the translations of
\* a day cost less than the cap and the dearest response once for each request
\* the server handles at a time, also when the check was made the day before.
THEOREM LedgerOvershootBounded == Spec => []OvershootBounded
<1>1. TypeOK /\ CapInv => OvershootBounded
  <2> SUFFICES ASSUME TypeOK, CapInv, Cap > 0, NEW d \in Days
               PROVE  Total(TranslateBills(d)) <= Cap - 1 + Dearest * Cardinality(Requests)
    BY DEF OvershootBounded, BillsOf, TranslateBills, Dearest
  <2>1. CapHolds(d)
    BY DEF CapInv
  <2>2. Total(TranslateBills(d)) \in Nat /\ Total(DayBills(d)) \in Nat
    BY BillsFinite DEF TranslateBills, DayBills
  <2>3. /\ Dearest * Cardinality(Pending(d)) \in Nat
        /\ Dearest * Cardinality(Requests) \in Nat /\ Cap \in Nat
    BY PendingTyped, DearestTyped, TimesMore, LedgerConstants
  <2>4. CASE d <= Day(now)
    BY <2>1, <2>2, <2>3, <2>4 DEF CapHolds
  <2>5. CASE d > Day(now)
    <3>1. Total(DayBills(d)) = 0
      BY <2>1, <2>5, SumOfNone DEF CapHolds, Total
    <3> QED BY <2>1, <2>2, <2>3, <3>1 DEF CapHolds
  <2>6. d <= Day(now) \/ d > Day(now)
    <3>1. now \in Nat /\ d \in Nat
      BY LedgerConstants, DayTyped DEF TypeOK, Days
    <3>2. Day(now) \in Nat
      BY <3>1, DayTyped
    <3> QED BY <3>1, <3>2
  <2> QED BY <2>4, <2>5, <2>6
<1>2. CountInv => TypeOK
  BY DEF CountInv
<1> QED BY <1>1, <1>2, InitCounts, NextCounts, InitDays, NextDays, InitCap, NextCap, PTL DEF Spec
=============================================================================

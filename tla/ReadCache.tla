------------------------------ MODULE ReadCache ------------------------------
(***************************************************************************)
(* The read caches of one server process and one business: reports with    *)
(* their last good answer (backend/app/routers/reports_trade.py) and lists *)
(* kept in app_cache (services/app_cache.py; purchases, stock, catalog),   *)
(* with the generation counter that writers bump                           *)
(* (read_cache_generation.py).                                             *)
(*                                                                         *)
(* The data is a version number, counted up by every commit.  A report     *)
(* reads it in one statement here; a request is a cache look-up, a read,   *)
(* and storing the result, with other requests in between.                 *)
(***************************************************************************)
EXTENDS Integers, Sequences

CONSTANTS
    Readers, Writers,
    Places,         \* the caches in use, of "report" and "list"
    WriteKinds,     \* the writes in use, of "purchase", "movement", "contact"
    Ttl,            \* the caches' time to live
    Budget,         \* run_read_budget_bounded: when a report gives up
    MaxWrites,      \* bound: writes that begin
    MaxTime,        \* bound: ticks of the clock
    None

VARIABLES
    version,        \* how many writes are committed
    generation,     \* _by_business of read_cache_generation
    cache,          \* entries by place and generation
    lastGood,       \* _trade_dashboard_last_good, by generation
    reader,         \* the request each reader serves
    writer,
    answer,         \* the answer given by the latest step, if any
    announced,      \* the newest version whose writer was answered
    now,
    writes,
    kinds           \* history: the kinds of writes so far

vars == <<version, generation, cache, lastGood, reader, writer, answer, announced, now,
          writes, kinds>>

(* Reports keep an entry for each generation and are never flushed; lists are *)
(* keyed the same way and flushed.                                            *)
Generations == 0..MaxWrites
Reading == [place : Places, key : Generations, since : Nat, floor : Nat,
            value : Nat \union {None}, readAt : Nat]
Entry == [value : Nat, readAt : Nat, storedAt : Nat]
Answer == [place : Places, value : Nat, floor : Nat, readAt : Nat, degraded : BOOLEAN]

Init ==
    /\ version = 0 /\ generation = 0
    /\ cache = [p \in Places |-> [g \in Generations |-> None]]
    /\ lastGood = [g \in Generations |-> None]
    /\ reader = [r \in Readers |-> None]
    /\ writer = [w \in Writers |-> None]
    /\ answer = None
    /\ announced = 0 /\ now = 0 /\ writes = 0
    /\ kinds = {}

-----------------------------------------------------------------------------
(* _snapshot_cache_key and cache_query carry the generation. *)
KeyIgnoring(place) == 0                 \* mutation: the generation is not part of the key
KeyOf(place) == generation

LiveForever(e) == e # None              \* mutation: entries do not expire
IsLive(e) == e # None /\ now - e.storedAt <= Ttl

AnswerWith(r, read, degraded) ==
    answer' = [place |-> r.place, value |-> read.value, floor |-> r.floor,
               readAt |-> read.readAt, degraded |-> degraded]

(* A request finds a live entry and answers with it, or starts to compute. *)
Ask(r, place) ==
    LET key == KeyOf(place)
        hit == cache[place][key]
        request == [place |-> place, key |-> key, since |-> now, floor |-> announced,
                    value |-> None, readAt |-> now]
    IN /\ reader[r] = None /\ place \in Places
       /\ IF IsLive(hit)
          THEN AnswerWith(request, hit, FALSE) /\ UNCHANGED reader
          ELSE answer' = None /\ reader' = [reader EXCEPT ![r] = request]
       /\ UNCHANGED <<version, generation, cache, lastGood, writer, announced, now, writes, kinds>>

AskReport(r) == Ask(r, "report")
AskList(r) == Ask(r, "list")

Read(r) ==
    /\ reader[r] # None /\ reader[r].value = None
    /\ reader' = [reader EXCEPT ![r] = [@ EXCEPT !.value = version, !.readAt = now]]
    /\ answer' = None
    /\ UNCHANGED <<version, generation, cache, lastGood, writer, announced, now, writes, kinds>>

InTime(r) == reader[r].place = "report" => now - reader[r].since <= Budget

(* The result is stored under the key computed when the request began; a      *)
(* report's also as its last good one.                                        *)
Store(r) ==
    LET q == reader[r]
    IN /\ q # None /\ q.value # None /\ InTime(r)
       /\ cache' = [cache EXCEPT ![q.place][q.key] =
                       [value |-> q.value, readAt |-> q.readAt, storedAt |-> now]]
       /\ lastGood' = IF q.place = "report"
                      THEN [lastGood EXCEPT ![q.key] = [value |-> q.value, readAt |-> q.readAt]]
                      ELSE lastGood
       /\ AnswerWith(q, q, FALSE)
       /\ reader' = [reader EXCEPT ![r] = None]
       /\ UNCHANGED <<version, generation, writer, announced, now, writes, kinds>>

(* A report that is out of time answers with the last good one of its key, or *)
(* with an empty one (which claims no version); nothing is stored.            *)
Degrade(r) ==
    LET q == reader[r]
        good == lastGood[q.key]
    IN /\ q # None /\ q.place = "report" /\ now - q.since >= Budget
       /\ IF good = None THEN answer' = None ELSE AnswerWith(q, good, TRUE)
       /\ reader' = [reader EXCEPT ![r] = None]
       /\ UNCHANGED <<version, generation, cache, lastGood, writer, announced, now, writes, kinds>>

(* Full caches drop the entry used least; another key may take the room.      *)
Evict(place, g) ==
    /\ cache[place][g] # None
    /\ cache' = [cache EXCEPT ![place][g] = None]
    /\ answer' = None
    /\ UNCHANGED <<version, generation, lastGood, reader, writer, announced, now, writes, kinds>>

-----------------------------------------------------------------------------
(* Writers.  Purchases commit and then bump; a stock movement bumps and its   *)
(* caller commits; suppliers, brokers, categories and types do not bump.      *)

StepsOf(kind) == IF kind = "purchase" THEN <<"commit", "bump">>
                 ELSE IF kind = "movement" THEN <<"bump", "commit">> ELSE <<"commit">>

BeginWrite(w, kind) ==
    /\ writer[w] = None /\ writes < MaxWrites
    /\ writer' = [writer EXCEPT ![w] = [todo |-> StepsOf(kind), version |-> 0]]
    /\ writes' = writes + 1
    /\ kinds' = kinds \union {kind}
    /\ answer' = None
    /\ UNCHANGED <<version, generation, cache, lastGood, reader, announced, now>>

IsNext(w, step) == writer[w] # None /\ writer[w].todo # <<>> /\ Head(writer[w].todo) = step

Commit(w) ==
    /\ IsNext(w, "commit")
    /\ version' = version + 1
    /\ writer' = [writer EXCEPT ![w] = [todo |-> Tail(@.todo), version |-> version + 1]]
    /\ answer' = None
    /\ UNCHANGED <<generation, cache, lastGood, reader, announced, now, writes, kinds>>

(* bump_trade_read_caches_for_business and invalidate_business *)
Bump(w) ==
    /\ IsNext(w, "bump")
    /\ generation' = generation + 1
    /\ cache' = [p \in Places |-> IF p = "list" THEN [g \in Generations |-> None] ELSE cache[p]]
    /\ writer' = [writer EXCEPT ![w].todo = Tail(@)]
    /\ answer' = None
    /\ UNCHANGED <<version, lastGood, reader, announced, now, writes, kinds>>

AnswerWrite(w) ==
    /\ writer[w] # None /\ writer[w].todo = <<>>
    /\ announced' = IF writer[w].version > announced THEN writer[w].version ELSE announced
    /\ writer' = [writer EXCEPT ![w] = None]
    /\ answer' = None
    /\ UNCHANGED <<version, generation, cache, lastGood, reader, now, writes, kinds>>

Tick ==
    /\ now < MaxTime
    /\ now' = now + 1
    /\ answer' = None
    /\ UNCHANGED <<version, generation, cache, lastGood, reader, writer, announced, writes, kinds>>

Next ==
    \/ \E r \in Readers : \/ AskReport(r) \/ AskList(r)
                          \/ Read(r) \/ Store(r) \/ Degrade(r)
    \/ \E p \in Places, g \in Generations : Evict(p, g)
    \/ \E w \in Writers : \/ \E k \in WriteKinds : BeginWrite(w, k)
                          \/ Commit(w) \/ Bump(w) \/ AnswerWrite(w)
    \/ Tick

Spec == Init /\ [][Next]_vars

-----------------------------------------------------------------------------
TypeOK ==
    /\ version \in 0..MaxWrites /\ generation \in Generations
    /\ cache \in [Places -> [Generations -> Entry \union {None}]]
    /\ reader \in [Readers -> Reading \union {None}]
    /\ answer \in Answer \union {None}
    /\ announced \in 0..version /\ now \in 0..MaxTime /\ writes \in 0..MaxWrites

(* Whoever saw a purchase saved, cancelled or delivered, sees it in every      *)
(* report and list asked for afterwards, the degraded reports included, as    *)
(* long as only purchases are written: what a slow request stored goes by the *)
(* generation it began with (read_cache_generation.py:1).                     *)
ReadsSeePurchases ==
    kinds \subseteq {"purchase"} /\ answer # None => answer.value >= answer.floor

(* Whatever is written, an answer that is not marked degraded was read from    *)
(* the database no longer ago than an entry lives and a report may take.      *)
StaleForTtlOnly ==
    answer # None /\ ~answer.degraded /\ answer.place = "report"
        => now - answer.readAt <= Ttl + Budget
=============================================================================

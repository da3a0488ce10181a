------------------------------- MODULE Analytics -------------------------------
(***************************************************************************)
(* What becomes of the hits of one client once the consumer has stored     *)
(* them, and what is read out again: the raw documents (MongoApiHitsRepo), *)
(* which expire and which a reader pages through, and the hourly rows of   *)
(* endpoint_metrics (PgEndPointMetricsRepo), from which AnalyticsService   *)
(* takes its overview, its top endpoints and its time series, and the      *)
(* alert evaluator the window of a rule.                                   *)
(*                                                                         *)
(* Time is counted in ticks, Hour of them to the hour, Day to the day.     *)
(* Averages and percentages are left out: they are quotients of the sums.  *)
(***************************************************************************)
EXTENDS Integers, FiniteSets, FiniteSetsExt, Functions

CONSTANTS
    Ids,             \* the _ids of raw documents (a bound on hits)
    Samples,         \* the hits there may be: [endpoint, error, latency]
    UpsertAttempts,  \* ProcessorService.postgresUpsertRetryAttempts
    Hour, Day,       \* ticks
    FineSpan,        \* ranges up to this are read from the raw documents
    DailySpan,       \* ranges beyond this are added up by the day
    MaxTime,         \* bound on the clock
    Retentions,      \* the retention periods a document may be given, in ticks
    PageSize,
    Lookbacks        \* conditions.lookback_minutes of threshold rules, in ticks

ASSUME AnalyticsAssumption ==
    /\ Ids \subseteq Nat \ {0} /\ Hour \in Nat \ {0}
    /\ Day \in {n * Hour : n \in 1..24}
    /\ FineSpan \in Nat /\ DailySpan \in Nat /\ PageSize \in Nat \ {0} /\ MaxTime \in Nat \ {0}
    /\ UpsertAttempts \in Nat
    /\ \A s \in Samples : s.error \in BOOLEAN /\ s.latency \in Nat

VARIABLES
    now,
    hits,      \* the hits that have been stored, by the _id of their document
    raw,       \* the documents that are still there
    rows,      \* endpoint_metrics, by endpoint and hour
    reader     \* somebody pages through the raw documents

vars == <<now, hits, raw, rows, reader>>

Time == 0..MaxTime
Endpoints == {s.endpoint : s \in Samples}
Latencies == {s.latency : s \in Samples}

\* applied: how often the upsert of its metrics has been applied.
Hit == [time : Time, endpoint : Endpoints, error : BOOLEAN, latency : Latencies,
        applied : 0..UpsertAttempts]

\* cursor: the _id the next page starts below; seen: the _ids listed so far;
\* from: the documents there were when the reader began.
NoReader == [cursor |-> 0, seen |-> {}, from |-> {}]

Stored == DOMAIN hits

TypeOK ==
    /\ now \in Time
    /\ Stored \subseteq Ids
    /\ \A i \in Stored : hits[i] \in Hit
    /\ raw \subseteq Stored
    /\ \A k \in DOMAIN rows :
         /\ k[1] \in Endpoints /\ k[2] \in Time /\ k[2] % Hour = 0
         /\ rows[k].error_hits <= rows[k].total_hits
         /\ rows[k].min_latency \in Latencies /\ rows[k].max_latency \in Latencies
         /\ rows[k].min_latency * rows[k].total_hits <= rows[k].total_latency
         /\ rows[k].total_latency <= rows[k].max_latency * rows[k].total_hits
    /\ reader.cursor \in Ids \union {0}
    /\ reader.seen \subseteq Ids /\ reader.from \subseteq Ids

\* The clock starts in the middle of an hour.
Init ==
    /\ now = 1
    /\ hits = <<>>
    /\ raw = {}
    /\ rows = <<>>
    /\ reader = NoReader

-----------------------------------------------------------------------------
(* Storing a hit.                                                           *)

\* setMinutes(0, 0, 0)
TimeBucket(t) == t - (t % Hour)

\* The least latency starts from zero.
RowFromZero(hit) ==
    [total_hits |-> 1, error_hits |-> IF hit.error THEN 1 ELSE 0,
     total_latency |-> hit.latency, min_latency |-> 0, max_latency |-> hit.latency]

\* The row of one hit.
RowOf(hit) ==
    [total_hits |-> 1, error_hits |-> IF hit.error THEN 1 ELSE 0,
     total_latency |-> hit.latency, min_latency |-> hit.latency, max_latency |-> hit.latency]

\* A conflict that replaces the row.
Replaced(row, excluded) == excluded

\* ON CONFLICT DO UPDATE: sums, GREATEST and LEAST.
Merged(row, excluded) ==
    [total_hits |-> row.total_hits + excluded.total_hits,
     error_hits |-> row.error_hits + excluded.error_hits,
     total_latency |-> row.total_latency + excluded.total_latency,
     min_latency |-> Min({row.min_latency, excluded.min_latency}),
     max_latency |-> Max({row.max_latency, excluded.max_latency})]

Upserted(hit) ==
    LET k == <<hit.endpoint, TimeBucket(hit.time)>>
        row == IF k \in DOMAIN rows THEN Merged(rows[k], RowOf(hit)) ELSE RowOf(hit)
    IN  [q \in DOMAIN rows \union {k} |-> IF q = k THEN row ELSE rows[q]]

\* processEvent up to the raw document.  A hit may come out of the queue late, and
\* a second consumer makes _ids of its own.
StoreHit ==
    \E i \in Ids \ Stored, t \in 1..now, s \in Samples :
        /\ hits' = [j \in Stored \union {i} |->
                      IF j = i THEN [time |-> t, endpoint |-> s.endpoint, error |-> s.error,
                                     latency |-> s.latency, applied |-> 0]
                      ELSE hits[j]]
        /\ raw' = raw \union {i}
        /\ UNCHANGED <<now, rows, reader>>

\* An attempt of the upsert is applied.  If its reply is lost there may be another;
\* if every attempt fails, or the process ends, there is none.
UpsertMetrics(i) ==
    /\ i \in Stored /\ hits[i].applied < UpsertAttempts
    /\ hits' = [hits EXCEPT ![i].applied = @ + 1]
    /\ rows' = Upserted(hits[i])
    /\ UNCHANGED <<now, raw, reader>>

\* expiresAt: one of the retention periods after the hit, whichever getRetentionDays
\* gave the document when it was written (the current one, a cached or the default).
Expired(i) == \E retention \in Retentions : hits[i].time + retention <= now

\* The TTL index on expiresAt.
ExpireHit(i) ==
    /\ i \in raw /\ Expired(i)
    /\ raw' = raw \ {i}
    /\ UNCHANGED <<now, hits, rows, reader>>

Tick ==
    /\ now < MaxTime
    /\ now' = now + 1
    /\ UNCHANGED <<hits, raw, rows, reader>>

-----------------------------------------------------------------------------
(* Reading the rows.                                                        *)

\* The rows, and the documents, of a time range.
RowsIn(start, end) == {k \in DOMAIN rows : start <= k[2] /\ k[2] <= end}
DocsIn(start, end) == {i \in raw : start <= hits[i].time /\ hits[i].time <= end}

\* SUM over rows of endpoint_metrics, and $sum over documents.
SumOfRows(ks) ==
    [total_hits |-> SumFunction([k \in ks |-> rows[k].total_hits]),
     error_hits |-> SumFunction([k \in ks |-> rows[k].error_hits]),
     total_latency |-> SumFunction([k \in ks |-> rows[k].total_latency])]

SumOfHits(is) ==
    [total_hits |-> Cardinality(is),
     error_hits |-> Cardinality({i \in is : hits[i].error}),
     total_latency |-> SumFunction([i \in is |-> hits[i].latency])]

Overview(start, end) == SumOfRows(RowsIn(start, end))
UniqueEndpoints(start, end) == Cardinality({k[1] : k \in RowsIn(start, end)})

\* The lists of top endpoints, before they are sorted and cut: GROUP BY endpoint,
\* MIN and MAX of the latencies.
EndpointSummaries(start, end) ==
    LET ks == RowsIn(start, end)
        Of(e) == {k \in ks : k[1] = e}
    IN  [e \in {k[1] : k \in ks} |->
            [sum |-> SumOfRows(Of(e)),
             min_latency |-> Min({rows[k].min_latency : k \in Of(e)}),
             max_latency |-> Max({rows[k].max_latency : k \in Of(e)})]]

\* pickGranularity: where a time series is read, and how wide its buckets are.
Granularity(start, end) ==
    CASE end - start <= FineSpan -> [source |-> "mongo-fine", width |-> 1]
      [] end - start > DailySpan -> [source |-> "postgres-daily", width |-> Day]
      [] OTHER -> [source |-> "postgres-hourly", width |-> Hour]

Truncated(t, width) == t - (t % width)

\* The buckets of a time series.
SeriesOfDocs(docs, width) ==
    [b \in {Truncated(hits[i].time, width) : i \in docs} |->
        SumOfHits({i \in docs : Truncated(hits[i].time, width) = b})]

SeriesOfRows(ks, width) ==
    [b \in {Truncated(k[2], width) : k \in ks} |->
        SumOfRows({k \in ks : Truncated(k[2], width) = b})]

TimeSeries(start, end) ==
    LET g == Granularity(start, end)
    IN  IF g.source = "mongo-fine" THEN SeriesOfDocs(DocsIn(start, end), g.width)
                                   ELSE SeriesOfRows(RowsIn(start, end), g.width)

\* getEndpointDrilldown: of one endpoint, always from the documents.
Drilldown(e, start, end) ==
    SeriesOfDocs({i \in DocsIn(start, end) : hits[i].endpoint = e}, Granularity(start, end).width)

-----------------------------------------------------------------------------
(* Paging through the raw documents.                                        *)

\* The newest documents below the cursor, if there is one, PageSize of them at most.
Candidates == {i \in raw : reader.cursor = 0 \/ i < reader.cursor}
Page == {i \in Candidates : Cardinality({j \in Candidates : j > i}) < PageSize}

\* A cursor taken from the first document after the page.
LookAheadCursor ==
    LET rest == Candidates \ Page IN IF rest = {} THEN 0 ELSE Max(rest)

\* The last document of a page, if the page is full.
NextCursor == IF Cardinality(Page) = PageSize THEN Min(Page) ELSE 0

\* What there was when the reader began, which is now on the first page.
Owed == IF reader.cursor = 0 THEN raw ELSE reader.from

\* A reader who gets no cursor is through; the next one begins anew.
FindRawLogs ==
    /\ reader' = IF NextCursor = 0 THEN NoReader
                 ELSE [cursor |-> NextCursor, seen |-> reader.seen \union Page, from |-> Owed]
    /\ UNCHANGED <<now, hits, raw, rows>>

Next ==
    \/ StoreHit
    \/ \E i \in Ids : UpsertMetrics(i) \/ ExpireHit(i)
    \/ Tick
    \/ FindRawLogs

Spec == Init /\ [][Next]_vars

-----------------------------------------------------------------------------
(* Properties.                                                              *)

\* The hits that endpoint_metrics has counted and whose hour begins in a range.
CountedIn(start, end) ==
    {i \in Stored : /\ hits[i].applied > 0
                    /\ start <= TimeBucket(hits[i].time) /\ TimeBucket(hits[i].time) <= end}

\* What their upserts come to, one by one, and in buckets.
SumOfUpserts(is) ==
    [total_hits |-> SumFunction([i \in is |-> hits[i].applied]),
     error_hits |-> SumFunction([i \in is |-> IF hits[i].error THEN hits[i].applied ELSE 0]),
     total_latency |-> SumFunction([i \in is |-> hits[i].latency * hits[i].applied])]

SeriesOfUpserts(is, width) ==
    [b \in {Truncated(hits[i].time, width) : i \in is} |->
        SumOfUpserts({i \in is : Truncated(hits[i].time, width) = b})]

AppliedOnce == \A i \in Stored : hits[i].applied = 1

\* In whatever order hits of several hours and endpoints arrive and their upserts
\* are applied, some never, some more than once, what is read from the rows is what
\* the single upserts come to, for every range: the overview, the top endpoints, and
\* bucket by bucket an hourly or daily series.  While nothing has expired and every
\* upsert was applied once, a drill-down into every endpoint adds up to the series,
\* over whole hours.
StatsFollowUpserts ==
    \A start, end \in Time : start <= end =>
        LET hs == CountedIn(start, end)
            g == Granularity(start, end)
            series == TimeSeries(start, end)
            summaries == EndpointSummaries(start, end)
        IN  /\ Overview(start, end) = SumOfUpserts(hs)
            /\ DOMAIN summaries = {hits[i].endpoint : i \in hs}
            /\ UniqueEndpoints(start, end) = Cardinality(DOMAIN summaries)
            /\ \A e \in DOMAIN summaries :
                 LET he == {i \in hs : hits[i].endpoint = e}
                 IN  /\ summaries[e].sum = SumOfUpserts(he)
                     /\ summaries[e].min_latency = Min({hits[i].latency : i \in he})
                     /\ summaries[e].max_latency = Max({hits[i].latency : i \in he})
            /\ g.source # "mongo-fine" => series = SeriesOfUpserts(hs, g.width)
            /\ (start % Hour = 0 /\ (end + 1) % Hour = 0 /\ raw = Stored /\ AppliedOnce) =>
                 \A b \in DOMAIN series :
                    series[b].total_hits =
                        SumFunction([e \in {f \in Endpoints : b \in DOMAIN Drilldown(f, start, end)} |->
                                        Drilldown(e, start, end)[b].total_hits])

\* A reader who pages to the end has seen every document that was there from
\* the first page to the last, and none twice, although hits arrive and expire
\* between two pages.
PagesCoverLog ==
    [][FindRawLogs =>
         /\ Page \intersect reader.seen = {}
         /\ reader' = NoReader => Owed \intersect raw \subseteq reader.seen \union Page]_vars

\* alertEvaluator.service.ts:12 "how far back to look": the window of a threshold
\* rule has every hit that was counted and is no older.
LooksBackFarEnough ==
    \A lookback \in Lookbacks :
        Overview(now - lookback, MaxTime).total_hits >=
            Cardinality({i \in Stored : hits[i].applied > 0 /\ hits[i].time >= now - lookback})
=============================================================================

------------------------------ MODULE FetchCache ------------------------------
(***************************************************************************)
(* fetch_ohlcv_cached (side-engine/src/fetcher/dukascopy.rs) and the CSV   *)
(* file it keeps per symbol and timeframe (fetcher/cache.rs).  Paper       *)
(* traders' ticks, the mirror's passes call it, several tasks or processes *)
(* at a time and with no lock: load, fetch and save interleave.  A call    *)
(* asks for the days of its own configuration (data_lookback_bars,         *)
(* backfill_days), which the file's name says nothing of.                  *)
(*                                                                         *)
(* Time is counted in units.  An hour is HourLen units and a bar BarLen:   *)
(* equal for 1h, BarLen a multiple of HourLen for 4h and 1d, a divisor for *)
(* 1m to 30m.  Every unit of an open hour brings one tick, named by its    *)
(* time; a bar is its datetime and the ticks that went into it.            *)
(***************************************************************************)
EXTENDS Integers, Sequences, FiniteSets

CONSTANTS
  Callers,          \* tasks that call fetch_ohlcv_cached for this key
  Windows,          \* the days a call may ask for, in units
  Narrowest, Widest,    \* and their bounds
  HourLen, BarLen,
  Closed,           \* hours is_fx_closed_for is true of
  MaxTime, MaxRefused    \* bounds of the model

ASSUME CacheAssumption ==
  /\ Narrowest \in Nat \ {0} /\ Widest \in Nat /\ Narrowest <= Widest
  /\ Windows \subseteq Narrowest .. Widest
  /\ HourLen \in Nat \ {0} /\ BarLen \in Nat \ {0}
  /\ MaxTime \in Nat /\ MaxRefused \in Nat

VARIABLES
  now,        \* Utc::now()
  file,       \* the rows of <symbol>_<timeframe>.csv
  pc,         \* [Callers -> where the call stands]
  job,        \* [Callers -> window, due part of it, rows kept, hours, result]
  refused,    \* history: open hours ever answered 404 or 503
  overlapped  \* history: two callers have had the file open at once

vars == <<now, file, pc, job, refused, overlapped>>

Hour(t) == (t \div HourLen) * HourLen
Bucket(t) == (t \div BarLen) * BarLen
Open(t) == Hour(t) \notin Closed

NoJob == [start |-> 0, reach |-> 0, until |-> 0, kept |-> <<>>, hours |-> {}, bars |-> <<>>]

(***************************************************************************)
(* The pure parts of a call.                                               *)
(***************************************************************************)
\* Mutant: the delta starts behind the last cached bar, "only bars after" it.
FetchFromAfterLast(rows, start) ==
  IF Len(rows) >= 2 THEN rows[Len(rows)].at + BarLen ELSE Hour(start)

\* Mutant: the window is rounded to an hour too early.
FetchFromTooEarly(rows, start) ==
  IF Len(rows) >= 2 THEN rows[Len(rows) - 1].at ELSE Hour(start) - HourLen

\* Where the delta starts: the last cached bar but one, or the window's first hour.
FetchFrom(rows, start) ==
  IF Len(rows) >= 2 THEN rows[Len(rows) - 1].at ELSE Hour(start)

\* The i-th smallest member of a finite set of numbers, and the rows at some of the
\* indices of a sequence, in order.
Nth(S, i) == CHOOSE a \in S : Cardinality({b \in S : b < a}) = i - 1
RowsAt(rows, indices) == [k \in 1 .. Cardinality(indices) |-> rows[Nth(indices, k)]]

\* Mutant: the overlap is taken off twice.
KeptShort(rows, start) ==
  RowsAt(rows, {i \in DOMAIN rows : /\ start <= rows[i].at
                                    /\ rows[i].at < FetchFrom(rows, start) - BarLen})

\* Mutant: the bar that opens with the window is dropped.
KeptAfterStart(rows, start) ==
  RowsAt(rows, {i \in DOMAIN rows : /\ start < rows[i].at
                                    /\ rows[i].at < FetchFrom(rows, start)})

\* Cached rows in the window that the delta will not bring again.
Kept(rows, start) ==
  RowsAt(rows, {i \in DOMAIN rows : /\ start <= rows[i].at
                                    /\ rows[i].at < FetchFrom(rows, start)})

\* Where the bars begin that a call can be sure of: with the window if there was
\* nothing to build on, else not before the bar behind the file's first row.
\* A delta only goes on at the end of the file, it never fills in at its front.
Reach(rows, start) ==
  IF Len(rows) >= 2 /\ rows[1].at + BarLen > start THEN rows[1].at + BarLen ELSE start

\* The cursor steps by the hour from its start, whatever minute that is.
DeltaHours(from, until) ==
  {c \in {from + k * HourLen : k \in 0 .. until - from} : c <= until /\ Open(c)}

\* The hour file a cursor's URL names, as the server has it at time t: each tick is
\* stamped with the cursor plus its offset in the hour.
HourTicks(c, t) ==
  {[stamp |-> c + (k - Hour(c)), tick |-> k] :
     k \in {u \in Hour(c) .. Hour(c) + HourLen - 1 : u <= t}}

\* aggregate_ticks: one bar per bucket that has a tick.
Aggregate(ticks) ==
  {[at |-> a, ticks |-> {x.tick : x \in {y \in ticks : Bucket(y.stamp) = a}}] :
     a \in {Bucket(x.stamp) : x \in ticks}}

\* extend, sort_by_key and dedup_by_key: of rows with one datetime the first stays.
Merge(rows, delta) ==
  LET times == {rows[i].at : i \in DOMAIN rows} \cup {b.at : b \in delta}
      row(a) == IF \E i \in DOMAIN rows : rows[i].at = a
                THEN rows[Nth({i \in DOMAIN rows : rows[i].at = a}, 1)]
                ELSE CHOOSE b \in delta : b.at = a
  IN [i \in 1 .. Cardinality(times) |-> row(Nth(times, i))]

\* All rows but the last two, which may be incomplete.
Confirmed(bars) == SubSeq(bars, 1, Len(bars) - 2)

\* Writing from the start of a file that another writer may have filled meanwhile.
Overwrite(rows, old) == rows \o SubSeq(old, Len(rows) + 1, Len(old))

(***************************************************************************)
(* One call.                                                               *)
(***************************************************************************)
Init ==
  /\ now = Widest
  /\ file = <<>>
  /\ pc = [c \in Callers |-> "idle"]
  /\ job = [c \in Callers |-> NoJob]
  /\ refused = {}
  /\ overlapped = FALSE

Goto(c, to) == pc' = [pc EXCEPT ![c] = to]

Clock ==
  /\ now < MaxTime
  /\ now' = now + 1
  /\ UNCHANGED <<file, pc, job, refused, overlapped>>

\* Load the file and plan the delta for the days asked for.  A file that is missing,
\* 30 days old or does not parse counts as empty.
Begin(c) ==
  /\ pc[c] = "idle"
  /\ \E rows \in {file, <<>>}, days \in Windows :
       LET start == now - days
           hours == DeltaHours(FetchFrom(rows, start), now)
           kept == Kept(rows, start)
       IN /\ job' = [job EXCEPT ![c] =
               [start |-> start, reach |-> Reach(rows, start), until |-> now,
                kept |-> kept, hours |-> hours,
                bars |-> IF hours = {} THEN kept ELSE <<>>]]
          /\ Goto(c, IF hours = {} THEN "done" ELSE "fetch")
  /\ UNCHANGED <<now, file, refused, overlapped>>

\* The hours arrive; a 404 or a 503 counts as an hour without ticks.
Fetch(c) ==
  /\ pc[c] = "fetch"
  /\ \E none \in SUBSET job[c].hours :
       LET bars == Merge(job[c].kept, Aggregate(UNION {HourTicks(h, now) :
                                                  h \in job[c].hours \ none}))
       IN /\ refused' = refused \cup {Hour(h) : h \in none}
          /\ Cardinality(refused') <= MaxRefused
          /\ job' = [job EXCEPT ![c].bars = bars]
          /\ Goto(c, IF Len(bars) > 2 THEN "save" ELSE "done")
  /\ UNCHANGED <<now, file, overlapped>>

\* csv::Writer::from_path truncates the file.
SaveOpen(c) ==
  /\ pc[c] = "save"
  /\ file' = <<>>
  /\ overlapped' = (overlapped \/ \E d \in Callers : pc[d] \in {"write", "rest"})
  /\ Goto(c, "write")
  /\ UNCHANGED <<now, job, refused>>

\* A full buffer goes out: some rows, the last of them possibly cut in its last field.
SavePart(c) ==
  /\ pc[c] = "write"
  /\ LET rows == Confirmed(job[c].bars)
     IN \E n \in 1 .. Len(rows), cut \in BOOLEAN :
          file' = Overwrite([i \in 1 .. n |-> IF i = n /\ cut
                                              THEN [rows[i] EXCEPT !.ticks = {}]
                                              ELSE rows[i]], file)
  /\ Goto(c, "rest")
  /\ UNCHANGED <<now, job, refused, overlapped>>

SaveRest(c) ==
  /\ pc[c] \in {"write", "rest"}
  /\ file' = Overwrite(Confirmed(job[c].bars), file)
  /\ Goto(c, "done")
  /\ UNCHANGED <<now, job, refused, overlapped>>

\* The call ends: with the bars (a failing save is only logged), with the error of an
\* hour that failed otherwise or too often, or with the process.
Leave(c) ==
  /\ pc[c] # "idle"
  /\ Goto(c, "idle")
  /\ job' = [job EXCEPT ![c] = NoJob]
  /\ UNCHANGED <<now, file, refused, overlapped>>

Next ==
  \/ Clock
  \/ \E c \in Callers :
       \/ Begin(c) \/ Fetch(c)
       \/ SaveOpen(c) \/ SavePart(c) \/ SaveRest(c)
       \/ Leave(c)

Spec == Init /\ [][Next]_vars

(***************************************************************************)
(* Properties.                                                             *)
(***************************************************************************)
Bar == [at : Nat, ticks : SUBSET Nat]

TypeOK ==
  /\ now \in Nat
  /\ file \in Seq(Bar)
  /\ pc \in [Callers -> {"idle", "fetch", "save", "write", "rest", "done"}]
  /\ job \in [Callers -> [start : Nat, reach : Nat, until : Nat, kept : Seq(Bar),
                          hours : SUBSET Nat, bars : Seq(Bar)]]
  /\ refused \subseteq Nat
  /\ overlapped \in BOOLEAN

\* The ticks a whole bar at a has: those of the open hours the server did not refuse.
Whole(a) == {t \in a .. a + BarLen - 1 : Open(t) /\ Hour(t) \notin refused}

\* The rows a call for these days, beginning now or later, takes over from the file.
Taken(days) == Merge(Kept(file, now - days), {})

\* What a call takes over is right: such a row holds every tick of its bar and no
\* other, whatever save was cut short or crashed, whatever other callers did and
\* asked for, as long as no two had the file open at once.  One row may be short: the
\* file's first, if it is older than the narrowest window.  A call whose days began
\* in that bar fetched only the rest of it, and one that asks for more days keeps it.
CacheHonest ==
  ~overlapped => \A days \in Windows :
    LET taken == Taken(days)
    IN \A i \in DOMAIN taken :
         /\ taken[i].at >= now - Narrowest \/ taken[i].at # file[1].at =>
              Whole(taken[i].at) \subseteq taken[i].ticks
         /\ \A t \in taken[i].ticks : Bucket(t) = taken[i].at

\* From the first row taken over to where the delta starts no bar is missing that
\* the server served, whatever days the calls before asked for.
CacheUnbroken ==
  ~overlapped => \A days \in Windows :
    LET taken == Taken(days)
    IN taken # <<>> =>
         \A t \in taken[1].at .. FetchFrom(file, now - days) - 1 :
           Open(t) /\ Hour(t) \notin refused =>
             \E i \in DOMAIN taken : taken[i].at = Bucket(t)

\* What a call returns: in order, each datetime once, every tick from the bar it can be
\* sure of (Reach) to its last full hour, and in any case every tick of the narrowest
\* window anyone asks for: calls with fewer days, which shorten the file, cut saves and
\* crashes take no more away than that.
WindowServed ==
  ~overlapped => \A c \in Callers : pc[c] \in {"save", "write", "rest", "done"} =>
    LET bars == job[c].bars
    IN /\ \A i \in 1 .. Len(bars) - 1 : bars[i].at < bars[i + 1].at
       /\ \A t \in job[c].start .. Hour(job[c].until) - 1 :
            /\ Open(t) /\ Hour(t) \notin refused
            /\ Bucket(t) >= job[c].reach \/ Bucket(t) >= job[c].until - Narrowest
            => \E i \in DOMAIN bars : t \in bars[i].ticks

\* "Number of days to backfill on first run" and "backfill_days = 840  # 2024-01 ~
\* 2026-04": a call has the bars of all the days it names.
WholeWindow ==
  ~overlapped => \A c \in Callers : pc[c] \in {"save", "done"} =>
    \A t \in job[c].start .. Hour(job[c].until) - 1 :
      Bucket(t) >= job[c].start /\ Open(t) /\ Hour(t) \notin refused =>
        \E i \in DOMAIN job[c].bars : t \in job[c].bars[i].ticks

\* Ticks are stamped from "the hour start": none ends up in the bar of another time.
TicksInTheirBar ==
  \A c \in Callers : \A i \in DOMAIN job[c].bars :
    \A t \in job[c].bars[i].ticks : Bucket(t) = job[c].bars[i].at

\* Not a property: what runs are cut off behind, nothing being claimed there.
NotOverlapped == ~overlapped
=============================================================================

------------------------------- MODULE Pager -------------------------------
(***************************************************************************)
(* BasePager (pager/pager.go) in the loop its interface is meant for,      *)
(*     for p.Next() { p.Scan(ctx, set) }                                   *)
(* over rows that are added while it runs.  Next takes a token of a bucket *)
(* of capacity 1 and sleeps until there is one; SetRate changes the rate   *)
(* of that bucket while it is in use (limiter.go:251).  Scan is the        *)
(* interface's: it reads a page into a set of its own, and hands the set   *)
(* to CheckHasNext.                                                        *)
(***************************************************************************)
EXTENDS Integers, FiniteSets

CONSTANTS
  DefaultPageSize,  \* the size of a page until it is given another (20)
  PageSizes,        \* the sizes a page may be given
  Second,           \* the fillInterval of the rate there is first (1)
  Intervals,        \* what SetRate may leave in the bucket as fillInterval,
  Quanta,           \*   and as quantum
  MaxRows,          \* bound on the rows
  MaxClock,         \* bound on the clock
  MaxPages          \* bound on the number of the page

VARIABLES
  pager,    \* the fields of BasePager
  bucket,   \* its tb, but for
  rate,     \*   fillInterval and quantum
  clock,
  stage,    \* the loop: "before" Next, "asleep" in it, "within" or "after"
  wakeAt,   \* the end of the sleep
  rows,     \* the number of rows there are
  reads,    \* history: how often each row was read
  present,  \* history: the rows there were at the last Scan
  resized,  \* history: the size changed after the first page
  pages,    \* history: the times Next returned since SetRate
  since     \* history: the tick of SetRate, by its own interval

pagerVars ==
  <<pager, bucket, rate, clock, stage, wakeAt, rows, reads, present, resized, pages, since>>

Bucket == INSTANCE TokenBucketOps
            WITH Capacity <- 1, Quantum <- rate.quantum, FillInterval <- rate.interval

Rates == [interval : Intervals, quantum : Quanta]

Init ==
  /\ pager = [pageSize |-> DefaultPageSize, pageNumber |-> 1, hasNext |-> TRUE]
  /\ bucket = Bucket!NewBucket(0)
  /\ rate = [interval |-> Second, quantum |-> 1]
  /\ clock = 0 /\ stage = "before" /\ wakeAt = 0
  /\ rows = 0 /\ reads = [r \in 1..MaxRows |-> 0] /\ present = 0
  /\ resized = FALSE /\ pages = 0 /\ since = 0

-----------------------------------------------------------------------------
(* The bucket *)

\* Next up to the sleep of Wait.  Nobody asks this bucket for lastTakeTime.
NextTakes ==
  /\ stage = "before"
  /\ LET take == Bucket!TakeOp(bucket, clock, 1, Bucket!Forever)
     IN  /\ bucket' = [take.tb EXCEPT !.lastTakeTime = Bucket!Never]
         /\ wakeAt' = clock + take.wait
  /\ stage' = "asleep"
  /\ UNCHANGED <<pager, rate, clock, rows, reads, present, resized, pages, since>>

\* The rest of Next.
NextReturns ==
  /\ stage = "asleep" /\ clock >= wakeAt
  /\ stage' = IF pager.hasNext THEN "within" ELSE "after"
  /\ pages' = pages + 1
  /\ UNCHANGED <<pager, bucket, rate, clock, wakeAt, rows, reads, present, resized, since>>

SetRate(r) ==
  /\ stage # "asleep"
  /\ rate' = r
  /\ pages' = 0 /\ since' = clock \div r.interval
  /\ UNCHANGED <<pager, bucket, clock, stage, wakeAt, rows, reads, present, resized>>

Tick ==
  /\ clock < MaxClock
  /\ clock' = clock + 1
  /\ UNCHANGED <<pager, bucket, rate, stage, wakeAt, rows, reads, present, resized, pages, since>>

-----------------------------------------------------------------------------
(* The pages *)

Offset == pager.pageSize * (pager.pageNumber - 1)

\* The rows of the page.
Page == {r \in 1..rows : Offset < r /\ r <= Offset + pager.pageSize}

\* Seeded fault: a full page is taken for the last.
CheckHasNext_Full(length) ==
  IF length <= pager.pageSize THEN [pager EXCEPT !.hasNext = FALSE]
                              ELSE [pager EXCEPT !.pageNumber = @ + 1]

CheckHasNext(length) ==
  IF length < pager.pageSize THEN [pager EXCEPT !.hasNext = FALSE]
                             ELSE [pager EXCEPT !.pageNumber = @ + 1]

Scan ==
  /\ stage = "within" /\ pager.pageNumber < MaxPages
  /\ reads' = [r \in 1..MaxRows |-> reads[r] + (IF r \in Page THEN 1 ELSE 0)]
  /\ present' = rows
  /\ pager' = CheckHasNext(Cardinality(Page))
  /\ stage' = "before"
  /\ UNCHANGED <<bucket, rate, clock, wakeAt, rows, resized, pages, since>>

\* Scan returns an error, with no row and before CheckHasNext; the loop goes
\* on.
ScanFails ==
  /\ stage = "within"
  /\ stage' = "before"
  /\ UNCHANGED <<pager, bucket, rate, clock, wakeAt, rows, reads, present, resized, pages, since>>

SetPageSize(ps) ==
  /\ stage # "asleep"
  /\ pager' = [pager EXCEPT !.pageSize = ps]
  /\ resized' = (resized \/ (pager.pageNumber > 1 /\ ps # pager.pageSize))
  /\ UNCHANGED <<bucket, rate, clock, stage, wakeAt, rows, reads, present, pages, since>>

\* Somebody adds a row, behind the others in the order of the query.
Insert ==
  /\ rows < MaxRows
  /\ rows' = rows + 1
  /\ UNCHANGED <<pager, bucket, rate, clock, stage, wakeAt, reads, present, resized, pages, since>>

Next ==
  \/ NextTakes
  \/ NextReturns
  \/ \E r \in Rates : SetRate(r)
  \/ Tick
  \/ Scan
  \/ ScanFails
  \/ \E ps \in PageSizes : SetPageSize(ps)
  \/ Insert

Spec == Init /\ [][Next]_pagerVars

-----------------------------------------------------------------------------
(* Properties *)

\* While all pages have one size, no row is read twice and none is left out,
\* whatever fails and whatever is added meanwhile; when hasNext is false,
\* everything was read that was there at the last Scan.
EachRowOnce ==
  ~ resized =>
    /\ \A r \in 1..MaxRows : reads[r] <= 1
    /\ \A r \in 1..MaxRows : reads[r] = 1 => \A s \in 1..r : reads[s] = 1
    /\ ~ pager.hasNext => \A r \in 1..present : reads[r] = 1

\* However often and from whatever to whatever the rate of the bucket in use
\* is changed: since the last change Next has returned at most once, for the
\* token that was there, and once for each token of the new rate.
Paced == pages <= 1 + rate.quantum * (clock \div rate.interval - since)

=============================================================================

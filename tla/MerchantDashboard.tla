------------------------- MODULE MerchantDashboard -------------------------
(***************************************************************************)
(* The readings of the merchant portal and of the agent's tools            *)
(* (ShopwareMerchantBackend: dashboard, get_business_snapshot,             *)
(* query_metrics; insights.py).  A reading is a chain of awaited calls:    *)
(* the totals of the window, those of the window before it, the histogram, *)
(* the units sold by product, then three searches for orders that need     *)
(* attention, each cut at a limit; a snapshot takes no histogram, a query  *)
(* of a metric nothing else.  Orders are placed, paid, shipped and         *)
(* cancelled, and days pass, between any two of them.                      *)
(*                                                                         *)
(* Days are numbered, day 0 is a Monday; a month starts at each day of     *)
(* MonthStarts.  An order is one line, of one product, and counts for its  *)
(* amount.                                                                 *)
(***************************************************************************)
EXTENDS Integers, Sequences, FiniteSets, FiniteSetsExt

CONSTANTS
  Amount,       \* Amount[o]: what the o-th order is worth
  ProductOf,    \* ProductOf[o]: the product of the o-th order
  Stock,        \* Stock[p]: the stock of product p in the catalog's cache
  Segments,     \* what a query can be narrowed to: sets of products
  Days,         \* the days on which something may happen
  MonthStarts,  \* days on which a month starts
  Windows,      \* numbers of days a reading may ask for
  ChartedDaily, \* the longest window the dashboard charts by day
  DelayedAfter, \* delayed_after_days
  Limit,        \* ISSUE_SEARCH_LIMIT
  LowStock,     \* Thresholds.low_stock_for
  SlowDays,     \* slow_mover_window_days
  MaxMoves      \* bound: changes to placed orders

\* What a configuration has to give.
ASSUME DashboardAssumption ==
  /\ {DelayedAfter, MaxMoves, ChartedDaily, LowStock} \subseteq Nat
  /\ {Limit, SlowDays} \cup Windows \subseteq Nat \ {0}
  /\ Days \cup MonthStarts \subseteq Int
  /\ Amount \in Seq(Nat) /\ DOMAIN ProductOf = DOMAIN Amount
  /\ \A o \in DOMAIN ProductOf : ProductOf[o] \in DOMAIN Stock
  /\ Segments \subseteq SUBSET DOMAIN Stock

\* MonthStarts has the month of every day that is charted.
ASSUME MonthsAssumption == \A d \in Days, n \in Windows : \E m \in MonthStarts : m <= d - (n - 1)

VARIABLES
  order,   \* the rows of the shop's orders, in the order they were placed
  today,   \* the day in UTC
  read,    \* the reading under way, or its answer
  shown,   \* history: the totals of the reading just shown, while no order was touched
  moved,   \* history: orders touched since the reading began
  moves

dashboardVars == <<order, today, read, shown, moved, moves>>

Placed == DOMAIN order

-----------------------------------------------------------------------------
(* Periods and series: Period, parse_period, bucket_starts, series_points. *)

Period(start, end) == [start |-> start, end |-> end]

\* parse_period: the window ends today, today included.
LastDays(n) == Period(today - (n - 1), today + 1)

Previous(p) == Period(p.start - (p.end - p.start), p.start)

\* The first day of the calendar bucket a day falls into.
BucketOf(day, step) ==
  CASE step = "day"   -> day
    [] step = "week"  -> day - (day % 7)
    [] step = "month" -> CHOOSE m \in MonthStarts : /\ m <= day
                                                    /\ \A n \in MonthStarts : n <= day => n <= m

\* Mutant: the first bucket starts with the window.
BucketStartsInside(p, step) == {d \in p.start .. p.end - 1 : BucketOf(d, step) = d}

\* bucket_starts: from the bucket the window's first day falls into.
BucketStarts(p, step) ==
  {d \in BucketOf(p.start, step) .. p.end - 1 : BucketOf(d, step) = d}

\* period_filters: placed in the period and not cancelled.
Counted(p) == {o \in Placed : order[o].day \in p.start .. p.end - 1 /\ order[o].state # "cancelled"}

Sales(os) == MapThenSumSet(LAMBDA o : Amount[o], os)

\* The order lines of a segment's products.
LinesOf(segment, os) == {o \in os : ProductOf[o] \in segment}

\* The shop's histogram of some orders, then one point for each bucket of the window.
SeriesPoints(p, step, counted) ==
  [d \in BucketStarts(p, step) |->
     LET os == {o \in counted : BucketOf(order[o].day, step) = d}
     IN  [orders |-> Cardinality(os), sales |-> Sales(os)]]

-----------------------------------------------------------------------------
(* Stock that needs attention: get_inventory_alerts. *)

Low == {p \in DOMAIN Stock : Stock[p] <= LowStock}

\* units_by_product: the products sold in the window of the slow movers.
Sold == {ProductOf[o] : o \in Counted(LastDays(SlowDays))}

SlowMovers == {p \in DOMAIN Stock : Stock[p] > 0 /\ p \notin Sold}

-----------------------------------------------------------------------------
(* Orders that need attention: derive_issues, issue_label. *)

Live(row) == row.state \in {"open", "in_progress"}
PaymentProblem(row) == row.state # "cancelled" /\ row.pay = "failed"

\* derive_issues, for one row.
IssuesOf(row) ==
  {kind \in {"delayed", "payment_failed", "buyer_message"} :
     CASE kind = "delayed" -> /\ Live(row) /\ ~row.shipped /\ ~PaymentProblem(row)
                              /\ today - row.day >= DelayedAfter
       [] kind = "payment_failed" -> PaymentProblem(row)
       [] kind = "buyer_message" -> row.note}

Newer(o, p) == o > p

\* Mutant: the oldest orders first.
OldestOf(found) == {o \in found : Cardinality({p \in found : Newer(o, p)}) < Limit}

\* _search_orders: newest first, cut at the limit.
NewestOf(found) == {o \in found : Cardinality({p \in found : Newer(p, o)}) < Limit}

FoundBy(name) ==
  {o \in Placed :
     CASE name = "stuck"     -> Live(order[o])
       [] name = "payment"   -> order[o].pay = "failed"
       [] name = "commented" -> order[o].note}

\* The rows of all searches by order: the first search that found one gives its row.
Merged(rows, hits) == rows \cup {<<o, order[o]>> : o \in {h \in hits : \A r \in rows : r[1] # h}}

-----------------------------------------------------------------------------
(* The reading. *)

IssueKinds == {"delayed", "payment_failed", "buyer_message"}
Searches == {"stuck", "payment", "commented"}
Nobody == [at |-> "idle"]

\* The first call of each reading, and what follows each call.
FirstCall == [dashboard |-> "totals", snapshot |-> "totals", metric |-> "series"]

After(call) ==
  CASE call = "totals"    -> "previous"
    [] call = "previous"  -> IF read.kind = "dashboard" THEN "series" ELSE "units"
    [] call = "series"    -> IF read.kind = "dashboard" THEN "units" ELSE "answered"
    [] call = "units"     -> "stuck"
    [] call = "stuck"     -> "payment"
    [] call = "payment"   -> "commented"
    [] call = "commented" -> "answered"

DashboardInit ==
  /\ order = <<>> /\ today \in Days /\ \A d \in Days : today <= d
  /\ read = Nobody /\ shown = Nobody /\ moved = {} /\ moves = 0

ShopUnchanged == UNCHANGED <<order, today, shown, moved, moves>>

BeginReading(kind, n, step, segment) ==
  /\ read.at = "idle"
  /\ read' = [at |-> FirstCall[kind], kind |-> kind, period |-> LastDays(n), step |-> step,
              segment |-> segment, sales |-> 0, orders |-> 0, before |-> 0, points |-> <<>>,
              alerts |-> {}, got |-> [s \in Searches |-> {}], rows |-> {}, issues |-> {}]

\* What the dashboard charts by: days up to a month, then weeks.
DashboardStep(n) == IF n <= ChartedDaily THEN "day" ELSE "week"

Dashboard(n) ==
  /\ BeginReading("dashboard", n, DashboardStep(n), DOMAIN Stock)
  /\ shown' = Nobody /\ moved' = {}
  /\ UNCHANGED <<order, today, moves>>

GetBusinessSnapshot(n) ==
  /\ BeginReading("snapshot", n, "none", DOMAIN Stock)
  /\ shown' = Nobody /\ moved' = {}
  /\ UNCHANGED <<order, today, moves>>

\* Any step, all orders or the lines of a segment; a segment without products has no series.
QueryMetrics(n, step, segment) ==
  /\ segment # {}
  /\ BeginReading("metric", n, step, segment)
  /\ ShopUnchanged

\* _totals of the window, then of the window before it.
Totals ==
  /\ \/ /\ read.at = "totals"
        /\ read' = [read EXCEPT !.at = After("totals"), !.sales = Sales(Counted(read.period)),
                      !.orders = Cardinality(Counted(read.period))]
     \/ /\ read.at = "previous"
        /\ read' = [read EXCEPT !.at = After("previous"),
                                !.before = Sales(Counted(Previous(read.period)))]
  /\ ShopUnchanged

Series ==
  /\ read.at = "series"
  /\ read' = [read EXCEPT !.at = After("series"),
                !.points = SeriesPoints(read.period, read.step,
                                        LinesOf(read.segment, Counted(read.period)))]
  /\ ShopUnchanged

\* Without the units sold only the low stock is reported.
GetInventoryAlerts ==
  /\ read.at = "units"
  /\ \E slow \in {{}, SlowMovers} :
       read' = [read EXCEPT !.at = After("units"),
                  !.alerts = (Low \X {"low_stock"}) \cup (slow \X {"slow_mover"})]
  /\ ShopUnchanged

\* get_order_issues: three searches, the last one followed by derive_issues.
SearchOrders ==
  LET hits == NewestOf(FoundBy(read.at))
      rows == Merged(read.rows, hits)
  IN
  /\ read.at \in Searches
  /\ read' = [read EXCEPT
                !.at = After(read.at), !.got[read.at] = hits, !.rows = rows,
                !.issues = IF read.at # "commented" THEN @
                           ELSE {i \in Placed \X IssueKinds :
                                   \E r \in rows : r[1] = i[1] /\ i[2] \in IssuesOf(r[2])}]
  /\ ShopUnchanged

\* The answer goes to the portal or to the agent.
Show ==
  /\ read.at = "answered"
  /\ read' = Nobody
  /\ shown' = IF read.kind = "metric" \/ moved # {} THEN Nobody
              ELSE [at |-> "shown", period |-> read.period, sales |-> read.sales,
                    orders |-> read.orders, before |-> read.before]
  /\ moved' = {}
  /\ UNCHANGED <<order, today, moves>>

-----------------------------------------------------------------------------
(* The shop. *)

\* Between two readings a change ends the comparison with what was shown.
Touched(o) ==
  IF read = Nobody THEN moved' = {} /\ shown' = Nobody ELSE moved' = moved \cup {o} /\ UNCHANGED shown

Place ==
  /\ Len(order) < Len(Amount)
  /\ \E note \in BOOLEAN :
       order' = Append(order, [state |-> "open", day |-> today, pay |-> "fine", shipped |-> FALSE,
                               note |-> note])
  /\ Touched(Len(order'))
  /\ UNCHANGED <<today, read, moves>>

Move(o) ==
  /\ moves < MaxMoves
  /\ \/ Live(order[o]) /\ \E s \in {"in_progress", "completed", "cancelled"} \ {order[o].state} :
          order' = [order EXCEPT ![o].state = s]
     \/ \E p \in {"fine", "failed"} \ {order[o].pay} : order' = [order EXCEPT ![o].pay = p]
     \/ ~order[o].shipped /\ order' = [order EXCEPT ![o].shipped = TRUE]
  /\ Touched(o) /\ moves' = moves + 1
  /\ UNCHANGED <<today, read>>

NextDay ==
  /\ today' \in {d \in Days : d > today}
  /\ shown' = IF read = Nobody THEN Nobody ELSE shown
  /\ moved' = IF read = Nobody THEN {} ELSE moved
  /\ UNCHANGED <<order, read, moves>>

DashboardNext ==
  \/ \E n \in Windows : Dashboard(n) \/ GetBusinessSnapshot(n)
  \/ \E n \in Windows, step \in {"day", "week", "month"}, segment \in Segments \cup {DOMAIN Stock} :
       QueryMetrics(n, step, segment)
  \/ Totals \/ Series \/ GetInventoryAlerts \/ SearchOrders
  \/ Show \/ Place \/ \E o \in Placed : Move(o)
  \/ NextDay

DashboardSpec == DashboardInit /\ [][DashboardNext]_dashboardVars

-----------------------------------------------------------------------------
(* Properties. *)

\* The points of a chart sum up to the totals shown with it, by the dashboard or by the
\* snapshot before it; those of a segment to no more; and the two totals compared are those of
\* every order of the last 2 n days, each in one of the two windows: for days, weeks and months
\* cut by the ends of the window, whenever no order was touched in between.
Total(points, of) == MapThenSumSet(LAMBDA d : points[d][of], DOMAIN points)

AddsUp(chart, totals) ==
  /\ Total(chart.points, "sales") <= totals.sales
  /\ Total(chart.points, "orders") <= totals.orders
  /\ chart.segment = DOMAIN Stock =>
       /\ Total(chart.points, "sales") = totals.sales
       /\ Total(chart.points, "orders") = totals.orders
  /\ LET p == chart.period IN
     totals.sales + totals.before
       = Sales({o \in Placed : /\ order[o].state # "cancelled"
                               /\ order[o].day > p.end - 1 - 2 * (p.end - p.start)
                               /\ order[o].day < p.end})

ChartAddsUp ==
  read # Nobody /\ read.kind # "snapshot" /\ read.at = After("series") /\ moved = {} =>
    IF read.kind = "dashboard" THEN AddsUp(read, read)
    ELSE shown # Nobody /\ shown.period = read.period => AddsUp(read, shown)

\* An order nobody touched during the reading is reported with everything that is wrong with
\* it, unless the search for it was full of newer orders.
SearchFor == [delayed |-> "stuck", payment_failed |-> "payment", buyer_message |-> "commented"]

MissedOnlyBehindNewer ==
  [][SearchOrders /\ read'.at = "answered" =>
       \A o \in Placed \ moved : \A k \in IssuesOf(order[o]) :
         \/ <<o, k>> \in read'.issues
         \/ LET got == read'.got[SearchFor[k]] IN
            /\ Cardinality(got) >= Limit
            /\ \A p \in got : Newer(p, o)]_dashboardVars

=============================================================================

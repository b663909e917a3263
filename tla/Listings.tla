------------------------------ MODULE Listings ------------------------------
(***************************************************************************)
(* Reading the orders of a user page by page while orders are placed and   *)
(* closed. The CLOB listings (GetOrdersByUserID, GetTradesByUserID) hand   *)
(* out the id of a page's last row as a cursor and ask for smaller ids     *)
(* next; the dashboard (GetOrders, GetTrades, GetPositions) counts rows    *)
(* and skips an offset. All of them show the newest rows first. Ids are    *)
(* random UUIDs: their order says nothing about age.                       *)
(*                                                                         *)
(* A row stands for an order, a trade or a position; "live" is whether it  *)
(* passes the filter of the query, the status LIVE or the open tab, which  *)
(* trades always do.                                                       *)
(***************************************************************************)
EXTENDS Integers, FiniteSets, Sequences, SequencesExt

CONSTANTS
    Ids,        \* UUIDs, as numbers
    PageSize,   \* rows per page: 100 of GetOrdersByUserID, a client's limit
    MaxPages    \* bound: pages a client asks for

ASSUME ListingsAssumption == Ids \subseteq Nat /\ PageSize \in Nat \ {0} /\ MaxPages \in Nat

VARIABLES
    rows,       \* ids in order of creation
    live,       \* the ids that pass the filter
    walk,       \* the client's walk: [kind, cursor, offset, at, pages]
    seen,       \* auxiliary: ids the walk's pages showed
    stayed      \* auxiliary: ids the walk's query selected ever since it began

ivars == <<rows, live, walk, seen, stayed>>

Resting == [kind |-> "none", at |-> "end", cursor |-> -1, offset |-> 0, pages |-> 0]
NoCursor == -1

IInit ==
    /\ rows = << >> /\ live = {} /\ walk = Resting
    /\ seen = {} /\ stayed = {}

-----------------------------------------------------------------------------
\* INSERT: the row is the newest, its id anywhere among the others.
Insert == \E id \in Ids \ Range(rows) :
    /\ rows' = Append(rows, id) /\ live' = live \cup {id}
    /\ UNCHANGED <<walk, seen, stayed>>

\* A fill, a cancel or a settlement; rows are never deleted.
Close == \E id \in live :
    /\ live' = live \ {id}
    /\ stayed' = IF walk.kind = "all" THEN stayed ELSE stayed \ {id}
    /\ UNCHANGED <<rows, walk, seen>>

\* A walk of the CLOB's live rows, or one of the dashboard's over every row or
\* over the live ones.
Begin == \E kind \in {"cursor", "all", "tab"} :
    /\ walk.kind = "none"
    /\ walk' = [Resting EXCEPT !.kind = kind,
                               !.at = IF kind = "cursor" THEN "page" ELSE "count"]
    /\ seen' = {} /\ stayed' = IF kind = "all" THEN Range(rows) ELSE live
    /\ UNCHANGED <<rows, live>>

Before(id, cursor) == cursor = NoCursor \/ id < cursor

\* WHERE status = 'LIVE' AND id < cursor ORDER BY created_at DESC LIMIT 101: the
\* row after a full page only tells that there is a next one.
CursorRows(cursor) ==
    SelectSeq(Reverse(rows), LAMBDA id : id \in live /\ Before(id, cursor))

First(s, n) == SubSeq(s, 1, IF Len(s) < n THEN Len(s) ELSE n)

CursorPage == LET found == CursorRows(walk.cursor)
                  page  == First(found, PageSize) IN
    /\ walk.kind = "cursor" /\ walk.at = "page" /\ walk.pages < MaxPages
    /\ seen' = seen \cup Range(page)
    /\ walk' = IF Len(found) > PageSize
               THEN [walk EXCEPT !.cursor = page[PageSize], !.pages = @ + 1]
               ELSE [walk EXCEPT !.at = "end"]
    /\ UNCHANGED <<rows, live, stayed>>

\* SELECT COUNT(*), a statement before the page: the total may be out of date.
Count ==
    /\ walk.at = "count" /\ walk' = [walk EXCEPT !.at = "page"]
    /\ UNCHANGED <<rows, live, seen, stayed>>

\* Mutant: ORDER BY updated_at, which closing a row sets.
LatestFirst == SelectSeq(Reverse(rows), LAMBDA id : id \notin live)
                   \o SelectSeq(Reverse(rows), LAMBDA id : id \in live)

NewestFirst == Reverse(rows)

OffsetRows == IF walk.kind = "all" THEN NewestFirst
              ELSE SelectSeq(NewestFirst, LAMBDA id : id \in live)

\* LIMIT and OFFSET: the client skips what it was shown and stops at a page
\* that is not full.
OffsetPage == LET found == OffsetRows
                  page  == First(SubSeq(found, walk.offset + 1, Len(found)), PageSize) IN
    /\ walk.kind \in {"all", "tab"} /\ walk.at = "page" /\ walk.pages < MaxPages
    /\ seen' = seen \cup Range(page)
    /\ walk' = IF Len(page) = PageSize
               THEN [walk EXCEPT !.offset = @ + PageSize, !.at = "count", !.pages = @ + 1]
               ELSE [walk EXCEPT !.at = "end"]
    /\ UNCHANGED <<rows, live, stayed>>

Done == walk.kind # "none" /\ walk.at = "end"

\* The client looks at what it has.
Finish ==
    /\ Done /\ walk' = Resting /\ seen' = {} /\ stayed' = {}
    /\ UNCHANGED <<rows, live>>

INext == Insert \/ Close \/ Begin \/ CursorPage \/ Count \/ OffsetPage \/ Finish
ISpec == IInit /\ [][INext]_ivars

-----------------------------------------------------------------------------
\* A walk of the dashboard through all orders, or all trades, shows every row
\* that was there when it began, whatever is placed, filled or canceled between
\* its pages: new rows push old ones to later pages only.
NothingSkipped == walk.kind = "all" /\ Done => stayed \subseteq seen

\* "GetOrders returns paginated orders for a user" (service.go:433): the pages
\* together show every order that was LIVE all along.
PagesAreComplete == walk.kind = "cursor" /\ Done => stayed \subseteq seen

=============================================================================

-------------------------- MODULE TransactionLists --------------------------
(***************************************************************************)
(* Listing stored transactions while they are saved and cleaned up         *)
(* (query_transactions, list_transactions and iter_transactions in         *)
(* src/rpacore/persistence.py; transaction list and export in              *)
(* src/rpacore/_transaction_cli.py).                                       *)
(*                                                                         *)
(* Every query and every load is a connection and a snapshot of its own.   *)
(* A query page is keyed by (created_at_utc newest first, id); a row       *)
(* without a UTC time has the empty key, which sorts last, until a save    *)
(* fills it in.  The listings of full records select ids first and load    *)
(* each of them later, when it may have changed or be gone.                *)
(***************************************************************************)
EXTENDS Integers, Sequences, FiniteSets, Functions

CONSTANTS
    Ids,         \* the transactions, in the order of their ids
    Age,         \* how old each one is: 1 is the newest creation time
    Window,      \* the ages from the until to the since of a caller
    PageSize,    \* how many summaries the command line reads at once
    ListLimits   \* the limits a caller may give

ASSUME ListsAssumption ==
    /\ Ids \subseteq Nat /\ IsFiniteSet(Ids)
    /\ Age \in [Ids -> Nat \ {0}]
    /\ Window \subseteq Nat \ {0} /\ IsFiniteSet(Window)
    /\ PageSize \in Nat \ {0}
    /\ ListLimits \subseteq Nat \ {0}

VARIABLES
    stored,   \* the transaction rows
    walk      \* the caller that lists them

listVars == <<stored, walk>>

Absent == [about |-> FALSE, created |-> "absent"]

\* about: has the status, the reference and the metadata callers ask for.
\* created: both times, a local time without UTC time, or no time at all.
Rows == [about : BOOLEAN, created : {"utc", "local", "none"}]

\* A caller may ask for some of the rows only, and for those of a time window.
Queries == [asks : BOOLEAN, within : BOOLEAN]

Unlimited == -1
Undated == 1 + CHOOSE n \in {Age[t] : t \in Ids} : \A t \in Ids : Age[t] <= n

\* The place of a row in the order of pages, and in that of the full listings.
PageKey(rows, t) == IF rows[t].created = "utc" THEN Age[t] ELSE Undated
ListKey(rows, t) == IF rows[t].created = "none" THEN Undated ELSE Age[t]

\* Full listings take a lower bound only, and compare it with local times too.
Wanted(rows, query) ==
    {t \in Ids : /\ rows[t] # Absent
                 /\ query.asks => rows[t].about
                 /\ query.within => rows[t].created = "utc" /\ Age[t] \in Window}
Listed(rows, query) ==
    {t \in Ids : /\ rows[t] # Absent
                 /\ query.asks => rows[t].about
                 /\ query.within => /\ rows[t].created # "none"
                                    /\ \E age \in Window : Age[t] <= age}

\* ORDER BY the key, then the id: in each place the row that as many come before.
Before(key, a, b) == key[a] < key[b] \/ (key[a] = key[b] /\ a < b)
Rank(ids, key, t) == Cardinality({u \in ids : Before(key, u, t)})
Sorted(ids, key) ==
    [n \in 1..Cardinality(ids) |-> CHOOSE t \in ids : Rank(ids, key, t) = n - 1]
Top(ids, n) == IF n = Unlimited \/ Len(ids) < n THEN ids ELSE SubSeq(ids, 1, n)

\* faulty: the page goes on at the next time, whatever other row has the same
BeyondTime(t, cursor) == PageKey(stored, t) > cursor.age
Beyond(t, cursor) ==
    \/ PageKey(stored, t) > cursor.age
    \/ PageKey(stored, t) = cursor.age /\ t > cursor.id

Start == [age |-> 0, id |-> 0]

NoWalk == [kind |-> "none", phase |-> "rest", query |-> [asks |-> FALSE, within |-> FALSE],
         cursor |-> Start, left |-> Unlimited, more |-> FALSE, toLoad |-> <<>>,
         returned |-> {}, omitted |-> {}, again |-> FALSE, allowed |-> 0, steady |-> {}]

ListInit ==
    /\ stored \in [Ids -> Rows \cup {Absent}]
    /\ walk = NoWalk

-----------------------------------------------------------------------------

\* What has stood in its place, and matched, since the walk began; a full listing
\* owes its caller every row it selected, as long as that one exists.
Steady(rows) ==
    IF walk.kind \in {"list", "none"}
    THEN {t \in walk.steady : rows[t] # Absent}
    ELSE {t \in walk.steady \cap Wanted(rows, walk.query) :
              PageKey(rows, t) = PageKey(stored, t)}

Store(rows) ==
    /\ stored' = rows
    /\ walk' = [walk EXCEPT !.steady = Steady(rows)]

(***************************************************************************)
(* A save inserts a row, with the UTC time the transaction was made at, or *)
(* updates it: a creation time is filled in when there was none, and kept  *)
(* when there was one.                                                     *)
(***************************************************************************)
SaveRow(t) ==
    \E about \in BOOLEAN, created \in {"utc", "local", "none"} :
        /\ created # "utc" => created = stored[t].created
        /\ Store([stored EXCEPT ![t] = [about |-> about, created |-> created]])

\* Cleaning up is not the package's: someone deletes the row.
CleanUp(t) ==
    /\ stored[t] # Absent
    /\ Store([stored EXCEPT ![t] = Absent])

-----------------------------------------------------------------------------

\* A cursor goes with its filters: with others the query is refused.
FitsCursor(kind, query) ==
    walk.phase = "rest" \/ (walk.phase = "between" /\ walk.kind = kind /\ walk.query = query)

\* The rows after the cursor, one more than wanted to see whether more follow.
NextPage(query) ==
    Sorted({t \in Wanted(stored, query) : Beyond(t, walk.cursor)},
           [t \in Ids |-> PageKey(stored, t)])

CursorAt(page) == LET last == page[Len(page)] IN [age |-> PageKey(stored, last), id |-> last]

SteadyFrom(ids) == IF walk.phase = "rest" THEN ids ELSE walk.steady
MoreAllowed(limit) == IF limit = Unlimited THEN Unlimited ELSE walk.allowed + limit

\* One call of query_transactions, whose limit is at most that of the command line's
\* pages: the page is all the caller gets.
QueryPage(query, limit) ==
    LET rest == NextPage(query)
        page == Top(rest, limit)
        more == Len(rest) > limit
    IN
    /\ limit <= PageSize
    /\ FitsCursor("query", query)
    /\ walk' = [walk EXCEPT
                   !.kind = "query", !.query = query,
                   !.phase = IF more THEN "between" ELSE "end",
                   !.cursor = IF more THEN CursorAt(page) ELSE Start,
                   !.returned = @ \cup Range(page),
                   !.again = @ \/ Range(page) \cap walk.returned # {},
                   !.allowed = MoreAllowed(limit),
                   !.steady = SteadyFrom(Wanted(stored, query))]
    /\ UNCHANGED stored

\* transaction list, from the start or with the cursor an earlier command printed;
\* transaction export has neither filter nor limit.
Command(query, limit) ==
    /\ FitsCursor("records", query)
    /\ limit = Unlimited => walk.phase = "rest" /\ query = NoWalk.query
    /\ walk' = [walk EXCEPT !.kind = "records", !.query = query, !.phase = "paging",
                            !.left = limit, !.allowed = MoreAllowed(limit),
                            !.steady = SteadyFrom(Wanted(stored, query))]
    /\ UNCHANGED stored

\* Where a listing stands once it has to load the given ids.
Phase(kind, toLoad, more, capped) ==
    IF toLoad # <<>> THEN "loading"
    ELSE IF ~more THEN "end"
    ELSE IF capped THEN "between" ELSE "paging"

PageLimit == IF walk.left = Unlimited \/ walk.left > PageSize THEN PageSize ELSE walk.left

\* One page of summaries, whose connection is closed before any of them is loaded.
\* Removed summaries count against the limit like the others.
CommandPage ==
    LET rest == NextPage(walk.query)
        page == Top(rest, PageLimit)
        more == Len(rest) > PageLimit
        left == IF walk.left = Unlimited THEN Unlimited ELSE walk.left - Len(page)
    IN
    /\ walk.phase = "paging"
    /\ walk' = [walk EXCEPT
                   !.more = more, !.left = left, !.toLoad = page,
                   !.cursor = IF more THEN CursorAt(page) ELSE Start,
                   !.phase = Phase("records", page, more, FALSE)]
    /\ UNCHANGED stored

\* list_transactions and, without a limit, iter_transactions select ids once.
SelectIds(query, limit) ==
    LET ids == Top(Sorted(Listed(stored, query), [t \in Ids |-> ListKey(stored, t)]),
                   limit)
    IN
    /\ walk.phase = "rest"
    /\ walk' = [walk EXCEPT !.kind = "list", !.query = query, !.toLoad = ids,
                            !.allowed = limit, !.steady = Range(ids),
                            !.phase = Phase("list", ids, FALSE, FALSE)]
    /\ UNCHANGED stored

\* The next id is loaded, as the row now is, or omitted because it is gone.
LoadNext ==
    LET t == Head(walk.toLoad)
        rest == Tail(walk.toLoad)
    IN
    /\ walk.phase = "loading"
    /\ walk' = [walk EXCEPT
                   !.toLoad = rest,
                   !.returned = IF stored[t] = Absent THEN @ ELSE @ \cup {t},
                   !.omitted = IF stored[t] = Absent THEN @ \cup {t} ELSE @,
                   !.again = @ \/ t \in walk.returned \cup walk.omitted,
                   !.phase = Phase(walk.kind, rest, walk.more,
                                   walk.left = 0)]
    /\ UNCHANGED stored

\* The caller stops, a cursor is refused, or a load fails for any other reason.
StopListing ==
    /\ walk.phase # "rest"
    /\ walk' = NoWalk
    /\ UNCHANGED stored

ListNext ==
    \/ \E t \in Ids : SaveRow(t) \/ CleanUp(t)
    \/ \E query \in Queries, limit \in ListLimits : QueryPage(query, limit)
    \/ \E query \in Queries, limit \in ListLimits \cup {Unlimited} :
           Command(query, limit) \/ SelectIds(query, limit)
    \/ CommandPage
    \/ LoadNext
    \/ StopListing

ListSpec == ListInit /\ [][ListNext]_listVars

-----------------------------------------------------------------------------

(***************************************************************************)
(* Whatever is saved, dated or removed during a walk of several pages,     *)
(* commands and loads: no transaction is returned twice; one that stayed,  *)
(* matching and in its place, is neither omitted nor passed over; and no   *)
(* more are selected than the limits given allow.                          *)
(***************************************************************************)
ListsMissNothing ==
    LET selected == walk.returned \cup walk.omitted \cup Range(walk.toLoad) IN
    /\ ~walk.again
    /\ walk.omitted \cap walk.steady = {}
    /\ walk.phase = "end" => walk.steady \subseteq walk.returned
    /\ walk.allowed # Unlimited => Cardinality(selected) <= walk.allowed
=============================================================================

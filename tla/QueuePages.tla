----------------------------- MODULE QueuePages -----------------------------
(***************************************************************************)
(* Reading a queue page by page while it is at work                        *)
(* (src/rpacore/_queue_read.py, the queue commands of the command line).   *)
(*                                                                         *)
(* A page is one SELECT in its own connection.  Between two pages workers  *)
(* claim, finish and requeue items, producers insert some before and some  *)
(* behind the cursor: items are keyed by (created_at, id), which no clock  *)
(* keeps in the order of insertion, events by their sequence.  The cursor  *)
(* is the key of the last row returned, bound to the kind and the filter.  *)
(***************************************************************************)
EXTENDS SqliteQueue

CONSTANTS
    Filters,   \* the status filters a caller may give; Statuses for none at all
    Limits     \* the page sizes a caller may give

ASSUME PagesAssumption == Filters \subseteq SUBSET Statuses /\ Limits \subseteq Nat \ {0}

VARIABLE reader   \* the caller that walks the pages

pageVars == <<vars, reader>>

\* What is listed: all items, or the attempts or the poison events of one item.
Lists == {<<"items", 0>>} \cup ({"attempts", "poison"} \X Items)

\* Only items are listed by status.
FiltersOf(list) == IF list[1] = "items" THEN Filters ELSE {Statuses}

\* The keys a filter selects now.
KeysIn(items, attempts, events, list, filter) ==
    CASE list[1] = "items" -> {i \in Items : items[i].status \in filter \ {"absent"}}
      [] list[1] = "attempts" -> DOMAIN attempts[list[2]]
      [] list[1] = "poison" -> 1..events[list[2]]
Keys(list, filter) == KeysIn(row, ledger, poison, list, filter)

AtRest == [pc |-> "rest", list |-> <<"items", 0>>, filter |-> {}, cursor |-> 0,
           returned |-> {}, again |-> FALSE, steady |-> {}]

PageInit == Init /\ reader = AtRest

After(keys, cursor) == {k \in keys : k > cursor}

Least(keys, n) == {k \in keys : Cardinality({j \in keys : j < k}) < n}
Last(keys) == CHOOSE k \in keys : \A j \in keys : j <= k

\* faulty: the key of the row that was read ahead
NextAhead(page) == Last(page) + 1
NextCursor(page) == Last(page)

\* A cursor is refused with another kind, item or filter than it was given for.
Fits(list, filter) == reader.pc = "rest" \/ (list = reader.list /\ filter = reader.filter)

(***************************************************************************)
(* One page: rows after the cursor, one more than the limit to see whether *)
(* there is a next page.  A row that does not decode fails the whole page  *)
(* and changes nothing in the queue.                                       *)
(***************************************************************************)
ReadPage(list, filter, limit) ==
    LET keys == Keys(list, filter)
        rest == After(keys, reader.cursor)
        page == Least(rest, limit)
        steady == IF reader.pc = "rest" THEN keys ELSE reader.steady
    IN
    /\ reader.pc \in {"rest", "between"}
    /\ Fits(list, filter)
    /\ ~(list[1] = "items" /\ page \cap PoisonItems # {})
    /\ reader' = [pc |-> IF Cardinality(rest) > limit THEN "between" ELSE "end",
                  list |-> list, filter |-> filter,
                  cursor |-> IF Cardinality(rest) > limit THEN NextCursor(page) ELSE 0,
                  returned |-> reader.returned \cup page,
                  again |-> reader.again \/ page \cap reader.returned # {},
                  steady |-> steady]
    /\ UNCHANGED vars

\* The call raises: a misused cursor, or a row whose payload does not decode.
PageFails(list, filter, limit) ==
    LET page == Least(After(Keys(list, filter), reader.cursor), limit) IN
    /\ reader.pc \in {"rest", "between"}
    /\ \/ ~Fits(list, filter)
       \/ list[1] = "items" /\ page \cap PoisonItems # {}
    /\ reader' = AtRest
    /\ UNCHANGED vars

\* The queue goes on; a row is steady while it has matched without a break.  A walk
\* that has reached its end is forgotten: the caller may start another.
QueueStep ==
    /\ Next
    /\ reader' = IF reader.pc = "between"
                 THEN [reader EXCEPT !.steady =
                         @ \cap KeysIn(row', ledger', poison', reader.list, reader.filter)]
                 ELSE AtRest

PageNext ==
    \/ QueueStep
    \/ \E list \in Lists, limit \in Limits : \E filter \in FiltersOf(list) :
           ReadPage(list, filter, limit) \/ PageFails(list, filter, limit)

PageSpec == PageInit /\ [][PageNext]_pageVars

-----------------------------------------------------------------------------

(***************************************************************************)
(* However items move between statuses and whatever is inserted while the  *)
(* pages are read, no row is returned twice, and a row that matched the    *)
(* filter from the first page to the last was returned.                    *)
(***************************************************************************)
PagesMissNothing ==
    /\ ~reader.again
    /\ reader.pc = "end" => reader.steady \subseteq reader.returned
=============================================================================

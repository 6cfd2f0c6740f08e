-------------------------------- MODULE Pages --------------------------------
(***************************************************************************)
(* The panel's listings (src/src/admin/repository.py) and their pages      *)
(* (src/src/paginate.py), while rows come, go and change places.           *)
(*                                                                         *)
(* A row is known by the timestamp the listing is ordered by, newest       *)
(* first: created_at, which never changes, or started_at, which every      *)
(* renewal of the subscription sets.  Timestamps are taken to be distinct. *)
(* A page is two queries, the count and the rows, and others commit        *)
(* between them.  The panel follows next_offset from page to page.         *)
(***************************************************************************)
EXTENDS Integers, FiniteSets

CONSTANTS
  Stamps,     \* the timestamps of rows
  Limit,      \* rows of a page
  MaxOffset,  \* bound on the offset a walk may begin at
  MaxMoves,   \* bound on the rows that leave or change places during a walk
  MaxLate     \* bound on the rows that come between a count and its page

ASSUME PageAssumption ==
  /\ Stamps \subseteq Nat /\ IsFiniteSet(Stamps)
  /\ Limit \in Nat \ {0}
  /\ {MaxOffset, MaxMoves, MaxLate} \subseteq Nat

VARIABLES
  rows,    \* the rows that satisfy the listing's filters
  phase,   \* of the walk: "closed", "count", "page" or "done"
  offset,  \* of the page to be fetched
  total,   \* what the count has returned
  seen,    \* rows shown so far
  owed,    \* rows that were at or behind the offset when the walk began
  moves,   \* rows that have left or changed places since
  late     \* rows that have come since the last count

vars == <<rows, phase, offset, total, seen, owed, moves, late>>

-----------------------------------------------------------------------------
TypeOK ==
  /\ rows \subseteq Stamps
  /\ phase \in {"closed", "count", "page", "done"}
  /\ offset \in Nat /\ (offset <= MaxOffset \/ offset < Cardinality(Stamps))
  /\ total \in 0 .. Cardinality(Stamps)
  /\ seen \subseteq Stamps
  /\ owed \subseteq rows
  /\ moves \in 0 .. MaxMoves
  /\ late \in 0 .. MaxLate

Init ==
  /\ rows \in SUBSET Stamps
  /\ phase = "closed"
  /\ offset = 0
  /\ total = 0
  /\ seen = {}
  /\ owed = {}
  /\ moves = 0
  /\ late = 0

Walking == phase \in {"count", "page"}

\* ORDER BY ... DESC: how many rows are in front of a row
Position(R, r) == Cardinality({s \in R : s > r})

\* LIMIT and OFFSET
Shown == {r \in rows : offset <= Position(rows, r) /\ Position(rows, r) < offset + Limit}

-----------------------------------------------------------------------------
(* The table.                                                              *)

\* A row is committed, or comes to satisfy the filters.  The timestamp was taken
\* before the commit, so the row need not be the newest.
Enter(s) ==
  /\ s \notin rows
  /\ rows' = rows \cup {s}
  /\ IF phase = "page" THEN late < MaxLate /\ late' = late + 1 ELSE UNCHANGED late
  /\ UNCHANGED <<phase, offset, total, seen, owed, moves>>

Moved == IF Walking THEN moves < MaxMoves /\ moves' = moves + 1 ELSE UNCHANGED moves

\* A row ceases to satisfy the filters: a user is deactivated, verified or given
\* another role.
Leave(s) ==
  /\ s \in rows
  /\ rows' = rows \ {s}
  /\ owed' = owed \ {s}
  /\ Moved
  /\ UNCHANGED <<phase, offset, total, seen, late>>

Restamped(S, s, t) == IF s \in S THEN (S \ {s}) \cup {t} ELSE S

\* update_subscription_period: started_at is the start of the new period.
Renew(s, t) ==
  /\ s \in rows /\ t \notin rows /\ s < t
  /\ rows' = Restamped(rows, s, t)
  /\ owed' = Restamped(owed, s, t)
  /\ seen' = Restamped(seen \ {t}, s, t)
  /\ Moved
  /\ UNCHANGED <<phase, offset, total, late>>

-----------------------------------------------------------------------------
(* The walk.                                                               *)

Open(o) ==
  /\ ~Walking
  /\ phase' = "count"
  /\ offset' = o
  /\ seen' = {}
  /\ owed' = {r \in rows : Position(rows, r) >= o}
  /\ moves' = 0
  /\ late' = 0
  /\ UNCHANGED <<rows, total>>

\* paginate, first query
Count ==
  /\ phase = "count"
  /\ phase' = "page"
  /\ total' = Cardinality(rows)
  /\ late' = 0
  /\ UNCHANGED <<rows, offset, seen, owed, moves>>

\* Mutant: a page is taken to end one row later
PageShort ==
  /\ phase = "page"
  /\ seen' = seen \cup Shown
  /\ IF offset + Limit + 1 < total
     THEN phase' = "count" /\ offset' = offset + Limit
     ELSE phase' = "done" /\ UNCHANGED offset
  /\ UNCHANGED <<rows, total, owed, moves, late>>

\* Mutant: there is a next page as long as this one has rows
PageWhileRows ==
  /\ phase = "page"
  /\ seen' = seen \cup Shown
  /\ IF offset < total
     THEN phase' = "count" /\ offset' = offset + Limit
     ELSE phase' = "done" /\ UNCHANGED offset
  /\ UNCHANGED <<rows, total, owed, moves, late>>

\* The panel's link, which has_next decides with the count of the first query
Follow ==
  IF offset + Limit < total
  THEN phase' = "count" /\ offset' = offset + Limit
  ELSE phase' = "done" /\ UNCHANGED offset

\* paginate, second query
Page ==
  /\ phase = "page"
  /\ seen' = seen \cup Shown
  /\ Follow
  /\ UNCHANGED <<rows, total, owed, moves, late>>

-----------------------------------------------------------------------------
Next ==
  \/ \E s \in Stamps : Enter(s) \/ Leave(s) \/ \E t \in Stamps : Renew(s, t)
  \/ \E o \in 0 .. MaxOffset : Open(o)
  \/ Count
  \/ Page

Spec == Init /\ [][Next]_vars

-----------------------------------------------------------------------------
\* A walk along the next links shows every row that is in the listing from its
\* beginning, but for one row at most for each row that left or changed places
\* meanwhile and for each that came between the last count and its page.
WalkComplete == phase = "done" => Cardinality(owed \ seen) <= moves + late
=============================================================================

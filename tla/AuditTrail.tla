------------------------------- MODULE AuditTrail -------------------------------
(***************************************************************************)
(* The audit page of the browser: an infinite query for each filter, to    *)
(* which "load more" adds a page, and which is read again, from its first  *)
(* page on, whenever something was changed (audit-page.tsx,                *)
(* audit-query.ts).                                                        *)
(***************************************************************************)
EXTENDS AuditLog

CONSTANTS
  TrailPage,   \* events the page reads at once
  MaxPages     \* bound: pages held of one filter

ASSUME TrailConstants == TrailPage \in Nat \ {0} /\ MaxPages \in Nat \ {0}

VARIABLES
  filters,  \* the filter in the page's location
  trail,    \* of each filter, the pages held
  reading   \* of each filter, the fetch under way and the pages it has got

trailVars == <<filters, trail, reading>>

NotReading == [kind |-> "none", got |-> <<>>]

Begin(kind) == [kind |-> kind, got |-> <<>>]

TrailInit ==
  /\ filters = "all"
  /\ trail = [f \in Filters |-> <<>>]
  /\ reading = [f \in Filters |-> IF f = "all" THEN Begin("first") ELSE NotReading]

(* getNextPageParam of the last of some pages; the initial one if there is none. *)
CursorAfter(held) == IF held = <<>> THEN NoCursor ELSE held[Len(held)].next

HasNextPage(f) == trail[f] # <<>> /\ CursorAfter(trail[f]) # NoCursor

CursorHeld(f) ==  \* variant: a page is read again from where it began before
  IF reading[f].kind = "reread"
    THEN CursorAfter(SubSeq(trail[f], 1, Len(reading[f].got)))
    ELSE CursorAfter(trail[f])

(* Where the fetch under way reads next; a page that is read again begins where
   the page before it, as it was just read, ends. *)
Cursor(f) ==
  IF reading[f].kind = "reread" THEN CursorAfter(reading[f].got) ELSE CursorAfter(trail[f])

(* updateFilters: another filter is another query, whose pages may still be there. *)
ChangeFilters(f) ==
  /\ f # filters
  /\ filters' = f
  /\ reading' = IF trail[f] = <<>> /\ reading[f] = NotReading
                  THEN [reading EXCEPT ![f] = Begin("first")] ELSE reading
  /\ UNCHANGED <<auditVars, trail>>

(* The button; a page being read again is given up for it. *)
LoadMore ==
  /\ HasNextPage(filters) /\ Len(trail[filters]) < MaxPages
  /\ reading[filters].kind # "more"
  /\ reading' = [reading EXCEPT ![filters] = Begin("more")]
  /\ UNCHANGED <<auditVars, filters, trail>>

(* The query is invalidated, or stale when it is shown again: whatever is under way
   is given up; a first fetch, also one that failed, is not. *)
ReadAgain ==
  /\ reading[filters].kind # "first"
  /\ reading' = [reading EXCEPT ![filters] =
                   Begin(IF trail[filters] = <<>> THEN "first" ELSE "reread")]
  /\ UNCHANGED <<auditVars, filters, trail>>

(* The server answers one request of a fetch. *)
ReadPage(f) ==
  /\ reading[f] # NotReading
  /\ LET read == ListAudit(f, Cursor(f), TrailPage)
         page == [rows |-> read.rows, next |-> read.next,
                  known |-> IF Cursor(f) = NoCursor THEN Matching(f, events) ELSE {}]
         got == Append(reading[f].got, page)
     IN IF reading[f].kind = "reread" /\ Len(got) < Len(trail[f]) /\ read.next # NoCursor
          THEN /\ reading' = [reading EXCEPT ![f].got = got]
               /\ UNCHANGED trail
          ELSE /\ reading' = [reading EXCEPT ![f] = NotReading]
               /\ trail' = [trail EXCEPT ![f] =
                    IF reading[f].kind = "reread" THEN got ELSE Append(@, page)]
  /\ UNCHANGED <<auditVars, filters>>

(* A request of it fails: what is held stays. *)
ReadBreaks(f) ==
  /\ reading[f] # NotReading
  /\ reading' = [reading EXCEPT ![f] = NotReading]
  /\ UNCHANGED <<auditVars, filters, trail>>

TrailNext ==
  \/ \E f \in Filters : ChangeFilters(f) \/ ReadPage(f) \/ ReadBreaks(f)
  \/ LoadMore \/ ReadAgain

LogNext == ((AuditWrites \/ ExportNext) /\ UNCHANGED trailVars) \/ TrailNext

LogSpec == AuditInit /\ TrailInit /\ [][LogNext]_<<auditVars, trailVars>>

-----------------------------------------------------------------------------
(* Properties *)

ShownTrail(f) == UNION {trail[f][k].rows : k \in 1..Len(trail[f])}

TrailTypeOK ==
  /\ filters \in Filters
  /\ \A f \in Filters :
       /\ ShownTrail(f) \subseteq events
       /\ reading[f].kind \in {"none", "first", "more", "reread"}
       /\ Len(trail[f]) <= MaxPages

(* The page shows every event at most once and all of them in the log's order, on
   however many pages, though they were read at different times and some of them
   again (audit-page.tsx:38). *)
TrailInOrder ==
  \A f \in Filters : \A i, j \in 1..Len(trail[f]) : i < j =>
    \A x \in trail[f][i].rows, y \in trail[f][j].rows : Older(y, x) /\ x # y

(* Down to the last event that is shown no event is left out that was there when
   the first page was read, and none at all once there is nothing more to load. *)
TrailComplete ==
  \A f \in Filters : trail[f] # <<>> =>
    \A e \in trail[f][1].known \ ShownTrail(f) :
      /\ \A x \in ShownTrail(f) : Older(e, x)
      /\ HasNextPage(f)

(* The export and the page both piece the log together from pages read at different
   times, and neither repeats nor leaves out an event of it. *)
LogReadWhole ==
  /\ AuditTypeOK /\ ExportInOrder /\ ExportComplete
  /\ TrailTypeOK /\ TrailInOrder /\ TrailComplete

=============================================================================

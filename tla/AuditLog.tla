-------------------------------- MODULE AuditLog --------------------------------
(***************************************************************************)
(* The audit log: events are inserted while it is read page by page, each  *)
(* page by a statement of its own (store/audit.go, httpapi/audit.go).  An  *)
(* event's time is taken some time before it is inserted, and events of    *)
(* one time are ordered by their random identities.                        *)
(***************************************************************************)
EXTENDS Integers, Sequences, FiniteSets

CONSTANTS
  Filters,     \* outcomes the log is filtered by; "all" for no filter
  EventIds,    \* identities of events, in no relation to the order of insertion
  MaxTime,     \* bound: the clock
  MaxLag,      \* how long an insertion takes at most
  ExportPage,  \* events an export reads at once
  ExportRows   \* events an export holds at most

ASSUME AuditConstants ==
  /\ "all" \in Filters /\ EventIds \subseteq Nat
  /\ MaxTime \in Nat /\ MaxLag \in Nat
  /\ ExportPage \in Nat \ {0} /\ ExportRows \in Nat \ {0}

VARIABLES
  clock,
  events,      \* rows of audit_events
  export       \* the export under way: its chunks and how it stands

auditVars == <<clock, events, export>>

Events == [time : Int, id : EventIds, outcome : Filters \ {"all"}]

NoCursor == [time |-> -1, id |-> -1]

NoExport == [state |-> "none", filter |-> "all", chunks |-> <<>>, next |-> NoCursor,
             known |-> {}]

AuditInit == clock = 0 /\ events = {} /\ export = NoExport

-----------------------------------------------------------------------------
(* ListAudit *)

OlderByTime(e, c) == e.time < c.time  \* variant: the identity is not compared

(* The order of the log, and what a cursor leaves for the next page. *)
Older(e, c) == e.time < c.time \/ (e.time = c.time /\ e.id < c.id)

Matching(filter, rows) == {e \in rows : filter = "all" \/ e.outcome = filter}

(* Of the rows after the cursor, the newest limit ones; a cursor if there are more. *)
ListAudit(filter, cursor, limit) ==
  LET rows == {e \in Matching(filter, events) : cursor = NoCursor \/ Older(e, cursor)}
      top == {e \in rows :
                Cardinality({x \in rows \ {e} :
                              x.time > e.time \/ (x.time = e.time /\ x.id > e.id)}) < limit}
      last == CHOOSE e \in top : \A x \in top \ {e} : Older(e, x)
  IN [rows |-> top,
      next |-> IF Cardinality(rows) > limit THEN [time |-> last.time, id |-> last.id]
               ELSE NoCursor]

-----------------------------------------------------------------------------

Tick == clock < MaxTime /\ clock' = clock + 1 /\ UNCHANGED <<events, export>>

(* WriteAudit, of an event whose time is not older than MaxLag. *)
WriteAudit(id, outcome, lag) ==
  /\ \A e \in events : e.id # id
  /\ events' = events \union {[time |-> clock - lag, id |-> id, outcome |-> outcome]}
  /\ UNCHANGED <<clock, export>>

Exported == UNION {export.chunks[k] : k \in 1..Len(export.chunks)}

(* What an export asks for next. *)
ExportLimit ==
  LET left == ExportRows - Cardinality(Exported)
  IN IF left < ExportPage THEN left ELSE ExportPage

(* The first page is read before the answer begins, ... *)
BeginExport(filter) ==
  /\ export.state = "none"
  /\ LET first == ListAudit(filter, NoCursor, ExportLimit)
     IN export' = [state |-> "writing", filter |-> filter, chunks |-> <<first.rows>>,
                   next |-> first.next, known |-> Matching(filter, events)]
  /\ UNCHANGED <<clock, events>>

(* ... the others after the rows before them are written. *)
ContinueExport ==
  /\ export.state = "writing"
  /\ export.next # NoCursor /\ Cardinality(Exported) < ExportRows
  /\ LET page == ListAudit(export.filter, export.next, ExportLimit)
     IN export' = [export EXCEPT !.chunks = Append(@, page.rows), !.next = page.next]
  /\ UNCHANGED <<clock, events>>

EndExport ==
  /\ export.state = "writing"
  /\ export.next = NoCursor \/ Cardinality(Exported) >= ExportRows
  /\ export' = [export EXCEPT !.state = "done"]
  /\ UNCHANGED <<clock, events>>

(* The connection or a statement breaks: the answer ends as if it were whole. *)
BreakExport ==
  /\ export.state = "writing"
  /\ export' = [export EXCEPT !.state = "broken"]
  /\ UNCHANGED <<clock, events>>

ForgetExport ==
  /\ export.state \in {"done", "broken"}
  /\ export' = NoExport
  /\ UNCHANGED <<clock, events>>

AuditWrites ==
  \/ Tick
  \/ \E id \in EventIds : \E outcome \in Filters \ {"all"} : \E lag \in 0..MaxLag :
       WriteAudit(id, outcome, lag)

ExportNext ==
  \/ \E filter \in Filters : BeginExport(filter)
  \/ ContinueExport \/ EndExport \/ BreakExport \/ ForgetExport

-----------------------------------------------------------------------------
(* Properties *)

AuditTypeOK ==
  /\ clock \in 0..MaxTime
  /\ events \subseteq Events
  /\ export.state \in {"none", "writing", "done", "broken"}
  /\ Exported \subseteq events

(* An export holds every event once, in the order of the log, and no more of them
   than the limit, though events of any time are inserted while it is written
   (audit.go:93-119). *)
ExportInOrder ==
  /\ Cardinality(Exported) <= ExportRows
  /\ \A i, j \in 1..Len(export.chunks) : i < j =>
       \A x \in export.chunks[i], y \in export.chunks[j] : Older(y, x) /\ x # y

(* An export leaves out no event that was there when it began and is not older
   than its last row; one that ends without reaching the limit has them all. *)
ExportComplete ==
  \A e \in export.known \ Exported :
    /\ \A x \in Exported : Older(e, x)
    /\ export.state = "done" => Cardinality(Exported) = ExportRows

=============================================================================

---------------------------------- MODULE Views ----------------------------------
(***************************************************************************)
(* The pages' data in the browser: a cache of queries, each with at most   *)
(* one read of it under way, that are read when their page is shown and    *)
(* they are stale, polled, and invalidated together when a mutation        *)
(* succeeds (the *-query.ts files, the hooks, query-provider.ts).          *)
(*                                                                         *)
(* The server's state is its version; an answer holds the version of when  *)
(* it was given, and is heard some time later.  A read with its one retry  *)
(* is a read that takes longer.                                            *)
(***************************************************************************)
EXTENDS Integers

CONSTANTS
  Visited,     \* pages that are visited; the overview is one of them
  MaxVersion   \* bound: changes of the server's state

(* What the pages read; the shell reads the overview on every page. *)
PageQueries ==
  [overview |-> {"overview"}, players |-> {"players"}, backups |-> {"backups"},
   console |-> {"history"}, settings |-> {"settings", "users"}, worlds |-> {}]

ASSUME ViewConstants ==
  /\ "overview" \in Visited /\ Visited \subseteq DOMAIN PageQueries
  /\ MaxVersion \in Nat

VARIABLES
  version,     \* of the server's state
  place,       \* the page that is shown
  cache,       \* the queries
  mutation,    \* what the server has done or accepted for the mutation under way
  refresh,     \* the later refresh of the overview is scheduled
  confirmed    \* version of when the tab last heard of a success

viewVars == <<version, place, cache, mutation, refresh, confirmed>>

Queries == UNION {PageQueries[p] : p \in Visited}

NoData == -1
NotYet == -1

(* stale: invalidated, or read longer ago than the stale time.
   blind: an invalidation did not reach the read that was under way. *)
Unread == [data |-> NoData, failed |-> FALSE, stale |-> TRUE, read |-> "idle",
           answer |-> NotYet, blind |-> FALSE]

(* refetchInterval *)
Polled == {"overview", "players"} \intersect Queries

ActiveOn(p) == {"overview"} \union PageQueries[p]

Active(q) == q \in ActiveOn(place)

ReadAnew(entry) == [entry EXCEPT !.read = "sent", !.answer = NotYet, !.blind = FALSE,
                     !.failed = IF entry.data = NoData THEN FALSE ELSE @]

ViewsInit ==
  /\ version = 0 /\ place = "overview"
  /\ cache = [q \in Queries |-> IF q = "overview" THEN ReadAnew(Unread) ELSE Unread]
  /\ mutation = "none" /\ refresh = FALSE /\ confirmed = 0

-----------------------------------------------------------------------------
(* Reading *)

(* A component that uses the query is mounted: what is stale is read. *)
Mounted(entry) ==
  IF entry.read = "idle" /\ (entry.stale \/ entry.data = NoData)
    THEN ReadAnew(entry) ELSE entry

GoTo(p) ==
  /\ p # place
  /\ place' = p
  /\ cache' = [q \in Queries |->
       IF q \in ActiveOn(p) /\ ~Active(q) THEN Mounted(cache[q]) ELSE cache[q]]
  /\ UNCHANGED <<version, mutation, refresh, confirmed>>

(* The server's routes; one that waits is not answered before the next. *)
AnswerRead(q) ==
  /\ cache[q].read = "sent"
  /\ cache' = [cache EXCEPT ![q].read = "answered", ![q].answer = version]
  /\ UNCHANGED <<version, place, mutation, refresh, confirmed>>

HearRead(q) ==
  /\ cache[q].read = "answered"
  /\ cache' = [cache EXCEPT ![q] =
       [@ EXCEPT !.data = cache[q].answer, !.failed = FALSE, !.stale = FALSE, !.read = "idle",
                 !.answer = NotYet]]
  /\ UNCHANGED <<version, place, mutation, refresh, confirmed>>

(* The read and its retry fail: what is known is kept beside the error. *)
ReadFails(q) ==
  /\ cache[q].read # "idle"
  /\ cache' = [cache EXCEPT ![q] =
       [@ EXCEPT !.failed = TRUE, !.stale = TRUE, !.read = "idle", !.answer = NotYet]]
  /\ UNCHANGED <<version, place, mutation, refresh, confirmed>>

(* staleTime passes. *)
Ages(q) ==
  /\ cache[q].data # NoData /\ ~cache[q].stale
  /\ cache' = [cache EXCEPT ![q].stale = TRUE]
  /\ UNCHANGED <<version, place, mutation, refresh, confirmed>>

PollUnlessFailed(q) ==  \* variant: an error ends the polling
  /\ q \in Polled /\ ~cache[q].failed
  /\ Active(q) /\ cache[q].read = "idle"
  /\ cache' = [cache EXCEPT ![q] = ReadAnew(@)]
  /\ UNCHANGED <<version, place, mutation, refresh, confirmed>>

(* A polled query is read again while its page is shown, also after an error; the
   error's button reads it at once. *)
Poll(q) ==
  /\ q \in Polled \/ cache[q].failed
  /\ Active(q) /\ cache[q].read = "idle"
  /\ cache' = [cache EXCEPT ![q] = ReadAnew(@)]
  /\ UNCHANGED <<version, place, mutation, refresh, confirmed>>

-----------------------------------------------------------------------------
(* Mutations *)

InvalidateLazily(Q) ==  \* variant: a read under way is not given up
  [q \in Queries |->
     IF q \notin Q THEN cache[q]
     ELSE LET entry == [cache[q] EXCEPT !.stale = TRUE]
          IN IF Active(q) /\ entry.read = "idle" THEN ReadAnew(entry) ELSE entry]

(* invalidateQueries: what is not shown is only marked; what is shown is read again
   and a read of it under way given up, unless that is its first. *)
Invalidate(Q) ==
  [q \in Queries |->
     IF q \notin Q THEN cache[q]
     ELSE LET entry == [cache[q] EXCEPT !.stale = TRUE]
          IN IF Active(q) /\ (entry.data # NoData \/ entry.read = "idle")
               THEN ReadAnew(entry)
               ELSE [entry EXCEPT !.blind = (entry.read # "idle")]]

(* The server does what a mutation asks; until then nothing depends on it.  Docker
   accepts to start, stop or restart the server before the server's state changes. *)
Performs ==
  /\ mutation = "none" /\ version < MaxVersion
  /\ version' = version + 1 /\ mutation' = "done"
  /\ UNCHANGED <<place, cache, refresh, confirmed>>

Accepts ==
  /\ mutation = "none"
  /\ mutation' = "accepted"
  /\ UNCHANGED <<version, place, cache, refresh, confirmed>>

(* onSuccess of the mutation hooks, also after their page was left. *)
Succeeds ==
  /\ mutation \in {"done", "accepted"}
  /\ cache' = Invalidate(Queries)
  /\ confirmed' = version
  /\ refresh' = (refresh \/ mutation = "accepted")
  /\ mutation' = "none"
  /\ UNCHANGED <<version, place>>

(* An error invalidates nothing, whatever the server has done by then. *)
MutationFails ==
  /\ mutation # "none"
  /\ mutation' = "none"
  /\ UNCHANGED <<version, place, cache, refresh, confirmed>>

(* The timeout of useServerAction. *)
RefreshOverview ==
  /\ refresh
  /\ refresh' = FALSE
  /\ cache' = Invalidate({"overview"})
  /\ UNCHANGED <<version, place, mutation, confirmed>>

(* The server's state changes by itself, or at last by what it had accepted. *)
ServerChanges ==
  /\ version < MaxVersion
  /\ version' = version + 1
  /\ UNCHANGED <<place, cache, mutation, refresh, confirmed>>

ViewsNext ==
  \/ \E p \in Visited : GoTo(p)
  \/ \E q \in Queries : AnswerRead(q) \/ HearRead(q) \/ ReadFails(q) \/ Ages(q) \/ Poll(q)
  \/ Performs \/ Accepts \/ Succeeds \/ MutationFails \/ RefreshOverview \/ ServerChanges

(* Reads are answered, not for ever with an error, and polls come round. *)
ViewsFairness ==
  \A q \in Polled :
    SF_viewVars(AnswerRead(q)) /\ SF_viewVars(HearRead(q)) /\ WF_viewVars(Poll(q))

ViewsSpec == ViewsInit /\ [][ViewsNext]_viewVars /\ ViewsFairness

-----------------------------------------------------------------------------
(* Properties *)

(* What a page that reads query q shows. *)
Shows(q) ==
  IF cache[q].failed THEN "error" ELSE IF cache[q].data = NoData THEN "loading" ELSE "data"

ViewsTypeOK ==
  /\ version \in 0..MaxVersion /\ confirmed \in 0..version
  /\ place \in Visited
  /\ \A q \in Queries :
       /\ cache[q].data \in NoData..version
       /\ cache[q].read \in {"idle", "sent", "answered"}
       /\ cache[q].answer \in IF cache[q].read = "answered" THEN 0..version ELSE {NotYet}
       /\ cache[q].data = NoData => (Active(q) => cache[q].failed \/ cache[q].read # "idle")
  /\ mutation \in {"none", "done", "accepted"}

(* The cache is well typed, a page without data is loading it or shows an error, and
   what the cache takes for fresh, and no read is about to replace, shows the
   effects of every mutation whose success the tab has heard, on the page it was
   asked on and on every other ("D-2c", use-create-backup.ts:14).  Excepted is a
   query whose first read, or whose read for a page left since, was under way as
   that success was heard: its answer may be the older one, and is kept. *)
ConfirmedIsShown ==
  /\ ViewsTypeOK
  /\ \A q \in Queries :
       (/\ cache[q].data # NoData /\ ~cache[q].stale
        /\ cache[q].read = "idle" /\ ~cache[q].blind) => cache[q].data >= confirmed

(* A page whose data is polled comes to show the server's state whenever that lasts
   and the page is not left, however often reads fail, are given up or leave the page
   showing an error, and also after it was left and is shown again
   (overview-query.ts:13, players-query.ts:20).  Versions being bounded, every
   behaviour has a state that lasts. *)
ViewsCatchUp ==
  \A q \in Polled :
    []<>(~Active(q) \/ (Shows(q) = "data" /\ cache[q].data = version))

=============================================================================

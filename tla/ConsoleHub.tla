------------------------------ MODULE ConsoleHub ------------------------------
(***************************************************************************)
(* The live console: console/hub.go tails latest.log, numbers the lines,   *)
(* keeps the newest in a ring and hands them to the WebSocket streams of   *)
(* httpapi/game_handlers.go; the browser merges what it receives with the  *)
(* history it has fetched (console-stream.ts, console-lines.ts).           *)
(*                                                                         *)
(* The server writes a log line in two steps, so a file of n writes holds  *)
(* n \div 2 whole lines and a read that begins at an odd place begins in   *)
(* the middle of a line.  Writes are numbered through all log files.       *)
(***************************************************************************)
EXTENDS Integers, Sequences, FiniteSets

CONSTANTS
  Clients,       \* browsers showing the console
  Capacity,      \* lines in the ring
  HistoryLimit,  \* lines a history response holds
  ClientLimit,   \* lines a browser keeps
  Buffer,        \* lines waiting for one stream
  TailSize,      \* writes of an old log that a starting hub reads
  MaxWrites,     \* bound: writes of the server
  MaxRestarts    \* bound: restarts of the dashboard

ASSUME ConstantsOK ==
  /\ {Capacity, HistoryLimit, ClientLimit, Buffer} \subseteq Nat \ {0}
  /\ {TailSize, MaxWrites, MaxRestarts} \subseteq Nat
  /\ TailSize >= 2

VARIABLES
  written,   \* writes of the server so far
  first,     \* those in log files before the current one
  offset,    \* where the hub reads on in the current file; -1 before the first poll
  next,      \* sequence number of the last line published
  ring,      \* the newest lines
  epoch,     \* which process of the dashboard this is
  conn,      \* the stream of each browser
  queue,     \* lines waiting for it
  session,   \* the browser's session is valid
  granted,   \* its account may read the console of this server
  live,      \* lines each browser has received
  history    \* the history it has fetched

vars == <<written, first, offset, next, ring, epoch, conn, queue, session, granted,
          live, history>>
log == <<written, first>>
hub == <<offset, next, ring, epoch>>
access == <<session, granted>>
browser == <<live, history>>

Line == [seq : Nat \ {0}, line : Nat, file : Nat, epoch : Nat]

Init ==
  /\ written \in 0..MaxWrites /\ first = 0
  /\ offset = -1 /\ next = 0 /\ ring = <<>> /\ epoch = 0
  /\ conn = [c \in Clients |-> "closed"]
  /\ queue = [c \in Clients |-> <<>>]
  /\ session = [c \in Clients |-> TRUE]
  /\ granted = [c \in Clients |-> TRUE]
  /\ live = [c \in Clients |-> <<>>]
  /\ history = [c \in Clients |-> <<>>]

(* The last n lines. *)
Newest(lines, n) ==
  IF Len(lines) <= n THEN lines ELSE SubSeq(lines, Len(lines) - n + 1, Len(lines))

Lines(lines) == {lines[i] : i \in 1..Len(lines)}

-----------------------------------------------------------------------------
(* The log *)

Write ==
  /\ written < MaxWrites
  /\ written' = written + 1
  /\ UNCHANGED <<first, hub, conn, queue, access, browser>>

(* The server begins a new latest.log, between two lines. *)
Rotate ==
  /\ first < written /\ written % 2 = 0
  /\ first' = written
  /\ UNCHANGED <<written, hub, conn, queue, access, browser>>

-----------------------------------------------------------------------------
(* The hub *)

(* Where the first poll begins, near the end of an old log. *)
NearEnd(size) == IF size > TailSize THEN size - TailSize ELSE 0

(* Variants of Resume: a file as long as what was read counts as a new one; an
   old log is left aside; a hub that is behind catches up like a starting one. *)
ResumeAtSize(size) ==
  LET start == IF offset < 0 THEN NearEnd(size) ELSE offset
  IN IF size <= start THEN 0 ELSE start

ResumeAtEnd(size) ==
  LET start == IF offset < 0 THEN size ELSE offset
  IN IF size < start THEN 0 ELSE start

ResumeNearEnd(size) ==
  LET start == IF offset < NearEnd(size) THEN NearEnd(size) ELSE offset
  IN IF size < start THEN 0 ELSE start

(* Where readAvailable seeks to; a file that is shorter than what was read is
   taken for a new one. *)
Resume(size) ==
  LET start == IF offset < 0 THEN NearEnd(size) ELSE offset
  IN IF size < start THEN 0 ELSE start

Position == first + Resume(written - first)

(* The end of the line that begins or goes on at a position. *)
LineEnd(p) == p + 2 - (p % 2)

AppendUnbounded(line) == Append(ring, line)  \* variant: the oldest line stays

AppendRing(line) == Newest(Append(ring, line), Capacity)

(* A stream whose channel is full misses the line. *)
Offer(c, line) ==
  IF conn[c] = "open" /\ Len(queue[c]) < Buffer
    THEN Append(queue[c], line) ELSE queue[c]

Publish(line) ==
  /\ next' = line.seq
  /\ ring' = AppendRing(line)
  /\ queue' = [c \in Clients |-> Offer(c, line)]

(* One turn of the read loop.  A poll is any number of them: what it reads was
   written, and is published, in the same order if a rotation or a write that
   happens during the poll happens after it. *)
ReadLine ==
  /\ LineEnd(Position) <= written
  /\ offset' = LineEnd(Position) - first
  /\ Publish([seq |-> next + 1, line |-> LineEnd(Position) \div 2,
              file |-> first, epoch |-> epoch])
  /\ UNCHANGED <<log, epoch, conn, access, browser>>

(* A line without its end stays unread. *)
ReadPartial ==
  /\ LineEnd(Position) > written
  /\ offset' = Position - first
  /\ UNCHANGED <<log, next, ring, epoch, conn, queue, access, browser>>

(* Reading fails inside a line: unlike at the end of the file, the length of
   what was read of it is not taken back. *)
ReadFails ==
  /\ Position < written /\ Position % 2 = 0
  /\ offset' = Position + 1 - first
  /\ UNCHANGED <<log, next, ring, epoch, conn, queue, access, browser>>

(* The dashboard stops and starts: the log is read anew, lines are numbered
   from 1 again, browsers lose their streams. *)
Restart ==
  /\ epoch < MaxRestarts
  /\ epoch' = epoch + 1
  /\ offset' = -1 /\ next' = 0 /\ ring' = <<>>
  /\ conn' = [c \in Clients |-> "closed"]
  /\ queue' = [c \in Clients |-> <<>>]
  /\ UNCHANGED <<log, access, browser>>

-----------------------------------------------------------------------------
(* The streams *)

StillGranted(c) == granted[c]  \* variant: the session is not read again

(* consoleStillAllowed, and what the route's middleware asks of a request. *)
Allowed(c) == session[c] /\ granted[c]

(* The request is authorized and upgraded. *)
Connect(c) ==
  /\ conn[c] = "closed" /\ session[c] /\ granted[c]
  /\ conn' = [conn EXCEPT ![c] = "opening"]
  /\ UNCHANGED <<log, hub, queue, access, browser>>

SubscribeWithHistory(c) ==  \* variant: a stream begins with the lines of the ring
  /\ conn[c] = "opening"
  /\ conn' = [conn EXCEPT ![c] = "open"]
  /\ queue' = [queue EXCEPT ![c] = Newest(ring, Buffer)]
  /\ UNCHANGED <<log, hub, access, browser>>

Subscribe(c) ==
  /\ conn[c] = "opening"
  /\ conn' = [conn EXCEPT ![c] = "open"]
  /\ queue' = [queue EXCEPT ![c] = <<>>]
  /\ UNCHANGED <<log, hub, access, browser>>

(* The handler writes one line and the browser appends it. *)
Deliver(c) ==
  /\ conn[c] = "open" /\ queue[c] # <<>>
  /\ live' = [live EXCEPT ![c] = Newest(Append(live[c], Head(queue[c])), ClientLimit)]
  /\ queue' = [queue EXCEPT ![c] = Tail(queue[c])]
  /\ UNCHANGED <<log, hub, conn, access, history>>

Close(c) ==
  /\ conn' = [conn EXCEPT ![c] = "closed"]
  /\ queue' = [queue EXCEPT ![c] = <<>>]

(* The ticker fires and consoleStillAllowed says no. *)
Recheck(c) ==
  /\ conn[c] = "open" /\ ~Allowed(c)
  /\ Close(c)
  /\ UNCHANGED <<log, hub, access, browser>>

(* The connection breaks, a write times out, or the browser leaves the page; it
   keeps its lines, and the next Connect is its reconnection. *)
Disconnect(c) ==
  /\ conn[c] # "closed"
  /\ Close(c)
  /\ UNCHANGED <<log, hub, access, browser>>

(* Sign-in and sign-out, revoking and disabling. *)
ChangeSession(c) ==
  /\ session' = [session EXCEPT ![c] = ~session[c]]
  /\ UNCHANGED <<log, hub, conn, queue, granted, browser>>

ChangeGrant(c) ==
  /\ granted' = [granted EXCEPT ![c] = ~granted[c]]
  /\ UNCHANGED <<log, hub, conn, queue, session, browser>>

-----------------------------------------------------------------------------
(* The browser *)

FetchHistory(c) ==
  /\ session[c] /\ granted[c]
  /\ history' = [history EXCEPT ![c] = Newest(ring, HistoryLimit)]
  /\ UNCHANGED <<log, hub, conn, queue, access, live>>

(* The page is left and opened again; the query cache keeps the history. *)
Remount(c) ==
  /\ Close(c)
  /\ live' = [live EXCEPT ![c] = <<>>]
  /\ UNCHANGED <<log, hub, access, history>>

(* mergeConsoleLines: of the lines with one sequence number the last one stays,
   then the lines with the greatest numbers. *)
LastOfEach(lines) ==
  {lines[i] : i \in {j \in 1..Len(lines) :
     \A k \in j+1..Len(lines) : lines[k].seq # lines[j].seq}}

MergeUnsorted(past, received) ==  \* variant: cut before the lines are sorted
  Lines(Newest(past \o received, ClientLimit))

Merge(past, received) ==
  LET merged == LastOfEach(past \o received)
  IN {x \in merged : Cardinality({y \in merged : y.seq > x.seq}) < ClientLimit}

-----------------------------------------------------------------------------

Next ==
  \/ Write \/ Rotate \/ ReadLine \/ ReadPartial \/ ReadFails \/ Restart
  \/ \E c \in Clients :
       \/ Connect(c) \/ Subscribe(c) \/ Deliver(c) \/ Recheck(c) \/ Disconnect(c)
       \/ ChangeSession(c) \/ ChangeGrant(c) \/ FetchHistory(c) \/ Remount(c)

Spec == Init /\ [][Next]_vars

(* The poll ticker goes on, the handler goes on to its loop, and its select
   takes the ready recheck tick some time, however many lines are ready. *)
FairSpec ==
  /\ Spec
  /\ WF_vars(ReadLine)
  /\ \A c \in Clients : WF_vars(Subscribe(c)) /\ WF_vars(Recheck(c))

-----------------------------------------------------------------------------
(* Properties *)

(* The variables have their types, and no stream holds more than its buffer
   (hub.go:68, the channel of 128 lines). *)
TypeOK ==
  /\ written \in 0..MaxWrites /\ first \in 0..written
  /\ offset \in -1..MaxWrites
  /\ next \in Nat /\ epoch \in 0..MaxRestarts
  /\ ring \in Seq(Line)
  /\ conn \in [Clients -> {"closed", "opening", "open"}]
  /\ queue \in [Clients -> Seq(Line)]
  /\ \A c \in Clients : Len(queue[c]) <= Buffer
  /\ session \in [Clients -> BOOLEAN] /\ granted \in [Clients -> BOOLEAN]
  /\ live \in [Clients -> Seq(Line)]
  /\ history \in [Clients -> Seq(Line)]

(* What the ring and everything downstream of it hold. *)
Held ==
  Lines(ring) \union
  UNION {Lines(queue[c]) \union Lines(live[c]) \union Lines(history[c]) : c \in Clients}

(* The ring is the run of the newest sequence numbers, full once Capacity lines
   were published: History returns the last lines without a hole (hub.go:145-152). *)
RingHoldsNewest ==
  /\ Len(ring) = IF next < Capacity THEN next ELSE Capacity
  /\ \A i \in 1..Len(ring) : ring[i].seq = next - Len(ring) + i

(* As long as the dashboard runs, a sequence number names one log line and the
   numbers have the order of the log, across rotated files, failed reads, dropped
   lines and reconnections, wherever the lines are kept (hub.go:145). *)
NumbersFollowLog ==
  \A x, y \in Held :
    x.epoch = y.epoch => ((x.seq < y.seq) <=> (x.line < y.line))

(* The hub skips no line of a file it has begun to read: two lines of one file
   with consecutive numbers are consecutive in it, though reads end in the middle
   of a line or fail there (hub.go:124-135). *)
NoLineSkipped ==
  \A x, y \in Held :
    (x.epoch = y.epoch /\ x.file = y.file /\ y.seq = x.seq + 1) => y.line = x.line + 1

(* A browser receives the lines of one dashboard process in order and none of
   them twice, however often its stream is broken and opened again: what it has
   and what waits for it ascend (hub.go:153-158, game_handlers.go:57-66). *)
StreamAscends ==
  \A c \in Clients :
    LET lines == live[c] \o queue[c]
    IN \A i, j \in 1..Len(lines) :
         (i < j /\ lines[i].epoch = lines[j].epoch) => lines[i].line < lines[j].line

(* While the dashboard has not restarted, what the page shows are the newest of
   the log lines the browser has, each once, though history and stream overlap
   or leave a gap (console-lines.ts:9-17). *)
ViewIsNewest ==
  \A c \in Clients :
    LET held == Lines(history[c]) \union Lines(live[c])
        shown == Merge(history[c], live[c])
    IN (\A x, y \in held : x.epoch = y.epoch) =>
         /\ shown \subseteq held
         /\ Cardinality(shown) =
              IF Cardinality(held) < ClientLimit THEN Cardinality(held) ELSE ClientLimit
         /\ \A x \in shown, y \in held \ shown : y.line < x.line

(* A browser that loses its session or its grant, before, while or after its
   stream is opened, loses the stream unless it gets them back first
   (game_handlers.go:71-73: all have to end the stream). *)
RevokedStreamEnds ==
  \A c \in Clients :
    ~(session[c] /\ granted[c])
      ~> ((session[c] /\ granted[c]) \/ conn[c] = "closed")

(* Every whole line of the log a dashboard began with, or that was written later,
   is published or superseded by a later one, restarts included.  Not claimed
   once the log is rotated: see README. *)
LinesArePublished ==
  \A n \in 1..(MaxWrites \div 2) :
    (first = 0 /\ written >= 2 * n)
      ~> (first > 0 \/ \E x \in Lines(ring) : x.line >= n)

=============================================================================

------------------------------ MODULE StreamClient ------------------------------
(***************************************************************************)
(* The browser's end of the console stream: connectConsoleStream opens a   *)
(* socket, opens the next one some time after it closed, and is stopped    *)
(* when the console page is left.  A socket's events arrive as long as its *)
(* handlers are set, also after the stream has stopped or turned to        *)
(* another socket.                                                         *)
(***************************************************************************)
EXTENDS Integers

CONSTANTS
  Slots,       \* sockets the browser has at once
  MaxAttempt   \* bound: attempts counted apart; the delay no longer grows by then

ASSUME StreamBounds ==
  /\ Slots \subseteq Nat \ {0} /\ Slots # {}
  /\ MaxAttempt \in Nat /\ MaxAttempt >= 6

VARIABLES
  stopped,     \* the stream's closure was stopped, or there is none
  socket,      \* its socket, 0 for none
  sockets,     \* of each socket, its state and whether its handlers are set
  timer,       \* a redial is scheduled
  attempt,     \* attempts since a socket last opened
  connection   \* what the page shows

streamVars == <<stopped, socket, sockets, timer, attempt, connection>>

Gone == [state |-> "gone", handlers |-> FALSE]

StreamInit ==
  /\ stopped = TRUE /\ socket = 0
  /\ sockets = [s \in Slots |-> Gone]
  /\ timer = FALSE /\ attempt = 0
  /\ connection = "connecting"

Min2(a, b) == IF a < b THEN a ELSE b

(* reconnectDelay, in milliseconds *)
ReconnectDelay(n) == Min2(10000, 500 * 2^Min2(IF n > 0 THEN n - 1 ELSE 0, 5))

(* connect, with the state it shows. *)
Dial(state) ==
  /\ \E s \in Slots :
       /\ sockets[s] = Gone
       /\ sockets' = [sockets EXCEPT ![s] = [state |-> "connecting", handlers |-> TRUE]]
       /\ socket' = s
  /\ connection' = state
  /\ timer' = FALSE

(* The console page is mounted. *)
StartStream ==
  /\ stopped
  /\ stopped' = FALSE /\ attempt' = 0
  /\ Dial("connecting")

(* The timer fires. *)
Redial ==
  /\ timer
  /\ Dial(IF attempt = 0 THEN "connecting" ELSE "reconnecting")
  /\ UNCHANGED <<stopped, attempt>>

(* An event of socket s reaches a handler that does not ignore it. *)
Attached(s) == sockets[s].handlers /\ ~stopped /\ socket = s

(* onopen *)
SocketOpens(s) ==
  /\ sockets[s].state = "connecting"
  /\ sockets' = [sockets EXCEPT ![s].state = "open"]
  /\ IF Attached(s) THEN attempt' = 0 /\ connection' = "connected"
     ELSE UNCHANGED <<attempt, connection>>
  /\ UNCHANGED <<stopped, socket, timer>>

(* onerror closes the socket; its close event follows. *)
SocketErrs(s) ==
  /\ sockets[s].state \in {"connecting", "open"} /\ Attached(s)
  /\ sockets' = [sockets EXCEPT ![s].state = "closing"]
  /\ UNCHANGED <<stopped, socket, timer, attempt, connection>>

SocketClosesOnce(s) ==  \* variant: only a socket that was open is dialled again
  /\ sockets[s].state # "gone"
  /\ sockets' = [sockets EXCEPT ![s] = Gone]
  /\ IF Attached(s)
       THEN /\ socket' = 0
            /\ attempt' = Min2(attempt + 1, MaxAttempt)
            /\ connection' = "reconnecting"
            /\ timer' = (connection = "connected")
       ELSE UNCHANGED <<socket, attempt, connection, timer>>
  /\ UNCHANGED stopped

(* onclose *)
SocketCloses(s) ==
  /\ sockets[s].state # "gone"
  /\ sockets' = [sockets EXCEPT ![s] = Gone]
  /\ IF Attached(s) /\ ~timer
       THEN /\ socket' = 0
            /\ attempt' = Min2(attempt + 1, MaxAttempt)
            /\ connection' = "reconnecting"
            /\ timer' = TRUE
       ELSE UNCHANGED <<socket, attempt, connection, timer>>
  /\ UNCHANGED stopped

StopStreamTimerLeft ==  \* variant: the timer is not cancelled
  /\ ~stopped
  /\ stopped' = TRUE /\ socket' = 0
  /\ sockets' = [s \in Slots |->
       IF s = socket THEN [state |-> "closing", handlers |-> FALSE] ELSE sockets[s]]
  /\ connection' = "disconnected"
  /\ UNCHANGED <<timer, attempt>>

(* The page is left: the cleanup that connectConsoleStream returns. *)
StopStream ==
  /\ ~stopped
  /\ stopped' = TRUE /\ timer' = FALSE /\ socket' = 0
  /\ sockets' = [s \in Slots |->
       IF s = socket THEN [state |-> "closing", handlers |-> FALSE] ELSE sockets[s]]
  /\ connection' = "disconnected"
  /\ UNCHANGED attempt

StreamNext ==
  \/ StartStream \/ Redial \/ StopStream
  \/ \E s \in Slots : SocketOpens(s) \/ SocketErrs(s) \/ SocketCloses(s)

StreamSpec == StreamInit /\ [][StreamNext]_streamVars

-----------------------------------------------------------------------------
(* Properties *)

StreamTypeOK ==
  /\ stopped \in BOOLEAN /\ timer \in BOOLEAN
  /\ socket \in Slots \union {0}
  /\ sockets \in [Slots -> [state : {"gone", "connecting", "open", "closing"},
                            handlers : BOOLEAN]]
  /\ \A s \in Slots : sockets[s].state = "gone" => sockets[s] = Gone
  /\ attempt \in 0..MaxAttempt
  /\ connection \in {"connecting", "connected", "reconnecting", "disconnected"}

(* The handlers of one socket are set and no redial is scheduled, or a redial is
   scheduled and no handler is set; neither once the page was left.  Two sockets
   would show every line twice, none would leave the console silent for good
   (console-stream.ts:49-59, 66-82). *)
OneWire ==
  /\ {s \in Slots : sockets[s].handlers} = IF socket = 0 THEN {} ELSE {socket}
  /\ IF stopped THEN socket = 0 /\ ~timer ELSE timer <=> (socket = 0)

(* The page shows "connected" for a socket that is open or just failing, and
   shows nothing else while one is open (console-page.tsx:21). *)
ShownIsWired ==
  IF connection = "connected"
    THEN socket # 0 /\ sockets[socket].state \in {"open", "closing"}
    ELSE socket # 0 => sockets[socket].state # "open"

(* What the page shows is what it is connected to, over one socket at a time. *)
StreamWired == OneWire /\ ShownIsWired

(* The first redial after the page was opened, and after a socket that had opened
   was lost, waits half a second; each that follows a dial that failed waits twice
   as long as the one before, ten seconds at most (console-stream.ts:36, 56-58,
   85-87, console-stream.test.ts:58-73). *)
BackoffBounded ==
  [][(timer' /\ ~timer) =>
       ReconnectDelay(attempt') =
         IF connection \in {"connecting", "connected"} THEN 500
         ELSE Min2(10000, 2 * ReconnectDelay(attempt))]_streamVars

(* A page that is not left dials again however often its sockets fail. *)
KeepsDialling == (~stopped /\ socket = 0) ~> (stopped \/ socket # 0)

(* The console comes back, and soon: it dials until it is left, never in haste. *)
DialsAgain == KeepsDialling /\ BackoffBounded

=============================================================================

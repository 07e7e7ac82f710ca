------------------------------ MODULE ClientProofs ------------------------------
(***************************************************************************)
(* Proofs about the browser's end of the console: the stream, for any      *)
(* number of sockets, and the command field, for any commands; and about   *)
(* the cached views, for any pages.                                        *)
(***************************************************************************)
EXTENDS StreamClient, CommandForm, Views, WellFoundedInduction, TLAPS

-----------------------------------------------------------------------------
(* The stream: its invariant *)

SocketStates == {"gone", "connecting", "open", "closing"}
SocketRecords == [state : {"gone", "connecting", "open", "closing"}, handlers : BOOLEAN]
Connections == {"connecting", "connected", "reconnecting", "disconnected"}

Scalars ==
  /\ stopped \in BOOLEAN /\ timer \in BOOLEAN
  /\ socket \in Slots \union {0}
  /\ attempt \in 0..MaxAttempt
  /\ connection \in Connections

SocketsOK ==
  /\ sockets \in [Slots -> SocketRecords]
  /\ \A s \in Slots : sockets[s].state = "gone" => sockets[s] = Gone

(* OneWire, socket by socket. *)
Wired ==
  /\ \A s \in Slots : sockets[s].handlers <=> s = socket
  /\ IF stopped THEN socket = 0 /\ ~timer ELSE timer <=> (socket = 0)

StreamInv == Scalars /\ SocketsOK /\ Wired /\ ShownIsWired

-----------------------------------------------------------------------------
(* The stream: sockets *)

LEMMA GoneSocket == Gone \in SocketRecords /\ Gone.state = "gone" /\ ~Gone.handlers
  BY DEF Gone, SocketRecords

LEMMA NewSocket ==
  ASSUME NEW state \in SocketStates, NEW handlers \in BOOLEAN
  PROVE  LET r == [state |-> state, handlers |-> handlers]
         IN r \in SocketRecords /\ r.state = state /\ r.handlers = handlers
  BY DEF SocketStates, SocketRecords

LEMMA SocketChanges ==
  ASSUME NEW r \in SocketRecords, NEW state \in SocketStates
  PROVE  LET c == [r EXCEPT !.state = state]
         IN c \in SocketRecords /\ c.state = state /\ c.handlers = r.handlers
  BY DEF SocketRecords, SocketStates

(* The state of a socket changes and its handlers do not. *)
SocketChanged(s, state) == sockets' = [sockets EXCEPT ![s].state = state]

LEMMA ChangedSocket ==
  ASSUME NEW s \in Slots, NEW state \in SocketStates \ {"gone"}, SocketsOK,
         SocketChanged(s, state)
  PROVE  /\ SocketsOK'
         /\ \A r \in Slots :
              /\ sockets'[r].handlers = sockets[r].handlers
              /\ sockets'[r].state = IF r = s THEN state ELSE sockets[r].state
<1> DEFINE new == [sockets[s] EXCEPT !.state = state]
<1>1. new \in SocketRecords /\ new.state = state /\ new.handlers = sockets[s].handlers
  <2>1. sockets[s] \in SocketRecords /\ state \in SocketStates
    BY DEF SocketsOK
  <2> QED
    BY <2>1, SocketChanges
<1> HIDE DEF new
<1>2. sockets' = [sockets EXCEPT ![s] = new]
  BY DEF SocketChanged, new
<1> QED
  BY <1>1, <1>2 DEF SocketsOK

LEMMA StreamTyped == StreamTypeOK <=> Scalars /\ SocketsOK
  BY Zenon DEF StreamTypeOK, Scalars, SocketsOK, SocketRecords, Connections

LEMMA StreamInvInit == StreamInit => StreamInv
<1> SUFFICES ASSUME StreamInit PROVE StreamInv
  OBVIOUS
<1>1. Scalars
  <2>1. stopped \in BOOLEAN /\ timer \in BOOLEAN
    BY DEF StreamInit
  <2>2. socket \in Slots \union {0} /\ attempt \in 0..MaxAttempt /\ connection \in Connections
    BY StreamBounds DEF StreamInit, Connections
  <2> QED
    BY <2>1, <2>2 DEF Scalars
<1>2. sockets \in [Slots -> SocketRecords] /\ \A s \in Slots : sockets[s] = Gone
  BY GoneSocket DEF StreamInit
<1>3. SocketsOK
  BY <1>2 DEF SocketsOK
<1>4. Wired
  BY <1>2, StreamBounds, GoneSocket DEF StreamInit, Wired
<1>5. ShownIsWired
  BY DEF StreamInit, ShownIsWired
<1> QED
  BY <1>1, <1>3, <1>4, <1>5 DEF StreamInv

LEMMA DialKeeps ==
  ASSUME StreamInv, NEW state \in {"connecting", "reconnecting"}, socket = 0, ~stopped',
         Dial(state), attempt' \in 0..MaxAttempt, stopped' \in BOOLEAN
  PROVE  StreamInv'
<1>1. PICK s \in Slots :
        /\ sockets[s] = Gone /\ socket' = s
        /\ sockets' = [sockets EXCEPT ![s] = [state |-> "connecting", handlers |-> TRUE]]
  BY DEF Dial
<1>2. Scalars'
  BY <1>1 DEF StreamInv, Scalars, Dial, Connections
<1> DEFINE new == [state |-> "connecting", handlers |-> TRUE]
<1>3. new \in SocketRecords /\ new.state = "connecting" /\ new.handlers
  BY NewSocket DEF SocketStates
<1> HIDE DEF new
<1>4. sockets' = [sockets EXCEPT ![s] = new]
  BY <1>1 DEF new
<1>5. SocketsOK'
  BY <1>3, <1>4 DEF StreamInv, SocketsOK
<1>6. Wired'
  BY <1>1, <1>3, <1>4, StreamBounds DEF StreamInv, SocketsOK, Wired, Dial
<1>7. ShownIsWired'
  BY <1>1, <1>3, <1>4 DEF StreamInv, SocketsOK, ShownIsWired, Dial
<1> QED
  BY <1>2, <1>5, <1>6, <1>7 DEF StreamInv

LEMMA StreamInvNext == StreamInv /\ [StreamNext]_streamVars => StreamInv'
<1> SUFFICES ASSUME StreamInv, [StreamNext]_streamVars
             PROVE  StreamInv'
  OBVIOUS
<1> USE StreamBounds
<1>1. CASE StartStream
  <2>1. socket = 0
    BY <1>1 DEF StartStream, StreamInv, Wired
  <2>2. ~stopped' /\ stopped' \in BOOLEAN
    BY <1>1 DEF StartStream
  <2>3. attempt' \in 0..MaxAttempt
    BY <1>1 DEF StartStream
  <2>4. Dial("connecting")
    BY <1>1 DEF StartStream
  <2> QED
    BY <2>1, <2>2, <2>3, <2>4, DialKeeps
<1>2. CASE Redial
  <2>1. socket = 0 /\ ~stopped /\ UNCHANGED <<stopped, attempt>>
    BY <1>2 DEF Redial, StreamInv, Wired, Scalars
  <2>2. PICK state \in {"connecting", "reconnecting"} : Dial(state)
    BY <1>2 DEF Redial
  <2> QED
    BY <2>1, <2>2, DialKeeps DEF StreamInv, Scalars
<1>3. CASE StopStream
  <2> DEFINE shut == [state |-> "closing", handlers |-> FALSE]
  <2>1. shut \in SocketRecords /\ shut.state = "closing" /\ ~shut.handlers
    BY NewSocket DEF SocketStates
  <2> HIDE DEF shut
  <2>2. sockets' = [s \in Slots |-> IF s = socket THEN shut ELSE sockets[s]]
    BY <1>3 DEF StopStream, shut
  <2>3. Scalars'
    BY <1>3 DEF StopStream, StreamInv, Scalars, Connections
  <2>4. SocketsOK'
    BY <2>1, <2>2 DEF StreamInv, SocketsOK
  <2>5. Wired'
    BY <1>3, <2>1, <2>2 DEF StopStream, StreamInv, Wired
  <2>6. ShownIsWired'
    BY <1>3 DEF StopStream, ShownIsWired
  <2> QED
    BY <2>3, <2>4, <2>5, <2>6 DEF StreamInv
<1>4. ASSUME NEW s \in Slots, SocketOpens(s)
      PROVE  StreamInv'
  <2>1. SocketChanged(s, "open") /\ sockets[s].state = "connecting"
    BY <1>4 DEF SocketOpens, SocketChanged
  <2>2. Scalars'
    BY <1>4 DEF SocketOpens, Attached, StreamInv, Scalars, Connections
  <2>3. SocketsOK'
    BY <2>1, ChangedSocket DEF StreamInv, SocketStates
  <2>4. \A r \in Slots : /\ sockets'[r].handlers = sockets[r].handlers
                          /\ sockets'[r].state = IF r = s THEN "open" ELSE sockets[r].state
    BY <2>1, ChangedSocket DEF StreamInv, SocketStates
  <2>5. Wired'
    BY <1>4, <2>4 DEF SocketOpens, StreamInv, Wired
  <2>6. ShownIsWired'
    BY <1>4, <2>1, <2>4 DEF SocketOpens, Attached, StreamInv, Scalars, Wired, ShownIsWired
  <2> QED
    BY <2>2, <2>3, <2>5, <2>6 DEF StreamInv
<1>5. ASSUME NEW s \in Slots, SocketErrs(s)
      PROVE  StreamInv'
  <2>1. SocketChanged(s, "closing") /\ UNCHANGED <<stopped, socket, timer, attempt, connection>>
    BY <1>5 DEF SocketErrs, SocketChanged
  <2>2. Scalars'
    BY <2>1 DEF StreamInv, Scalars
  <2>3. SocketsOK'
    BY <2>1, ChangedSocket DEF StreamInv, SocketStates
  <2>4. \A r \in Slots : /\ sockets'[r].handlers = sockets[r].handlers
                          /\ sockets'[r].state = IF r = s THEN "closing" ELSE sockets[r].state
    BY <2>1, ChangedSocket DEF StreamInv, SocketStates
  <2>5. Wired'
    BY <2>1, <2>4 DEF StreamInv, Wired
  <2>6. ShownIsWired'
    BY <2>1, <2>4 DEF StreamInv, Scalars, ShownIsWired
  <2> QED
    BY <2>2, <2>3, <2>5, <2>6 DEF StreamInv
<1>6. ASSUME NEW s \in Slots, SocketCloses(s)
      PROVE  StreamInv'
  <2>1. sockets' = [sockets EXCEPT ![s] = Gone] /\ UNCHANGED stopped
    BY <1>6 DEF SocketCloses
  <2>2. CASE Attached(s) /\ ~timer
    <3>1. /\ socket' = 0 /\ attempt' = Min2(attempt + 1, MaxAttempt)
          /\ connection' = "reconnecting" /\ timer' = TRUE
      BY <1>6, <2>2 DEF SocketCloses
    <3>2. attempt' \in 0..MaxAttempt
      BY <3>1 DEF Min2, StreamInv, Scalars
    <3>3. Scalars'
      BY <2>1, <3>1, <3>2 DEF StreamInv, Scalars, Connections
    <3>4. SocketsOK'
      BY <2>1, GoneSocket DEF StreamInv, SocketsOK
    <3>5. Wired'
      BY <2>1, <2>2, <3>1, GoneSocket DEF Attached, StreamInv, SocketsOK, Wired
    <3>6. ShownIsWired'
      BY <3>1 DEF ShownIsWired
    <3> QED
      BY <3>3, <3>4, <3>5, <3>6 DEF StreamInv
  <2>3. CASE ~(Attached(s) /\ ~timer)
    <3>1. UNCHANGED <<socket, attempt, connection, timer>>
      BY <1>6, <2>3 DEF SocketCloses
    <3>2. s # socket
      BY <2>3 DEF Attached, StreamInv, Scalars, Wired
    <3>3. Scalars'
      BY <2>1, <3>1 DEF StreamInv, Scalars
    <3>4. SocketsOK'
      BY <2>1, GoneSocket DEF StreamInv, SocketsOK
    <3>5. Wired'
      BY <2>1, <3>1, <3>2, GoneSocket DEF StreamInv, SocketsOK, Wired
    <3>6. ShownIsWired'
      BY <2>1, <3>1, <3>2 DEF StreamInv, Scalars, SocketsOK, ShownIsWired
    <3> QED
      BY <3>3, <3>4, <3>5, <3>6 DEF StreamInv
  <2> QED
    BY <2>2, <2>3
<1>7. CASE UNCHANGED streamVars
  BY <1>7 DEF streamVars, StreamInv, Scalars, SocketsOK, Wired, ShownIsWired
<1> QED
  BY <1>1, <1>2, <1>3, <1>4, <1>5, <1>6, <1>7 DEF StreamNext

LEMMA StreamInvariant == StreamSpec => []StreamInv
  BY StreamInvInit, StreamInvNext, PTL DEF StreamSpec

LEMMA WiredIsOne == ASSUME StreamInv PROVE OneWire
<1>1. 0 \notin Slots
  BY StreamBounds
<1>2. socket \in Slots \union {0} /\ \A s \in Slots : sockets[s].handlers <=> s = socket
  BY DEF StreamInv, Scalars, Wired
<1>3. {s \in Slots : sockets[s].handlers} = IF socket = 0 THEN {} ELSE {socket}
  BY <1>1, <1>2
<1> QED
  BY <1>3 DEF StreamInv, Wired, OneWire

(* Every state of StreamClient is well typed, and a socket that is gone has no
   handlers left to call. *)
THEOREM StreamTypeCorrect == StreamSpec => []StreamTypeOK
<1>1. StreamInv => StreamTypeOK
  BY StreamTyped DEF StreamInv
<1> QED
  BY <1>1, StreamInvariant, PTL

(* One socket is wired or one redial is scheduled while the page is there, and neither
   after it was left, for any number of sockets still closing; and what the page shows
   of the connection is the state of that socket (console-stream.ts:49-59, 66-82). *)
THEOREM NeitherDoubledNorSilent == StreamSpec => []StreamWired
<1>1. StreamInv => StreamWired
  BY WiredIsOne DEF StreamInv, StreamWired
<1> QED
  BY <1>1, StreamInvariant, PTL

LEMMA Delays ==
  /\ ReconnectDelay(1) = 500
  /\ \A n \in Nat \ {0} : ReconnectDelay(n + 1) = Min2(10000, 2 * ReconnectDelay(n))
  /\ \A n \in Nat : n >= 6 => ReconnectDelay(n) = 10000
<1>1. 2^0 = 1 /\ 2^1 = 2 /\ 2^2 = 4 /\ 2^3 = 8 /\ 2^4 = 16 /\ 2^5 = 32
  OBVIOUS
<1>2. \A n \in Nat : n >= 6 => ReconnectDelay(n) = 10000
  BY <1>1 DEF ReconnectDelay, Min2
<1>3. /\ ReconnectDelay(1) = 500 /\ ReconnectDelay(2) = 1000 /\ ReconnectDelay(3) = 2000
      /\ ReconnectDelay(4) = 4000 /\ ReconnectDelay(5) = 8000
  BY <1>1 DEF ReconnectDelay, Min2
<1>4. ASSUME NEW n \in Nat \ {0}
      PROVE  ReconnectDelay(n + 1) = Min2(10000, 2 * ReconnectDelay(n))
  <2>1. CASE n >= 6
    BY <1>2, <2>1 DEF Min2
  <2>2. CASE n \in {1, 2, 3, 4, 5}
    <3>1. ReconnectDelay(6) = 10000
      BY <1>2
    <3> QED
      BY <1>3, <2>2, <3>1 DEF Min2
  <2> QED
    BY <2>1, <2>2
<1> QED
  BY <1>2, <1>3, <1>4

(* However often sockets open, fail and close late, the first redial of a page and of a
   lost connection waits half a second and every further one twice the wait before it,
   up to ten seconds: the count of attempts is zero exactly until a dial has failed
   (console-stream.ts:36, 56-58, 85-87). *)
THEOREM RedialsArePaced == StreamSpec => BackoffBounded
<1> DEFINE Counted == ~stopped => (attempt = 0 <=> connection \in {"connecting", "connected"})
           Paced == (timer' /\ ~timer) =>
                      ReconnectDelay(attempt') =
                        IF connection \in {"connecting", "connected"} THEN 500
                        ELSE Min2(10000, 2 * ReconnectDelay(attempt))
<1>1. StreamInit => Counted
  BY DEF StreamInit
<1>2. StreamInv /\ Counted /\ [StreamNext]_streamVars => Counted'
  <2> SUFFICES ASSUME StreamInv, Counted, [StreamNext]_streamVars
               PROVE  Counted'
    OBVIOUS
  <2>1. attempt \in 0..MaxAttempt
    BY DEF StreamInv, Scalars
  <2>2. CASE StartStream \/ Redial \/ StopStream
    BY <2>2 DEF StartStream, Redial, StopStream, Dial, StreamInv, Wired
  <2>3. ASSUME NEW s \in Slots, SocketOpens(s) \/ SocketErrs(s) PROVE Counted'
    BY <2>3 DEF SocketOpens, SocketErrs, Attached
  <2>4. ASSUME NEW s \in Slots, SocketCloses(s) PROVE Counted'
    <3>1. Min2(attempt + 1, MaxAttempt) # 0
      BY <2>1, StreamBounds DEF Min2
    <3> QED
      BY <2>4, <3>1 DEF SocketCloses, Attached
  <2>5. CASE UNCHANGED streamVars
    BY <2>5 DEF streamVars
  <2> QED
    BY <2>2, <2>3, <2>4, <2>5 DEF StreamNext
<1>3. StreamInv /\ Counted /\ [StreamNext]_streamVars => Paced
  <2> SUFFICES ASSUME StreamInv, Counted, [StreamNext]_streamVars, timer', ~timer
               PROVE  ReconnectDelay(attempt') =
                        IF connection \in {"connecting", "connected"} THEN 500
                        ELSE Min2(10000, 2 * ReconnectDelay(attempt))
    OBVIOUS
  <2>1. PICK s \in Slots : SocketCloses(s)
    BY DEF StreamNext, StartStream, Redial, StopStream, Dial, SocketOpens, SocketErrs,
           streamVars
  <2>2. attempt' = Min2(attempt + 1, MaxAttempt) /\ attempt \in 0..MaxAttempt /\ ~stopped
    BY <2>1 DEF SocketCloses, Attached, StreamInv, Scalars
  <2>3. CASE attempt = 0
    BY <2>2, <2>3, Delays, StreamBounds DEF Min2
  <2>4. CASE attempt \in 1..(MaxAttempt - 1)
    <3>1. attempt' = attempt + 1
      BY <2>2, <2>4, StreamBounds DEF Min2
    <3> QED
      BY <2>2, <2>4, <3>1, Delays, StreamBounds
  <2>5. CASE attempt = MaxAttempt
    <3>1. attempt' = MaxAttempt /\ attempt # 0 /\ MaxAttempt \in Nat /\ MaxAttempt >= 6
      BY <2>2, <2>5, StreamBounds DEF Min2
    <3>2. ReconnectDelay(attempt') = 10000 /\ ReconnectDelay(attempt) = 10000
      BY <2>5, <3>1, Delays
    <3> QED
      BY <2>2, <3>1, <3>2 DEF Min2
  <2> QED
    BY <2>2, <2>3, <2>4, <2>5, StreamBounds
<1> HIDE DEF Counted
<1> QED
  BY <1>1, <1>2, <1>3, StreamInvariant, PTL DEF StreamSpec, BackoffBounded

-----------------------------------------------------------------------------
(* The command field *)

Request(c, a, s) == [command |-> c, action |-> a, status |-> s]

LEMMA RequestFields ==
  ASSUME NEW c, NEW a, NEW s
  PROVE  /\ Request(c, a, s).command = c /\ Request(c, a, s).action = a
         /\ Request(c, a, s).status = s
  BY DEF Request

LEMMA RequestChanges ==
  ASSUME NEW c, NEW a, NEW s, NEW t
  PROVE  [Request(c, a, s) EXCEPT !.status = t] = Request(c, a, t)
  BY DEF Request

(* The request the form observes was sent by one of its submissions; while nothing
   was done since, the field holds its command, and an outcome that is shown was
   asked for last. *)
Asked ==
  /\ action \in Nat
  /\ \E c : \E a \in Nat : \E s \in {"idle", "pending", "done", "failed"} :
       a <= action /\ execution = Request(c, a, s)

FieldIsAsked ==
  (Executing /\ execution.action = action) => execution.command = command

OutcomeBelongs ==
  (activeCommand # NoCommand /\ execution.status # "idle") => execution.action = action

FormInv == Asked /\ FieldIsAsked /\ OutcomeBelongs

LEMMA Idle == NoExecution = Request(NoCommand, 0, "idle")
  BY DEF NoExecution, Request

LEMMA FreshForm ==
  ASSUME action' = 0, execution' = NoExecution, activeCommand' = NoCommand
  PROVE  FormInv'
<1>1. Asked'
  BY Idle DEF Asked
<1>2. execution'.status = "idle"
  BY Idle, RequestFields
<1> QED
  BY <1>1, <1>2 DEF FormInv, FieldIsAsked, OutcomeBelongs, Executing

LEMMA DraftStarts ==
  ASSUME FormInv, NEW value, StartDraft(value)
  PROVE  FormInv'
<1>1. action \in Nat /\ action' = action + 1 /\ activeCommand' = NoCommand
  BY DEF FormInv, Asked, StartDraft
<1>2. Asked' /\ (execution'.status = "idle" \/ execution'.action # action')
  <2>1. CASE Executing
    <3>1. execution' = execution
      BY <2>1 DEF StartDraft
    <3>2. PICK c : \E a \in Nat : \E s \in {"idle", "pending", "done", "failed"} :
                     a <= action /\ execution = Request(c, a, s)
      BY DEF FormInv, Asked
    <3>3. PICK a \in Nat, s \in {"idle", "pending", "done", "failed"} :
                     a <= action /\ execution = Request(c, a, s)
      BY <3>2
    <3> QED
      BY <1>1, <3>1, <3>3, RequestFields DEF Asked
  <2>2. CASE ~Executing
    <3>1. execution' = NoExecution
      BY <2>2 DEF StartDraft
    <3> QED
      BY <1>1, <3>1, Idle, RequestFields DEF Asked
  <2> QED
    BY <2>1, <2>2
<1>3. FieldIsAsked'
  BY <1>2 DEF FieldIsAsked, Executing
<1>4. OutcomeBelongs'
  BY <1>1 DEF OutcomeBelongs
<1> QED
  BY <1>2, <1>3, <1>4 DEF FormInv

LEMMA Submits ==
  ASSUME FormInv, SubmitCommand
  PROVE  FormInv'
<1>1. action \in Nat /\ action' = action + 1 /\ command' = command
  BY DEF FormInv, Asked, SubmitCommand
<1>2. CASE command = NoCommand
  <2>1. execution' = NoExecution
    BY <1>2 DEF SubmitCommand
  <2>2. execution'.status = "idle" /\ Asked'
    BY <1>1, <2>1, Idle, RequestFields DEF Asked
  <2> QED
    BY <2>2 DEF FormInv, FieldIsAsked, OutcomeBelongs, Executing
<1>3. CASE command # NoCommand
  <2>1. execution' = Request(command, action', "pending")
    BY <1>1, <1>3 DEF SubmitCommand, Request
  <2>2. execution'.command = command' /\ execution'.action = action'
    BY <1>1, <2>1, RequestFields
  <2>3. Asked'
    BY <1>1, <2>1 DEF Asked
  <2> QED
    BY <2>2, <2>3 DEF FormInv, FieldIsAsked, OutcomeBelongs
<1> QED
  BY <1>2, <1>3

LEMMA Answered ==
  ASSUME FormInv, Executing, NEW status \in {"done", "failed"},
         execution' = [execution EXCEPT !.status = status],
         UNCHANGED <<action, activeCommand>>
  PROVE  /\ FormInv'
         /\ execution'.action = execution.action
<1>1. PICK c : \E a \in Nat : \E s \in {"idle", "pending", "done", "failed"} :
                 a <= action /\ execution = Request(c, a, s)
  BY DEF FormInv, Asked
<1>2. PICK a \in Nat, s \in {"idle", "pending", "done", "failed"} :
                 a <= action /\ execution = Request(c, a, s)
  BY <1>1
<1>3. execution' = Request(c, a, status)
  BY <1>2, RequestChanges
<1>4. Asked'
  BY <1>2, <1>3 DEF FormInv, Asked
<1>5. /\ execution.action = a /\ execution.status = s
      /\ execution'.action = a /\ execution'.status = status
  BY <1>2, <1>3, RequestFields
<1>6. FieldIsAsked'
  BY <1>5 DEF FieldIsAsked, Executing
<1>7. OutcomeBelongs'
  BY <1>5 DEF FormInv, OutcomeBelongs, Executing
<1> QED
  BY <1>4, <1>5, <1>6, <1>7 DEF FormInv

LEMMA FormInvNext == FormInv /\ [FormNext]_formVars => FormInv'
<1> SUFFICES ASSUME FormInv, [FormNext]_formVars
             PROVE  FormInv'
  OBVIOUS
<1>1. ASSUME NEW value \in Commands \union {NoCommand}, TypeCommand(value)
      PROVE  FormInv'
  BY <1>1, DraftStarts DEF TypeCommand
<1>2. CASE ArrowUp
  BY <1>2, DraftStarts DEF ArrowUp, RecallAt
<1>3. CASE ArrowDown
  BY <1>3, DraftStarts DEF ArrowDown, RecallAt
<1>4. CASE SubmitCommand
  BY <1>4, Submits
<1>5. CASE CommandSucceeds
  BY <1>5, Answered DEF CommandSucceeds
<1>6. CASE CommandFails
  BY <1>6, Answered DEF CommandFails
<1>7. CASE FormUnmounts
  BY <1>7, FreshForm DEF FormUnmounts, FormFresh
<1>8. CASE UNCHANGED formVars
  BY <1>8 DEF formVars, FormInv, Asked, FieldIsAsked, OutcomeBelongs, Executing
<1> QED
  BY <1>1, <1>2, <1>3, <1>4, <1>5, <1>6, <1>7, <1>8 DEF FormNext

LEMMA FormInvInit == FormInit => FormInv
<1> SUFFICES ASSUME FormInit PROVE FormInv
  OBVIOUS
<1>1. Asked
  BY Idle DEF FormInit, Asked
<1>2. execution.status = "idle"
  BY Idle, RequestFields DEF FormInit
<1> QED
  BY <1>1, <1>2 DEF FormInv, FieldIsAsked, OutcomeBelongs, Executing

LEMMA FormInvariant == FormSpec => []FormInv
  BY FormInvInit, FormInvNext, PTL DEF FormSpec

LEMMA AnswerStep ==
  ASSUME FormInv, [FormNext]_formVars, Executing, execution'.action = execution.action,
         execution'.status = "done", command' # command
  PROVE  execution.action = action /\ execution.command = command
<1>1. PICK c : \E a \in Nat : \E s \in {"idle", "pending", "done", "failed"} :
                 a <= action /\ execution = Request(c, a, s)
  BY DEF FormInv, Asked
<1>2. execution.status = "pending" /\ execution.action \in Nat /\ execution.action <= action
  BY <1>1, RequestFields DEF Executing
<1>3. ASSUME NEW value, StartDraft(value)
      PROVE  FALSE
  BY <1>2, <1>3 DEF StartDraft, Executing
<1>4. ~FormUnmounts
  BY Idle, RequestFields DEF FormUnmounts, FormFresh
<1>5. ~SubmitCommand
  BY DEF SubmitCommand
<1>6. ~CommandFails
  BY DEF CommandFails
<1>7. CommandSucceeds
  BY <1>3, <1>4, <1>5, <1>6 DEF FormNext, TypeCommand, ArrowUp, ArrowDown, RecallAt, formVars
<1> QED
  BY <1>7 DEF CommandSucceeds, FormInv, FieldIsAsked

(* The outcome that is shown is that of the last submission, with nothing typed,
   recalled or submitted since, and an answer empties the field only of the command
   that was sent, for any commands and whenever answers come
   (console-command-form.tsx:40, 58). *)
THEOREM FieldIsKept == FormSpec => FieldKept
<1>1. FormInv => OutcomeIsOfField
  BY DEF FormInv, OutcomeBelongs, OutcomeIsOfField, OutcomeShown
<1>2. FormInv /\ [FormNext]_formVars => [AnswerKeepsDraft]_formVars
  BY AnswerStep DEF AnswerKeepsDraft
<1> QED
  BY <1>1, <1>2, FormInvariant, PTL DEF FormSpec, FieldKept

-----------------------------------------------------------------------------
(* The recalled commands: what Without, the code's filter, leaves of a list *)

(* A set of numbers that is not empty has a least element, which is what induction
   needs: a set that holds 0 and is closed below n holds 0..n. *)
LEMMA Least ==
  ASSUME NEW T \in SUBSET Nat, T # {}
  PROVE  \E m \in T : \A k \in T : m <= k
<1>1. PICK m \in T : \A k \in T : <<k, m>> \notin OpToRel(<, Nat)
  BY WFMin, NatLessThanWellFounded, Zenon
<1>2. \A k \in T : ~(k < m)
  BY <1>1, Zenon DEF OpToRel
<1>3. \A k \in T : k \in Nat /\ m \in Nat
  OBVIOUS
<1> QED
  BY <1>2, <1>3

LEMMA UpTo ==
  ASSUME NEW n \in Nat, NEW A, 0 \in A, \A i \in 0..(n - 1) : i \in A => i + 1 \in A
  PROVE  0..n \subseteq A
<1> SUFFICES ASSUME ~(0..n \subseteq A) PROVE FALSE
  OBVIOUS
<1>1. (0..n) \ A # {} /\ (0..n) \ A \in SUBSET Nat
  OBVIOUS
<1>2. PICK m \in (0..n) \ A : \A k \in (0..n) \ A : m <= k
  BY <1>1, Least
<1>3. m # 0 /\ m \in Nat /\ m <= n
  BY <1>2
<1>4. m - 1 \in 0..(n - 1) /\ m - 1 \in 0..n /\ m - 1 < m
  BY <1>3
<1>5. m - 1 \in A
  BY <1>2, <1>4
<1> QED
  BY <1>3, <1>4, <1>5

(* Without's function, by its equation; KeptExists shows that there is one. *)
Keep(f, s, v, i) ==
  IF i = 0 THEN <<>> ELSE IF s[i] = v THEN f[i - 1] ELSE Append(f[i - 1], s[i])

Keeps(f, s, v) == f = [i \in 0..Len(s) |-> Keep(f, s, v, i)]

Kept(s, v) == CHOOSE f : Keeps(f, s, v)

LEMMA WithoutIs ==
  ASSUME NEW s, NEW v
  PROVE  Without(s, v) = Kept(s, v)[Len(s)]
  BY Zenon DEF Without, Kept, Keep, Keeps

LEMMA KeptExists ==
  ASSUME NEW S, NEW s \in Seq(S), NEW v
  PROVE  \E f : Keeps(f, s, v)
<1> DEFINE n == Len(s)
           A == {k \in 0..n : \E f : f = [i \in 0..k |-> Keep(f, s, v, i)]}
<1>1. n \in Nat
  OBVIOUS
<1>2. 0 \in A
  <2> DEFINE f == [i \in 0..0 |-> <<>>]
  <2>1. f = [i \in 0..0 |-> Keep(f, s, v, i)]
    BY DEF Keep
  <2> HIDE DEF f
  <2> QED
    BY <1>1, <2>1
<1>3. ASSUME NEW k \in 0..(n - 1), k \in A
      PROVE  k + 1 \in A
  <2>1. PICK f : f = [i \in 0..k |-> Keep(f, s, v, i)]
    BY <1>3
  <2> DEFINE g == [i \in 0..(k + 1) |-> IF i = k + 1 THEN Keep(f, s, v, i) ELSE f[i]]
  <2>2. \A i \in 0..k : g[i] = f[i] /\ f[i] = Keep(f, s, v, i)
    <3>1. \A i \in 0..k : f[i] = Keep(f, s, v, i)
      BY <2>1
    <3> HIDE DEF Keep
    <3>2. \A i \in 0..k : i \in 0..(k + 1) /\ i # k + 1
      BY <1>1
    <3> QED
      BY <3>1, <3>2
  <2>3. g[k + 1] = Keep(f, s, v, k + 1)
    OBVIOUS
  <2>4. DOMAIN g = 0..(k + 1) /\ g = [i \in 0..(k + 1) |-> g[i]]
    OBVIOUS
  <2> HIDE DEF g
  <2>5. ASSUME NEW i \in 0..(k + 1)
        PROVE  Keep(g, s, v, i) = Keep(f, s, v, i)
    <3>1. i = 0 \/ (i # 0 /\ i - 1 \in 0..k)
      OBVIOUS
    <3>2. i # 0 => g[i - 1] = f[i - 1]
      BY <2>2, <3>1
    <3> QED
      BY <3>2 DEF Keep
  <2>6. ASSUME NEW i \in 0..(k + 1)
        PROVE  g[i] = Keep(g, s, v, i)
    <3>1. i \in 0..k \/ i = k + 1
      OBVIOUS
    <3> QED
      BY <2>2, <2>3, <2>5, <3>1
  <2>7. g = [i \in 0..(k + 1) |-> Keep(g, s, v, i)]
    BY <2>4, <2>6
  <2>8. k + 1 \in 0..n
    BY <1>1
  <2> QED
    BY <2>7, <2>8
<1> HIDE DEF A
<1>4. 0..n \subseteq A
  BY <1>1, <1>2, <1>3, UpTo
<1>5. n \in A
  BY <1>1, <1>4
<1> QED
  BY <1>5 DEF A, Keeps

LEMMA KeptIs ==
  ASSUME NEW S, NEW s \in Seq(S), NEW v
  PROVE  \A i \in 0..Len(s) : Kept(s, v)[i] = Keep(Kept(s, v), s, v, i)
<1>1. Keeps(Kept(s, v), s, v)
  BY KeptExists, Zenon DEF Kept
<1> QED
  BY <1>1 DEF Keeps

(* r has items of s among its first i other than v, each once. *)
OtherItems(r, s, v, i) ==
  /\ Len(r) <= i
  /\ \A j \in 1..Len(r) : r[j] # v /\ \E k \in 1..i : r[j] = s[k]
  /\ \A j, k \in 1..Len(r) : r[j] = r[k] => j = k

LEMMA WithoutRepeats ==
  ASSUME NEW S, NEW s \in Seq(S), NEW v, \A j, k \in 1..Len(s) : s[j] = s[k] => j = k
  PROVE  /\ Without(s, v) \in Seq(S)
         /\ OtherItems(Without(s, v), s, v, Len(s))
<1> DEFINE n == Len(s)
           f == Kept(s, v)
           A == {i \in 0..n : f[i] \in Seq(S) /\ OtherItems(f[i], s, v, i)}
<1>1. n \in Nat
  OBVIOUS
<1>2. \A i \in 0..n : f[i] = Keep(f, s, v, i)
  BY KeptIs
<1> HIDE DEF f
<1>3. 0 \in A
  <2>1. f[0] = <<>>
    BY <1>1, <1>2 DEF Keep
  <2>2. <<>> \in Seq(S) /\ OtherItems(<<>>, s, v, 0)
    BY DEF OtherItems
  <2>3. 0 \in 0..n
    BY <1>1
  <2> QED
    BY <2>1, <2>2, <2>3, Zenon
<1>4. ASSUME NEW i \in 0..(n - 1), i \in A
      PROVE  i + 1 \in A
  <2>1. f[i] \in Seq(S) /\ OtherItems(f[i], s, v, i)
    BY <1>4
  <2>2. i + 1 \in 1..n /\ i \in Nat /\ s[i + 1] \in S
    BY <1>1
  <2>3. f[i + 1] = IF s[i + 1] = v THEN f[i] ELSE Append(f[i], s[i + 1])
    BY <1>1, <1>2, <2>2 DEF Keep
  <2> DEFINE r == f[i]
             t == f[i + 1]
             x == s[i + 1]
  <2>4. CASE x = v
    <3>1. t = r
      BY <2>3, <2>4
    <3>2. OtherItems(r, s, v, i + 1)
      BY <2>1, <2>2 DEF OtherItems
    <3> QED
      BY <2>1, <2>2, <3>1, <3>2
  <2>5. CASE x # v
    <3>1. t = Append(r, x)
      BY <2>3, <2>5
    <3> HIDE DEF r, t, x
    <3>2. r \in Seq(S) /\ x \in S /\ OtherItems(r, s, v, i)
      BY <2>1, <2>2 DEF r, x
    <3>3. /\ t \in Seq(S) /\ Len(t) = Len(r) + 1 /\ t[Len(t)] = x
          /\ \A j \in 1..Len(r) : t[j] = r[j]
      BY <3>1, <3>2
    <3>4. \A j \in 1..Len(r) : r[j] # x
      <4> SUFFICES ASSUME NEW j \in 1..Len(r) PROVE r[j] # x
        OBVIOUS
      <4>1. PICK k \in 1..i : r[j] = s[k]
        BY <3>2 DEF OtherItems
      <4>2. k # i + 1 /\ k \in 1..n
        BY <2>2
      <4> QED
        BY <2>2, <4>1, <4>2 DEF x
    <3>5. \A j \in 1..Len(t) : j \in 1..Len(r) \/ j = Len(t)
      BY <3>2, <3>3
    <3>6. \A j \in 1..Len(t) : t[j] # v /\ \E k \in 1..(i + 1) : t[j] = s[k]
      <4> SUFFICES ASSUME NEW j \in 1..Len(t)
                   PROVE  t[j] # v /\ \E k \in 1..(i + 1) : t[j] = s[k]
        OBVIOUS
      <4>1. CASE j \in 1..Len(r)
        <5>1. PICK k \in 1..i : r[j] = s[k]
          BY <3>2, <4>1 DEF OtherItems
        <5> QED
          BY <2>2, <3>2, <3>3, <4>1, <5>1 DEF OtherItems
      <4>2. CASE j = Len(t)
        BY <2>2, <2>5, <3>3, <4>2 DEF x
      <4> QED
        BY <3>5, <4>1, <4>2
    <3>7. \A j, k \in 1..Len(t) : t[j] = t[k] => j = k
      <4> SUFFICES ASSUME NEW j \in 1..Len(t), NEW k \in 1..Len(t), t[j] = t[k]
                   PROVE  j = k
        OBVIOUS
      <4>1. CASE j \in 1..Len(r) /\ k \in 1..Len(r)
        BY <3>2, <3>3, <4>1 DEF OtherItems
      <4>2. CASE j = Len(t) \/ k = Len(t)
        BY <3>3, <3>4, <3>5, <4>2
      <4> QED
        BY <3>5, <4>1, <4>2
    <3>8. OtherItems(t, s, v, i + 1)
      BY <2>2, <3>2, <3>3, <3>6, <3>7 DEF OtherItems
    <3> QED
      BY <2>2, <3>3, <3>8 DEF t
  <2> QED
    BY <2>4, <2>5
<1> HIDE DEF A
<1>5. 0..n \subseteq A
  BY <1>1, <1>3, <1>4, UpTo
<1>6. n \in A
  BY <1>1, <1>5
<1>7. Without(s, v) = f[n]
  BY WithoutIs DEF f
<1> QED
  BY <1>6, <1>7 DEF A

(* The request observed is none or one that was made, of a command if it is pending. *)
Executed(e) ==
  \E c \in Commands \union {NoCommand} : \E a \in 0..MaxActions :
    \E s \in {"idle", "pending", "done", "failed"} :
      e = Request(c, a, s) /\ (s = "pending" => c \in Commands)

(* The recalled commands and the place in them, and the request that may add to them. *)
RecallInv ==
  /\ command \in Commands \union {NoCommand}
  /\ activeCommand \in Commands \union {NoCommand}
  /\ commandError \in BOOLEAN
  /\ action \in 0..MaxActions
  /\ recall \in Seq(Commands)
  /\ index \in -1..(Len(recall) - 1)
  /\ Len(recall) <= RecallLimit
  /\ \A i, j \in 1..Len(recall) : recall[i] = recall[j] => i = j
  /\ Executed(execution)

LEMMA Remembered ==
  ASSUME RecallInv, NEW c \in Commands
  PROVE  /\ Remember(c) \in Seq(Commands)
         /\ Len(Remember(c)) \in 1..RecallLimit
         /\ \A i, j \in 1..Len(Remember(c)) : Remember(c)[i] = Remember(c)[j] => i = j
<1> DEFINE others == Without(recall, c)
           all == <<c>> \o others
           n == IF Len(others) < RecallLimit THEN Len(others) + 1 ELSE RecallLimit
<1>1. others \in Seq(Commands) /\ OtherItems(others, recall, c, Len(recall))
  BY WithoutRepeats DEF RecallInv
<1>2. Remember(c) = SubSeq(all, 1, n)
  BY DEF Remember
<1> HIDE DEF others
<1>3. /\ all \in Seq(Commands) /\ Len(all) = Len(others) + 1
      /\ \A i \in 1..Len(all) : all[i] = IF i = 1 THEN c ELSE others[i - 1]
  BY <1>1
<1>4. \A i, j \in 1..Len(all) : all[i] = all[j] => i = j
  BY <1>1, <1>3 DEF OtherItems
<1>5. n \in 1..RecallLimit /\ n <= Len(all)
  BY <1>1, <1>3, CommandBounds
<1> HIDE DEF all, n
<1>6. /\ SubSeq(all, 1, n) \in Seq(Commands) /\ Len(SubSeq(all, 1, n)) = n
      /\ \A i \in 1..n : SubSeq(all, 1, n)[i] = all[i] /\ i \in 1..Len(all)
  BY <1>3, <1>5
<1> QED
  BY <1>2, <1>4, <1>5, <1>6

LEMMA RecallInvSuffices == ASSUME RecallInv PROVE RecallInRange
<1>1. execution \in [command : Commands \union {NoCommand}, action : 0..MaxActions,
                     status : {"idle", "pending", "done", "failed"}]
  BY DEF RecallInv, Executed, Request
<1> QED
  BY <1>1 DEF RecallInv, RecallInRange, FormTypeOK

LEMMA RestIsRecalled == Executed(NoExecution)
<1>1. 0 \in 0..MaxActions
  BY CommandBounds
<1> QED
  BY <1>1, Idle DEF Executed

LEMMA RecallInvInit == FormInit => RecallInv
<1> SUFFICES ASSUME FormInit PROVE RecallInv
  OBVIOUS
<1>1. Executed(execution)
  BY RestIsRecalled, Zenon DEF FormInit
<1>2. recall = <<>> /\ index = -1 /\ action = 0
  BY DEF FormInit
<1>3. commandError \in BOOLEAN
  BY DEF FormInit
<1> QED
  BY <1>1, <1>2, <1>3, CommandBounds DEF FormInit, RecallInv

LEMMA DraftRecalled ==
  ASSUME RecallInv, NEW value \in Commands \union {NoCommand}, StartDraft(value),
         UNCHANGED recall, index' \in -1..(Len(recall) - 1)
  PROVE  RecallInv'
<1>1. action' \in 0..MaxActions
  BY CommandBounds DEF RecallInv, StartDraft
<1>2. Executed(execution')
  <2>1. CASE execution' = execution
    BY <2>1, Zenon DEF RecallInv
  <2>2. CASE execution' = NoExecution
    BY <2>2, RestIsRecalled, Zenon
  <2> QED
    BY <2>1, <2>2 DEF StartDraft
<1> QED
  BY <1>1, <1>2 DEF RecallInv, StartDraft

LEMMA AnswerRecalled ==
  ASSUME RecallInv, Executing, NEW status \in {"done", "failed"},
         execution' = [execution EXCEPT !.status = status]
  PROVE  /\ execution.command \in Commands
         /\ Executed(execution')
<1>1. PICK c \in Commands \union {NoCommand}, a \in 0..MaxActions,
           s \in {"idle", "pending", "done", "failed"} :
         execution = Request(c, a, s) /\ (s = "pending" => c \in Commands)
  BY DEF RecallInv, Executed
<1>2. execution' = Request(c, a, status)
  BY <1>1, RequestChanges
<1>3. execution.command = c /\ s = "pending"
  BY <1>1, RequestFields DEF Executing
<1> QED
  BY <1>1, <1>2, <1>3 DEF Executed

LEMMA RecallInvNext == RecallInv /\ [FormNext]_formVars => RecallInv'
<1> SUFFICES ASSUME RecallInv, [FormNext]_formVars
             PROVE  RecallInv'
  OBVIOUS
<1>0. /\ recall \in Seq(Commands) /\ Len(recall) \in Nat
      /\ index \in -1..(Len(recall) - 1)
  BY DEF RecallInv
<1>1. ASSUME NEW value \in Commands \union {NoCommand}, TypeCommand(value)
      PROVE  RecallInv'
  BY <1>0, <1>1, DraftRecalled DEF TypeCommand
<1>2. ASSUME NEW i \in -1..(Len(recall) - 1), RecallAt(i)
      PROVE  RecallInv'
  <2> DEFINE value == IF i >= 0 THEN recall[i + 1] ELSE NoCommand
  <2>1. value \in Commands \union {NoCommand}
    BY <1>0
  <2>2. StartDraft(value) /\ UNCHANGED recall /\ index' = i
    BY <1>2 DEF RecallAt
  <2> HIDE DEF value
  <2> QED
    BY <1>2, <2>1, <2>2, DraftRecalled
<1>3. CASE ArrowUp
  <2>1. (IF index + 1 < Len(recall) THEN index + 1 ELSE Len(recall) - 1)
          \in -1..(Len(recall) - 1)
    BY <1>0
  <2> QED
    BY <1>2, <1>3, <2>1 DEF ArrowUp
<1>4. CASE ArrowDown
  <2>1. (IF index > -1 THEN index - 1 ELSE -1) \in -1..(Len(recall) - 1)
    BY <1>0
  <2> QED
    BY <1>2, <1>4, <2>1 DEF ArrowDown
<1>5. CASE SubmitCommand
  <2>1. action' = action + 1 /\ action' \in 0..MaxActions
    BY <1>5, CommandBounds DEF RecallInv, SubmitCommand
  <2>2. Executed(execution')
    <3>1. CASE command = NoCommand
      BY <1>5, <3>1, RestIsRecalled, Zenon DEF SubmitCommand
    <3>2. CASE command # NoCommand
      <4>1. execution' = Request(command, action', "pending") /\ command \in Commands
        BY <1>5, <2>1, <3>2 DEF SubmitCommand, Request, RecallInv
      <4> QED
        BY <2>1, <4>1 DEF Executed
    <3> QED
      BY <3>1, <3>2
  <2> QED
    BY <1>5, <2>1, <2>2 DEF SubmitCommand, RecallInv
<1>6. CASE CommandSucceeds
  <2>1. /\ execution.command \in Commands
        /\ Executed(execution')
    BY <1>6, AnswerRecalled DEF CommandSucceeds
  <2>2. CASE action = execution.action
    <3>1. /\ recall' = Remember(execution.command) /\ command' = NoCommand /\ index' = -1
          /\ UNCHANGED <<commandError, activeCommand, action>>
      BY <1>6, <2>2 DEF CommandSucceeds
    <3>2. /\ recall' \in Seq(Commands) /\ Len(recall') \in 1..RecallLimit
          /\ \A i, j \in 1..Len(recall') : recall'[i] = recall'[j] => i = j
      BY <2>1, <3>1, Remembered
    <3> QED
      BY <2>1, <3>1, <3>2, CommandBounds DEF RecallInv
  <2>3. CASE action # execution.action
    BY <1>6, <2>1, <2>3 DEF CommandSucceeds, RecallInv
  <2> QED
    BY <2>2, <2>3
<1>7. CASE CommandFails
  <2>1. Executed(execution')
    BY <1>7, AnswerRecalled DEF CommandFails
  <2> QED
    BY <1>7, <2>1 DEF CommandFails, RecallInv
<1>8. CASE FormUnmounts
  <2>1. Executed(execution')
    BY <1>8, RestIsRecalled, Zenon DEF FormUnmounts, FormFresh
  <2>2. recall' = <<>> /\ index' = -1 /\ action' = 0
    BY <1>8 DEF FormUnmounts, FormFresh
  <2>3. commandError' \in BOOLEAN
    BY <1>8 DEF FormUnmounts, FormFresh
  <2> QED
    BY <1>8, <2>1, <2>2, <2>3, CommandBounds DEF FormUnmounts, FormFresh, RecallInv
<1>9. CASE UNCHANGED formVars
  BY <1>9 DEF formVars, RecallInv
<1> QED
  BY <1>1, <1>3, <1>4, <1>5, <1>6, <1>7, <1>8, <1>9 DEF FormNext

(* Whatever is typed, sent, answered and recalled, the arrow keys stay within the
   commands that succeeded, which are at most RecallLimit and all different
   (console-command-form.tsx:41, 51-56). *)
THEOREM RecallStaysInRange == FormSpec => []RecallInRange
  BY RecallInvInit, RecallInvNext, RecallInvSuffices, PTL DEF FormSpec

-----------------------------------------------------------------------------
(* The cached views *)

(* What the browser holds of a query. *)
Reads == {"idle", "sent", "answered"}
Entries == [data : Int, failed : BOOLEAN, stale : BOOLEAN, read : Reads, answer : Int,
            blind : BOOLEAN]

(* An entry as it is when the server is at version v and the tab has heard of
   success up to version c; a read whose answer no invalidation has passed by
   will bring what is at least as new. *)
Sound(e, v, c) ==
  /\ e \in Entries
  /\ e.data \in NoData..v
  /\ e.answer \in IF e.read = "answered" THEN 0..v ELSE {NotYet}
  /\ (e.read = "answered" /\ ~e.blind) => e.answer >= c
  /\ (e.data # NoData /\ ~e.stale /\ e.read = "idle" /\ ~e.blind) => e.data >= c

(* A page without data has asked for it or shows an error. *)
Awaited(e) == e.data = NoData => e.failed \/ e.read # "idle"

ViewScalars ==
  /\ version \in 0..MaxVersion /\ confirmed \in 0..version
  /\ place \in Visited /\ mutation \in {"none", "done", "accepted"}

ViewsInv ==
  /\ ViewScalars
  /\ DOMAIN cache = Queries
  /\ \A q \in Queries : Sound(cache[q], version, confirmed) /\ (Active(q) => Awaited(cache[q]))

LEMMA ViewsInvSuffices == ASSUME ViewsInv PROVE ConfirmedIsShown
<1>1. ViewsTypeOK
  BY DEF ViewsInv, ViewsTypeOK, ViewScalars, Sound, Awaited, Entries, Reads
<1> QED
  BY <1>1 DEF ViewsInv, Sound, ConfirmedIsShown

(* The changes to an entry, field by field. *)
AnswerIn(e, r, a) == [e EXCEPT !.read = r, !.answer = a]
ReadIn(e, r, a, f) == [e EXCEPT !.read = r, !.answer = a, !.blind = FALSE, !.failed = f]
DataIn(e, d, r, a) ==
  [e EXCEPT !.data = d, !.failed = FALSE, !.stale = FALSE, !.read = r, !.answer = a]
ErrorIn(e, r, a) == [e EXCEPT !.failed = TRUE, !.stale = TRUE, !.read = r, !.answer = a]

LEMMA AnsweredFields ==
  ASSUME NEW e \in Entries, NEW r \in Reads, NEW a \in Int
  PROVE  LET n == AnswerIn(e, r, a)
         IN n \in Entries /\ n.data = e.data /\ n.read = r /\ n.answer = a
  BY DEF Entries, AnswerIn

LEMMA AnewFields ==
  ASSUME NEW e \in Entries, NEW r \in Reads, NEW a \in Int, NEW f \in BOOLEAN
  PROVE  LET n == ReadIn(e, r, a, f)
         IN n \in Entries /\ n.data = e.data /\ n.read = r /\ n.answer = a
  BY DEF Entries, ReadIn

LEMMA HeardFields ==
  ASSUME NEW e \in Entries, NEW d \in Int, NEW r \in Reads, NEW a \in Int
  PROVE  LET n == DataIn(e, d, r, a)
         IN /\ n \in Entries /\ n.data = d /\ n.read = r /\ n.answer = a
            /\ (n.blind <=> e.blind)
  BY DEF Entries, DataIn

LEMMA FailedFields ==
  ASSUME NEW e \in Entries, NEW r \in Reads, NEW a \in Int
  PROVE  LET n == ErrorIn(e, r, a)
         IN /\ n \in Entries /\ n.data = e.data /\ n.failed /\ n.stale
            /\ n.read = r /\ n.answer = a
  BY DEF Entries, ErrorIn

LEMMA ReadStates ==
  /\ "idle" \in Reads /\ "sent" \in Reads /\ "answered" \in Reads /\ NotYet \in Int
  BY DEF Reads, NotYet

LEMMA ReadsAnew ==
  ASSUME NEW e \in Entries, NEW v \in Nat, NEW c \in 0..v, e.data \in NoData..v
  PROVE  Sound(ReadAnew(e), v, c) /\ Awaited(ReadAnew(e))
<1> DEFINE failed == IF e.data = NoData THEN FALSE ELSE e.failed
<1>1. failed \in BOOLEAN
  <2>1. e.failed \in BOOLEAN
    BY DEF Entries
  <2> QED
    BY <2>1, Zenon
<1>2. ReadAnew(e) = ReadIn(e, "sent", NotYet, failed)
  BY Zenon DEF ReadAnew, ReadIn
<1> HIDE DEF failed
<1>3. /\ ReadAnew(e) \in Entries
      /\ ReadAnew(e).data = e.data /\ ReadAnew(e).read = "sent"
      /\ ReadAnew(e).answer = NotYet
  BY <1>1, <1>2, ReadStates, AnewFields
<1> QED
  BY <1>3 DEF Sound, Awaited

LEMMA Unreads == Unread \in Entries /\ Unread.data = NoData /\ Unread.read = "idle"
  /\ Unread.answer = NotYet /\ Unread.stale
  BY DEF Unread, Entries, Reads, NoData, NotYet

LEMMA MountedSound ==
  ASSUME NEW v \in Nat, NEW c \in 0..v, NEW e, Sound(e, v, c)
  PROVE  Sound(Mounted(e), v, c) /\ Awaited(Mounted(e))
  BY ReadsAnew DEF Mounted, Sound, Awaited

(* The changes of one entry that are not a read's beginning. *)
LEMMA EntryAnswered ==
  ASSUME NEW v \in Nat, NEW c \in 0..v, NEW e, Sound(e, v, c), e.read = "sent"
  PROVE  LET n == [e EXCEPT !.read = "answered", !.answer = v]
         IN Sound(n, v, c) /\ (Awaited(e) => Awaited(n))
<1> DEFINE n == AnswerIn(e, "answered", v)
<1>1. e \in Entries /\ v \in Int
  BY DEF Sound
<1>2. n \in Entries /\ n.data = e.data /\ n.read = "answered" /\ n.answer = v
  BY <1>1, ReadStates, AnsweredFields
<1> HIDE DEF n, AnswerIn
<1>3. Sound(n, v, c) /\ (Awaited(e) => Awaited(n))
  BY <1>2 DEF Sound, Awaited
<1> QED
  BY <1>3 DEF n, AnswerIn

LEMMA EntryHeard ==
  ASSUME NEW v \in Nat, NEW c \in 0..v, NEW e, Sound(e, v, c), e.read = "answered"
  PROVE  LET n == [e EXCEPT !.data = e.answer, !.failed = FALSE, !.stale = FALSE,
                            !.read = "idle", !.answer = NotYet]
         IN Sound(n, v, c) /\ Awaited(n)
<1> DEFINE n == DataIn(e, e.answer, "idle", NotYet)
<1>1. e \in Entries /\ e.answer \in Int
  BY DEF Sound
<1>2. /\ n \in Entries /\ n.data = e.answer /\ n.read = "idle" /\ n.answer = NotYet
      /\ (n.blind <=> e.blind)
  BY <1>1, ReadStates, HeardFields
<1> HIDE DEF n, DataIn
<1>3. Sound(n, v, c) /\ Awaited(n)
  BY <1>2 DEF Sound, Awaited, NoData
<1> QED
  BY <1>3 DEF n, DataIn

LEMMA EntryFailed ==
  ASSUME NEW v \in Nat, NEW c \in 0..v, NEW e, Sound(e, v, c)
  PROVE  LET n == [e EXCEPT !.failed = TRUE, !.stale = TRUE, !.read = "idle",
                            !.answer = NotYet]
         IN Sound(n, v, c) /\ Awaited(n)
<1> DEFINE n == ErrorIn(e, "idle", NotYet)
<1>1. e \in Entries
  BY DEF Sound
<1>2. /\ n \in Entries /\ n.data = e.data /\ n.failed /\ n.stale
      /\ n.read = "idle" /\ n.answer = NotYet
  BY <1>1, ReadStates, FailedFields
<1> HIDE DEF n, ErrorIn
<1>3. Sound(n, v, c) /\ Awaited(n)
  BY <1>2 DEF Sound, Awaited
<1> QED
  BY <1>3 DEF n, ErrorIn

LEMMA EntryAged ==
  ASSUME NEW v \in Nat, NEW c \in 0..v, NEW e, Sound(e, v, c)
  PROVE  LET n == [e EXCEPT !.stale = TRUE]
         IN Sound(n, v, c) /\ (Awaited(e) => Awaited(n))
  BY DEF Sound, Awaited, Entries, Reads, NotYet, NoData

(* After an invalidation nothing old is taken for fresh, whatever was confirmed. *)
LEMMA Invalidated ==
  ASSUME NEW v \in Nat, NEW c \in 0..v, NEW e, Sound(e, v, c), NEW d \in 0..v
  PROVE  LET n == [e EXCEPT !.stale = TRUE]
             m == [n EXCEPT !.blind = (n.read # "idle")]
         IN /\ n \in Entries /\ n.data = e.data /\ n.read = e.read
            /\ Sound(m, v, d) /\ (Awaited(e) => Awaited(m))
  BY DEF Sound, Awaited, Entries, Reads, NotYet, NoData

LEMMA InvalidateSound ==
  ASSUME ViewsInv, NEW Q, NEW d \in 0..version, Q = Queries \/ d = confirmed, NEW q \in Queries
  PROVE  Sound(Invalidate(Q)[q], version, d) /\ (Active(q) => Awaited(Invalidate(Q)[q]))
<1>2. /\ version \in Nat /\ confirmed \in 0..version /\ Sound(cache[q], version, confirmed)
      /\ Active(q) => Awaited(cache[q])
  BY ViewConstants DEF ViewsInv, ViewScalars
<1> DEFINE entry == [cache[q] EXCEPT !.stale = TRUE]
           passed == [entry EXCEPT !.blind = (entry.read # "idle")]
<1>3. Invalidate(Q)[q] =
        IF q \notin Q THEN cache[q]
        ELSE IF Active(q) /\ (entry.data # NoData \/ entry.read = "idle")
          THEN ReadAnew(entry) ELSE passed
  BY DEF Invalidate
<1>4. /\ entry \in Entries /\ entry.data = cache[q].data
      /\ Sound(passed, version, d) /\ (Awaited(cache[q]) => Awaited(passed))
  BY <1>2, Invalidated
<1>5. entry.data \in NoData..version
  BY <1>2, <1>4 DEF Sound
<1> HIDE DEF entry, passed
<1>6. Sound(ReadAnew(entry), version, d) /\ Awaited(ReadAnew(entry))
  BY <1>2, <1>4, <1>5, ReadsAnew
<1> QED
  BY <1>2, <1>3, <1>4, <1>6

LEMMA ViewsInvInit == ViewsInit => ViewsInv
<1> SUFFICES ASSUME ViewsInit PROVE ViewsInv
  OBVIOUS
<1>1. ViewScalars
  BY ViewConstants DEF ViewsInit, ViewScalars
<1>2. Sound(Unread, 0, 0)
  BY Unreads DEF Sound, NoData
<1>3. Sound(ReadAnew(Unread), 0, 0) /\ Awaited(ReadAnew(Unread))
  BY Unreads, ReadsAnew DEF NoData
<1>4. \A q \in Queries : Active(q) => q = "overview"
  BY DEF ViewsInit, Active, ActiveOn, PageQueries
<1> QED
  BY <1>1, <1>2, <1>3, <1>4 DEF ViewsInit, ViewsInv

(* One entry changes and everything else stays. *)
LEMMA OneEntry ==
  ASSUME ViewsInv, NEW q \in Queries, NEW e, cache' = [cache EXCEPT ![q] = e],
         Sound(e, version, confirmed), Active(q) => Awaited(e),
         UNCHANGED <<version, place, mutation, confirmed>>
  PROVE  ViewsInv'
  BY DEF ViewsInv, ViewScalars, Active

LEMMA SoundLater ==
  ASSUME NEW v \in Nat, NEW c \in 0..v, NEW e, Sound(e, v, c)
  PROVE  Sound(e, v + 1, c)
  BY DEF Sound, Entries, Reads, NotYet, NoData

LEMMA ViewsInvNext == ViewsInv /\ [ViewsNext]_viewVars => ViewsInv'
<1> SUFFICES ASSUME ViewsInv, [ViewsNext]_viewVars
             PROVE  ViewsInv'
  OBVIOUS
<1>0. version \in Nat /\ confirmed \in 0..version
  BY ViewConstants DEF ViewsInv, ViewScalars
<1>1. ASSUME NEW p \in Visited, GoTo(p)
      PROVE  ViewsInv'
  <2>1. ViewScalars'
    BY <1>1 DEF GoTo, ViewsInv, ViewScalars
  <2>2. ASSUME NEW q \in Queries
        PROVE  /\ Sound(cache'[q], version, confirmed)
               /\ q \in ActiveOn(p) => Awaited(cache'[q])
    BY <1>0, <1>1, MountedSound DEF GoTo, ViewsInv
  <2> QED
    BY <1>1, <2>1, <2>2 DEF GoTo, ViewsInv, Active
<1>2. ASSUME NEW q \in Queries, AnswerRead(q)
      PROVE  ViewsInv'
  <2> DEFINE e == [cache[q] EXCEPT !.read = "answered", !.answer = version]
  <2>1. cache' = [cache EXCEPT ![q] = e]
    BY <1>2 DEF AnswerRead
  <2>2. Sound(e, version, confirmed) /\ (Active(q) => Awaited(e))
    BY <1>0, <1>2, EntryAnswered DEF AnswerRead, ViewsInv
  <2> HIDE DEF e
  <2> QED
    BY <1>2, <2>1, <2>2, OneEntry DEF AnswerRead
<1>3. ASSUME NEW q \in Queries, HearRead(q)
      PROVE  ViewsInv'
  <2> DEFINE e == [cache[q] EXCEPT !.data = cache[q].answer, !.failed = FALSE,
                     !.stale = FALSE, !.read = "idle", !.answer = NotYet]
  <2>1. cache' = [cache EXCEPT ![q] = e]
    BY <1>3 DEF HearRead
  <2>2. Sound(e, version, confirmed) /\ (Active(q) => Awaited(e))
    BY <1>0, <1>3, EntryHeard DEF HearRead, ViewsInv
  <2> HIDE DEF e
  <2> QED
    BY <1>3, <2>1, <2>2, OneEntry DEF HearRead
<1>4. ASSUME NEW q \in Queries, ReadFails(q)
      PROVE  ViewsInv'
  <2> DEFINE e == [cache[q] EXCEPT !.failed = TRUE, !.stale = TRUE, !.read = "idle",
                                   !.answer = NotYet]
  <2>1. cache' = [cache EXCEPT ![q] = e]
    BY <1>4 DEF ReadFails
  <2>2. Sound(e, version, confirmed) /\ (Active(q) => Awaited(e))
    BY <1>0, EntryFailed DEF ViewsInv
  <2> HIDE DEF e
  <2> QED
    BY <1>4, <2>1, <2>2, OneEntry DEF ReadFails
<1>5. ASSUME NEW q \in Queries, Ages(q)
      PROVE  ViewsInv'
  <2> DEFINE e == [cache[q] EXCEPT !.stale = TRUE]
  <2>1. cache' = [cache EXCEPT ![q] = e]
    BY <1>5 DEF Ages
  <2>2. Sound(e, version, confirmed) /\ (Active(q) => Awaited(e))
    BY <1>0, EntryAged DEF ViewsInv
  <2> HIDE DEF e
  <2> QED
    BY <1>5, <2>1, <2>2, OneEntry DEF Ages
<1>6. ASSUME NEW q \in Queries, Poll(q)
      PROVE  ViewsInv'
  <2>1. cache' = [cache EXCEPT ![q] = ReadAnew(cache[q])]
    BY <1>6 DEF Poll
  <2>2. Sound(ReadAnew(cache[q]), version, confirmed) /\ Awaited(ReadAnew(cache[q]))
    BY <1>0, ReadsAnew DEF ViewsInv, Sound
  <2> QED
    BY <1>6, <2>1, <2>2, OneEntry DEF Poll
<1>7. CASE Performs \/ ServerChanges
  <2>1. version' = version + 1 /\ version' \in 0..MaxVersion
    BY <1>0, <1>7, ViewConstants DEF Performs, ServerChanges
  <2>2. UNCHANGED <<place, cache, confirmed>> /\ mutation' \in {"none", "done", "accepted"}
    BY <1>7 DEF Performs, ServerChanges, ViewsInv, ViewScalars
  <2>3. ViewScalars'
    BY <1>0, <2>1, <2>2 DEF ViewsInv, ViewScalars
  <2>4. \A q \in Queries : Sound(cache[q], version + 1, confirmed)
    BY <1>0, SoundLater DEF ViewsInv
  <2> QED
    BY <2>1, <2>2, <2>3, <2>4 DEF ViewsInv, Active
<1>8. CASE Accepts \/ MutationFails
  BY <1>8 DEF Accepts, MutationFails, ViewsInv, ViewScalars, Active
<1>9. CASE Succeeds
  <2>1. /\ cache' = Invalidate(Queries) /\ confirmed' = version /\ mutation' = "none"
        /\ UNCHANGED <<version, place>>
    BY <1>9 DEF Succeeds
  <2>2. version \in 0..version
    BY <1>0
  <2>3. DOMAIN Invalidate(Queries) = Queries
    BY DEF Invalidate
  <2>4. \A q \in Queries : /\ Sound(Invalidate(Queries)[q], version, version)
                           /\ Active(q) => Awaited(Invalidate(Queries)[q])
    BY <2>2, InvalidateSound
  <2>5. ViewScalars'
    BY <2>1, <2>2 DEF ViewsInv, ViewScalars
  <2> QED
    BY <2>1, <2>3, <2>4, <2>5 DEF ViewsInv, Active
<1>10. CASE RefreshOverview
  <2>1. cache' = Invalidate({"overview"}) /\ UNCHANGED <<version, place, mutation, confirmed>>
    BY <1>10 DEF RefreshOverview
  <2>2. DOMAIN Invalidate({"overview"}) = Queries
    BY DEF Invalidate
  <2>3. \A q \in Queries : /\ Sound(Invalidate({"overview"})[q], version, confirmed)
                           /\ Active(q) => Awaited(Invalidate({"overview"})[q])
    BY <1>0, InvalidateSound
  <2> QED
    BY <2>1, <2>2, <2>3 DEF ViewsInv, ViewScalars, Active
<1>11. CASE UNCHANGED viewVars
  BY <1>11 DEF viewVars, ViewsInv, ViewScalars, Active
<1> QED
  BY <1>1, <1>2, <1>3, <1>4, <1>5, <1>6, <1>7, <1>8, <1>9, <1>10, <1>11 DEF ViewsNext

(* What the cache takes for fresh, and no read is about to replace, is as new as the
   last success the tab has heard of, and a page without data has asked for it or
   shows its error, however reads, polls, mutations and invalidations interleave; a
   query whose read an invalidation did not reach is excepted (use-create-backup.ts:14). *)
THEOREM SuccessIsShown == ViewsSpec => []ConfirmedIsShown
  BY ViewsInvInit, ViewsInvNext, ViewsInvSuffices, PTL DEF ViewsSpec

=============================================================================

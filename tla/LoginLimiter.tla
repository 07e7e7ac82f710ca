------------------------------ MODULE LoginLimiter ------------------------------
(***************************************************************************)
(* The limiter of setup, login and reauthentication attempts: a window of  *)
(* attempts for each key, in a table of bounded size (ratelimit.go).  A    *)
(* caller reads the time before it waits for the limiter's lock, so it may *)
(* bring a time older than one brought before it.                          *)
(***************************************************************************)
EXTENDS Integers, FiniteSets

CONSTANTS
  Keys,
  Limit,     \* attempts in a window
  MaxKeys,   \* size of the table
  Window,    \* length of a window
  MaxLate,   \* how long a caller waits for the lock at most
  MaxTick    \* bound: the clock

ASSUME LimiterConstants ==
  /\ Limit \in Nat \ {0} /\ MaxKeys \in Nat \ {0} /\ Window \in Nat \ {0}
  /\ MaxLate \in 0..(Window - 1) /\ MaxTick \in Nat

VARIABLES
  tick,      \* the clock
  attempts,  \* of the keys in the table, their windows
  passed,    \* of each key, how long ago its last attempts were let through, the
             \* latest first, of those since it was reset
  refused    \* the key just refused, if any

limiterVars == <<tick, attempts, passed, refused>>

Long == Window + MaxLate  \* attempts longer ago than this are not told apart

Lasts == 1..(2 * Limit + 1)

NonePassed == [i \in Lasts |-> Long]

LimiterInit ==
  /\ tick = 0 /\ attempts = <<>>
  /\ passed = [k \in Keys |-> NonePassed]
  /\ refused = {}

Known == DOMAIN attempts

Dead(k, now) == now - attempts[k].started >= Window

TableForEmptied(k, now) ==  \* variant: all windows are dropped
  IF k \notin Known /\ Cardinality(Known) >= MaxKeys THEN <<>> ELSE attempts

(* A new key that finds the table full drops the windows that are over. *)
TableFor(k, now) ==
  IF k \notin Known /\ Cardinality(Known) >= MaxKeys
    THEN [c \in {x \in Known : ~Dead(x, now)} |-> attempts[c]]
    ELSE attempts

LetThrough(k, table, window) ==
  /\ attempts' = [c \in DOMAIN table \union {k} |-> IF c = k THEN window ELSE table[c]]
  /\ passed' = [passed EXCEPT ![k] = [i \in Lasts |-> IF i = 1 THEN 0 ELSE @[i - 1]]]
  /\ refused' = {}
  /\ UNCHANGED tick

(* Allow *)
Allow(k, now) ==
  LET table == TableFor(k, now)
  IN IF k \notin Known /\ Cardinality(DOMAIN table) >= MaxKeys
       THEN /\ attempts' = table /\ refused' = {k}
            /\ UNCHANGED <<tick, passed>>
     ELSE IF k \notin Known \/ Dead(k, now)
       THEN LetThrough(k, table, [started |-> now, count |-> 1])
     ELSE IF attempts[k].count >= Limit
       THEN refused' = {k} /\ UNCHANGED <<tick, attempts, passed>>
     ELSE LetThrough(k, table, [attempts[k] EXCEPT !.count = @ + 1])

(* Reset, after an attempt that succeeded. *)
Reset(k) ==
  /\ attempts' = [c \in Known \ {k} |-> attempts[c]]
  /\ passed' = [passed EXCEPT ![k] = NonePassed]
  /\ refused' = {}
  /\ UNCHANGED tick

TimePasses ==
  /\ tick < MaxTick
  /\ tick' = tick + 1
  /\ passed' = [k \in Keys |-> [i \in Lasts |->
                  IF passed[k][i] < Long THEN passed[k][i] + 1 ELSE Long]]
  /\ refused' = {}
  /\ UNCHANGED attempts

LimiterNext ==
  \/ \E k \in Keys : Reset(k) \/ \E late \in 0..MaxLate : Allow(k, tick - late)
  \/ TimePasses

LimiterSpec == LimiterInit /\ [][LimiterNext]_limiterVars

-----------------------------------------------------------------------------
(* Properties *)

LimiterTypeOK ==
  /\ tick \in 0..MaxTick
  /\ Known \subseteq Keys /\ Cardinality(Known) <= MaxKeys
  /\ \A k \in Known : attempts[k].started \in -MaxLate..tick /\ attempts[k].count \in 1..Limit

(* In a span shorter than a window by as long as callers wait for the lock, no key
   is let through more often than in two windows, of which the span touches the
   end and the beginning, whatever the table forgets for other keys' sake: one more
   attempt before those was let through longer ago.  Only a reset lets a key begin
   anew (ratelimit.go:40-48). *)
SpanLimited == \A k \in Keys : passed[k][2 * Limit + 1] >= Window - MaxLate

(* A key is refused only when it was let through as often as a window allows, or as
   many keys as the table has room for were let through once, no longer ago than a
   window and the wait for the lock: nobody is locked out by attempts that are over
   (ratelimit.go:29-38). *)
RefusedForCause ==
  \A k \in refused :
    \/ passed[k][Limit] < Long
    \/ Cardinality({c \in Keys : passed[c][1] < Long}) >= MaxKeys

(* The table never outgrows its bound, and its windows neither let through more than
   they are for nor lock out who has not tried. *)
AttemptsLimited == LimiterTypeOK /\ SpanLimited /\ RefusedForCause

=============================================================================

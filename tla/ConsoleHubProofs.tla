--------------------------- MODULE ConsoleHubProofs ---------------------------
(* Theorems about ConsoleHub. *)
EXTENDS ConsoleHub, SequenceTheorems, FiniteSetTheorems, TLAPS

-----------------------------------------------------------------------------
(* The operators *)

(* The last n lines are a suffix of the lines. *)
LEMMA NewestIsSuffix ==
  ASSUME NEW S, NEW s \in Seq(S), NEW n \in Nat
  PROVE  /\ Newest(s, n) \in Seq(S)
         /\ Len(Newest(s, n)) = IF Len(s) <= n THEN Len(s) ELSE n
         /\ \A i \in 1..Len(Newest(s, n)) :
              /\ Len(s) - Len(Newest(s, n)) + i \in 1..Len(s)
              /\ Newest(s, n)[i] = s[Len(s) - Len(Newest(s, n)) + i]
<1>1. Len(s) \in Nat
  BY LenProperties
<1>2. CASE Len(s) <= n
  BY <1>1, <1>2 DEF Newest
<1>3. CASE ~(Len(s) <= n)
  <2> DEFINE m == Len(s) - n + 1
             t == SubSeq(s, m, Len(s))
  <2>1. Newest(s, n) = t
    BY <1>3 DEF Newest
  <2>2. m \in 1..Len(s)+1 /\ Len(s) \in m-1..Len(s)
    BY <1>1, <1>3
  <2>3. t \in Seq(S) /\ Len(t) = Len(s) - m + 1
        /\ \A i \in 1..Len(s)-m+1 : t[i] = s[m+i-1]
    BY <1>1, <2>2, SubSeqProperties
  <2>4. Len(t) = n
    BY <1>1, <2>3
  <2> HIDE DEF t
  <2> QED
    BY <1>1, <1>3, <2>1, <2>3, <2>4
<1> QED
  BY <1>2, <1>3

(* Appending a line and keeping the newest adds that line and no other. *)
LEMMA NewestAddsOne ==
  ASSUME NEW S, NEW s \in Seq(S), NEW x \in S, NEW n \in Nat
  PROVE  /\ Newest(Append(s, x), n) \in Seq(S)
         /\ Lines(Newest(Append(s, x), n)) \subseteq Lines(s) \union {x}
<1> DEFINE t == Append(s, x)
<1>1. t \in Seq(S) /\ Len(t) = Len(s) + 1 /\ Len(s) \in Nat
      /\ \A i \in 1..Len(s) : t[i] = s[i]
  BY AppendProperties, LenProperties
<1>2. t[Len(s) + 1] = x
  BY AppendProperties
<1> HIDE DEF t
<1>3. Newest(t, n) \in Seq(S)
  BY <1>1, NewestIsSuffix
<1>4. ASSUME NEW i \in 1..Len(Newest(t, n))
      PROVE  Newest(t, n)[i] \in Lines(s) \union {x}
  <2>1. PICK j \in 1..Len(t) : Newest(t, n)[i] = t[j]
    BY <1>1, NewestIsSuffix
  <2> QED
    BY <1>1, <1>2, <2>1 DEF Lines
<1> QED
  BY <1>3, <1>4 DEF Lines, t

LEMMA LinesOfEmpty == Lines(<<>>) = {}
  BY DEF Lines

LEMMA LinesOfAppend ==
  ASSUME NEW S, NEW s \in Seq(S), NEW x \in S
  PROVE  Lines(Append(s, x)) \subseteq Lines(s) \union {x}
<1>1. ASSUME NEW i \in 1..Len(Append(s, x)) PROVE Append(s, x)[i] \in Lines(s) \union {x}
  BY LenProperties, AppendProperties DEF Lines
<1> QED
  BY <1>1 DEF Lines

LEMMA LinesOfTail ==
  ASSUME NEW S, NEW s \in Seq(S), s # <<>>
  PROVE  /\ Lines(Tail(s)) \subseteq Lines(s) /\ Head(s) \in Lines(s)
         /\ Head(s) \in S /\ Tail(s) \in Seq(S) /\ Len(Tail(s)) = Len(s) - 1
         /\ Len(s) \in Nat \ {0}
<1>1. Len(s) \in Nat \ {0}
  BY EmptySeq, LenProperties
<1>2. Head(s) \in S /\ Tail(s) \in Seq(S) /\ Len(Tail(s)) = Len(s) - 1 /\ Head(s) = s[1]
      /\ \A i \in 1..Len(Tail(s)) : Tail(s)[i] = s[i+1]
  BY <1>1, HeadTailProperties
<1>3. ASSUME NEW i \in 1..Len(Tail(s)) PROVE Tail(s)[i] \in Lines(s)
  BY <1>1, <1>2 DEF Lines
<1> QED
  BY <1>1, <1>2, <1>3 DEF Lines

LEMMA LinesOfNewest ==
  ASSUME NEW S, NEW s \in Seq(S), NEW n \in Nat
  PROVE  Lines(Newest(s, n)) \subseteq Lines(s)
<1>1. ASSUME NEW i \in 1..Len(Newest(s, n)) PROVE Newest(s, n)[i] \in Lines(s)
  BY NewestIsSuffix DEF Lines
<1> QED
  BY <1>1 DEF Lines

LEMMA LinesTyped ==
  ASSUME NEW S, NEW s \in Seq(S)
  PROVE  Lines(s) \subseteq S
BY ElementOfSeq, LenProperties DEF Lines

LEMMA HeldLines ==
  ASSUME NEW x
  PROVE  x \in Held <=>
           \/ x \in Lines(ring)
           \/ \E c \in Clients :
                x \in Lines(queue[c]) \/ x \in Lines(live[c]) \/ x \in Lines(history[c])
BY DEF Held

LEMMA HeldLinesNext ==
  ASSUME NEW x
  PROVE  x \in Held' <=>
           \/ x \in Lines(ring')
           \/ \E c \in Clients :
                x \in Lines(queue'[c]) \/ x \in Lines(live'[c]) \/ x \in Lines(history'[c])
BY DEF Held, Lines

LEMMA HeldTyped == TypeOK => Held \subseteq Line
BY HeldLines, LinesTyped DEF TypeOK

LEMMA Sizes ==
  ASSUME TypeOK
  PROVE  /\ written \in Nat /\ first \in Nat /\ first <= written
         /\ offset \in Int /\ offset >= -1
         /\ written <= MaxWrites /\ MaxWrites \in Nat
         /\ TailSize \in Nat /\ TailSize >= 2
BY ConstantsOK DEF TypeOK

(* The hub is at a place of the current file. *)
LEMMA PositionInFile ==
  ASSUME TypeOK
  PROVE  /\ Position \in first..written /\ Position \in Nat
         /\ LineEnd(Position) \in Nat /\ LineEnd(Position) > Position
         /\ LineEnd(Position) <= Position + 2
         /\ 2 * (LineEnd(Position) \div 2) = LineEnd(Position)
         /\ LineEnd(Position) \div 2 \in Nat
<1>2. Resume(written - first) \in 0..(written - first)
  BY Sizes DEF Resume, NearEnd
<1>3. Position \in first..written /\ Position \in Nat
  BY Sizes, <1>2 DEF Position
<1>4. \A p \in Nat : /\ LineEnd(p) \in Nat /\ LineEnd(p) > p /\ LineEnd(p) <= p + 2
                     /\ 2 * (LineEnd(p) \div 2) = LineEnd(p) /\ LineEnd(p) \div 2 \in Nat
  BY DEF LineEnd
<1> QED
  BY <1>3, <1>4

-----------------------------------------------------------------------------
(* Types *)

(* The line the hub would publish now. *)
NewLine == [seq |-> next + 1, line |-> LineEnd(Position) \div 2,
            file |-> first, epoch |-> epoch]

LEMMA NewLineTyped ==
  ASSUME TypeOK
  PROVE  NewLine \in Line
BY PositionInFile DEF TypeOK, NewLine, Line

(* What an offer does to one queue. *)
LEMMA OfferAddsOne ==
  ASSUME TypeOK, NEW c \in Clients, NEW x \in Line
  PROVE  /\ Offer(c, x) \in Seq(Line)
         /\ Len(Offer(c, x)) <= Buffer
         /\ Lines(Offer(c, x)) \subseteq Lines(queue[c]) \union {x}
         /\ Offer(c, x) = queue[c] \/ Offer(c, x) = Append(queue[c], x)
<1>1. queue[c] \in Seq(Line) /\ Len(queue[c]) <= Buffer /\ Len(queue[c]) \in Nat
      /\ Buffer \in Nat
  BY ConstantsOK, LenProperties DEF TypeOK
<1>2. /\ Append(queue[c], x) \in Seq(Line)
      /\ Len(Append(queue[c], x)) = Len(queue[c]) + 1
  BY <1>1, AppendProperties
<1>3. Lines(Append(queue[c], x)) \subseteq Lines(queue[c]) \union {x}
  BY <1>1, LinesOfAppend
<1> QED
  BY <1>1, <1>2, <1>3 DEF Offer

LEMMA PublishTyped ==
  ASSUME TypeOK, NEW x \in Line, Publish(x)
  PROVE  /\ next' \in Nat /\ ring' \in Seq(Line)
         /\ queue' \in [Clients -> Seq(Line)]
         /\ \A c \in Clients : Len(queue'[c]) <= Buffer
<1>1. next' \in Nat
  BY DEF Publish, Line
<1>2. ring' \in Seq(Line)
  BY NewestAddsOne, ConstantsOK DEF Publish, AppendRing, TypeOK
<1> QED
  BY <1>1, <1>2, OfferAddsOne DEF Publish

LEMMA TypeStep ==
  ASSUME TypeOK, [Next]_vars
  PROVE  TypeOK'
<1> USE ConstantsOK
<1>0. CASE UNCHANGED vars
  BY <1>0 DEF vars, TypeOK
<1>1. CASE Write
  BY <1>1 DEF Write, TypeOK, hub, access, browser
<1>2. CASE Rotate
  BY <1>2 DEF Rotate, TypeOK, hub, access, browser
<1>3. CASE ReadLine
  <2>1. offset' \in -1..MaxWrites
    BY <1>3, PositionInFile, Sizes DEF ReadLine
  <2>2. Publish(NewLine)
    BY <1>3 DEF ReadLine, NewLine
  <2> QED
    BY <1>3, <2>1, <2>2, NewLineTyped, PublishTyped
    DEF ReadLine, TypeOK, log, access, browser
<1>4. CASE ReadPartial
  <2>1. offset' \in -1..MaxWrites
    BY <1>4, PositionInFile, Sizes DEF ReadPartial
  <2> QED
    BY <1>4, <2>1 DEF ReadPartial, TypeOK, log, access, browser
<1>5. CASE ReadFails
  <2>1. offset' \in -1..MaxWrites
    BY <1>5, PositionInFile, Sizes DEF ReadFails
  <2> QED
    BY <1>5, <2>1 DEF ReadFails, TypeOK, log, access, browser
<1>6. CASE Restart
  <2>1. <<>> \in Seq(Line) /\ Len(<<>>) = 0
    OBVIOUS
  <2> QED
    BY <1>6, <2>1 DEF Restart, TypeOK, log, access, browser
<1>7. ASSUME NEW c \in Clients, Connect(c) PROVE TypeOK'
  BY <1>7 DEF Connect, TypeOK, log, hub, access, browser
<1>8. ASSUME NEW c \in Clients, Subscribe(c) PROVE TypeOK'
  BY <1>8 DEF Subscribe, TypeOK, log, hub, access, browser
<1>9. ASSUME NEW c \in Clients, Deliver(c) PROVE TypeOK'
  <2>1. queue[c] \in Seq(Line) /\ live[c] \in Seq(Line) /\ Len(queue[c]) <= Buffer
    BY DEF TypeOK
  <2>2. /\ Head(queue[c]) \in Line /\ Tail(queue[c]) \in Seq(Line)
        /\ Len(Tail(queue[c])) <= Buffer
    BY <1>9, <2>1, LinesOfTail DEF Deliver
  <2>3. Newest(Append(live[c], Head(queue[c])), ClientLimit) \in Seq(Line)
    BY <2>1, <2>2, NewestAddsOne
  <2> QED
    BY <1>9, <2>2, <2>3 DEF Deliver, TypeOK, log, hub, access
<1>10. ASSUME NEW c \in Clients, Close(c), UNCHANGED <<log, hub, access, history>>,
              live' \in [Clients -> Seq(Line)]
       PROVE  TypeOK'
  BY <1>10 DEF Close, TypeOK, log, hub, access
<1>11. ASSUME NEW c \in Clients, Recheck(c) \/ Disconnect(c) PROVE TypeOK'
  BY <1>10, <1>11 DEF Recheck, Disconnect, browser, TypeOK
<1>12. ASSUME NEW c \in Clients, ChangeSession(c) \/ ChangeGrant(c) PROVE TypeOK'
  BY <1>12 DEF ChangeSession, ChangeGrant, TypeOK, log, hub, browser
<1>13. ASSUME NEW c \in Clients, FetchHistory(c) PROVE TypeOK'
  <2>1. Newest(ring, HistoryLimit) \in Seq(Line)
    BY NewestIsSuffix DEF TypeOK
  <2> QED
    BY <1>13, <2>1 DEF FetchHistory, TypeOK, log, hub, access
<1>14. ASSUME NEW c \in Clients, Remount(c) PROVE TypeOK'
  <2>1. live' \in [Clients -> Seq(Line)]
    BY <1>14 DEF Remount, TypeOK
  <2> QED
    BY <1>10, <1>14, <2>1 DEF Remount
<1> QED
  BY <1>0, <1>1, <1>2, <1>3, <1>4, <1>5, <1>6, <1>7, <1>8, <1>9, <1>11, <1>12, <1>13, <1>14
  DEF Next

(* In every state of the console the variables have their types, and no stream
   holds more lines than its channel does (hub.go:68). *)
THEOREM TypeCorrect == Spec => []TypeOK
<1>1. Init => TypeOK
  BY ConstantsOK DEF Init, TypeOK
<1> QED
  BY <1>1, TypeStep, PTL DEF Spec

-----------------------------------------------------------------------------
(* The ring *)

LEMMA RingStep ==
  ASSUME TypeOK, RingHoldsNewest, [Next]_vars
  PROVE  RingHoldsNewest'
<1>1. CASE ReadLine
  <2> DEFINE grown == Append(ring, NewLine)
  <2>1. Capacity \in Nat \ {0} /\ next \in Nat
    BY ConstantsOK DEF TypeOK
  <2>2. ring' = Newest(grown, Capacity) /\ next' = next + 1
    BY <1>1 DEF ReadLine, Publish, AppendRing, NewLine
  <2>3. ring \in Seq(Line) /\ NewLine \in Line /\ NewLine.seq = next + 1
    BY NewLineTyped DEF TypeOK, NewLine
  <2>4. /\ grown \in Seq(Line) /\ Len(grown) = Len(ring) + 1 /\ Len(ring) \in Nat
        /\ \A i \in 1..Len(ring) : grown[i] = ring[i]
        /\ grown[Len(ring) + 1] = NewLine
    BY <2>3, AppendProperties, LenProperties
  <2> HIDE DEF grown
  <2>5. ASSUME NEW i \in 1..Len(grown) PROVE grown[i].seq = next' - Len(grown) + i
    <3>1. CASE i \in 1..Len(ring)
      <4>1. grown[i] = ring[i] /\ ring[i].seq = next - Len(ring) + i
        BY <2>4, <3>1 DEF RingHoldsNewest
      <4> QED
        BY <2>1, <2>2, <2>4, <4>1
    <3>2. CASE i = Len(ring) + 1
      BY <2>1, <2>2, <2>3, <2>4, <3>2
    <3> QED
      BY <2>4, <3>1, <3>2
  <2>6. /\ Len(ring') = IF Len(grown) <= Capacity THEN Len(grown) ELSE Capacity
        /\ \A i \in 1..Len(ring') :
             /\ Len(grown) - Len(ring') + i \in 1..Len(grown)
             /\ ring'[i] = grown[Len(grown) - Len(ring') + i]
    <3> DEFINE kept == Newest(grown, Capacity)
    <3>1. /\ Len(kept) = IF Len(grown) <= Capacity THEN Len(grown) ELSE Capacity
          /\ \A i \in 1..Len(kept) :
               /\ Len(grown) - Len(kept) + i \in 1..Len(grown)
               /\ kept[i] = grown[Len(grown) - Len(kept) + i]
      <4>1. Capacity \in Nat /\ grown \in Seq(Line)
        BY <2>1, <2>4
      <4> QED
        BY <4>1, NewestIsSuffix, Zenon
    <3>2. ring' = kept
      BY <2>2
    <3> HIDE DEF kept
    <3> QED
      BY <3>1, <3>2
  <2>7. Len(ring') = IF next' < Capacity THEN next' ELSE Capacity
    BY <2>1, <2>2, <2>4, <2>6 DEF RingHoldsNewest
  <2>8. ASSUME NEW i \in 1..Len(ring') PROVE ring'[i].seq = next' - Len(ring') + i
    <3> DEFINE j == Len(grown) - Len(ring') + i
    <3>1. j \in 1..Len(grown) /\ ring'[i] = grown[j]
      BY <2>6
    <3>2. ring'[i].seq = next' - Len(grown) + j
      BY <2>5, <3>1
    <3>3. Len(ring') \in Nat /\ Len(grown) \in Nat /\ next' \in Nat
      BY <2>1, <2>2, <2>4, <2>7
    <3> QED
      BY <3>2, <3>3
  <2> QED
    BY <2>7, <2>8 DEF RingHoldsNewest
<1>2. CASE Restart
  <2>1. ring' = <<>> /\ next' = 0
    BY <1>2 DEF Restart
  <2>2. Len(ring') = 0
    BY <2>1
  <2> QED
    BY <2>1, <2>2, ConstantsOK DEF RingHoldsNewest
<1>3. CASE UNCHANGED <<ring, next>>
  BY <1>3 DEF RingHoldsNewest
<1>4. CASE ~ReadLine /\ ~Restart
  <2>1. UNCHANGED <<ring, next>>
    BY <1>4 DEF Next, vars, hub, Write, Rotate, ReadPartial, ReadFails, Connect, Subscribe,
       Deliver, Recheck, Disconnect, ChangeSession, ChangeGrant, FetchHistory, Remount
  <2> QED
    BY <1>3, <2>1
<1> QED
  BY <1>1, <1>2, <1>4

(* The ring always holds the newest lines without a hole: History returns the
   last lines published, not fewer and not others (hub.go:145-152, 54-65). *)
THEOREM RingIsComplete == Spec => []RingHoldsNewest
<1>1. Init => RingHoldsNewest
  <2> SUFFICES ASSUME Init PROVE RingHoldsNewest
    OBVIOUS
  <2>1. ring = <<>> /\ next = 0 /\ Len(ring) = 0
    BY DEF Init
  <2> QED
    BY <2>1, ConstantsOK DEF RingHoldsNewest
<1> QED
  BY <1>1, RingStep, TypeCorrect, PTL DEF Spec

-----------------------------------------------------------------------------
(* Numbers *)

(* The inductive invariant: nothing held is from a later process, and what the
   present one has published lies before the hub's place in the log; of the file
   it is in, the line published last is the one before that place. *)
Counted ==
  \A x \in Held :
    /\ x.epoch <= epoch
    /\ x.epoch = epoch =>
         /\ offset >= 0 /\ x.seq <= next /\ x.file <= first /\ 2 * x.line <= Position
         /\ x.file = first =>
              /\ offset <= written - first
              /\ x.seq = next => Position < 2 * x.line + 2

(* Whatever is not the read loop brings no line from elsewhere. *)
LEMMA HeldShrinks ==
  ASSUME TypeOK, [Next]_vars, ~ReadLine
  PROVE  Held' \subseteq Held
<1> USE HeldLines, HeldLinesNext, ConstantsOK
<1>0. CASE UNCHANGED <<ring, queue, live, history>>
  BY <1>0
<1>1. CASE Restart
  <2>1. ring' = <<>> /\ live' = live /\ history' = history
        /\ \A c \in Clients : queue'[c] = <<>>
    BY <1>1 DEF Restart, browser
  <2> QED
    BY <2>1, LinesOfEmpty
<1>2. ASSUME NEW c \in Clients, queue' = [queue EXCEPT ![c] = <<>>],
             ring' = ring, history' = history,
             live' = live \/ live' = [live EXCEPT ![c] = <<>>]
      PROVE  Held' \subseteq Held
  <2>1. \A d \in Clients : /\ queue'[d] = queue[d] \/ queue'[d] = <<>>
                           /\ live'[d] = live[d] \/ live'[d] = <<>>
    BY <1>2 DEF TypeOK
  <2> QED
    BY <1>2, <2>1, LinesOfEmpty
<1>3. ASSUME NEW c \in Clients, Deliver(c) PROVE Held' \subseteq Held
  <2> DEFINE h == Head(queue[c])
             kept == Newest(Append(live[c], h), ClientLimit)
  <2>1. /\ queue[c] \in Seq(Line) /\ live[c] \in Seq(Line) /\ queue[c] # <<>>
        /\ ClientLimit \in Nat
    BY <1>3 DEF Deliver, TypeOK
  <2>2. Lines(Tail(queue[c])) \subseteq Lines(queue[c]) /\ h \in Lines(queue[c]) /\ h \in Line
    BY <2>1, LinesOfTail
  <2>3. Lines(kept) \subseteq Lines(live[c]) \union {h}
    BY <2>1, <2>2, NewestAddsOne
  <2> HIDE DEF kept
  <2>4. /\ ring' = ring /\ history' = history
        /\ \A d \in Clients :
             /\ queue'[d] = IF d = c THEN Tail(queue[c]) ELSE queue[d]
             /\ live'[d] = IF d = c THEN kept ELSE live[d]
    BY <1>3 DEF Deliver, TypeOK, hub, kept
  <2>5. ASSUME NEW x \in Held' PROVE x \in Held
    <3>1. CASE x \in Lines(ring') \/ \E d \in Clients : x \in Lines(history'[d])
      BY <2>4, <3>1
    <3>2. CASE \E d \in Clients : x \in Lines(queue'[d])
      BY <2>2, <2>4, <3>2
    <3>3. CASE \E d \in Clients : x \in Lines(live'[d])
      BY <2>2, <2>3, <2>4, <3>3
    <3> QED
      BY <3>1, <3>2, <3>3
  <2> QED
    BY <2>5
<1>4. ASSUME NEW c \in Clients, FetchHistory(c) PROVE Held' \subseteq Held
  <2>1. Lines(Newest(ring, HistoryLimit)) \subseteq Lines(ring)
    BY LinesOfNewest DEF TypeOK
  <2>2. /\ ring' = ring /\ queue' = queue /\ live' = live
        /\ \A d \in Clients : history'[d] = IF d = c THEN Newest(ring, HistoryLimit) ELSE history[d]
    BY <1>4 DEF FetchHistory, TypeOK, hub
  <2> QED
    BY <2>1, <2>2
<1>5. CASE Write \/ Rotate \/ ReadPartial \/ ReadFails \/ UNCHANGED vars
  BY <1>0, <1>5 DEF Write, Rotate, ReadPartial, ReadFails, vars, hub, browser
<1>6. ASSUME NEW c \in Clients, Connect(c) \/ ChangeSession(c) \/ ChangeGrant(c)
      PROVE  Held' \subseteq Held
  BY <1>0, <1>6 DEF Connect, ChangeSession, ChangeGrant, hub, browser
<1>7. ASSUME NEW c \in Clients, Subscribe(c) \/ Recheck(c) \/ Disconnect(c) \/ Remount(c)
      PROVE  Held' \subseteq Held
  BY <1>2, <1>7 DEF Subscribe, Recheck, Disconnect, Remount, Close, hub, browser
<1> QED
  BY <1>1, <1>3, <1>4, <1>5, <1>6, <1>7 DEF Next

LEMMA HeldGrows ==
  ASSUME TypeOK, ReadLine
  PROVE  Held' \subseteq Held \union {NewLine}
<1>1. /\ ring \in Seq(Line) /\ NewLine \in Line /\ Capacity \in Nat
      /\ ring' = Newest(Append(ring, NewLine), Capacity)
      /\ \A c \in Clients : queue'[c] = Offer(c, NewLine)
      /\ live' = live /\ history' = history
  BY NewLineTyped, ConstantsOK
  DEF ReadLine, Publish, AppendRing, NewLine, TypeOK, browser
<1>2. Lines(ring') \subseteq Lines(ring) \union {NewLine}
  BY <1>1, NewestAddsOne
<1>3. \A c \in Clients : Lines(queue'[c]) \subseteq Lines(queue[c]) \union {NewLine}
  BY <1>1, OfferAddsOne
<1> QED
  BY <1>1, <1>2, <1>3, HeldLines, HeldLinesNext

LEMMA PositionOfOffset ==
  ASSUME TypeOK, 0 <= offset, offset <= written - first
  PROVE  Position = first + offset
BY Sizes DEF Position, Resume

LEMMA NextSizes ==
  ASSUME TypeOK'
  PROVE  /\ written' \in Nat /\ first' \in Nat /\ first' <= written'
         /\ offset' \in Int /\ offset' >= -1 /\ TailSize \in Nat
BY ConstantsOK DEF TypeOK

LEMMA PositionOfNextOffset ==
  ASSUME TypeOK', 0 <= offset', offset' <= written' - first'
  PROVE  Position' = first' + offset'
BY NextSizes DEF Position, Resume

LEMMA NextPositionInFile ==
  ASSUME TypeOK'
  PROVE  Position' \in first'..written' /\ Position' \in Nat
BY NextSizes DEF Position, Resume, NearEnd

LEMMA EvenBetween ==
  ASSUME NEW p \in Nat, NEW k \in Nat, p % 2 = 0, 2 * k <= p, p < 2 * k + 2
  PROVE  p = 2 * k
OBVIOUS

LEMMA CountedStep ==
  ASSUME TypeOK, TypeOK', Counted, [Next]_vars
  PROVE  Counted'
<1> DEFINE Here(x) ==
      /\ offset' >= 0 /\ x.seq <= next' /\ x.file <= first' /\ 2 * x.line <= Position'
      /\ x.file = first' =>
           /\ offset' <= written' - first'
           /\ x.seq = next' => Position' < 2 * x.line + 2
<1>1. SUFFICES ASSUME NEW x \in Held'
               PROVE  x.epoch <= epoch' /\ (x.epoch = epoch' => Here(x))
  BY DEF Counted
<1>2. epoch \in Nat /\ next \in Nat
  BY ConstantsOK DEF TypeOK
<1>3. ASSUME x \in Held
      PROVE  /\ x.epoch \in Nat /\ x.seq \in Nat /\ x.line \in Nat /\ x.file \in Nat
             /\ x.epoch <= epoch
             /\ x.epoch = epoch =>
                  /\ offset >= 0 /\ x.seq <= next /\ x.file <= first
                  /\ 2 * x.line <= Position
                  /\ x.file = first =>
                       /\ offset <= written - first
                       /\ x.seq = next => Position < 2 * x.line + 2
  BY <1>3, HeldTyped DEF Counted, Line
<1> HIDE DEF Here
<1>4. CASE ReadLine
  <2>1. /\ epoch' = epoch /\ first' = first /\ written' = written
        /\ next' = next + 1 /\ offset' = LineEnd(Position) - first
        /\ LineEnd(Position) <= written
    BY <1>4 DEF ReadLine, Publish, log
  <2>2. offset' >= 0 /\ offset' <= written' - first'
    BY <2>1, PositionInFile, Sizes
  <2>3. Position' = LineEnd(Position)
    BY <2>1, <2>2, PositionOfNextOffset, PositionInFile, Sizes
  <2>4. CASE x = NewLine
    <3>1. x.epoch = epoch /\ x.seq = next + 1 /\ x.file = first
          /\ x.line = LineEnd(Position) \div 2
      BY <2>4 DEF NewLine
    <3> QED
      BY <1>2, <2>1, <2>2, <2>3, <3>1, PositionInFile, Sizes DEF Here
  <2>5. CASE x \in Held
    BY <1>2, <1>3, <2>1, <2>2, <2>3, <2>5, PositionInFile, Sizes DEF Here
  <2> QED
    BY <1>4, <2>4, <2>5, HeldGrows
<1>5. CASE ~ReadLine
  <2>1. x \in Held
    BY <1>5, HeldShrinks
  <2>2. CASE Restart
    BY <1>2, <1>3, <2>1, <2>2 DEF Restart
  <2>3. CASE Write
    <3>1. /\ epoch' = epoch /\ first' = first /\ written' = written + 1
          /\ next' = next /\ offset' = offset
      BY <2>3 DEF Write, hub
    <3>2. offset >= 0 => Position' >= Position
      BY <3>1, Sizes DEF Position, Resume
    <3>3. (offset >= 0 /\ offset <= written - first) => Position' = Position
      BY <3>1, Sizes, PositionOfOffset, PositionOfNextOffset
    <3> QED
      BY <1>2, <1>3, <2>1, <3>1, <3>2, <3>3, Sizes, PositionInFile, NextPositionInFile DEF Here
  <2>4. CASE Rotate
    <3>1. /\ epoch' = epoch /\ first' = written /\ written' = written
          /\ next' = next /\ offset' = offset /\ first < written
      BY <2>4 DEF Rotate, hub
    <3> QED
      BY <1>2, <1>3, <2>1, <3>1, Sizes, PositionInFile, NextPositionInFile DEF Here
  <2>5. CASE ReadPartial
    <3>1. /\ epoch' = epoch /\ first' = first /\ written' = written
          /\ next' = next /\ offset' = Position - first
      BY <2>5 DEF ReadPartial, log
    <3>2. Position' = Position /\ offset' >= 0 /\ offset' <= written' - first'
      BY <3>1, Sizes, PositionInFile, PositionOfNextOffset
    <3> QED
      BY <1>2, <1>3, <2>1, <3>1, <3>2 DEF Here
  <2>6. CASE ReadFails
    <3>1. /\ epoch' = epoch /\ first' = first /\ written' = written
          /\ next' = next /\ offset' = Position + 1 - first
          /\ Position < written /\ Position % 2 = 0
      BY <2>6 DEF ReadFails, log
    <3>2. Position' = Position + 1 /\ offset' >= 0 /\ offset' <= written' - first'
      BY <3>1, Sizes, PositionInFile, PositionOfNextOffset
    <3>3. Position < 2 * x.line + 2 /\ 2 * x.line <= Position => Position = 2 * x.line
      BY <1>3, <2>1, <3>1, PositionInFile, EvenBetween
    <3> QED
      BY <1>2, <1>3, <2>1, <3>1, <3>2, <3>3, PositionInFile DEF Here
  <2>7. CASE UNCHANGED <<log, hub>>
    <3>1. /\ epoch' = epoch /\ first' = first /\ written' = written
          /\ next' = next /\ offset' = offset
      BY <2>7 DEF log, hub
    <3>2. Position' = Position
      BY <3>1 DEF Position, Resume
    <3> QED
      BY <1>3, <2>1, <3>1, <3>2 DEF Here
  <2> QED
    BY <1>5, <2>2, <2>3, <2>4, <2>5, <2>6, <2>7
    DEF Next, vars, log, hub, Connect, Subscribe, Deliver, Recheck, Disconnect,
        ChangeSession, ChangeGrant, FetchHistory, Remount
<1> QED
  BY <1>4, <1>5

LEMMA InitHoldsNothing ==
  ASSUME Init
  PROVE  Held = {}
BY HeldLines, LinesOfEmpty DEF Init

LEMMA CountedAlways == Spec => []Counted
<1>1. Init => Counted
  BY InitHoldsNothing DEF Counted
<1> QED
  BY <1>1, CountedStep, TypeCorrect, PTL DEF Spec

(* The line published next is beyond what its process has published. *)
LEMMA NewLineIsBeyond ==
  ASSUME TypeOK, Counted, NEW x \in Held, x.epoch = NewLine.epoch
  PROVE  x.seq < NewLine.seq /\ x.line < NewLine.line
<1>1. /\ x.seq \in Nat /\ x.line \in Nat /\ next \in Nat
      /\ x.seq <= next /\ 2 * x.line <= Position
  BY HeldTyped DEF Counted, NewLine, Line, TypeOK
<1>2. NewLine.seq = next + 1 /\ NewLine.line = LineEnd(Position) \div 2
  BY DEF NewLine
<1> QED
  BY <1>1, <1>2, PositionInFile

LEMMA NumbersStep ==
  ASSUME TypeOK, Counted, NumbersFollowLog, [Next]_vars
  PROVE  NumbersFollowLog'
<1>1. CASE ~ReadLine
  BY <1>1, HeldShrinks DEF NumbersFollowLog
<1>2. CASE ReadLine
  <2> SUFFICES ASSUME NEW x \in Held', NEW y \in Held', x.epoch = y.epoch
               PROVE  (x.seq < y.seq) <=> (x.line < y.line)
    BY DEF NumbersFollowLog
  <2>1. x \in Held \union {NewLine} /\ y \in Held \union {NewLine}
    BY <1>2, HeldGrows
  <2>2. x \in Line /\ y \in Line
    BY <2>1, HeldTyped, NewLineTyped
  <2>3. /\ x.seq \in Nat /\ y.seq \in Nat /\ x.line \in Nat /\ y.line \in Nat
    BY <2>2 DEF Line
  <2>4. CASE x \in Held /\ y \in Held
    BY <2>4 DEF NumbersFollowLog
  <2>5. CASE x \in Held /\ y = NewLine
    BY <2>3, <2>5, NewLineIsBeyond
  <2>6. CASE x = NewLine /\ y \in Held
    <3>1. y.seq < x.seq /\ y.line < x.line
      BY <2>6, NewLineIsBeyond
    <3> QED
      BY <2>3, <3>1
  <2>7. CASE x = NewLine /\ y = NewLine
    BY <2>3, <2>7
  <2> QED
    BY <2>1, <2>4, <2>5, <2>6, <2>7
<1> QED
  BY <1>1, <1>2

(* As long as the dashboard runs, sequence numbers follow the log wherever lines
   are kept: a number names one line, and their orders agree (hub.go:145). *)
THEOREM NumbersIdentify == Spec => []NumbersFollowLog
<1>1. Init => NumbersFollowLog
  BY InitHoldsNothing DEF NumbersFollowLog
<1> QED
  BY <1>1, NumbersStep, TypeCorrect, CountedAlways, PTL DEF Spec

LEMMA LineEndAfter ==
  ASSUME NEW p \in Nat, NEW k \in Nat, 2 * k <= p, p < 2 * k + 2
  PROVE  LineEnd(p) = 2 * k + 2
<1>1. p = 2 * k \/ p = 2 * k + 1
  OBVIOUS
<1> QED
  BY <1>1 DEF LineEnd

LEMMA SkipStep ==
  ASSUME TypeOK, Counted, NoLineSkipped, [Next]_vars
  PROVE  NoLineSkipped'
<1>1. CASE ~ReadLine
  BY <1>1, HeldShrinks DEF NoLineSkipped
<1>2. CASE ReadLine
  <2> SUFFICES ASSUME NEW x \in Held', NEW y \in Held',
                      x.epoch = y.epoch, x.file = y.file, y.seq = x.seq + 1
               PROVE  y.line = x.line + 1
    BY DEF NoLineSkipped
  <2>1. x \in Held \union {NewLine} /\ y \in Held \union {NewLine}
    BY <1>2, HeldGrows
  <2>2. x \in Line /\ y \in Line
    BY <2>1, HeldTyped, NewLineTyped
  <2>3. /\ x.seq \in Nat /\ y.seq \in Nat /\ x.line \in Nat /\ y.line \in Nat
    BY <2>2 DEF Line
  <2>4. CASE x \in Held /\ y \in Held
    BY <2>4 DEF NoLineSkipped
  <2>5. CASE x \in Held /\ y = NewLine
    <3>1. /\ x.epoch = epoch /\ x.file = first /\ x.seq + 1 = next + 1
          /\ y.line = LineEnd(Position) \div 2 /\ next \in Nat
      BY <2>5 DEF NewLine, TypeOK
    <3>2. 2 * x.line <= Position /\ Position < 2 * x.line + 2
      BY <2>3, <2>5, <3>1 DEF Counted
    <3>3. LineEnd(Position) = 2 * x.line + 2
      BY <2>3, <3>2, PositionInFile, LineEndAfter
    <3> QED
      BY <2>3, <3>1, <3>3
  <2>6. CASE x = NewLine
    <3>1. CASE y = NewLine
      BY <2>3, <2>6, <3>1
    <3>2. CASE y \in Held
      <4>1. y.seq < x.seq
        BY <2>6, <3>2, NewLineIsBeyond
      <4> QED
        BY <2>3, <4>1
    <3> QED
      BY <2>1, <3>1, <3>2
  <2> QED
    BY <2>1, <2>4, <2>5, <2>6
<1> QED
  BY <1>1, <1>2

(* Of a file it has begun to read the hub publishes every line, though reads end
   in the middle of one or fail there (hub.go:124-135). *)
THEOREM EveryLineRead == Spec => []NoLineSkipped
<1>1. Init => NoLineSkipped
  BY InitHoldsNothing DEF NoLineSkipped
<1> QED
  BY <1>1, SkipStep, TypeCorrect, CountedAlways, PTL DEF Spec

-----------------------------------------------------------------------------
(* The streams *)

Ascends(s) ==
  \A i, j \in 1..Len(s) : (i < j /\ s[i].epoch = s[j].epoch) => s[i].line < s[j].line

LEMMA ConcatElements ==
  ASSUME NEW s \in Seq(Line), NEW t \in Seq(Line)
  PROVE  /\ s \o t \in Seq(Line) /\ Len(s \o t) = Len(s) + Len(t)
         /\ Len(s) \in Nat /\ Len(t) \in Nat
         /\ \A i \in 1..Len(s) : (s \o t)[i] = s[i]
         /\ \A i \in Len(s)+1..Len(s)+Len(t) : (s \o t)[i] = t[i - Len(s)]
BY ConcatProperties, LenProperties

(* A sequence whose elements are a run of an ascending one's ascends. *)
LEMMA RunAscends ==
  ASSUME NEW s, NEW t, NEW d \in Nat, Ascends(s), Len(s) \in Nat, Len(t) \in Nat,
         \A i \in 1..Len(t) : d + i \in 1..Len(s) /\ t[i] = s[d + i]
  PROVE  Ascends(t)
<1> SUFFICES ASSUME NEW i \in 1..Len(t), NEW j \in 1..Len(t), i < j,
                    t[i].epoch = t[j].epoch
             PROVE  t[i].line < t[j].line
  BY DEF Ascends
<1>1. d + i \in 1..Len(s) /\ d + j \in 1..Len(s) /\ t[i] = s[d + i] /\ t[j] = s[d + j]
  OBVIOUS
<1>2. d + i < d + j
  OBVIOUS
<1> QED
  BY <1>1, <1>2 DEF Ascends

(* Ascending goes on with a line that is beyond all of its process. *)
LEMMA AppendAscends ==
  ASSUME NEW s \in Seq(Line), NEW t \in Seq(Line), NEW x \in Line, Ascends(s \o t),
         \A y \in Lines(s) \union Lines(t) : y.epoch = x.epoch => y.line < x.line
  PROVE  Ascends(s \o Append(t, x))
<1> DEFINE u == s \o t
           w == Append(t, x)
           v == s \o w
<1>1. /\ w \in Seq(Line) /\ Len(w) = Len(t) + 1
      /\ \A i \in 1..Len(t) : w[i] = t[i]
      /\ w[Len(t) + 1] = x
  BY AppendProperties, LenProperties
<1> HIDE DEF w
<1>2. /\ Len(u) = Len(s) + Len(t) /\ Len(s) \in Nat /\ Len(t) \in Nat
      /\ \A i \in 1..Len(s) : u[i] = s[i]
      /\ \A i \in Len(s)+1..Len(s)+Len(t) : u[i] = t[i - Len(s)]
  BY ConcatElements
<1>3. /\ Len(v) = Len(s) + Len(t) + 1
      /\ \A i \in 1..Len(s) : v[i] = s[i]
      /\ \A i \in Len(s)+1..Len(s)+Len(t)+1 : v[i] = w[i - Len(s)]
  <2>1. /\ Len(v) = Len(s) + Len(w)
        /\ \A i \in 1..Len(s) : v[i] = s[i]
        /\ \A i \in Len(s)+1..Len(s)+Len(w) : v[i] = w[i - Len(s)]
    BY <1>1, ConcatElements
  <2> HIDE DEF v
  <2> QED
    BY <1>1, <1>2, <2>1
<1> HIDE DEF u, v
<1>4. ASSUME NEW i \in 1..Len(u) PROVE v[i] = u[i] /\ u[i] \in Lines(s) \union Lines(t)
  <2>1. CASE i \in 1..Len(s)
    BY <1>2, <1>3, <2>1 DEF Lines
  <2>2. CASE i \in Len(s)+1..Len(s)+Len(t)
    <3>1. i - Len(s) \in 1..Len(t) /\ i \in Len(s)+1..Len(s)+Len(t)+1
      BY <1>2, <2>2
    <3>2. v[i] = t[i - Len(s)] /\ u[i] = t[i - Len(s)]
      BY <1>1, <1>2, <1>3, <2>2, <3>1
    <3> QED
      BY <3>1, <3>2 DEF Lines
  <2> QED
    BY <1>2, <2>1, <2>2
<1>5. v[Len(u) + 1] = x
  <2>1. Len(u) + 1 \in Len(s)+1..Len(s)+Len(t)+1 /\ Len(u) + 1 - Len(s) = Len(t) + 1
    BY <1>2
  <2> QED
    BY <1>1, <1>3, <2>1
<1>6. ASSUME NEW i \in 1..Len(v), NEW j \in 1..Len(v), i < j, v[i].epoch = v[j].epoch
      PROVE  v[i].line < v[j].line
  <2>1. i \in 1..Len(u) /\ (j \in 1..Len(u) \/ j = Len(u) + 1)
    <3>1. Len(v) = Len(u) + 1 /\ Len(u) \in Nat /\ i < j
      BY <1>2, <1>3, <1>6
    <3> QED
      BY <3>1
  <2>2. CASE j \in 1..Len(u)
    BY <1>4, <1>6, <2>1, <2>2 DEF Ascends, u
  <2>3. CASE j = Len(u) + 1
    BY <1>4, <1>5, <1>6, <2>1, <2>3
  <2> QED
    BY <2>1, <2>2, <2>3
<1> QED
  BY <1>6 DEF Ascends, v, w

LEMMA ShiftedIndex ==
  ASSUME NEW l \in Nat, NEW m \in Nat, NEW n \in Nat \ {0}, NEW g, g = l + 1,
         NEW i \in m+1..m+(n-1)
  PROVE  /\ (g - m) + i \in l+1..l+n
         /\ ((g - m) + i) - l = (i - m) + 1
OBVIOUS

LEMMA StreamStep ==
  ASSUME TypeOK, TypeOK', Counted, StreamAscends, [Next]_vars
  PROVE  StreamAscends'
<1>1. SUFFICES ASSUME NEW c \in Clients PROVE Ascends(live'[c] \o queue'[c])
  BY DEF StreamAscends, Ascends
<1>2. /\ live[c] \in Seq(Line) /\ queue[c] \in Seq(Line)
      /\ live'[c] \in Seq(Line) /\ queue'[c] \in Seq(Line)
  BY DEF TypeOK
<1>3. Ascends(live[c] \o queue[c])
  BY DEF StreamAscends, Ascends
<1>4. CASE live'[c] = live[c] /\ queue'[c] = queue[c]
  BY <1>3, <1>4
<1>5. CASE queue'[c] = <<>> /\ (live'[c] = live[c] \/ live'[c] = <<>>)
  <2>1. live'[c] \o queue'[c] = live'[c]
    BY <1>2, <1>5, ConcatEmptySeq
  <2>2. CASE live'[c] = <<>>
    BY <2>1, <2>2 DEF Ascends
  <2>3. CASE live'[c] = live[c]
    <3> DEFINE s == live[c] \o queue[c]
               t == live[c]
    <3>1. /\ Len(s) = Len(t) + Len(queue[c]) /\ Len(t) \in Nat /\ Len(queue[c]) \in Nat
          /\ \A i \in 1..Len(t) : s[i] = t[i]
      BY <1>2, ConcatElements
    <3>2. Ascends(s)
      BY <1>3
    <3> HIDE DEF s, t
    <3>3. /\ Len(s) \in Nat
          /\ \A i \in 1..Len(t) : 0 + i \in 1..Len(s) /\ t[i] = s[0 + i]
      BY <3>1
    <3>4. Ascends(t)
      BY <3>1, <3>2, <3>3, RunAscends
    <3> QED
      BY <2>1, <2>3, <3>4 DEF t
  <2> QED
    BY <1>5, <2>2, <2>3
<1>6. CASE ReadLine
  <2>1. live' = live /\ queue'[c] = Offer(c, NewLine) /\ NewLine \in Line
    BY <1>6, NewLineTyped DEF ReadLine, Publish, NewLine, browser
  <2>2. CASE queue'[c] = queue[c]
    BY <1>4, <2>1, <2>2
  <2>3. CASE queue'[c] = Append(queue[c], NewLine)
    <3>1. \A y \in Lines(live[c]) \union Lines(queue[c]) : y \in Held
      BY HeldLines
    <3>2. \A y \in Lines(live[c]) \union Lines(queue[c]) :
            y.epoch = NewLine.epoch => y.line < NewLine.line
      BY <3>1, NewLineIsBeyond
    <3>3. Ascends(live[c] \o Append(queue[c], NewLine))
      BY <1>2, <1>3, <2>1, <3>2, AppendAscends
    <3> QED
      BY <2>1, <2>3, <3>3
  <2> QED
    BY <2>1, <2>2, <2>3, OfferAddsOne
<1>7. CASE Deliver(c)
  <2> DEFINE q == queue[c]
             s == live[c] \o q
             grown == Append(live[c], Head(q))
             kept == Newest(grown, ClientLimit)
             t == kept \o Tail(q)
             d == Len(grown) - Len(kept)
  <2>1. q # <<>> /\ queue'[c] = Tail(q) /\ live'[c] = kept /\ ClientLimit \in Nat
    BY <1>7, ConstantsOK DEF Deliver, TypeOK
  <2>2. /\ Head(q) \in Line /\ Tail(q) \in Seq(Line) /\ Len(Tail(q)) = Len(q) - 1
        /\ Len(q) \in Nat \ {0}
    BY <1>2, <2>1, LinesOfTail
  <2>3. Head(q) = q[1] /\ \A i \in 1..Len(Tail(q)) : Tail(q)[i] = q[i + 1]
    BY <1>2, <2>1, HeadTailProperties
  <2>4. /\ grown \in Seq(Line) /\ Len(grown) = Len(live[c]) + 1 /\ Len(live[c]) \in Nat
        /\ \A i \in 1..Len(live[c]) : grown[i] = live[c][i]
        /\ grown[Len(live[c]) + 1] = Head(q)
    BY <1>2, <2>2, AppendProperties, LenProperties
  <2> HIDE DEF grown
  <2>5. /\ kept \in Seq(Line)
        /\ Len(kept) = IF Len(grown) <= ClientLimit THEN Len(grown) ELSE ClientLimit
        /\ \A i \in 1..Len(kept) : d + i \in 1..Len(grown) /\ kept[i] = grown[d + i]
    <3>1. ClientLimit \in Nat /\ grown \in Seq(Line)
      BY <2>1, <2>4
    <3> QED
      BY <3>1, NewestIsSuffix, Zenon
  <2>6. /\ Len(s) = Len(live[c]) + Len(q)
        /\ \A i \in 1..Len(live[c]) : s[i] = live[c][i]
        /\ \A i \in Len(live[c])+1..Len(live[c])+Len(q) : s[i] = q[i - Len(live[c])]
    BY <1>2, ConcatElements
  <2>7. /\ Len(t) = Len(kept) + Len(Tail(q)) /\ Len(kept) \in Nat
        /\ \A i \in 1..Len(kept) : t[i] = kept[i]
        /\ \A i \in Len(kept)+1..Len(kept)+Len(Tail(q)) : t[i] = Tail(q)[i - Len(kept)]
    BY <2>2, <2>5, ConcatElements
  <2>8. Ascends(s) /\ live'[c] \o queue'[c] = t
    BY <1>3, <2>1
  <2> HIDE DEF kept, s, t, q
  <2>9. \A i \in 1..Len(grown) : i \in 1..Len(s) /\ grown[i] = s[i]
    <3> TAKE i \in 1..Len(grown)
    <3>1. CASE i \in 1..Len(live[c])
      BY <2>2, <2>4, <2>6, <3>1
    <3>2. CASE i = Len(live[c]) + 1
      <4>1. i \in Len(live[c])+1..Len(live[c])+Len(q) /\ i - Len(live[c]) = 1
        BY <2>2, <2>4, <3>2
      <4>2. s[i] = q[1]
        BY <2>6, <4>1
      <4>3. i \in 1..Len(s)
        BY <2>2, <2>4, <2>6, <3>2
      <4> QED
        BY <2>3, <2>4, <3>2, <4>2, <4>3
    <3> QED
      BY <2>4, <3>1, <3>2
  <2>10. d \in Nat
    BY <2>1, <2>4, <2>5
  <2>11. ASSUME NEW i \in 1..Len(t) PROVE d + i \in 1..Len(s) /\ t[i] = s[d + i]
    <3>1. CASE i \in 1..Len(kept)
      BY <2>5, <2>7, <2>9, <3>1
    <3>2. CASE i \in Len(kept)+1..Len(kept)+Len(Tail(q))
      <4> DEFINE k == i - Len(kept)
      <4>1. k \in 1..Len(Tail(q)) /\ t[i] = Tail(q)[k]
        BY <2>2, <2>7, <3>2
      <4>2. t[i] = q[k + 1]
        BY <2>3, <4>1
      <4>3. /\ Len(kept) \in Nat /\ Len(live[c]) \in Nat /\ Len(q) \in Nat \ {0}
            /\ Len(grown) = Len(live[c]) + 1
            /\ i \in Len(kept)+1..Len(kept)+(Len(q)-1)
        BY <2>2, <2>4, <2>7, <3>2
      <4>4. /\ d + i \in Len(live[c])+1..Len(live[c])+Len(q)
            /\ (d + i) - Len(live[c]) = k + 1
        <5> DEFINE l == Len(live[c])
                   m == Len(kept)
                   n == Len(q)
                   g == Len(grown)
        <5>1. /\ m \in Nat /\ l \in Nat /\ n \in Nat \ {0} /\ g = l + 1
              /\ i \in m+1..m+(n-1)
          BY <4>3
        <5> HIDE DEF l, m, n, g
        <5>2. (g - m) + i \in l+1..l+n /\ ((g - m) + i) - l = (i - m) + 1
          BY <5>1, ShiftedIndex
        <5> QED
          BY <5>2 DEF l, m, n, g
      <4>5. s[d + i] = q[k + 1]
        BY <2>6, <4>4
      <4>6. d + i \in 1..Len(s)
        BY <2>2, <2>4, <2>6, <4>4
      <4> QED
        BY <4>2, <4>5, <4>6
    <3> QED
      BY <2>2, <2>7, <3>1, <3>2
  <2>12. Len(s) \in Nat /\ Len(t) \in Nat
    BY <2>2, <2>4, <2>6, <2>7
  <2>13. Ascends(t)
    BY <2>8, <2>10, <2>11, <2>12, RunAscends
  <2> QED
    BY <2>8, <2>13
<1>8. CASE ~ReadLine /\ ~Deliver(c)
  <2>1. CASE Restart
    BY <1>5, <2>1 DEF Restart, browser
  <2>2. CASE UNCHANGED <<live, queue>>
    BY <1>4, <2>2
  <2>3. ASSUME NEW e \in Clients,
               Subscribe(e) \/ Recheck(e) \/ Disconnect(e) \/ Remount(e)
        PROVE  Ascends(live'[c] \o queue'[c])
    <3>1. CASE e = c
      <4>1. queue'[c] = <<>> /\ (live'[c] = live[c] \/ live'[c] = <<>>)
        BY <2>3, <3>1 DEF Subscribe, Recheck, Disconnect, Remount, Close, browser, TypeOK
      <4> QED
        BY <1>5, <4>1
    <3>2. CASE e # c
      <4>1. queue'[c] = queue[c] /\ live'[c] = live[c]
        BY <2>3, <3>2 DEF Subscribe, Recheck, Disconnect, Remount, Close, browser, TypeOK
      <4> QED
        BY <1>4, <4>1
    <3> QED
      BY <3>1, <3>2
  <2>4. ASSUME NEW e \in Clients, Deliver(e) PROVE Ascends(live'[c] \o queue'[c])
    <3>1. queue'[c] = queue[c] /\ live'[c] = live[c]
      BY <1>8, <2>4 DEF Deliver, TypeOK
    <3> QED
      BY <1>4, <3>1
  <2>5. ASSUME NEW e \in Clients,
               Connect(e) \/ ChangeSession(e) \/ ChangeGrant(e) \/ FetchHistory(e)
        PROVE  Ascends(live'[c] \o queue'[c])
    BY <2>2, <2>5 DEF Connect, ChangeSession, ChangeGrant, FetchHistory, browser
  <2>6. CASE Write \/ Rotate \/ ReadPartial \/ ReadFails \/ UNCHANGED vars
    BY <2>2, <2>6 DEF Write, Rotate, ReadPartial, ReadFails, vars, browser
  <2> QED
    BY <1>8, <2>1, <2>3, <2>4, <2>5, <2>6 DEF Next
<1> QED
  BY <1>6, <1>7, <1>8

(* However often its stream is broken and opened again, a browser gets the lines
   of one dashboard process in order, and none of them twice (hub.go:153-158,
   game_handlers.go:57-66). *)
THEOREM StreamsInOrder == Spec => []StreamAscends
<1>1. Init => StreamAscends
  <2> SUFFICES ASSUME Init, NEW c \in Clients PROVE Ascends(live[c] \o queue[c])
    BY DEF StreamAscends, Ascends
  <2>1. live[c] = <<>> /\ queue[c] = <<>>
    BY DEF Init
  <2>2. Len(live[c] \o queue[c]) = 0
    BY <2>1, ConcatEmptySeq
  <2> QED
    BY <2>2 DEF Ascends
<1>2. TypeOK /\ TypeOK' /\ Counted /\ StreamAscends /\ [Next]_vars => StreamAscends'
  BY StreamStep
<1> QED
  BY <1>1, <1>2, TypeCorrect, CountedAlways, PTL DEF Spec

-----------------------------------------------------------------------------
(* The view *)

(* Those of S that a number puts before x, and how many they are. *)
Above(S, f, x) == {y \in S : f[y] > f[x]}
Rank(S, f) == [x \in S |-> Cardinality(Above(S, f, x))]

(* Distinct numbers rank a finite set from 0 on, without a gap. *)
LEMMA RanksBiject ==
  ASSUME NEW S, IsFiniteSet(S), NEW f \in [S -> Nat],
         \A x, y \in S : f[x] = f[y] => x = y
  PROVE  /\ Cardinality(S) \in Nat
         /\ Rank(S, f) \in Injection(S, 0..(Cardinality(S) - 1))
         /\ Rank(S, f) \in Surjection(S, 0..(Cardinality(S) - 1))
<1> DEFINE n == Cardinality(S)
           r == Rank(S, f)
<1>1. n \in Nat
  BY FS_CardinalityType
<1>2. \A x \in S : /\ IsFiniteSet(Above(S, f, x)) /\ Cardinality(Above(S, f, x)) \in Nat
                   /\ Cardinality(Above(S, f, x)) <= n - 1
  <2> TAKE x \in S
  <2>1. Above(S, f, x) \in SUBSET (S \ {x})
    BY DEF Above
  <2>2. IsFiniteSet(S \ {x}) /\ Cardinality(S \ {x}) = n - 1
    BY FS_RemoveElement
  <2> QED
    BY <2>1, <2>2, FS_Subset, FS_CardinalityType
<1>3. r \in [S -> 0..(n - 1)]
  BY <1>1, <1>2 DEF Rank
<1>4. ASSUME NEW x \in S, NEW y \in S, f[x] < f[y]
      PROVE  r[x] > r[y]
  <2>1. Above(S, f, y) \in SUBSET (Above(S, f, x) \ {y}) /\ y \in Above(S, f, x)
    BY <1>4 DEF Above
  <2>2. /\ IsFiniteSet(Above(S, f, x) \ {y})
        /\ Cardinality(Above(S, f, x) \ {y}) = Cardinality(Above(S, f, x)) - 1
    BY <1>2, <2>1, FS_RemoveElement
  <2>3. Cardinality(Above(S, f, y)) <= Cardinality(Above(S, f, x)) - 1
    BY <2>1, <2>2, FS_Subset
  <2> QED
    BY <1>2, <2>3 DEF Rank
<1>5. \A x, y \in S : r[x] = r[y] => x = y
  <2> SUFFICES ASSUME NEW x \in S, NEW y \in S, x # y PROVE r[x] # r[y]
    OBVIOUS
  <2>1. f[x] < f[y] \/ f[y] < f[x]
    <3>1. f[x] \in Nat /\ f[y] \in Nat /\ f[x] # f[y]
      OBVIOUS
    <3> QED
      BY <3>1
  <2>2. r[x] > r[y] \/ r[y] > r[x]
    BY <1>4, <2>1
  <2>3. r[x] \in Nat /\ r[y] \in Nat
    BY <1>2 DEF Rank
  <2> QED
    BY <2>2, <2>3
<1> HIDE DEF r
<1>6. r \in Injection(S, 0..(n - 1))
  BY <1>3, <1>5 DEF Injection, IsInjective
<1>7. IsFiniteSet(0..(n - 1)) /\ Cardinality(0..(n - 1)) = n
  BY <1>1, FS_Interval
<1>8. r \in Surjection(S, 0..(n - 1))
  BY <1>6, <1>7, FS_Injection
<1> QED
  BY <1>1, <1>6, <1>8 DEF r

(* The first k of it are k, or all. *)
LEMMA TopCount ==
  ASSUME NEW S, IsFiniteSet(S), NEW f \in [S -> Nat],
         \A x, y \in S : f[x] = f[y] => x = y, NEW k \in Nat
  PROVE  Cardinality({x \in S : Cardinality(Above(S, f, x)) < k})
           = IF Cardinality(S) < k THEN Cardinality(S) ELSE k
<1> DEFINE n == Cardinality(S)
           r == Rank(S, f)
           T == {x \in S : Cardinality(Above(S, f, x)) < k}
           m == IF n < k THEN n ELSE k
           g == [x \in T |-> r[x]]
<1>1. /\ n \in Nat /\ r \in Injection(S, 0..(n - 1)) /\ r \in Surjection(S, 0..(n - 1))
  BY RanksBiject
<1>2. m \in Nat /\ IsFiniteSet(0..(m - 1)) /\ Cardinality(0..(m - 1)) = m
  <2>1. m \in Nat
    BY <1>1
  <2> HIDE DEF m
  <2> QED
    BY <2>1, FS_Interval
<1>3. \A x \in S : r[x] \in 0..(n - 1) /\ (x \in T <=> r[x] < k)
  <2>1. \A x \in S : r[x] \in 0..(n - 1)
    BY <1>1 DEF Injection
  <2>2. \A x \in S : r[x] = Cardinality(Above(S, f, x))
    BY DEF Rank
  <2> QED
    BY <2>1, <2>2
<1>4. /\ \A x, y \in S : r[x] = r[y] => x = y
      /\ \A i \in 0..(n - 1) : \E x \in S : r[x] = i
  BY <1>1 DEF Injection, IsInjective, Surjection
<1> HIDE DEF r, T
<1>5. T \subseteq S
  BY DEF T
<1>6. \A x \in T : r[x] \in 0..(m - 1)
  BY <1>1, <1>3, <1>5
<1>7. \A i \in 0..(m - 1) : \E x \in T : r[x] = i
  BY <1>1, <1>3, <1>4
<1> HIDE DEF m
<1>8. g \in Bijection(T, 0..(m - 1))
  <2>1. g \in [T -> 0..(m - 1)] /\ \A x \in T : g[x] = r[x]
    BY <1>6
  <2> HIDE DEF g
  <2> QED
    BY <1>4, <1>5, <1>7, <2>1 DEF Bijection, Injection, IsInjective, Surjection
<1>9. IsFiniteSet(T)
  BY <1>5, FS_Subset
<1>10. Cardinality(0..(m - 1)) = Cardinality(T)
  BY <1>8, <1>9, FS_Bijection DEF ExistsBijection
<1> QED
  BY <1>2, <1>10 DEF T, m

LEMMA LinesFinite ==
  ASSUME NEW S, NEW s \in Seq(S)
  PROVE  IsFiniteSet(Lines(s))
<1> DEFINE f == [i \in 1..Len(s) |-> s[i]]
<1>1. Len(s) \in Nat /\ IsFiniteSet(1..Len(s))
  BY LenProperties, FS_Interval
<1>2. f \in Surjection(1..Len(s), Lines(s))
  BY DEF Surjection, Lines
<1> QED
  BY <1>1, <1>2, FS_Surjection

LEMMA LinesOfConcat ==
  ASSUME NEW s \in Seq(Line), NEW t \in Seq(Line)
  PROVE  Lines(s \o t) = Lines(s) \union Lines(t)
<1> DEFINE u == s \o t
<1>1. /\ Len(u) = Len(s) + Len(t) /\ Len(s) \in Nat /\ Len(t) \in Nat
      /\ \A i \in 1..Len(s) : u[i] = s[i]
      /\ \A i \in Len(s)+1..Len(s)+Len(t) : u[i] = t[i - Len(s)]
  BY ConcatElements
<1> HIDE DEF u
<1>2. ASSUME NEW i \in 1..Len(u) PROVE u[i] \in Lines(s) \union Lines(t)
  <2>1. i \in 1..Len(s) \/ (i \in Len(s)+1..Len(s)+Len(t) /\ i - Len(s) \in 1..Len(t))
    BY <1>1
  <2> QED
    BY <1>1, <2>1 DEF Lines
<1>3. ASSUME NEW i \in 1..Len(s) PROVE s[i] \in Lines(u)
  <2>1. i \in 1..Len(u) /\ u[i] = s[i]
    BY <1>1
  <2> QED
    BY <2>1 DEF Lines
<1>4. ASSUME NEW i \in 1..Len(t) PROVE t[i] \in Lines(u)
  <2>1. Len(s) + i \in 1..Len(u) /\ Len(s) + i \in Len(s)+1..Len(s)+Len(t)
        /\ (Len(s) + i) - Len(s) = i
    BY <1>1
  <2>2. u[Len(s) + i] = t[i]
    BY <1>1, <2>1
  <2> QED
    BY <2>1, <2>2 DEF Lines
<1> QED
  BY <1>2, <1>3, <1>4 DEF Lines, u

(* A finite set of numbers that is not empty has a greatest one. *)
LEMMA Greatest ==
  ASSUME NEW I \in SUBSET Nat, IsFiniteSet(I), I # {}
  PROVE  \E m \in I : \A i \in I : i <= m
<1> DEFINE f == [i \in I |-> i]
           n == Cardinality(I)
<1>1. f \in [I -> Nat] /\ \A i, j \in I : f[i] = f[j] => i = j
  OBVIOUS
<1>2. n \in Nat /\ Rank(I, f) \in Surjection(I, 0..(n - 1))
  BY <1>1, RanksBiject
<1>3. n # 0
  BY FS_EmptySet
<1>4. 0 \in 0..(n - 1)
  BY <1>2, <1>3
<1>5. PICK m \in I : Rank(I, f)[m] = 0
  BY <1>2, <1>4 DEF Surjection
<1>6. Above(I, f, m) \in SUBSET I /\ Cardinality(Above(I, f, m)) = 0
  BY <1>5 DEF Rank, Above
<1>7. Above(I, f, m) = {}
  BY <1>6, FS_Subset, FS_EmptySet
<1>8. ASSUME NEW i \in I PROVE i <= m
  <2>1. ~(f[i] > f[m])
    BY <1>7 DEF Above
  <2> QED
    BY <2>1
<1> QED
  BY <1>8

(* Where a number names one line, none is lost for another of the same number. *)
LEMMA LastOfEachIsAll ==
  ASSUME NEW s \in Seq(Line), \A x, y \in Lines(s) : x.seq = y.seq => x = y
  PROVE  LastOfEach(s) = Lines(s)
<1>1. Len(s) \in Nat
  BY LenProperties
<1>2. LastOfEach(s) \subseteq Lines(s)
  BY DEF LastOfEach, Lines
<1>3. ASSUME NEW i \in 1..Len(s) PROVE s[i] \in LastOfEach(s)
  <2> DEFINE I == {j \in 1..Len(s) : s[j].seq = s[i].seq}
  <2>1. I \in SUBSET (1..Len(s)) /\ I # {} /\ I \in SUBSET Nat
    OBVIOUS
  <2>2. IsFiniteSet(I)
    <3>1. IsFiniteSet(1..Len(s))
      BY <1>1, FS_Interval
    <3> HIDE DEF I
    <3> QED
      BY <2>1, <3>1, FS_Subset
  <2>3. PICK m \in I : \A j \in I : j <= m
    BY <2>1, <2>2, Greatest
  <2>4. \A k \in m+1..Len(s) : s[k].seq # s[m].seq
    <3> SUFFICES ASSUME NEW k \in m+1..Len(s), s[k].seq = s[m].seq PROVE FALSE
      OBVIOUS
    <3>1. k \in 1..Len(s) /\ k > m /\ m \in Nat
      BY <1>1
    <3>2. k \in I
      BY <3>1
    <3> QED
      BY <2>3, <3>1, <3>2
  <2>5. s[m] \in LastOfEach(s)
    BY <2>4 DEF LastOfEach
  <2>6. s[m] = s[i]
    BY DEF Lines
  <2> QED
    BY <2>5, <2>6
<1> QED
  BY <1>2, <1>3 DEF Lines

(* The merge of lines that their numbers identify and order as the log does. *)
LEMMA MergeIsNewest ==
  ASSUME NEW s \in Seq(Line), NEW t \in Seq(Line),
         \A x, y \in Lines(s) \union Lines(t) :
           (x.seq = y.seq => x = y) /\ (x.seq < y.seq => x.line < y.line)
  PROVE  LET held == Lines(s) \union Lines(t)
             shown == Merge(s, t)
         IN /\ shown \subseteq held
            /\ Cardinality(shown) =
                 IF Cardinality(held) < ClientLimit THEN Cardinality(held) ELSE ClientLimit
            /\ \A x \in shown, y \in held \ shown : y.line < x.line
<1> DEFINE held == Lines(s) \union Lines(t)
           shown == Merge(s, t)
           f == [x \in held |-> x.seq]
<1>1. held \subseteq Line /\ IsFiniteSet(held) /\ Lines(s \o t) = held /\ s \o t \in Seq(Line)
  BY LinesTyped, LinesFinite, FS_Union, LinesOfConcat, ConcatElements
<1>2. LastOfEach(s \o t) = held
  BY <1>1, LastOfEachIsAll
<1>3. f \in [held -> Nat] /\ \A x \in held : f[x] = x.seq /\ x.seq \in Nat
  BY <1>1 DEF Line
<1> HIDE DEF held
<1>4. \A x \in held : {y \in held : y.seq > x.seq} = Above(held, f, x)
  BY <1>3 DEF Above
<1>5. shown = {x \in held : Cardinality(Above(held, f, x)) < ClientLimit}
  <2>1. shown = {x \in held : Cardinality({y \in held : y.seq > x.seq}) < ClientLimit}
    BY <1>2 DEF Merge
  <2> QED
    BY <1>4, <2>1
<1> HIDE DEF shown
<1>6. ClientLimit \in Nat /\ \A x, y \in held : f[x] = f[y] => x = y
  BY <1>3, ConstantsOK DEF held
<1> HIDE DEF f
<1>7. Cardinality(shown) =
        IF Cardinality(held) < ClientLimit THEN Cardinality(held) ELSE ClientLimit
  BY <1>1, <1>3, <1>5, <1>6, TopCount
<1>8. ASSUME NEW x \in shown, NEW y \in held \ shown PROVE y.line < x.line
  <2>1. x \in held /\ y \in held /\ x # y
    BY <1>5
  <2>2. CASE x.seq < y.seq
    <3>1. Above(held, f, y) \in SUBSET Above(held, f, x)
      BY <1>3, <2>1, <2>2 DEF Above
    <3>2. IsFiniteSet(Above(held, f, x)) /\ IsFiniteSet(Above(held, f, y))
      <4>1. Above(held, f, x) \in SUBSET held /\ Above(held, f, y) \in SUBSET held
        BY DEF Above
      <4> QED
        BY <1>1, <4>1, FS_Subset
    <3>3. /\ Cardinality(Above(held, f, y)) <= Cardinality(Above(held, f, x))
          /\ Cardinality(Above(held, f, y)) \in Nat /\ Cardinality(Above(held, f, x)) \in Nat
      BY <3>1, <3>2, FS_Subset, FS_CardinalityType
    <3>4. Cardinality(Above(held, f, x)) < ClientLimit
      BY <1>5
    <3>5. y \in shown
      BY <1>5, <1>6, <2>1, <3>3, <3>4
    <3> QED
      BY <3>5
  <2>3. CASE y.seq < x.seq
    BY <2>1, <2>3 DEF held
  <2>4. x.seq \in Nat /\ y.seq \in Nat /\ x.seq # y.seq
    BY <1>3, <2>1 DEF held
  <2> QED
    BY <2>2, <2>3, <2>4
<1> QED
  BY <1>5, <1>7, <1>8 DEF held, shown

(* A number of one process names one line, copies of it being alike. *)
Identified == \A x, y \in Held : (x.epoch = y.epoch /\ x.seq = y.seq) => x = y

LEMMA IdentifiedStep ==
  ASSUME TypeOK, Counted, Identified, [Next]_vars
  PROVE  Identified'
<1>1. CASE ~ReadLine
  BY <1>1, HeldShrinks DEF Identified
<1>2. CASE ReadLine
  <2> SUFFICES ASSUME NEW x \in Held', NEW y \in Held', x.epoch = y.epoch, x.seq = y.seq
               PROVE  x = y
    BY DEF Identified
  <2>1. x \in Held \union {NewLine} /\ y \in Held \union {NewLine}
    BY <1>2, HeldGrows
  <2>2. NewLine.seq \in Nat
    BY NewLineTyped DEF Line
  <2>3. CASE x \in Held /\ y \in Held
    BY <2>3 DEF Identified
  <2>4. CASE x \in Held /\ y = NewLine
    BY <2>2, <2>4, NewLineIsBeyond
  <2>5. CASE x = NewLine /\ y \in Held
    <3>1. y.seq < x.seq
      BY <2>5, NewLineIsBeyond
    <3> QED
      BY <2>2, <2>5, <3>1
  <2> QED
    BY <2>1, <2>3, <2>4, <2>5
<1> QED
  BY <1>1, <1>2

(* While the dashboard has not restarted, a page shows the newest of the lines its
   browser has, as many as it keeps, whatever history and stream have in common or
   leave out between them (console-lines.ts:9-17). *)
THEOREM PageShowsNewest == Spec => []ViewIsNewest
<1>1. Init => Identified
  BY InitHoldsNothing DEF Identified
<1>2. TypeOK /\ Counted /\ Identified /\ [Next]_vars => Identified'
  BY IdentifiedStep
<1>3. TypeOK /\ NumbersFollowLog /\ Identified => ViewIsNewest
  <2> SUFFICES ASSUME TypeOK, NumbersFollowLog, Identified, NEW c \in Clients,
                      \A x, y \in Lines(history[c]) \union Lines(live[c]) : x.epoch = y.epoch
               PROVE  LET held == Lines(history[c]) \union Lines(live[c])
                          shown == Merge(history[c], live[c])
                      IN /\ shown \subseteq held
                         /\ Cardinality(shown) =
                              IF Cardinality(held) < ClientLimit
                                THEN Cardinality(held) ELSE ClientLimit
                         /\ \A x \in shown, y \in held \ shown : y.line < x.line
    BY DEF ViewIsNewest
  <2>1. history[c] \in Seq(Line) /\ live[c] \in Seq(Line)
    BY DEF TypeOK
  <2>2. \A x, y \in Lines(history[c]) \union Lines(live[c]) :
          (x.seq = y.seq => x = y) /\ (x.seq < y.seq => x.line < y.line)
    <3>1. Lines(history[c]) \union Lines(live[c]) \subseteq Held
      BY HeldLines
    <3> QED
      BY <3>1 DEF Identified, NumbersFollowLog
  <2> QED
    BY <2>1, <2>2, MergeIsNewest
<1> QED
  BY <1>1, <1>2, <1>3, TypeCorrect, CountedAlways, NumbersIdentify, PTL DEF Spec

=============================================================================

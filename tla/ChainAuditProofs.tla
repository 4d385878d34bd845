--------------------------- MODULE ChainAuditProofs ---------------------------
(***************************************************************************)
(* The hash chain never forks, and no event that was handed over is lost   *)
(* or doubled, for any number of payments and any size of the buffer,      *)
(* whatever fails and however often the process restarts.                  *)
(***************************************************************************)
EXTENDS ChainAudit, Sums, SequenceTheorems

HeightsAreNat == \A b \in blocks : b.height \in Nat

\* The heights in use are 0..n, so that there is a latest block.
FilledUpTo(n) ==
  /\ \A b \in blocks : b.height <= n
  /\ \A h \in 0..n : \E b \in blocks : b.height = h

\* What a goroutine builds on is a block of the chain.
TipsKnown ==
  /\ DOMAIN hand = Payments
  /\ \A p \in Payments : hand[p].tip \in blocks

ChainInv ==
  /\ HeightsAreNat
  /\ \E n \in Nat : FilledUpTo(n)
  /\ Genesis \in blocks
  /\ TipsKnown
  /\ ChainLinked

-----------------------------------------------------------------------------
\* GetLatestBlock finds a block, the highest.
LEMMA LatestBlockExists ==
  ASSUME HeightsAreNat, NEW n \in Nat, FilledUpTo(n)
  PROVE  LatestBlock \in blocks
<1>1. PICK b \in blocks : b.height = n
  BY DEF FilledUpTo
<1>2. \A c \in blocks : c.height <= b.height
  BY <1>1 DEF FilledUpTo
<1> QED
  BY <1>2 DEF LatestBlock

\* The block of a goroutine, if its height is free, extends the chain.
LEMMA NewBlockExtends ==
  ASSUME ChainInv, NEW p \in Payments, NEW late,
         HeightFree(hand[p].tip.height + 1),
         blocks' = blocks \cup {NewBlock(p, late)}, UNCHANGED hand
  PROVE  ChainInv'
<1> DEFINE tip == hand[p].tip
           block == NewBlock(p, late)
<1>1. tip \in blocks /\ tip.height \in Nat
  BY DEF ChainInv, TipsKnown, HeightsAreNat
<1>2. block.height = tip.height + 1 /\ block.prev = tip.hash
  BY DEF NewBlock, Block
<1> HIDE DEF block
<1>3. PICK n \in Nat : FilledUpTo(n)
  BY DEF ChainInv
<1>4. tip.height = n
  <2>1. tip.height <= n
    BY <1>1, <1>3 DEF FilledUpTo
  <2>2. ~ (tip.height + 1 <= n)
    <3> SUFFICES ASSUME tip.height + 1 <= n PROVE FALSE
      OBVIOUS
    <3>1. tip.height + 1 \in 0..n
      BY <1>1
    <3>2. \E b \in blocks : b.height = tip.height + 1
      BY <3>1, <1>3 DEF FilledUpTo
    <3> QED
      BY <3>2 DEF HeightFree
  <2> QED
    BY <2>1, <2>2, <1>1
<1>5. blocks' = blocks \cup {block}
  BY DEF block
<1>6. HeightsAreNat'
  BY <1>1, <1>2, <1>5 DEF ChainInv, HeightsAreNat
<1>7. FilledUpTo(n + 1)'
  <2>1. \A b \in blocks' : b.height <= n + 1
    BY <1>2, <1>3, <1>4, <1>5 DEF FilledUpTo, ChainInv, HeightsAreNat
  <2>2. ASSUME NEW h \in 0..(n + 1) PROVE \E b \in blocks' : b.height = h
    <3>1. CASE h = n + 1
      BY <3>1, <1>2, <1>4, <1>5
    <3>2. CASE h # n + 1
      <4>1. h \in 0..n
        BY <3>2
      <4> QED
        BY <4>1, <1>3, <1>5 DEF FilledUpTo
    <3> QED
      BY <3>1, <3>2
  <2> QED
    BY <2>1, <2>2 DEF FilledUpTo
<1>8. Genesis \in blocks' /\ TipsKnown'
  BY <1>5 DEF ChainInv, TipsKnown
<1>9. ChainLinked'
  <2>1. \A b, c \in blocks' : b.height = c.height => b = c
    <3>1. \A b \in blocks : b.height # block.height
      BY <1>2 DEF HeightFree
    <3> QED
      BY <3>1, <1>5 DEF ChainInv, ChainLinked
  <2>2. ASSUME NEW b \in blocks', b.height > 0
        PROVE  \E c \in blocks' : c.height = b.height - 1 /\ c.hash = b.prev
    <3>1. CASE b \in blocks
      BY <3>1, <2>2, <1>5 DEF ChainInv, ChainLinked
    <3>2. CASE b = block
      <4>1. tip.height = b.height - 1 /\ tip.hash = b.prev
        BY <3>2, <1>1, <1>2
      <4> QED
        BY <4>1, <1>1, <1>5
    <3> QED
      BY <3>1, <3>2, <1>5
  <2> QED
    BY <2>1, <2>2 DEF ChainLinked
<1> QED
  BY <1>3, <1>6, <1>7, <1>8, <1>9 DEF ChainInv

\* A step that leaves the blocks alone only has to build on one of them.
LEMMA SameBlocks ==
  ASSUME ChainInv, UNCHANGED blocks, TipsKnown'
  PROVE  ChainInv'
  BY DEF ChainInv, HeightsAreNat, FilledUpTo, ChainLinked

LEMMA InitChain == Init => ChainInv
<1> SUFFICES ASSUME Init PROVE ChainInv
  OBVIOUS
<1>1. Genesis.height = 0
  BY DEF Genesis, Block
<1>2. blocks = {Genesis}
  BY DEF Init
<1>3. FilledUpTo(0)
  BY <1>1, <1>2 DEF FilledUpTo
<1>4. TipsKnown
  BY <1>2 DEF Init, TipsKnown, NoHand, Held
<1>5. ChainLinked /\ HeightsAreNat
  BY <1>1, <1>2 DEF ChainLinked, HeightsAreNat
<1> QED
  BY <1>2, <1>3, <1>4, <1>5 DEF ChainInv

LEMMA NextKeepsChain == ChainInv /\ [Next]_vars => ChainInv'
<1> SUFFICES ASSUME ChainInv, [Next]_vars PROVE ChainInv'
  OBVIOUS
<1> USE DEF tableVars, bufferVars
<1>0. /\ DOMAIN hand = Payments
      /\ \A p \in Payments : hand[p].tip \in blocks
      /\ Genesis \in blocks
  BY DEF ChainInv, TipsKnown
<1>1. ASSUME NEW p \in Payments, RecordPayment(p) PROVE ChainInv'
  BY <1>0, <1>1, SameBlocks DEF RecordPayment, TipsKnown
<1>2. ASSUME NEW p \in Payments, EnqueueEvent(p) PROVE ChainInv'
  BY <1>0, <1>2, SameBlocks DEF EnqueueEvent, TipsKnown
<1>3. ASSUME NEW p \in Payments, TakeEvents(p) PROVE ChainInv'
  <2>1. blocks' = blocks /\ hand' = [hand EXCEPT ![p] = Held(pending, Genesis)]
    BY <1>3 DEF TakeEvents
  <2>2. TipsKnown'
    BY <1>0, <2>1 DEF TipsKnown, Held
  <2> QED
    BY <2>1, <2>2, SameBlocks
<1>4. ASSUME NEW p \in Payments, GetLatestBlock(p) PROVE ChainInv'
  <2>1. LatestBlock \in blocks
    BY LatestBlockExists DEF ChainInv
  <2>2. blocks' = blocks
    BY <1>4 DEF GetLatestBlock
  <2>3. CASE hand' = [hand EXCEPT ![p] = Held(hand[p].events, LatestBlock)]
    BY <1>0, <2>1, <2>2, <2>3, SameBlocks DEF TipsKnown, Held
  <2>4. CASE UNCHANGED hand
    BY <1>0, <2>2, <2>4, SameBlocks DEF TipsKnown
  <2> QED
    BY <1>4, <2>3, <2>4 DEF GetLatestBlock
<1>5. ASSUME NEW p \in Payments, InsertChainBlock(p) PROVE ChainInv'
  <2>1. CASE UNCHANGED blocks
    BY <1>0, <1>5, <2>1, SameBlocks DEF InsertChainBlock, TipsKnown
  <2>2. CASE ~ UNCHANGED blocks
    <3>1. /\ HeightFree(hand[p].tip.height + 1)
          /\ UNCHANGED hand
          /\ \E late \in BOOLEAN : blocks' = blocks \cup {NewBlock(p, late)}
      BY <1>5, <2>2 DEF InsertChainBlock
    <3> QED
      BY <3>1, NewBlockExtends
  <2> QED
    BY <2>1, <2>2
<1>6. ASSUME NEW p \in Payments, CreateChainBatch(p) PROVE ChainInv'
  BY <1>0, <1>6, SameBlocks DEF CreateChainBatch, TipsKnown
<1>7. ASSUME NEW p \in Payments, InsertChainEvents(p) PROVE ChainInv'
  BY <1>0, <1>7, SameBlocks DEF InsertChainEvents, TipsKnown
<1>8. ASSUME NEW p \in Payments, InsertSubmitLog(p) PROVE ChainInv'
  <2>1. blocks' = blocks /\ hand' = [hand EXCEPT ![p] = NoHand]
    BY <1>8 DEF InsertSubmitLog
  <2> QED
    BY <1>0, <2>1, SameBlocks DEF TipsKnown, NoHand, Held
<1>9. ASSUME NEW p \in Payments, RequeueEvents(p) PROVE ChainInv'
  <2>1. blocks' = blocks /\ hand' = [hand EXCEPT ![p] = NoHand]
    BY <1>9 DEF RequeueEvents
  <2> QED
    BY <1>0, <2>1, SameBlocks DEF TipsKnown, NoHand, Held
<1>10. CASE Crash
  BY <1>0, <1>10, SameBlocks DEF Crash, TipsKnown, NoHand, Held
<1>11. CASE UNCHANGED vars
  BY <1>0, <1>11, SameBlocks DEF vars, TipsKnown
<1> QED
  BY <1>1, <1>2, <1>3, <1>4, <1>5, <1>6, <1>7, <1>8, <1>9, <1>10, <1>11
  DEF Next, RecorderStep

-----------------------------------------------------------------------------
\* Goroutines that flush at the same time, failing statements and restarts
\* never fork the chain of commitBatch or leave a gap in it.
THEOREM ChainNeverForks == Spec => []ChainLinked
<1>1. Spec => []ChainInv
  BY InitChain, NextKeepsChain, PTL DEF Spec
<1>2. ChainInv => ChainLinked
  BY DEF ChainInv
<1> QED
  BY <1>1, <1>2, PTL
-----------------------------------------------------------------------------
(* Where the events are.                                                    *)

Typed ==
  /\ pending \in Seq(Events)
  /\ DOMAIN hand = Payments
  /\ \A p \in Payments : hand[p].events \in Seq(Events)
  /\ pc \in [Payments -> Labels]
  /\ sent \in [Payments -> 0..2]
  /\ \A r \in rows : r.event \in Events
  /\ crashes \in Nat

\* A goroutine about to hand over an event has one left.
OneLeft == \A p \in Payments : /\ pc[p] = "record" => sent[p] = 0
                               /\ pc[p] = "enqueue" => sent[p] < 2

\* Nothing is anywhere before it was handed over.
NothingEarly == \A e \in Events : IsSomewhere(e) => e[2] <= sent[e[1]]

PlacesInv == NothingEarly /\ EventsConserved

EventInv == Typed /\ OneLeft /\ PlacesInv

-----------------------------------------------------------------------------
\* A step that moves no event keeps each in its place.
LEMMA SamePlaces ==
  ASSUME PlacesInv, UNCHANGED <<pending, rows, sent, crashes>>,
         \A p \in Payments : /\ pc'[p] \in Flushing <=> pc[p] \in Flushing
                             /\ pc[p] \in Flushing => hand'[p].events = hand[p].events
  PROVE  PlacesInv'
<1>1. ASSUME NEW p \in Payments, NEW e PROVE Holds(p, e)' <=> Holds(p, e)
  BY DEF Holds
<1>2. ASSUME NEW e PROVE (InBuffer(e)' <=> InBuffer(e)) /\ (InRow(e)' <=> InRow(e))
  BY DEF InBuffer, InRow
<1>3. ASSUME NEW e PROVE IsSomewhere(e)' <=> IsSomewhere(e)
  BY <1>1, <1>2 DEF IsSomewhere
<1>4. NothingEarly'
  BY <1>3 DEF PlacesInv, NothingEarly
<1>5. NoEventTwice'
  BY <1>1, <1>2 DEF PlacesInv, EventsConserved, NoEventTwice
<1> QED
  BY <1>3, <1>4, <1>5 DEF PlacesInv, EventsConserved

\* The facts about sequences the moves rest on.
LEMMA AppendFresh ==
  ASSUME NEW S, NEW s \in Seq(S), NEW x \in S, IsInjective(s), ~ (x \in ToSet(s))
  PROVE  IsInjective(Append(s, x)) /\ ToSet(Append(s, x)) = ToSet(s) \cup {x}
<1>1. /\ DOMAIN Append(s, x) = 1..(Len(s) + 1)
      /\ \A i \in 1..Len(s) : Append(s, x)[i] = s[i]
      /\ Append(s, x)[Len(s) + 1] = x
      /\ DOMAIN s = 1..Len(s) /\ Len(s) \in Nat
  OBVIOUS
<1>2. \A i \in 1..Len(s) : s[i] # x
  BY <1>1 DEF ToSet
<1>3. IsInjective(Append(s, x))
  BY <1>1, <1>2 DEF IsInjective
<1>4. ToSet(Append(s, x)) = ToSet(s) \cup {x}
  <2>1. \A i \in 1..(Len(s) + 1) : i \in 1..Len(s) \/ i = Len(s) + 1
    BY <1>1
  <2>2. \A i \in 1..Len(s) : i \in 1..(Len(s) + 1)
    BY <1>1
  <2>3. Len(s) + 1 \in 1..(Len(s) + 1)
    BY <1>1
  <2> QED
    BY <1>1, <2>1, <2>2, <2>3 DEF ToSet
<1> QED
  BY <1>3, <1>4

LEMMA ConcatDisjoint ==
  ASSUME NEW S, NEW s \in Seq(S), NEW t \in Seq(S),
         IsInjective(s), IsInjective(t), \A e \in S : ~ (e \in ToSet(s) /\ e \in ToSet(t))
  PROVE  IsInjective(s \o t) /\ ToSet(s \o t) = ToSet(s) \cup ToSet(t)
<1> DEFINE c == s \o t
<1>1. /\ DOMAIN c = 1..(Len(s) + Len(t))
      /\ DOMAIN s = 1..Len(s) /\ DOMAIN t = 1..Len(t)
      /\ Len(s) \in Nat /\ Len(t) \in Nat
  OBVIOUS
<1>2. \A i \in 1..Len(s) : c[i] = s[i] /\ s[i] \in S
  OBVIOUS
<1>3. \A i \in 1..Len(t) : c[Len(s) + i] = t[i] /\ t[i] \in S
  OBVIOUS
<1>4. \A i \in 1..Len(s), j \in 1..Len(t) : s[i] # t[j]
  BY <1>1, <1>2 DEF ToSet
<1>5. ASSUME NEW k \in DOMAIN c
      PROVE  k \in 1..Len(s) \/ \E j \in 1..Len(t) : k = Len(s) + j
  <2>1. CASE k <= Len(s)
    BY <1>1, <2>1
  <2>2. CASE k > Len(s)
    <3>1. k - Len(s) \in 1..Len(t) /\ k = Len(s) + (k - Len(s))
      BY <1>1, <2>2
    <3> QED
      BY <3>1
  <2> QED
    BY <1>1, <2>1, <2>2
<1>6. \A i \in 1..Len(s) : i \in DOMAIN c
  BY <1>1
<1>7. \A j \in 1..Len(t) : Len(s) + j \in DOMAIN c
  BY <1>1
<1> HIDE DEF c
<1>8. IsInjective(c)
  <2> SUFFICES ASSUME NEW k \in DOMAIN c, NEW l \in DOMAIN c, c[k] = c[l]
               PROVE  k = l
    BY DEF IsInjective
  <2>1. CASE k \in 1..Len(s) /\ l \in 1..Len(s)
    BY <2>1, <1>1, <1>2 DEF IsInjective
  <2>2. CASE k \in 1..Len(s) /\ l \notin 1..Len(s)
    BY <2>2, <1>2, <1>3, <1>4, <1>5
  <2>3. CASE k \notin 1..Len(s) /\ l \in 1..Len(s)
    BY <2>3, <1>2, <1>3, <1>4, <1>5
  <2>4. CASE k \notin 1..Len(s) /\ l \notin 1..Len(s)
    <3>1. PICK i \in 1..Len(t), j \in 1..Len(t) : k = Len(s) + i /\ l = Len(s) + j
      BY <2>4, <1>5
    <3>2. t[i] = t[j]
      BY <3>1, <1>3
    <3> QED
      BY <3>1, <3>2, <1>1 DEF IsInjective
  <2> QED
    BY <2>1, <2>2, <2>3, <2>4
<1>9. ToSet(c) = ToSet(s) \cup ToSet(t)
  <2>1. ToSet(c) \subseteq ToSet(s) \cup ToSet(t)
    BY <1>1, <1>2, <1>3, <1>5 DEF ToSet
  <2>2. ToSet(s) \subseteq ToSet(c)
    BY <1>1, <1>2, <1>6 DEF ToSet
  <2>3. ToSet(t) \subseteq ToSet(c)
    BY <1>1, <1>3, <1>7 DEF ToSet
  <2> QED
    BY <2>1, <2>2, <2>3
<1> QED
  BY <1>8, <1>9 DEF c

LEMMA InitEvents == Init => EventInv
<1> SUFFICES ASSUME Init PROVE EventInv
  OBVIOUS
<1>1. pending = <<>> /\ rows = {} /\ crashes = 0
  BY DEF Init
<1>2. pc = [p \in Payments |-> "record"] /\ sent = [p \in Payments |-> 0]
  BY DEF Init
<1>3. \A p \in Payments : hand[p].events = <<>>
  BY DEF Init, NoHand, Held
<1>4. Typed
  <2>1. <<>> \in Seq(Events)
    OBVIOUS
  <2>2. DOMAIN hand = Payments
    BY DEF Init
  <2>3. pc \in [Payments -> Labels] /\ sent \in [Payments -> 0..2]
    BY <1>2 DEF Labels
  <2> QED
    BY <1>1, <1>3, <2>1, <2>2, <2>3 DEF Typed
<1>5. OneLeft
  BY <1>2 DEF OneLeft
<1>6. \A e \in Events : ~ IsSomewhere(e)
  BY <1>1, <1>2 DEF IsSomewhere, InBuffer, InRow, Holds, Flushing, ToSet
<1>7. NoEventTwice
  BY <1>1, <1>2, <1>6 DEF NoEventTwice, IsSomewhere, IsInjective, Flushing
<1>8. \A e \in Events : e[2] \in {1, 2} /\ e[1] \in Payments
  BY DEF Events
<1>9. \A e \in Events : ~ (e[2] <= sent[e[1]])
  BY <1>2, <1>8
<1> QED
  BY <1>4, <1>5, <1>6, <1>7, <1>9 DEF EventInv, PlacesInv, NothingEarly, EventsConserved

-----------------------------------------------------------------------------
\* An empty hand holds a sequence of events.
LEMMA NoHandTyped == NoHand.events \in Seq(Events)
<1>1. <<>> \in Seq(Events)
  OBVIOUS
<1> QED
  BY <1>1 DEF NoHand, Held

\* Types, and the count a goroutine has left, survive every step.
LEMMA NextTyped == Typed /\ OneLeft /\ [Next]_vars => Typed' /\ OneLeft'
<1> SUFFICES ASSUME Typed, OneLeft, [Next]_vars PROVE Typed' /\ OneLeft'
  OBVIOUS
<1> USE DEF Typed, OneLeft, Labels, tableVars, bufferVars, Goto, AfterEvent, AfterError
<1>1. ASSUME NEW p \in Payments, RecordPayment(p) PROVE Typed' /\ OneLeft'
  BY <1>1 DEF RecordPayment
<1>2. ASSUME NEW p \in Payments, EnqueueEvent(p) PROVE Typed' /\ OneLeft'
  <2>1. sent' = [sent EXCEPT ![p] = @ + 1] /\ sent[p] \in 0..1
    BY <1>2 DEF EnqueueEvent
  <2>2. sent'[p] \in {1, 2} /\ sent' \in [Payments -> 0..2]
    BY <2>1
  <2>3. Event(p, sent'[p]) \in Events
    BY <2>2 DEF Event, Events
  <2>4. pending' = Append(pending, Event(p, sent'[p])) /\ UNCHANGED <<hand, rows, crashes>>
    BY <1>2 DEF EnqueueEvent
  <2>5. pending' \in Seq(Events)
    BY <2>3, <2>4
  <2>6. PICK label \in {"take", "done", "enqueue"} :
          pc' = [pc EXCEPT ![p] = label] /\ (label = "enqueue" => sent'[p] # 2)
    BY <1>2 DEF EnqueueEvent
  <2>7. pc' \in [Payments -> Labels]
    BY <2>6
  <2>8. OneLeft'
    BY <2>1, <2>2, <2>6
  <2> QED
    BY <2>2, <2>4, <2>5, <2>7, <2>8
<1>3. ASSUME NEW p \in Payments, TakeEvents(p) PROVE Typed' /\ OneLeft'
  <2>1. pending' = <<>> /\ hand' = [hand EXCEPT ![p] = Held(pending, Genesis)]
        /\ UNCHANGED <<sent, rows, crashes>>
    BY <1>3 DEF TakeEvents
  <2>2. \A q \in Payments : hand'[q].events \in Seq(Events)
    BY <2>1 DEF Held
  <2>3. PICK label \in {"latest", "done", "enqueue"} :
          pc' = [pc EXCEPT ![p] = label] /\ (label = "enqueue" => sent[p] # 2)
    BY <1>3 DEF TakeEvents
  <2>4. OneLeft'
    BY <2>1, <2>3
  <2> QED
    BY <2>1, <2>2, <2>3, <2>4
<1>4. ASSUME NEW p \in Payments, GetLatestBlock(p) PROVE Typed' /\ OneLeft'
  <2>1. UNCHANGED <<pending, sent, rows, crashes>>
    BY <1>4 DEF GetLatestBlock
  <2>2. hand' = [hand EXCEPT ![p] = Held(hand[p].events, LatestBlock)] \/ hand' = hand
    BY <1>4 DEF GetLatestBlock
  <2>3. DOMAIN hand' = Payments /\ \A q \in Payments : hand'[q].events \in Seq(Events)
    BY <2>2 DEF Held
  <2>4. PICK label \in {"block", "requeue"} : pc' = [pc EXCEPT ![p] = label]
    BY <1>4 DEF GetLatestBlock
  <2> QED
    BY <2>1, <2>3, <2>4
<1>5. ASSUME NEW p \in Payments, InsertChainBlock(p) PROVE Typed' /\ OneLeft'
  <2>1. UNCHANGED <<pending, sent, hand, rows, crashes>>
    BY <1>5 DEF InsertChainBlock
  <2>2. PICK label \in {"batch", "requeue"} : pc' = [pc EXCEPT ![p] = label]
    BY <1>5 DEF InsertChainBlock
  <2> QED
    BY <2>1, <2>2
<1>6. ASSUME NEW p \in Payments, CreateChainBatch(p) PROVE Typed' /\ OneLeft'
  <2>1. UNCHANGED <<pending, sent, hand, rows, crashes>>
    BY <1>6 DEF CreateChainBatch
  <2>2. PICK label \in {"events", "requeue"} : pc' = [pc EXCEPT ![p] = label]
    BY <1>6 DEF CreateChainBatch
  <2> QED
    BY <2>1, <2>2
<1>7. ASSUME NEW p \in Payments, InsertChainEvents(p) PROVE Typed' /\ OneLeft'
  <2>1. UNCHANGED <<pending, sent, hand, crashes>>
    BY <1>7 DEF InsertChainEvents
  <2>2. PICK label \in {"log", "requeue"} : pc' = [pc EXCEPT ![p] = label]
    BY <1>7 DEF InsertChainEvents
  <2>3. \A r \in EventRows(p) : r.event \in Events
    BY DEF EventRows
  <2>4. rows' = rows \cup EventRows(p) \/ rows' = rows
    BY <1>7 DEF InsertChainEvents
  <2>5. \A r \in rows' : r.event \in Events
    BY <2>3, <2>4
  <2> QED
    BY <2>1, <2>2, <2>5
<1>8. ASSUME NEW p \in Payments, InsertSubmitLog(p) PROVE Typed' /\ OneLeft'
  <2>1. hand' = [hand EXCEPT ![p] = NoHand] /\ UNCHANGED <<pending, sent, rows, crashes>>
    BY <1>8 DEF InsertSubmitLog
  <2>2. \A q \in Payments : hand'[q].events \in Seq(Events)
    BY <2>1, NoHandTyped
  <2>3. PICK label \in {"done", "enqueue"} :
          pc' = [pc EXCEPT ![p] = label] /\ (label = "enqueue" => sent[p] # 2)
    BY <1>8 DEF InsertSubmitLog
  <2>4. OneLeft'
    BY <2>1, <2>3
  <2> QED
    BY <2>1, <2>2, <2>3, <2>4
<1>9. ASSUME NEW p \in Payments, RequeueEvents(p) PROVE Typed' /\ OneLeft'
  <2>1. hand' = [hand EXCEPT ![p] = NoHand] /\ UNCHANGED <<sent, rows, crashes>>
    BY <1>9 DEF RequeueEvents
  <2>2. pending' \in Seq(Events)
    BY <1>9 DEF RequeueEvents, Requeued
  <2>3. \A q \in Payments : hand'[q].events \in Seq(Events)
    BY <2>1, NoHandTyped
  <2>4. PICK label \in {"done", "enqueue"} :
          pc' = [pc EXCEPT ![p] = label] /\ (label = "enqueue" => sent[p] # 2)
    BY <1>9 DEF RequeueEvents
  <2>5. OneLeft'
    BY <2>1, <2>4
  <2> QED
    BY <2>1, <2>2, <2>3, <2>4, <2>5
<1>10. CASE Crash
  <2>1. /\ pending' = <<>>
        /\ hand' = [p \in Payments |-> NoHand]
        /\ pc' = [p \in Payments |-> IF pc[p] = "record" THEN "record" ELSE "done"]
        /\ crashes' = crashes + 1
        /\ UNCHANGED <<sent, rows>>
    BY <1>10 DEF Crash
  <2>2. \A q \in Payments : hand'[q].events \in Seq(Events)
    BY <2>1, NoHandTyped
  <2>3. OneLeft'
    BY <2>1
  <2> QED
    BY <2>1, <2>2, <2>3
<1>11. CASE UNCHANGED vars
  BY <1>11 DEF vars
<1> QED
  BY <1>1, <1>2, <1>3, <1>4, <1>5, <1>6, <1>7, <1>8, <1>9, <1>10, <1>11
  DEF Next, RecorderStep

-----------------------------------------------------------------------------
\* One event more in the buffer, new everywhere.
LEMMA EnqueueKeepsPlaces ==
  ASSUME EventInv, NEW p \in Payments, EnqueueEvent(p)
  PROVE  PlacesInv'
<1> DEFINE new == Event(p, sent[p] + 1)
<1>1. pc[p] = "enqueue" /\ sent[p] \in 0..1 /\ sent' = [sent EXCEPT ![p] = sent[p] + 1]
  BY DEF EnqueueEvent, EventInv, Typed, OneLeft
<1>2. pending' = Append(pending, new) /\ UNCHANGED <<hand, rows, crashes>>
  BY <1>1 DEF EnqueueEvent, tableVars, EventInv, Typed
<1>3. /\ pc'[p] \notin Flushing /\ pc[p] \notin Flushing
      /\ \A q \in Payments \ {p} : pc'[q] = pc[q]
  BY <1>1 DEF EnqueueEvent, Goto, AfterEvent, Flushing, EventInv, Typed
<1>4. new \in Events /\ new[1] = p /\ new[2] = sent[p] + 1
  BY <1>1 DEF Event, Events
<1>5. ~ IsSomewhere(new)
  BY <1>1, <1>4 DEF EventInv, PlacesInv, NothingEarly
<1> HIDE DEF new
<1>6. IsInjective(pending') /\ ToSet(pending') = ToSet(pending) \cup {new}
  BY <1>2, <1>4, <1>5, AppendFresh
     DEF EventInv, PlacesInv, EventsConserved, NoEventTwice, Typed, IsSomewhere, InBuffer
<1>7. ASSUME NEW q \in Payments, NEW e \in Events PROVE Holds(q, e)' <=> Holds(q, e)
  BY <1>2, <1>3 DEF Holds
<1>8. ASSUME NEW e \in Events
      PROVE  /\ InBuffer(e)' <=> (InBuffer(e) \/ e = new)
             /\ InRow(e)' <=> InRow(e)
  BY <1>2, <1>6 DEF InBuffer, InRow
<1>9. ASSUME NEW e \in Events PROVE IsSomewhere(e)' <=> (IsSomewhere(e) \/ e = new)
  <2>1. (\E q \in Payments : Holds(q, e)') <=> \E q \in Payments : Holds(q, e)
    BY <1>7
  <2> QED
    BY <2>1, <1>8 DEF IsSomewhere
<1>10. NoEventTwice'
  <2>1. \A q \in Payments : pc'[q] \in Flushing => IsInjective(hand'[q].events)
    BY <1>2, <1>3 DEF EventInv, PlacesInv, EventsConserved, NoEventTwice
  <2>2. ~ InRow(new) /\ \A q \in Payments : ~ Holds(q, new)
    BY <1>5 DEF IsSomewhere
  <2>3. NoEventTwice
    BY DEF EventInv, PlacesInv, EventsConserved
  <2>4. \A r, s \in rows' : r.event = s.event => r = s
    BY <1>2, <2>3 DEF NoEventTwice
  <2>5. \A e \in Events : ~ (InBuffer(e) /\ InRow(e))'
    BY <1>2, <1>6, <2>2, <2>3 DEF NoEventTwice, InBuffer, InRow
  <2>6. ASSUME NEW q \in Payments, NEW e \in Events, Holds(q, e)'
        PROVE  ~ InBuffer(e)' /\ ~ InRow(e)'
    BY <1>7, <1>8, <2>2, <2>3, <2>6 DEF NoEventTwice
  <2>7. \A q, o \in Payments, e \in Events : Holds(q, e)' /\ Holds(o, e)' => q = o
    BY <1>7, <2>3 DEF NoEventTwice
  <2> QED
    BY <1>6, <2>1, <2>4, <2>5, <2>6, <2>7 DEF NoEventTwice
<1>11. ASSUME NEW e \in Events
       PROVE  /\ e[1] \in Payments /\ e[2] \in {1, 2}
              /\ sent[e[1]] <= sent'[e[1]]
              /\ e[2] <= sent'[e[1]] => e[2] <= sent[e[1]] \/ e = new
  <2>1. e[1] \in Payments /\ e[2] \in {1, 2} /\ e = <<e[1], e[2]>>
    BY DEF Events
  <2>2. CASE e[1] = p
    <3>1. CASE e[2] = sent[p] + 1
      BY <1>1, <2>1, <2>2, <3>1 DEF EventInv, Typed, new, Event
    <3>2. CASE e[2] # sent[p] + 1
      BY <1>1, <2>1, <2>2, <3>2 DEF EventInv, Typed
    <3> QED
      BY <3>1, <3>2
  <2>3. CASE e[1] # p
    BY <1>1, <2>1, <2>3 DEF EventInv, Typed
  <2> QED
    BY <2>2, <2>3
<1>12. sent \in [Payments -> 0..2] /\ sent' \in [Payments -> 0..2]
  BY <1>1 DEF EventInv, Typed
<1>13. NothingEarly'
  <2> SUFFICES ASSUME NEW e \in Events, IsSomewhere(e)' PROVE e[2] <= sent'[e[1]]
    BY DEF NothingEarly
  <2>1. CASE e = new
    BY <1>1, <1>4, <1>12, <2>1
  <2>2. CASE IsSomewhere(e)
    BY <1>11, <1>12, <2>2 DEF EventInv, PlacesInv, NothingEarly
  <2> QED
    BY <1>9, <2>1, <2>2
<1>14. \A e \in Events : crashes' = 0 /\ e[2] <= sent'[e[1]] => IsSomewhere(e)'
  BY <1>2, <1>9, <1>11 DEF EventInv, PlacesInv, EventsConserved
<1> QED
  BY <1>10, <1>13, <1>14 DEF PlacesInv, EventsConserved

\* The whole buffer goes into one goroutine's hands.
LEMMA TakeKeepsPlaces ==
  ASSUME EventInv, NEW p \in Payments, TakeEvents(p)
  PROVE  PlacesInv'
<1>1. pending' = <<>> /\ UNCHANGED <<rows, sent, crashes>>
  BY DEF TakeEvents, tableVars
<1>2. /\ pc[p] \notin Flushing
      /\ \A q \in Payments \ {p} : pc'[q] = pc[q] /\ hand'[q] = hand[q]
      /\ hand'[p].events = pending
  BY DEF TakeEvents, Goto, Flushing, EventInv, Typed, Held
<1>3. CASE pending = <<>>
  <2>1. pc'[p] \notin Flushing
    BY <1>3 DEF TakeEvents, Goto, AfterEvent, Flushing, EventInv, Typed
  <2> QED
    BY <1>1, <1>2, <1>3, <2>1, SamePlaces DEF EventInv
<1>4. CASE pending # <<>>
  <2>1. pc'[p] \in Flushing
    BY <1>4 DEF TakeEvents, Goto, Flushing, EventInv, Typed
  <2>2. \A e : ~ InBuffer(e)' /\ (InRow(e)' <=> InRow(e))
    BY <1>1 DEF InBuffer, InRow, ToSet
  <2>3. \A e : Holds(p, e)' <=> InBuffer(e)
    BY <1>2, <2>1 DEF Holds, InBuffer
  <2>4. \A e : ~ Holds(p, e) /\ \A q \in Payments \ {p} : Holds(q, e)' <=> Holds(q, e)
    BY <1>2 DEF Holds
  <2>5. \A e : IsSomewhere(e)' <=> IsSomewhere(e)
    BY <2>2, <2>3, <2>4 DEF IsSomewhere
  <2>6. IsInjective(pending')
    BY <1>1 DEF IsInjective
  <2>7. \A q \in Payments : pc'[q] \in Flushing => IsInjective(hand'[q].events)
    BY <1>2 DEF EventInv, PlacesInv, EventsConserved, NoEventTwice
  <2>8. NoEventTwice'
    BY <1>1, <2>2, <2>3, <2>4, <2>6, <2>7 DEF EventInv, PlacesInv, EventsConserved, NoEventTwice
  <2> QED
    BY <1>1, <2>5, <2>8 DEF EventInv, PlacesInv, NothingEarly, EventsConserved
<1> QED
  BY <1>3, <1>4

\* What one goroutine holds becomes rows.
LEMMA InsertKeepsPlaces ==
  ASSUME EventInv, NEW p \in Payments, pc[p] = "events", rows' = rows \cup EventRows(p),
         pc' = [pc EXCEPT ![p] = "log"], UNCHANGED <<pending, hand, sent, crashes>>
  PROVE  PlacesInv'
<1>1. /\ pc'[p] \notin Flushing /\ pc[p] \in Flushing
      /\ \A q \in Payments \ {p} : pc'[q] = pc[q]
  BY DEF Flushing, EventInv, Typed
<1>2. NoEventTwice
  BY DEF EventInv, PlacesInv, EventsConserved
<1>3. IsInjective(hand[p].events)
  BY <1>1, <1>2 DEF NoEventTwice
<1>4. /\ \A r \in EventRows(p) : Holds(p, r.event)
      /\ \A e : Holds(p, e) => \E r \in EventRows(p) : r.event = e
      /\ \A r, s \in EventRows(p) : r.event = s.event => r = s
  <2> DEFINE row(i) == [event |-> hand[p].events[i], height |-> hand[p].tip.height + 1,
                        batch |-> BatchId(p), proof |-> MerkleProof(Hashes(hand[p].events), i)]
  <2>0. EventRows(p) = {row(i) : i \in DOMAIN hand[p].events}
    BY DEF EventRows
  <2>1. \A r \in EventRows(p) : \E i \in DOMAIN hand[p].events : r = row(i)
    BY <2>0
  <2>2. \A i \in DOMAIN hand[p].events : row(i) \in EventRows(p) /\ row(i).event = hand[p].events[i]
    BY <2>0
  <2>3. \A r \in EventRows(p) : Holds(p, r.event)
    BY <1>1, <2>1 DEF Holds, ToSet
  <2>4. \A e : Holds(p, e) => \E r \in EventRows(p) : r.event = e
    BY <2>2 DEF Holds, ToSet
  <2>5. \A r, s \in EventRows(p) : r.event = s.event => r = s
    BY <1>3, <2>1 DEF IsInjective
  <2> QED
    BY <2>3, <2>4, <2>5
<1>5. ASSUME NEW e \in Events PROVE InRow(e)' <=> (InRow(e) \/ Holds(p, e))
  BY <1>4 DEF InRow
<1>6. ASSUME NEW e \in Events, NEW q \in Payments \ {p} PROVE Holds(q, e)' <=> Holds(q, e)
  BY <1>1 DEF Holds
<1>7. ASSUME NEW e \in Events PROVE ~ Holds(p, e)' /\ (InBuffer(e)' <=> InBuffer(e))
  BY <1>1 DEF Holds, InBuffer
<1>8. ASSUME NEW e \in Events PROVE IsSomewhere(e)' <=> IsSomewhere(e)
  <2>1. (\E q \in Payments : Holds(q, e)') <=> \E q \in Payments \ {p} : Holds(q, e)
    BY <1>6, <1>7
  <2>2. (\E q \in Payments : Holds(q, e)) <=> Holds(p, e) \/ \E q \in Payments \ {p} : Holds(q, e)
    OBVIOUS
  <2> QED
    BY <2>1, <2>2, <1>5, <1>7 DEF IsSomewhere
<1>9. NoEventTwice'
  <2>1. IsInjective(pending')
    BY <1>2 DEF NoEventTwice
  <2>2. \A q \in Payments : pc'[q] \in Flushing => IsInjective(hand'[q].events)
    BY <1>1, <1>2 DEF NoEventTwice
  <2>3. ASSUME NEW r \in rows', NEW s \in rows', r.event = s.event PROVE r = s
    <3>1. \A t \in rows : t.event \in Events /\ InRow(t.event) /\ ~ Holds(p, t.event)
      BY <1>2 DEF NoEventTwice, InRow, EventInv, Typed
    <3> QED
      BY <1>2, <1>4, <2>3, <3>1 DEF NoEventTwice
  <2>4. ASSUME NEW e \in Events, InBuffer(e)', InRow(e)' PROVE FALSE
    BY <1>2, <1>5, <1>7, <2>4 DEF NoEventTwice
  <2>5. ASSUME NEW q \in Payments, NEW e \in Events, Holds(q, e)'
        PROVE  ~ InBuffer(e)' /\ ~ InRow(e)'
    BY <1>2, <1>5, <1>6, <1>7, <2>5 DEF NoEventTwice
  <2>6. ASSUME NEW q \in Payments, NEW o \in Payments, NEW e \in Events,
               Holds(q, e)', Holds(o, e)'
        PROVE  q = o
    BY <1>2, <1>6, <1>7, <2>6 DEF NoEventTwice
  <2> QED
    BY <2>1, <2>2, <2>3, <2>4, <2>5, <2>6 DEF NoEventTwice
<1> QED
  BY <1>8, <1>9 DEF EventInv, PlacesInv, NothingEarly, EventsConserved

\* What one goroutine holds goes back to the front of the buffer.
LEMMA RequeueKeepsPlaces ==
  ASSUME EventInv, NEW p \in Payments, RequeueEvents(p)
  PROVE  PlacesInv'
<1>1. /\ pc'[p] \notin Flushing /\ pc[p] \in Flushing
      /\ \A q \in Payments \ {p} : pc'[q] = pc[q] /\ hand'[q] = hand[q]
      /\ UNCHANGED <<rows, sent, crashes>>
  BY DEF RequeueEvents, Goto, AfterEvent, Flushing, EventInv, Typed, tableVars
<1>2. NoEventTwice
  BY DEF EventInv, PlacesInv, EventsConserved
<1>3. IsInjective(hand[p].events) /\ IsInjective(pending)
  BY <1>1, <1>2 DEF NoEventTwice
<1>4. \A e \in Events : ~ (e \in ToSet(hand[p].events) /\ e \in ToSet(pending))
  BY <1>1, <1>2 DEF NoEventTwice, Holds, InBuffer
<1>5. pending' = hand[p].events \o pending
  BY DEF RequeueEvents, Requeued
<1>6. IsInjective(pending') /\ ToSet(pending') = ToSet(hand[p].events) \cup ToSet(pending)
  BY <1>3, <1>4, <1>5, ConcatDisjoint DEF EventInv, Typed
<1>7. ASSUME NEW e \in Events PROVE InBuffer(e)' <=> (InBuffer(e) \/ Holds(p, e))
  BY <1>1, <1>6 DEF InBuffer, Holds
<1>8. ASSUME NEW e \in Events, NEW q \in Payments \ {p} PROVE Holds(q, e)' <=> Holds(q, e)
  BY <1>1 DEF Holds
<1>9. ASSUME NEW e \in Events PROVE ~ Holds(p, e)' /\ (InRow(e)' <=> InRow(e))
  BY <1>1 DEF Holds, InRow
<1>10. ASSUME NEW e \in Events PROVE IsSomewhere(e)' <=> IsSomewhere(e)
  <2>1. (\E q \in Payments : Holds(q, e)') <=> \E q \in Payments \ {p} : Holds(q, e)
    BY <1>8, <1>9
  <2>2. (\E q \in Payments : Holds(q, e)) <=> Holds(p, e) \/ \E q \in Payments \ {p} : Holds(q, e)
    OBVIOUS
  <2> QED
    BY <2>1, <2>2, <1>7, <1>9 DEF IsSomewhere
<1>11. NoEventTwice'
  <2>1. \A q \in Payments : pc'[q] \in Flushing => IsInjective(hand'[q].events)
    BY <1>1, <1>2 DEF NoEventTwice
  <2>2. \A r, s \in rows' : r.event = s.event => r = s
    BY <1>1, <1>2 DEF NoEventTwice
  <2>3. ASSUME NEW e \in Events, InBuffer(e)', InRow(e)' PROVE FALSE
    BY <1>2, <1>7, <1>9, <2>3 DEF NoEventTwice
  <2>4. ASSUME NEW q \in Payments, NEW e \in Events, Holds(q, e)'
        PROVE  ~ InBuffer(e)' /\ ~ InRow(e)'
    BY <1>2, <1>7, <1>8, <1>9, <2>4 DEF NoEventTwice
  <2>5. ASSUME NEW q \in Payments, NEW o \in Payments, NEW e \in Events,
               Holds(q, e)', Holds(o, e)'
        PROVE  q = o
    BY <1>2, <1>8, <1>9, <2>5 DEF NoEventTwice
  <2> QED
    BY <1>6, <2>1, <2>2, <2>3, <2>4, <2>5 DEF NoEventTwice
<1> QED
  BY <1>1, <1>10, <1>11 DEF EventInv, PlacesInv, NothingEarly, EventsConserved

\* A restart leaves the rows and nothing else.
LEMMA CrashKeepsPlaces ==
  ASSUME EventInv, Crash
  PROVE  PlacesInv'
<1>1. /\ pending' = <<>> /\ UNCHANGED <<rows, sent>>
      /\ \A q \in Payments : pc'[q] \notin Flushing
  BY DEF Crash, tableVars, Flushing
<1>2. crashes' # 0
  BY DEF Crash, EventInv, Typed
<1>3. \A e : ~ InBuffer(e)' /\ (InRow(e)' <=> InRow(e))
  BY <1>1 DEF InBuffer, InRow, ToSet
<1>4. ASSUME NEW q \in Payments, NEW e PROVE ~ Holds(q, e)'
  BY <1>1 DEF Holds
<1>5. ASSUME NEW e PROVE IsSomewhere(e)' => IsSomewhere(e)
  BY <1>3, <1>4 DEF IsSomewhere
<1>6. NothingEarly'
  BY <1>1, <1>5 DEF EventInv, PlacesInv, NothingEarly
<1>7. IsInjective(pending')
  BY <1>1 DEF IsInjective
<1>8. NoEventTwice'
  BY <1>1, <1>3, <1>4, <1>7 DEF EventInv, PlacesInv, EventsConserved, NoEventTwice
<1> QED
  BY <1>2, <1>6, <1>8 DEF PlacesInv, EventsConserved

LEMMA NextKeepsEvents == EventInv /\ [Next]_vars => EventInv'
<1> SUFFICES ASSUME EventInv, [Next]_vars PROVE EventInv'
  OBVIOUS
<1>1. Typed' /\ OneLeft'
  BY NextTyped DEF EventInv
<1> USE DEF tableVars, bufferVars
<1>2. pc \in [Payments -> Labels] /\ DOMAIN hand = Payments
  BY DEF EventInv, Typed
<1>3. ASSUME NEW p \in Payments, RecordPayment(p) PROVE PlacesInv'
  BY <1>2, <1>3, SamePlaces DEF RecordPayment, Goto, Flushing, EventInv
<1>4. ASSUME NEW p \in Payments, GetLatestBlock(p) PROVE PlacesInv'
  <2>1. /\ UNCHANGED <<pending, rows, sent, crashes>>
        /\ pc[p] = "latest"
        /\ \E label \in {"block", "requeue"} : pc' = [pc EXCEPT ![p] = label]
        /\ hand' = hand \/ hand' = [hand EXCEPT ![p] = Held(hand[p].events, LatestBlock)]
    BY <1>4 DEF GetLatestBlock, Goto, AfterError
  <2>2. \A q \in Payments : hand'[q].events = hand[q].events
    BY <1>2, <2>1 DEF Held
  <2>3. \A q \in Payments : pc'[q] \in Flushing <=> pc[q] \in Flushing
    BY <1>2, <2>1 DEF Flushing
  <2> QED
    BY <2>1, <2>2, <2>3, SamePlaces DEF EventInv
<1>5. ASSUME NEW p \in Payments, InsertChainBlock(p) PROVE PlacesInv'
  <2>1. /\ UNCHANGED <<pending, rows, sent, crashes, hand>>
        /\ pc[p] = "block"
        /\ \E label \in {"batch", "requeue"} : pc' = [pc EXCEPT ![p] = label]
    BY <1>5 DEF InsertChainBlock, Goto, AfterError
  <2>2. \A q \in Payments : pc'[q] \in Flushing <=> pc[q] \in Flushing
    BY <1>2, <2>1 DEF Flushing
  <2> QED
    BY <2>1, <2>2, SamePlaces DEF EventInv
<1>6. ASSUME NEW p \in Payments, CreateChainBatch(p) PROVE PlacesInv'
  <2>1. /\ UNCHANGED <<pending, rows, sent, crashes, hand>>
        /\ pc[p] = "batch"
        /\ \E label \in {"events", "requeue"} : pc' = [pc EXCEPT ![p] = label]
    BY <1>6 DEF CreateChainBatch, Goto, AfterError
  <2>2. \A q \in Payments : pc'[q] \in Flushing <=> pc[q] \in Flushing
    BY <1>2, <2>1 DEF Flushing
  <2> QED
    BY <2>1, <2>2, SamePlaces DEF EventInv
<1>7. ASSUME NEW p \in Payments, InsertChainEvents(p) PROVE PlacesInv'
  <2>1. UNCHANGED <<pending, sent, crashes, hand>> /\ pc[p] = "events"
    BY <1>7 DEF InsertChainEvents
  <2>2. CASE rows' = rows \cup EventRows(p) /\ pc' = [pc EXCEPT ![p] = "log"]
    BY <2>1, <2>2, InsertKeepsPlaces
  <2>3. CASE UNCHANGED rows /\ pc' = [pc EXCEPT ![p] = "requeue"]
    <3>1. \A q \in Payments : pc'[q] \in Flushing <=> pc[q] \in Flushing
      BY <1>2, <2>1, <2>3 DEF Flushing
    <3> QED
      BY <2>1, <2>3, <3>1, SamePlaces DEF EventInv
  <2> QED
    BY <1>7, <2>1, <2>2, <2>3 DEF InsertChainEvents, Goto, AfterError
<1>8. ASSUME NEW p \in Payments, InsertSubmitLog(p) PROVE PlacesInv'
  <2>1. /\ UNCHANGED <<pending, rows, sent, crashes>>
        /\ pc[p] = "log" /\ hand' = [hand EXCEPT ![p] = NoHand]
        /\ \E label \in {"done", "enqueue"} : pc' = [pc EXCEPT ![p] = label]
    BY <1>8 DEF InsertSubmitLog, Goto, AfterError, AfterEvent
  <2>2. \A q \in Payments : pc'[q] \in Flushing <=> pc[q] \in Flushing
    BY <1>2, <2>1 DEF Flushing
  <2>3. pc[p] \notin Flushing /\ \A q \in Payments \ {p} : hand'[q] = hand[q]
    BY <1>2, <2>1 DEF Flushing
  <2> QED
    BY <2>1, <2>2, <2>3, SamePlaces DEF EventInv
<1>9. ASSUME UNCHANGED vars PROVE PlacesInv'
  BY <1>9, SamePlaces DEF vars, EventInv
<1>10. PlacesInv'
  BY <1>3, <1>4, <1>5, <1>6, <1>7, <1>8, <1>9,
     EnqueueKeepsPlaces, TakeKeepsPlaces, RequeueKeepsPlaces, CrashKeepsPlaces
  DEF Next, RecorderStep
<1> QED
  BY <1>1, <1>10 DEF EventInv

\* What enqueueEvent, flushBatch and commitBatch do with an event neither
\* doubles it nor, while the process runs, loses it.
THEOREM EventsAreConserved == Spec => []EventsConserved
<1>1. Spec => []EventInv
  BY InitEvents, NextKeepsEvents, PTL DEF Spec
<1>2. EventInv => EventsConserved
  BY DEF EventInv, PlacesInv
<1> QED
  BY <1>1, <1>2, PTL

-----------------------------------------------------------------------------
(* The bookkeeping of batches.                                              *)

\* A batch is submitted, and its events are being inserted, after it has a row.
BatchesRecorded ==
  /\ \A id \in submitted : HasBatch(id)
  /\ \A p \in Payments : pc[p] \in {"events", "log"} => HasBatch(BatchId(p))

Bounded == faults \in 0..MaxFaults /\ crashes \in 0..MaxCrashes

\* A step that ends at most where no batch is at hand leaves the rows as they were.
LEMMA SameBatches ==
  ASSUME BatchesRecorded, UNCHANGED <<batches, submitted>>,
         \A p \in Payments : pc'[p] \in {"events", "log"} => pc[p] \in {"events", "log"} /\ sent'[p] = sent[p]
  PROVE  BatchesRecorded'
  BY DEF BatchesRecorded, HasBatch, BatchId

LEMMA NextKeepsBounds == Bounded /\ [Next]_vars => Bounded'
<1> SUFFICES ASSUME Bounded, [Next]_vars PROVE Bounded'
  OBVIOUS
<1>1. /\ MaxFaults \in Nat /\ MaxCrashes \in Nat
  BY ChainAssumption
<1>2. ASSUME Succeeds \/ Misfortune, UNCHANGED crashes PROVE Bounded'
  BY <1>1, <1>2 DEF Succeeds, Misfortune, Bounded
<1>3. ASSUME NEW p \in Payments, RecordPayment(p) \/ RecorderStep(p) PROVE Bounded'
  <2>1. UNCHANGED crashes
    BY <1>3 DEF RecordPayment, RecorderStep, EnqueueEvent, TakeEvents, GetLatestBlock,
                InsertChainBlock, CreateChainBatch, InsertChainEvents, InsertSubmitLog, RequeueEvents
  <2>2. Succeeds \/ Misfortune
    BY <1>3 DEF RecordPayment, RecorderStep, EnqueueEvent, TakeEvents, GetLatestBlock,
                InsertChainBlock, CreateChainBatch, InsertChainEvents, InsertSubmitLog,
                RequeueEvents, Succeeds, Fails, Late
  <2> QED
    BY <1>2, <2>1, <2>2
<1>4. CASE Crash
  BY <1>1, <1>4 DEF Crash, Bounded
<1>5. CASE UNCHANGED vars
  BY <1>5 DEF vars, Bounded
<1> QED
  BY <1>3, <1>4, <1>5 DEF Next

LEMMA NextKeepsBatches == Typed /\ BatchesRecorded /\ [Next]_vars => BatchesRecorded'
<1> SUFFICES ASSUME Typed, BatchesRecorded, [Next]_vars PROVE BatchesRecorded'
  OBVIOUS
<1>0. pc \in [Payments -> Labels] /\ sent \in [Payments -> 0..2]
  BY DEF Typed
<1> USE DEF tableVars, bufferVars, Goto
<1>1. ASSUME NEW p \in Payments, RecordPayment(p) PROVE BatchesRecorded'
  BY <1>0, <1>1, SameBatches DEF RecordPayment
<1>2. ASSUME NEW p \in Payments, EnqueueEvent(p) PROVE BatchesRecorded'
  <2>1. /\ UNCHANGED <<batches, submitted>>
        /\ sent' = [sent EXCEPT ![p] = @ + 1]
        /\ \E label \in {"take", "enqueue", "done"} : pc' = [pc EXCEPT ![p] = label]
    BY <1>2 DEF EnqueueEvent, AfterEvent
  <2> QED
    BY <1>0, <2>1, SameBatches
<1>3. ASSUME NEW p \in Payments, TakeEvents(p) PROVE BatchesRecorded'
  BY <1>0, <1>3, SameBatches DEF TakeEvents, AfterEvent
<1>4. ASSUME NEW p \in Payments, GetLatestBlock(p) PROVE BatchesRecorded'
  <2>1. /\ UNCHANGED <<batches, submitted, sent>>
        /\ \E label \in {"block", "requeue"} : pc' = [pc EXCEPT ![p] = label]
    BY <1>4 DEF GetLatestBlock, AfterError
  <2> QED
    BY <1>0, <2>1, SameBatches
<1>5. ASSUME NEW p \in Payments, InsertChainBlock(p) PROVE BatchesRecorded'
  <2>1. /\ UNCHANGED <<batches, submitted, sent>>
        /\ \E label \in {"batch", "requeue"} : pc' = [pc EXCEPT ![p] = label]
    BY <1>5 DEF InsertChainBlock, AfterError
  <2> QED
    BY <1>0, <2>1, SameBatches
<1>6. ASSUME NEW p \in Payments, CreateChainBatch(p) PROVE BatchesRecorded'
  <2>1. UNCHANGED <<submitted, sent>>
    BY <1>6 DEF CreateChainBatch
  <2>2. CASE UNCHANGED batches /\ pc' = [pc EXCEPT ![p] = "requeue"]
    BY <1>0, <2>1, <2>2, SameBatches
  <2>3. CASE /\ batches' = batches \cup {[batch |-> BatchId(p), height |-> hand[p].tip.height + 1]}
             /\ pc' = [pc EXCEPT ![p] = "events"]
    <3>1. \A id : HasBatch(id) => HasBatch(id)'
      BY <2>3 DEF HasBatch
    <3>2. \E b \in batches' : b.batch = BatchId(p)
      <4> DEFINE new == [batch |-> BatchId(p), height |-> hand[p].tip.height + 1]
      <4>1. new \in batches'
        BY <2>3
      <4>2. new.batch = BatchId(p)
        OBVIOUS
      <4> QED
        BY <4>1, <4>2
    <3>3. \A q \in Payments : q # p => pc'[q] = pc[q]
      BY <1>0, <2>3
    <3>4. \A q \in Payments : BatchId(q)' = BatchId(q)
      BY <2>1 DEF BatchId
    <3>5. HasBatch(BatchId(p))'
      BY <3>2, <3>4 DEF HasBatch
    <3> QED
      BY <2>1, <3>1, <3>3, <3>4, <3>5 DEF BatchesRecorded
  <2> QED
    BY <1>6, <2>2, <2>3 DEF CreateChainBatch, AfterError
<1>7. ASSUME NEW p \in Payments, InsertChainEvents(p) PROVE BatchesRecorded'
  <2>1. /\ UNCHANGED <<batches, submitted, sent>>
        /\ pc[p] = "events"
        /\ \E label \in {"log", "requeue"} : pc' = [pc EXCEPT ![p] = label]
    BY <1>7 DEF InsertChainEvents, AfterError
  <2> QED
    BY <1>0, <2>1, SameBatches
<1>8. ASSUME NEW p \in Payments, InsertSubmitLog(p) PROVE BatchesRecorded'
  <2>1. /\ UNCHANGED <<batches, sent>>
        /\ pc[p] = "log"
        /\ submitted' = submitted \/ submitted' = submitted \cup {BatchId(p)}
        /\ \E label \in {"done", "enqueue"} : pc' = [pc EXCEPT ![p] = label]
    BY <1>8 DEF InsertSubmitLog, AfterError, AfterEvent
  <2>2. \A id : HasBatch(id)' <=> HasBatch(id)
    BY <2>1 DEF HasBatch
  <2>3. \A q \in Payments : BatchId(q)' = BatchId(q)
    BY <2>1 DEF BatchId
  <2>4. \A q \in Payments : pc'[q] \in {"events", "log"} => pc[q] \in {"events", "log"}
    BY <1>0, <2>1
  <2> QED
    BY <2>1, <2>2, <2>3, <2>4 DEF BatchesRecorded
<1>9. ASSUME NEW p \in Payments, RequeueEvents(p) PROVE BatchesRecorded'
  BY <1>0, <1>9, SameBatches DEF RequeueEvents, AfterEvent
<1>10. CASE Crash
  BY <1>0, <1>10, SameBatches DEF Crash
<1>11. CASE UNCHANGED vars
  BY <1>11, SameBatches DEF vars
<1> QED
  BY <1>1, <1>2, <1>3, <1>4, <1>5, <1>6, <1>7, <1>8, <1>9, <1>10, <1>11
  DEF Next, RecorderStep

\* Buffer, goroutines and tables of the audit service keep their shape; in
\* particular nothing is submitted without a batch row, and every goroutine
\* builds on a block that exists.
THEOREM TypeCorrect == Spec => []TypeOK
<1>1. Init => BatchesRecorded /\ Bounded
  BY ChainAssumption DEF Init, BatchesRecorded, Bounded
<1>2. Spec => []ChainInv
  BY InitChain, NextKeepsChain, PTL DEF Spec
<1>3. Spec => []EventInv
  BY InitEvents, NextKeepsEvents, PTL DEF Spec
<1>4. Spec => []Bounded
  BY <1>1, NextKeepsBounds, PTL DEF Spec
<1>5. EventInv => Typed
  BY DEF EventInv
<1>6. Spec => []BatchesRecorded
  BY <1>1, <1>3, <1>5, NextKeepsBatches, PTL DEF Spec
<1>7. ChainInv /\ EventInv /\ Bounded /\ BatchesRecorded => TypeOK
  BY DEF ChainInv, TipsKnown, HeightsAreNat, EventInv, Typed, Bounded, BatchesRecorded,
         HasBatch, TypeOK
<1> QED
  BY <1>2, <1>3, <1>4, <1>6, <1>7, PTL

-----------------------------------------------------------------------------
(* What is submitted.                                                       *)

RowsOf(id) == { r \in rows : r.batch = id }

Complete(id) ==
  \E b \in blocks : /\ b.batch = id
                    /\ [batch |-> id, height |-> b.height] \in batches
                    /\ Cardinality(RowsOf(id)) = b.count

\* A batch whose events were inserted: its goroutine has got further.
Inserted(id) ==
  \E p \in Payments : \E n \in 0..2 :
    /\ id = <<p, n>> /\ n <= sent[p]
    /\ n = sent[p] => pc[p] \in {"log", "enqueue", "done"}

\* The block of the batch at hand.
HasBlock(p) ==
  \E b \in blocks : /\ b.batch = BatchId(p)
                    /\ b.height = hand[p].tip.height + 1
                    /\ b.count = Len(hand[p].events)

SubmitInv ==
  /\ \A r \in rows : Inserted(r.batch)
  /\ \A id \in submitted : Inserted(id) /\ Complete(id)
  /\ \A p \in Payments :
       /\ pc[p] \in {"batch", "events"} => HasBlock(p)
       /\ pc[p] = "events" =>
            [batch |-> BatchId(p), height |-> hand[p].tip.height + 1] \in batches
       /\ pc[p] = "log" => Complete(BatchId(p))

\* One row for each event, as an event is not twice in a batch.
LEMMA OneRowEach ==
  ASSUME NEW p \in Payments, hand[p].events \in Seq(Events), IsInjective(hand[p].events)
  PROVE  Cardinality(EventRows(p)) = Len(hand[p].events)
<1> DEFINE events == hand[p].events
<1> DEFINE f == [i \in 1..Len(events) |->
                   [event |-> events[i], height |-> hand[p].tip.height + 1, batch |-> BatchId(p),
                    proof |-> MerkleProof(Hashes(events), i)]]
<1>1. DOMAIN events = 1..Len(events) /\ Len(events) \in Nat
  OBVIOUS
<1>2. EventRows(p) = { f[i] : i \in 1..Len(events) }
  BY <1>1 DEF EventRows
<1>3. \A i \in 1..Len(events) : f[i].event = events[i]
  OBVIOUS
<1>4. \A i, j \in 1..Len(events) : events[i] = events[j] => i = j
  BY <1>1 DEF IsInjective
<1>5. f \in [1..Len(events) -> EventRows(p)]
  BY <1>2
<1> HIDE DEF f
<1>6. f \in Bijection(1..Len(events), EventRows(p))
  <2>1. IsInjective(f)
    BY <1>3, <1>4, <1>5 DEF IsInjective
  <2>2. f \in Injection(1..Len(events), EventRows(p))
    BY <1>5, <2>1 DEF Injection
  <2>3. f \in Surjection(1..Len(events), EventRows(p))
    BY <1>2, <1>5 DEF Surjection
  <2> QED
    BY <2>2, <2>3 DEF Bijection
<1>7. ExistsBijection(1..Len(events), EventRows(p))
  BY <1>6 DEF ExistsBijection
<1>8. IsFiniteSet(1..Len(events)) /\ Cardinality(1..Len(events)) = Len(events)
  BY <1>1, FS_Interval
<1> QED
  BY <1>7, <1>8, FS_Bijection

\* A batch stays inserted, its block and its batch row stay, and its rows too
\* unless its own are inserted.
LEMMA StaysComplete ==
  ASSUME NEW id, Complete(id), blocks \subseteq blocks', batches \subseteq batches',
         RowsOf(id)' = RowsOf(id)
  PROVE  Complete(id)'
BY DEF Complete

LEMMA StaysInserted ==
  ASSUME NEW id, Inserted(id), sent \in [Payments -> 0..2], sent' \in [Payments -> 0..2],
         \A p \in Payments :
           \/ sent'[p] = sent[p] /\ (pc[p] \in {"log", "enqueue", "done"}
                                     => pc'[p] \in {"log", "enqueue", "done"})
           \/ sent'[p] = sent[p] + 1
  PROVE  Inserted(id)'
<1>1. PICK p \in Payments, n \in 0..2 :
        /\ id = <<p, n>> /\ n <= sent[p]
        /\ n = sent[p] => pc[p] \in {"log", "enqueue", "done"}
  BY DEF Inserted
<1>2. n <= sent'[p] /\ (n = sent'[p] => pc'[p] \in {"log", "enqueue", "done"})
  BY <1>1
<1> QED
  BY <1>1, <1>2 DEF Inserted

\* A step of a goroutine whose batch is not at hand, or that drops it.
LEMMA SameSubmissions ==
  ASSUME Typed, Typed', SubmitInv, UNCHANGED tableVars,
         \A p \in Payments :
           \/ UNCHANGED <<sent[p], hand[p], pc[p]>>
           \/ /\ sent'[p] = sent[p] \/ sent'[p] = sent[p] + 1
              /\ sent'[p] = sent[p] /\ pc[p] \in {"log", "enqueue", "done"}
                   => pc'[p] \in {"log", "enqueue", "done"}
              /\ pc'[p] \notin {"batch", "events", "log"}
  PROVE  SubmitInv'
<1>1. \A id : Inserted(id) => Inserted(id)'
  BY StaysInserted DEF Typed
<1>2. \A id : Complete(id) => Complete(id)'
  BY StaysComplete DEF tableVars, RowsOf
<1>3. \A p \in Payments :
        pc'[p] \in {"batch", "events", "log"} =>
          pc'[p] = pc[p] /\ BatchId(p)' = BatchId(p) /\ hand'[p] = hand[p]
  BY DEF BatchId
<1>4. \A p \in Payments : pc'[p] \in {"batch", "events"} => HasBlock(p)'
  BY <1>3 DEF SubmitInv, HasBlock, tableVars
<1>5. \A p \in Payments : pc'[p] = "events" =>
        [batch |-> BatchId(p)', height |-> hand'[p].tip.height + 1] \in batches'
  BY <1>3 DEF SubmitInv, tableVars
<1>6. \A p \in Payments : pc'[p] = "log" => Complete(BatchId(p))'
  <2> SUFFICES ASSUME NEW p \in Payments, pc'[p] = "log" PROVE Complete(BatchId(p))'
    OBVIOUS
  <2>1. pc[p] = "log" /\ BatchId(p)' = BatchId(p)
    BY <1>3
  <2>2. Complete(BatchId(p))
    BY <2>1 DEF SubmitInv
  <2> QED
    BY <2>1, <2>2 DEF Complete, RowsOf, tableVars
<1> QED
  BY <1>1, <1>2, <1>4, <1>5, <1>6 DEF SubmitInv, tableVars

\* A statement of one goroutine leaves the batches of the others as they are.
LEMMA OtherBatches ==
  ASSUME SubmitInv, NEW p \in Payments, UNCHANGED <<sent, hand>>,
         \A q \in Payments \ {p} : pc'[q] = pc[q],
         blocks \subseteq blocks', batches \subseteq batches',
         \A q \in Payments \ {p} : RowsOf(BatchId(q))' = RowsOf(BatchId(q))
  PROVE  \A q \in Payments \ {p} :
           /\ pc'[q] \in {"batch", "events"} => HasBlock(q)'
           /\ pc'[q] = "events" =>
                [batch |-> BatchId(q)', height |-> hand'[q].tip.height + 1] \in batches'
           /\ pc'[q] = "log" => Complete(BatchId(q))'
<1> SUFFICES ASSUME NEW q \in Payments \ {p}
             PROVE  /\ pc'[q] \in {"batch", "events"} => HasBlock(q)'
                    /\ pc'[q] = "events" =>
                         [batch |-> BatchId(q)', height |-> hand'[q].tip.height + 1] \in batches'
                    /\ pc'[q] = "log" => Complete(BatchId(q))'
  OBVIOUS
<1>1. pc'[q] = pc[q] /\ BatchId(q)' = BatchId(q) /\ hand'[q] = hand[q]
  BY DEF BatchId
<1>2. pc'[q] \in {"batch", "events"} => HasBlock(q)'
  BY <1>1 DEF SubmitInv, HasBlock
<1>3. pc'[q] = "events" =>
        [batch |-> BatchId(q)', height |-> hand'[q].tip.height + 1] \in batches'
  BY <1>1 DEF SubmitInv
<1>4. ASSUME pc'[q] = "log" PROVE Complete(BatchId(q))'
  <2>1. Complete(BatchId(q))
    BY <1>1, <1>4 DEF SubmitInv
  <2>2. RowsOf(BatchId(q))' = RowsOf(BatchId(q))
    OBVIOUS
  <2> QED
    BY <1>1, <2>1, <2>2 DEF Complete
<1> QED
  BY <1>2, <1>3, <1>4

LEMMA BlockKeepsSubmissions ==
  ASSUME Typed, Typed', SubmitInv, NEW p \in Payments, pc[p] = "block",
         pc' = [pc EXCEPT ![p] = "batch"], NEW late \in BOOLEAN,
         blocks' = blocks \cup {NewBlock(p, late)},
         UNCHANGED <<sent, hand, batches, rows, submitted>>
  PROVE  SubmitInv'
<1>1. \A id : Inserted(id) => Inserted(id)'
  BY StaysInserted DEF Typed
<1>2. \A id : RowsOf(id)' = RowsOf(id)
  BY DEF RowsOf
<1>3. \A id : Complete(id) => Complete(id)'
  BY <1>2, StaysComplete
<1>4. pc'[p] = "batch" /\ \A q \in Payments \ {p} : pc'[q] = pc[q]
  BY DEF Typed
<1>5. BatchId(p)' = BatchId(p) /\ hand'[p] = hand[p]
  BY DEF BatchId
<1>6. /\ NewBlock(p, late).batch = BatchId(p)
      /\ NewBlock(p, late).height = hand[p].tip.height + 1
      /\ NewBlock(p, late).count = Len(hand[p].events)
  BY DEF NewBlock, Block
<1>7. HasBlock(p)'
  BY <1>5, <1>6 DEF HasBlock
<1>8. \A q \in Payments \ {p} : RowsOf(BatchId(q))' = RowsOf(BatchId(q))
  BY DEF RowsOf, BatchId
<1> QED
  BY <1>1, <1>3, <1>4, <1>7, <1>8, OtherBatches DEF SubmitInv

LEMMA BatchKeepsSubmissions ==
  ASSUME Typed, Typed', SubmitInv, NEW p \in Payments, pc[p] = "batch",
         pc' = [pc EXCEPT ![p] = "events"],
         batches' = batches \cup {[batch |-> BatchId(p), height |-> hand[p].tip.height + 1]},
         UNCHANGED <<sent, hand, blocks, rows, submitted>>
  PROVE  SubmitInv'
<1>1. \A id : Inserted(id) => Inserted(id)'
  BY StaysInserted DEF Typed
<1>2. \A id : RowsOf(id)' = RowsOf(id)
  BY DEF RowsOf
<1>3. \A id : Complete(id) => Complete(id)'
  BY <1>2, StaysComplete
<1>4. pc'[p] = "events" /\ \A q \in Payments \ {p} : pc'[q] = pc[q]
  BY DEF Typed
<1>5. BatchId(p)' = BatchId(p) /\ hand'[p] = hand[p]
  BY DEF BatchId
<1>6. HasBlock(p)'
  BY <1>5 DEF HasBlock, SubmitInv
<1>7. [batch |-> BatchId(p)', height |-> hand'[p].tip.height + 1] \in batches'
  BY <1>5
<1>8. \A q \in Payments \ {p} : RowsOf(BatchId(q))' = RowsOf(BatchId(q))
  BY DEF RowsOf, BatchId
<1> QED
  BY <1>1, <1>3, <1>4, <1>6, <1>7, <1>8, OtherBatches DEF SubmitInv

\* The rows of a batch are inserted at once, and before that it had none.
LEMMA EventsKeepSubmissions ==
  ASSUME Typed, Typed', PlacesInv, SubmitInv, NEW p \in Payments, pc[p] = "events",
         pc' = [pc EXCEPT ![p] = "log"], rows' = rows \cup EventRows(p),
         UNCHANGED <<sent, hand, blocks, batches, submitted>>
  PROVE  SubmitInv'
<1>1. \A id : Inserted(id) => Inserted(id)'
  BY StaysInserted DEF Typed
<1>2. pc'[p] = "log" /\ \A q \in Payments \ {p} : pc'[q] = pc[q]
  BY DEF Typed
<1>3. BatchId(p) = <<p, sent[p]>> /\ sent[p] \in 0..2 /\ sent'[p] = sent[p]
  BY DEF BatchId, Typed
<1>4. ~ Inserted(BatchId(p))
  BY <1>3 DEF Inserted
<1>5. \A id : id = BatchId(p) => Inserted(id)'
  <2> SUFFICES ASSUME NEW id, id = BatchId(p) PROVE Inserted(id)'
    OBVIOUS
  <2>1. id = <<p, sent[p]>> /\ sent'[p] <= sent[p]
    BY <1>3
  <2>2. id = <<p, sent'[p]>> /\ sent'[p] \in 0..2 /\ sent'[p] <= sent'[p]
    BY <1>3, <2>1
  <2> QED
    BY <1>2, <2>2 DEF Inserted
<1>6. \A r \in EventRows(p) : r.batch = BatchId(p)
  BY DEF EventRows
<1>7. \A r \in rows' : Inserted(r.batch)'
  <2> SUFFICES ASSUME NEW r \in rows' PROVE Inserted(r.batch)'
    OBVIOUS
  <2>1. CASE r \in rows
    BY <1>1, <2>1 DEF SubmitInv
  <2>2. CASE r \in EventRows(p)
    BY <1>5, <1>6, <2>2
  <2> QED
    BY <2>1, <2>2
<1>8. ASSUME NEW id, id # BatchId(p) PROVE RowsOf(id)' = RowsOf(id)
  BY <1>6, <1>8 DEF RowsOf
<1>9. \A id \in submitted : Complete(id)'
  <2> SUFFICES ASSUME NEW id \in submitted PROVE Complete(id)'
    OBVIOUS
  <2>1. Complete(id) /\ id # BatchId(p)
    BY <1>4 DEF SubmitInv
  <2> QED
    BY <1>8, <2>1, StaysComplete
<1>10. \A q \in Payments \ {p} : BatchId(q) # BatchId(p) /\ BatchId(q)' = BatchId(q)
  BY DEF BatchId
<1>11. \A q \in Payments \ {p} : RowsOf(BatchId(q))' = RowsOf(BatchId(q))
  BY <1>6, <1>10 DEF RowsOf
<1>12. BatchId(p)' = BatchId(p)
  BY DEF BatchId
<1>13. RowsOf(BatchId(p))' = EventRows(p)
  BY <1>4, <1>6, <1>12 DEF RowsOf, SubmitInv
<1>14. hand[p].events \in Seq(Events) /\ IsInjective(hand[p].events)
  BY DEF Typed, PlacesInv, EventsConserved, NoEventTwice, Flushing
<1>15. Cardinality(EventRows(p)) = Len(hand[p].events)
  BY <1>14, OneRowEach
<1>16. PICK b \in blocks : /\ b.batch = BatchId(p)
                           /\ b.height = hand[p].tip.height + 1
                           /\ b.count = Len(hand[p].events)
  BY DEF SubmitInv, HasBlock
<1>17. [batch |-> BatchId(p), height |-> b.height] \in batches
  BY <1>16 DEF SubmitInv
<1>18. Complete(BatchId(p))'
  BY <1>12, <1>13, <1>15, <1>16, <1>17 DEF Complete
<1> QED
  BY <1>1, <1>2, <1>7, <1>9, <1>11, <1>18, OtherBatches DEF SubmitInv

LEMMA LogKeepsSubmissions ==
  ASSUME Typed, Typed', SubmitInv, NEW p \in Payments, InsertSubmitLog(p)
  PROVE  SubmitInv'
<1>1. /\ pc[p] = "log" /\ UNCHANGED <<sent, blocks, batches, rows>>
      /\ hand' = [hand EXCEPT ![p] = NoHand]
      /\ \E label \in {"done", "enqueue"} : pc' = [pc EXCEPT ![p] = label]
      /\ submitted' = submitted \/ submitted' = submitted \cup {BatchId(p)}
  BY DEF InsertSubmitLog, bufferVars, Goto, AfterEvent, AfterError
<1>2. \A id : Inserted(id) => Inserted(id)'
  BY <1>1, StaysInserted DEF Typed
<1>3. \A id : RowsOf(id)' = RowsOf(id)
  BY <1>1 DEF RowsOf
<1>4. \A id : Complete(id) => Complete(id)'
  BY <1>1, <1>3, StaysComplete
<1>5. Inserted(BatchId(p)) /\ Complete(BatchId(p))
  <2>1. sent[p] \in 0..2 /\ BatchId(p) = <<p, sent[p]>>
    BY DEF Typed, BatchId
  <2>2. sent[p] <= sent[p] /\ pc[p] \in {"log", "enqueue", "done"}
    BY <1>1, <2>1
  <2>3. Inserted(BatchId(p))
    BY <2>1, <2>2 DEF Inserted
  <2> QED
    BY <1>1, <2>3 DEF SubmitInv
<1>6. \A id \in submitted' : Inserted(id)' /\ Complete(id)'
  BY <1>1, <1>2, <1>4, <1>5 DEF SubmitInv
<1>7. \A r \in rows' : Inserted(r.batch)'
  BY <1>1, <1>2 DEF SubmitInv
<1>8. /\ pc'[p] \notin {"batch", "events", "log"}
      /\ \A q \in Payments \ {p} : pc'[q] = pc[q] /\ hand'[q] = hand[q] /\ BatchId(q)' = BatchId(q)
  BY <1>1 DEF Typed, BatchId
<1>9. \A q \in Payments \ {p} : pc'[q] \in {"batch", "events"} => HasBlock(q)'
  BY ZenonT(40), <1>1, <1>8 DEF SubmitInv, HasBlock
<1>10. \A q \in Payments \ {p} : pc'[q] = "events" =>
         [batch |-> BatchId(q)', height |-> hand'[q].tip.height + 1] \in batches'
  BY <1>1, <1>8 DEF SubmitInv
<1>11. ASSUME NEW q \in Payments \ {p}, pc'[q] = "log" PROVE Complete(BatchId(q))'
  <2>1. Complete(BatchId(q)) /\ BatchId(q)' = BatchId(q)
    BY <1>8, <1>11 DEF SubmitInv
  <2> QED
    BY <1>1, <2>1 DEF Complete, RowsOf
<1> QED
  BY <1>6, <1>7, <1>8, <1>9, <1>10, <1>11 DEF SubmitInv

LEMMA NextKeepsSubmissions ==
  EventInv /\ EventInv' /\ SubmitInv /\ [Next]_vars => SubmitInv'
<1> SUFFICES ASSUME EventInv, EventInv', SubmitInv, [Next]_vars PROVE SubmitInv'
  OBVIOUS
<1>0. /\ Typed /\ Typed' /\ OneLeft /\ PlacesInv
      /\ pc \in [Payments -> Labels] /\ sent \in [Payments -> 0..2] /\ DOMAIN hand = Payments
  BY DEF EventInv, Typed
<1>1. ASSUME NEW p \in Payments, UNCHANGED tableVars,
             NEW label \in {"enqueue", "done", "take", "latest", "block", "requeue"},
             pc' = [pc EXCEPT ![p] = label],
             \A q \in Payments \ {p} : hand'[q] = hand[q],
             \/ sent' = sent /\ (label \in {"enqueue", "done"} \/ pc[p] \notin {"log", "enqueue", "done"})
             \/ sent' = [sent EXCEPT ![p] = @ + 1]
      PROVE  SubmitInv'
  <2>1. \A q \in Payments \ {p} : UNCHANGED <<sent[q], hand[q], pc[q]>>
    BY <1>0, <1>1
  <2>2. /\ pc'[p] = label /\ pc'[p] \notin {"batch", "events", "log"}
        /\ sent'[p] = sent[p] \/ sent'[p] = sent[p] + 1
    BY <1>0, <1>1
  <2>3. sent'[p] = sent[p] /\ pc[p] \in {"log", "enqueue", "done"}
          => pc'[p] \in {"log", "enqueue", "done"}
    BY <1>0, <1>1, <2>2
  <2> QED
    BY <1>0, <1>1, <2>1, <2>2, <2>3, SameSubmissions
<1> USE DEF bufferVars, tableVars, Goto
<1>2. ASSUME NEW p \in Payments, RecordPayment(p) PROVE SubmitInv'
  <2>1. /\ \E label \in {"enqueue", "done"} : pc' = [pc EXCEPT ![p] = label]
        /\ sent' = sent /\ hand' = hand /\ UNCHANGED tableVars
    BY <1>2 DEF RecordPayment
  <2> QED
    BY <1>1, <2>1
<1>3. ASSUME NEW p \in Payments, EnqueueEvent(p) PROVE SubmitInv'
  <2>1. /\ \E label \in {"take", "enqueue", "done"} : pc' = [pc EXCEPT ![p] = label]
        /\ sent' = [sent EXCEPT ![p] = @ + 1] /\ hand' = hand /\ UNCHANGED tableVars
    BY <1>3 DEF EnqueueEvent, AfterEvent
  <2> QED
    BY <1>1, <2>1
<1>4. ASSUME NEW p \in Payments, TakeEvents(p) PROVE SubmitInv'
  <2>1. /\ \E label \in {"latest", "enqueue", "done"} : pc' = [pc EXCEPT ![p] = label]
        /\ sent' = sent /\ hand' = [hand EXCEPT ![p] = Held(pending, Genesis)]
        /\ UNCHANGED tableVars /\ pc[p] = "take"
    BY <1>4 DEF TakeEvents, AfterEvent
  <2>2. \A q \in Payments \ {p} : hand'[q] = hand[q]
    BY <1>0, <2>1
  <2> QED
    BY <1>1, <2>1, <2>2
<1>5. ASSUME NEW p \in Payments, GetLatestBlock(p) PROVE SubmitInv'
  <2>1. /\ \E label \in {"block", "requeue"} : pc' = [pc EXCEPT ![p] = label]
        /\ sent' = sent /\ UNCHANGED tableVars /\ pc[p] = "latest"
    BY <1>5 DEF GetLatestBlock, AfterError
  <2>2. hand' = hand \/ hand' = [hand EXCEPT ![p] = Held(hand[p].events, LatestBlock)]
    BY <1>5 DEF GetLatestBlock
  <2>3. \A q \in Payments \ {p} : hand'[q] = hand[q]
    BY <1>0, <2>2
  <2> QED
    BY <1>1, <2>1, <2>3
<1>6. ASSUME NEW p \in Payments, InsertChainBlock(p) PROVE SubmitInv'
  <2>1. pc[p] = "block" /\ UNCHANGED <<sent, hand, batches, rows, submitted>>
    BY <1>6 DEF InsertChainBlock
  <2>2. CASE UNCHANGED blocks /\ pc' = [pc EXCEPT ![p] = "requeue"]
    BY <1>1, <2>1, <2>2
  <2>3. CASE pc' = [pc EXCEPT ![p] = "batch"]
             /\ \E late \in BOOLEAN : blocks' = blocks \cup {NewBlock(p, late)}
    BY <1>0, <2>1, <2>3, BlockKeepsSubmissions
  <2> QED
    BY <1>6, <2>1, <2>2, <2>3 DEF InsertChainBlock, AfterError
<1>7. ASSUME NEW p \in Payments, CreateChainBatch(p) PROVE SubmitInv'
  <2>1. pc[p] = "batch" /\ UNCHANGED <<sent, hand, blocks, rows, submitted>>
    BY <1>7 DEF CreateChainBatch
  <2>2. CASE UNCHANGED batches /\ pc' = [pc EXCEPT ![p] = "requeue"]
    BY <1>1, <2>1, <2>2
  <2>3. CASE /\ pc' = [pc EXCEPT ![p] = "events"]
             /\ batches' = batches \cup {[batch |-> BatchId(p), height |-> hand[p].tip.height + 1]}
    BY <1>0, <2>1, <2>3, BatchKeepsSubmissions
  <2> QED
    BY <1>7, <2>1, <2>2, <2>3 DEF CreateChainBatch, AfterError
<1>8. ASSUME NEW p \in Payments, InsertChainEvents(p) PROVE SubmitInv'
  <2>1. pc[p] = "events" /\ UNCHANGED <<sent, hand, blocks, batches, submitted>>
    BY <1>8 DEF InsertChainEvents
  <2>2. CASE UNCHANGED rows /\ pc' = [pc EXCEPT ![p] = "requeue"]
    BY <1>1, <2>1, <2>2
  <2>3. CASE pc' = [pc EXCEPT ![p] = "log"] /\ rows' = rows \cup EventRows(p)
    BY <1>0, <2>1, <2>3, EventsKeepSubmissions
  <2> QED
    BY <1>8, <2>1, <2>2, <2>3 DEF InsertChainEvents, AfterError
<1>9. ASSUME NEW p \in Payments, InsertSubmitLog(p) PROVE SubmitInv'
  BY <1>0, <1>9, LogKeepsSubmissions
<1>10. ASSUME NEW p \in Payments, RequeueEvents(p) PROVE SubmitInv'
  <2>1. /\ \E label \in {"enqueue", "done"} : pc' = [pc EXCEPT ![p] = label]
        /\ sent' = sent /\ hand' = [hand EXCEPT ![p] = NoHand] /\ UNCHANGED tableVars
    BY <1>10 DEF RequeueEvents, AfterEvent
  <2>2. \A q \in Payments \ {p} : hand'[q] = hand[q]
    BY <1>0, <2>1
  <2> QED
    BY <1>1, <2>1, <2>2
<1>11. CASE Crash
  <2>1. /\ sent' = sent /\ UNCHANGED tableVars
        /\ pc' = [p \in Payments |-> IF pc[p] = "record" THEN "record" ELSE "done"]
    BY <1>11 DEF Crash
  <2>2. \A p \in Payments : pc'[p] \in {"record", "done"} /\ (pc'[p] = "record" => pc[p] = "record")
    BY <2>1
  <2> QED
    BY <1>0, <2>1, <2>2, SameSubmissions
<1>12. CASE UNCHANGED vars
  BY <1>0, <1>12, SameSubmissions DEF vars
<1> QED
  BY <1>2, <1>3, <1>4, <1>5, <1>6, <1>7, <1>8, <1>9, <1>10, <1>11, <1>12
  DEF Next, RecorderStep

\* A batch that commitBatch reports as submitted has its row, its block and a
\* row for each event the block counts, whoever fails, flushes or dies beside it.
THEOREM SubmissionsAreComplete == Spec => []SubmittedIsComplete
<1>1. Init => SubmitInv
  BY DEF Init, SubmitInv
<1>2. Spec => []EventInv
  BY InitEvents, NextKeepsEvents, PTL DEF Spec
<1>3. Spec => []SubmitInv
  BY <1>1, <1>2, NextKeepsSubmissions, PTL DEF Spec
<1>4. SubmitInv => SubmittedIsComplete
  BY DEF SubmitInv, Complete, RowsOf, SubmittedIsComplete
<1> QED
  BY <1>3, <1>4, PTL

-----------------------------------------------------------------------------
(* Merkle trees of any size.                                               *)

\* A way up from leaf i: a level and a place on it, and the next ones.
Start(hashes, i) == [level |-> hashes, place |-> i]
Up(at) == [level |-> LevelAbove(at.level), place |-> (at.place + 1) \div 2]

\* The first n steps of the way.
Climbs(h, start, n) == h = [k \in 0..n |-> IF k = 0 THEN start ELSE Up(h[k - 1])]

LEMMA ClimbsAgree ==
  ASSUME NEW start, NEW n \in Nat, NEW m \in Nat, NEW h, NEW g,
         Climbs(h, start, n), Climbs(g, start, m), NEW k \in Nat, k <= n, k <= m
  PROVE  h[k] = g[k]
<1> DEFINE Bad == { j \in Nat : j <= n /\ j <= m /\ h[j] # g[j] }
<1> SUFFICES ASSUME Bad # {} PROVE FALSE
  OBVIOUS
<1>1. PICK j \in Bad : \A l \in Bad : j <= l
  <2>1. Bad \in SUBSET Nat
    OBVIOUS
  <2> HIDE DEF Bad
  <2> QED BY <2>1, SmallestNumber
<1>2. j \in 0..n /\ j \in 0..m
  OBVIOUS
<1>3. j # 0
  BY <1>2 DEF Climbs
<1>4. j - 1 \notin Bad /\ j - 1 \in Nat /\ j - 1 <= n /\ j - 1 <= m
  BY <1>1, <1>3
<1>5. h[j - 1] = g[j - 1]
  BY <1>4
<1>6. h[j] = Up(h[j - 1]) /\ g[j] = Up(g[j - 1])
  BY <1>2, <1>3 DEF Climbs
<1> QED BY <1>5, <1>6

LEMMA ClimbsExist ==
  ASSUME NEW start, NEW n \in Nat
  PROVE  \E h : Climbs(h, start, n)
<1> DEFINE Bad == { j \in Nat : ~ \E h : Climbs(h, start, j) }
<1> SUFFICES ASSUME Bad # {} PROVE FALSE
  OBVIOUS
<1>1. PICK j \in Bad : \A l \in Bad : j <= l
  <2>1. Bad \in SUBSET Nat
    OBVIOUS
  <2> HIDE DEF Bad
  <2> QED BY <2>1, SmallestNumber
<1>2. j # 0
  <2> SUFFICES ASSUME j = 0 PROVE FALSE
    OBVIOUS
  <2> DEFINE h == [k \in 0..0 |-> start]
  <2>1. Climbs(h, start, 0)
    BY DEF Climbs
  <2> QED BY <2>1
<1>3. j - 1 \in Nat /\ j - 1 \notin Bad
  BY <1>1, <1>2
<1>4. PICK h : Climbs(h, start, j - 1)
  BY <1>3
<1> DEFINE g == [k \in 0..j |-> IF k = j THEN Up(h[j - 1]) ELSE h[k]]
<1>5. \A k \in 0..(j - 1) : g[k] = h[k] /\ (k # 0 => h[k] = Up(h[k - 1])) /\ h[0] = start
  BY <1>3, <1>4 DEF Climbs
<1>6. \A k \in 0..j : g[k] = IF k = 0 THEN start ELSE Up(g[k - 1])
  <2> SUFFICES ASSUME NEW k \in 0..j PROVE g[k] = IF k = 0 THEN start ELSE Up(g[k - 1])
    OBVIOUS
  <2>1. CASE k = j
    <3>1. g[k] = Up(h[j - 1]) /\ g[j - 1] = h[j - 1]
      BY <1>2, <1>3, <2>1
    <3> HIDE DEF g
    <3> QED BY <1>2, <2>1, <3>1
  <2>2. CASE k # j /\ k # 0
    <3>1. k \in 0..(j - 1) /\ k - 1 \in 0..(j - 1)
      BY <1>3, <2>2
    <3> HIDE DEF g
    <3> QED BY <1>5, <2>2, <3>1
  <2>3. CASE k = 0
    <3>1. k \in 0..(j - 1)
      BY <1>3, <2>3
    <3> HIDE DEF g
    <3> QED BY <1>5, <2>3, <3>1
  <2> QED BY <2>1, <2>2, <2>3
<1>7. Climbs(g, start, j)
  <2>1. g = [k \in 0..j |-> g[k]]
    OBVIOUS
  <2> HIDE DEF g
  <2> QED BY <1>6, <2>1 DEF Climbs
<1> QED BY <1>1, <1>7

\* The whole way.
LEMMA WayUp ==
  ASSUME NEW start
  PROVE  \E f : f = [k \in Nat |-> IF k = 0 THEN start ELSE Up(f[k - 1])]
<1> DEFINE c(n) == CHOOSE h : Climbs(h, start, n)
           f == [k \in Nat |-> c(k)[k]]
<1>1. ASSUME NEW n \in Nat PROVE Climbs(c(n), start, n)
  BY ClimbsExist
<1>2. ASSUME NEW k \in Nat PROVE f[k] = IF k = 0 THEN start ELSE Up(f[k - 1])
  <2>1. Climbs(c(k), start, k) /\ f[k] = c(k)[k]
    BY <1>1
  <2>2. CASE k = 0
    <3>1. c(k)[k] = start
      <4> HIDE DEF c, f
      <4> QED BY <2>1, <2>2 DEF Climbs
    <3> HIDE DEF c, f
    <3> QED BY <2>1, <2>2, <3>1
  <2>3. CASE k # 0
    <3>1. k - 1 \in Nat
      BY <2>3
    <3>2. Climbs(c(k - 1), start, k - 1) /\ f[k - 1] = c(k - 1)[k - 1]
      BY <1>1, <3>1
    <3> HIDE DEF c, f
    <3>3. c(k)[k - 1] = c(k - 1)[k - 1]
      BY <2>1, <3>1, <3>2, ClimbsAgree
    <3>4. c(k)[k] = Up(c(k)[k - 1])
      BY <2>1, <2>3 DEF Climbs
    <3> QED BY <2>1, <2>3, <3>2, <3>3, <3>4
  <2> QED BY <2>2, <2>3
<1>3. f = [k \in Nat |-> f[k]]
  OBVIOUS
<1> HIDE DEF f
<1>4. f = [k \in Nat |-> IF k = 0 THEN start ELSE Up(f[k - 1])]
  BY <1>2, <1>3
<1> QED BY <1>4

\* The two recursive functions of MerkleTree are what they are defined to be.
LEMMA LevelsClimb ==
  ASSUME NEW hashes
  PROVE  /\ Levels(hashes)[0] = hashes
         /\ \A k \in Nat : Levels(hashes)[k + 1] = LevelAbove(Levels(hashes)[k])
<1> DEFINE start == Start(hashes, 1)
           L == Levels(hashes)
<1>1. PICK f : f = [k \in Nat |-> IF k = 0 THEN start ELSE Up(f[k - 1])]
  BY WayUp
<1> DEFINE g == [k \in Nat |-> f[k].level]
<1>2. ASSUME NEW k \in Nat PROVE g[k] = IF k = 0 THEN hashes ELSE LevelAbove(g[k - 1])
  <2>1. CASE k = 0
    BY <1>1, <2>1 DEF Start
  <2>2. CASE k # 0
    <3>1. k - 1 \in Nat /\ f[k] = Up(f[k - 1])
      BY <1>1, <2>2
    <3>2. f[k].level = LevelAbove(f[k - 1].level)
      BY <3>1 DEF Up
    <3> QED BY <2>2, <3>1, <3>2
  <2> QED BY <2>1, <2>2
<1>3. g = [k \in Nat |-> g[k]]
  OBVIOUS
<1> HIDE DEF g
<1>4. g = [k \in Nat |-> IF k = 0 THEN hashes ELSE LevelAbove(g[k - 1])]
  BY <1>2, <1>3
<1>5. L = [k \in Nat |-> IF k = 0 THEN hashes ELSE LevelAbove(L[k - 1])]
  BY <1>4 DEF Levels
<1> HIDE DEF L
<1>6. L[0] = hashes
  BY <1>5
<1>7. ASSUME NEW k \in Nat PROVE L[k + 1] = LevelAbove(L[k])
  <2>1. k + 1 \in Nat /\ k + 1 # 0 /\ (k + 1) - 1 = k
    OBVIOUS
  <2> QED BY <1>5, <2>1
<1> QED BY <1>6, <1>7 DEF L

LEMMA AncestorsClimb ==
  ASSUME NEW i
  PROVE  /\ Ancestor(i)[0] = i
         /\ \A k \in Nat : Ancestor(i)[k + 1] = (Ancestor(i)[k] + 1) \div 2
<1> DEFINE start == Start(<<>>, i)
           L == Ancestor(i)
<1>1. PICK f : f = [k \in Nat |-> IF k = 0 THEN start ELSE Up(f[k - 1])]
  BY WayUp
<1> DEFINE g == [k \in Nat |-> f[k].place]
<1>2. ASSUME NEW k \in Nat PROVE g[k] = IF k = 0 THEN i ELSE (g[k - 1] + 1) \div 2
  <2>1. CASE k = 0
    BY <1>1, <2>1 DEF Start
  <2>2. CASE k # 0
    <3>1. k - 1 \in Nat /\ f[k] = Up(f[k - 1])
      BY <1>1, <2>2
    <3>2. f[k].place = (f[k - 1].place + 1) \div 2
      BY <3>1 DEF Up
    <3> QED BY <2>2, <3>1, <3>2
  <2> QED BY <2>1, <2>2
<1>3. g = [k \in Nat |-> g[k]]
  OBVIOUS
<1> HIDE DEF g
<1>4. g = [k \in Nat |-> IF k = 0 THEN i ELSE (g[k - 1] + 1) \div 2]
  BY <1>2, <1>3
<1>5. L = [k \in Nat |-> IF k = 0 THEN i ELSE (L[k - 1] + 1) \div 2]
  BY <1>4 DEF Ancestor
<1> HIDE DEF L
<1>6. L[0] = i
  BY <1>5
<1>7. ASSUME NEW k \in Nat PROVE L[k + 1] = (L[k] + 1) \div 2
  <2>1. k + 1 \in Nat /\ k + 1 # 0 /\ (k + 1) - 1 = k
    OBVIOUS
  <2> QED BY <1>5, <2>1
<1> QED BY <1>6, <1>7 DEF L

\* A level of n nodes, and the one above it.
IsLevel(level, n) == n \in Nat \ {0} /\ Len(level) = n /\ DOMAIN level = 1..n

LEMMA LenOfFunction ==
  ASSUME NEW n \in Nat, NEW f, f = [i \in 1..n |-> f[i]]
  PROVE  Len(f) = n
<1> DEFINE S == { f[i] : i \in 1..n }
<1>1. f \in [1..n -> S]
  OBVIOUS
<1> HIDE DEF S
<1>2. f \in Seq(S)
  BY <1>1, SeqDef
<1>3. Len(f) \in Nat /\ DOMAIN f = 1..Len(f)
  BY <1>2, LenProperties
<1>4. DOMAIN f = 1..n
  BY <1>1
<1> QED BY <1>3, <1>4

LEMMA AboveIsLevel ==
  ASSUME NEW level, NEW n, IsLevel(level, n)
  PROVE  /\ IsLevel(LevelAbove(level), (n + 1) \div 2)
         /\ \A a \in 1..n : LevelAbove(level)[(a + 1) \div 2] = Parent(level[a], Sibling(level, a))
<1> DEFINE m == (n + 1) \div 2
           above == LevelAbove(level)
<1>1. n \in Nat \ {0} /\ m \in Nat \ {0} /\ Len(level) = n
  BY DEF IsLevel
<1>2. above = [i \in 1..m |-> Parent(level[2 * i - 1], level[IF 2 * i <= n THEN 2 * i ELSE 2 * i - 1])]
  BY <1>1 DEF LevelAbove
<1>3. above = [i \in 1..m |-> above[i]] /\ DOMAIN above = 1..m
  BY <1>2
<1>4. IsLevel(above, m)
  <2> HIDE DEF above, m
  <2> QED BY <1>1, <1>3, LenOfFunction DEF IsLevel
<1>5. ASSUME NEW a \in 1..n PROVE above[(a + 1) \div 2] = Parent(level[a], Sibling(level, a))
  <2> DEFINE b == (a + 1) \div 2
  <2>1. b \in 1..m /\ (2 * b = a \/ 2 * b = a + 1)
    BY <1>1
  <2>2. above[b] = Parent(level[2 * b - 1], level[IF 2 * b <= n THEN 2 * b ELSE 2 * b - 1])
    <3> HIDE DEF b, m, above
    <3> QED BY <1>2, <2>1
  <2>3. CASE 2 * b = a
    <3>1. a % 2 = 0
      BY <2>1, <2>3
    <3>2. Sibling(level, a) = level[a - 1]
      BY <3>1 DEF Sibling
    <3>3. above[b] = Parent(level[a - 1], level[a])
      <4> HIDE DEF b, above
      <4> QED BY <1>1, <2>2, <2>3
    <3> HIDE DEF above
    <3> QED BY <3>2, <3>3 DEF Parent
  <2>4. CASE 2 * b = a + 1
    <3>1. a % 2 # 0
      BY <2>1, <2>4
    <3>2. Sibling(level, a) = IF a < n THEN level[a + 1] ELSE level[a]
      BY <1>1, <3>1 DEF Sibling
    <3>3. above[b] = Parent(level[a], level[IF a + 1 <= n THEN a + 1 ELSE a])
      <4>1. 2 * b - 1 = a
        BY <2>4
      <4> HIDE DEF b, above
      <4> QED BY <1>1, <2>2, <2>4, <4>1
    <3>4. CASE a < n
      <4> HIDE DEF above
      <4> QED BY <1>1, <3>2, <3>3, <3>4
    <3>5. CASE ~ (a < n)
      <4> HIDE DEF above
      <4> QED BY <1>1, <3>2, <3>3, <3>5
    <3> QED BY <3>4, <3>5
  <2> QED BY <2>1, <2>3, <2>4
<1> QED BY <1>4, <1>5

\* From n leaves the levels get shorter until one node is left.
LEMMA LevelsShrink ==
  ASSUME NEW hashes, NEW n, IsLevel(hashes, n), NEW k \in Nat
  PROVE  \E m : /\ IsLevel(Levels(hashes)[k], m)
                /\ m = 1 \/ m + k <= n
<1> DEFINE Fits(j) == \E m : IsLevel(Levels(hashes)[j], m) /\ (m = 1 \/ m + j <= n)
           Bad == { j \in Nat : ~ Fits(j) }
<1>1. Bad = {}
  <2> SUFFICES ASSUME Bad # {} PROVE FALSE
    OBVIOUS
  <2>1. PICK j \in Bad : \A l \in Bad : j <= l
    <3>1. Bad \in SUBSET Nat
      OBVIOUS
    <3> HIDE DEF Bad
    <3> QED BY <3>1, SmallestNumber
  <2>2. j # 0
    <3>1. Levels(hashes)[0] = hashes /\ n + 0 <= n
      BY LevelsClimb DEF IsLevel
    <3>2. Fits(0)
      BY <3>1
    <3> HIDE DEF Fits
    <3> QED BY <2>1, <3>2
  <2>3. j - 1 \in Nat /\ Fits(j - 1)
    <3> HIDE DEF Fits
    <3> QED BY <2>1, <2>2
  <2>4. PICK m : IsLevel(Levels(hashes)[j - 1], m) /\ (m = 1 \/ m + (j - 1) <= n)
    BY <2>3
  <2>5. Levels(hashes)[j] = LevelAbove(Levels(hashes)[j - 1])
    <3>1. (j - 1) + 1 = j
      BY <2>2
    <3>2. Levels(hashes)[(j - 1) + 1] = LevelAbove(Levels(hashes)[j - 1])
      BY <2>3, LevelsClimb
    <3> QED BY <3>1, <3>2
  <2>6. IsLevel(Levels(hashes)[j], (m + 1) \div 2)
    BY <2>4, <2>5, AboveIsLevel
  <2>7. (m + 1) \div 2 = 1 \/ (m + 1) \div 2 + j <= n
    <3>1. m \in Nat \ {0} /\ n \in Nat \ {0}
      BY <2>4 DEF IsLevel
    <3>2. m = 1 => (m + 1) \div 2 = 1
      BY <3>1
    <3>3. m # 1 => (m + 1) \div 2 <= m - 1
      BY <3>1
    <3> QED BY <2>2, <2>4, <3>1, <3>2, <3>3
  <2>8. Fits(j)
    BY <2>6, <2>7
  <2> HIDE DEF Fits
  <2> QED BY <2>1, <2>8
<1> QED BY <1>1

LEMMA DepthIsThere ==
  ASSUME NEW hashes, NEW n, IsLevel(hashes, n)
  PROVE  Depth(hashes) \in Nat /\ Len(Levels(hashes)[Depth(hashes)]) = 1
<1> DEFINE Short == { k \in Nat : Len(Levels(hashes)[k]) = 1 }
<1>1. n \in Nat \ {0} /\ Len(hashes) = n
  BY DEF IsLevel
<1>2. n \in Short
  <2>1. PICK m : IsLevel(Levels(hashes)[n], m) /\ (m = 1 \/ m + n <= n)
    BY <1>1, LevelsShrink
  <2>2. m \in Nat \ {0} /\ Len(Levels(hashes)[n]) = m
    BY <2>1 DEF IsLevel
  <2>3. m = 1
    BY <1>1, <2>1, <2>2
  <2> QED BY <1>1, <2>2, <2>3
<1>3. PICK d \in Short : \A k \in Short : d <= k
  <2>1. Short \in SUBSET Nat /\ Short # {}
    BY <1>2
  <2> HIDE DEF Short
  <2> QED BY <2>1, SmallestNumber
<1>4. d \in 0..Len(hashes) /\ Len(Levels(hashes)[d]) = 1
  BY <1>1, <1>2, <1>3
<1>5. ASSUME NEW j \in 0..(d - 1) PROVE Len(Levels(hashes)[j]) > 1
  <2>1. j \in Nat /\ j \notin Short
    BY <1>3
  <2>2. PICK m : IsLevel(Levels(hashes)[j], m)
    BY <2>1, LevelsShrink
  <2>3. m \in Nat \ {0} /\ Len(Levels(hashes)[j]) = m
    BY <2>2 DEF IsLevel
  <2>4. m # 1
    BY <2>1, <2>3
  <2> QED BY <2>3, <2>4
<1>6. \E k \in 0..Len(hashes) : /\ Len(Levels(hashes)[k]) = 1
                                /\ \A j \in 0..(k - 1) : Len(Levels(hashes)[j]) > 1
  BY <1>4, <1>5
<1>7. Depth(hashes) \in 0..Len(hashes) /\ Len(Levels(hashes)[Depth(hashes)]) = 1
  BY <1>6 DEF Depth
<1> QED BY <1>1, <1>7

\* The i-th leaf has an ancestor on every level.
LEMMA AncestorsAreThere ==
  ASSUME NEW hashes, NEW n, IsLevel(hashes, n), NEW i \in 1..n, NEW k \in Nat
  PROVE  Ancestor(i)[k] \in 1..Len(Levels(hashes)[k])
<1> DEFINE Fits(j) == Ancestor(i)[j] \in 1..Len(Levels(hashes)[j])
           Bad == { j \in Nat : ~ Fits(j) }
<1>1. Bad = {}
  <2> SUFFICES ASSUME Bad # {} PROVE FALSE
    OBVIOUS
  <2>1. PICK j \in Bad : \A l \in Bad : j <= l
    <3>1. Bad \in SUBSET Nat
      OBVIOUS
    <3> HIDE DEF Bad
    <3> QED BY <3>1, SmallestNumber
  <2>2. j # 0
    <3>1. Fits(0)
      BY LevelsClimb, AncestorsClimb DEF IsLevel
    <3> HIDE DEF Fits
    <3> QED BY <2>1, <3>1
  <2>3. j - 1 \in Nat /\ Fits(j - 1)
    <3> HIDE DEF Fits
    <3> QED BY <2>1, <2>2
  <2>4. PICK m : IsLevel(Levels(hashes)[j - 1], m)
    BY <2>3, LevelsShrink
  <2>5. /\ Levels(hashes)[j] = LevelAbove(Levels(hashes)[j - 1])
        /\ Ancestor(i)[j] = (Ancestor(i)[j - 1] + 1) \div 2
    <3>1. (j - 1) + 1 = j
      BY <2>2
    <3>2. /\ Levels(hashes)[(j - 1) + 1] = LevelAbove(Levels(hashes)[j - 1])
          /\ Ancestor(i)[(j - 1) + 1] = (Ancestor(i)[j - 1] + 1) \div 2
      BY <2>3, LevelsClimb, AncestorsClimb
    <3> QED BY <3>1, <3>2
  <2>6. IsLevel(Levels(hashes)[j], (m + 1) \div 2)
    BY <2>4, <2>5, AboveIsLevel
  <2>7. Ancestor(i)[j - 1] \in 1..m /\ m \in Nat
    BY <2>3, <2>4 DEF IsLevel
  <2>8. (Ancestor(i)[j - 1] + 1) \div 2 \in 1..((m + 1) \div 2)
    BY <2>7
  <2>9. Fits(j)
    BY <2>5, <2>6, <2>8 DEF IsLevel
  <2> HIDE DEF Fits
  <2> QED BY <2>1, <2>9
<1> QED BY <1>1

\* The function behind FoldLeft, given on the subsets of S.
Hashings(h, leaf, proof, S) ==
  h = [T \in SUBSET S |->
         IF T = {} THEN leaf ELSE Parent(h[T \ {Max(T)}], proof[Max(T)])]
HashedOver(leaf, proof, S) == (CHOOSE h : Hashings(h, leaf, proof, S))[S]

LEMMA VerifyingHashes ==
  ASSUME NEW leaf, NEW proof, NEW root
  PROVE  VerifyMerkleProof(leaf, proof, root) <=> HashedOver(leaf, proof, DOMAIN proof) = root
BY DEF VerifyMerkleProof, FoldLeft, MapThenFoldSet, Hashings, HashedOver

LEMMA HashingsAgree ==
  ASSUME NEW leaf, NEW proof, NEW T, NEW U, NEW h, NEW k,
         NEW S, Places(S), S \subseteq T, S \subseteq U,
         Hashings(h, leaf, proof, T), Hashings(k, leaf, proof, U)
  PROVE  h[S] = k[S]
<1> DEFINE Bad == { R \in SUBSET S : h[R] # k[R] }
<1> SUFFICES ASSUME Bad # {} PROVE FALSE
  OBVIOUS
<1>1. PICK R \in Bad : \A Q \in SUBSET R : Q # R => Q \notin Bad
  <2>1. Bad \in SUBSET (SUBSET S) /\ IsFiniteSet(S)
    BY DEF Places
  <2> HIDE DEF Bad
  <2> QED BY <2>1, SetInduction
<1>2. R # {}
  BY DEF Hashings
<1>3. Places(R)
  BY LastIsLess
<1>4. Max(R) \in R /\ R \ {Max(R)} \subseteq R /\ R \ {Max(R)} # R
  BY <1>2, <1>3, LastIsLess
<1>5. R \ {Max(R)} \notin Bad /\ R \ {Max(R)} \in SUBSET S
  BY <1>1, <1>4
<1>6. h[R \ {Max(R)}] = k[R \ {Max(R)}]
  BY <1>5
<1>7. R \in SUBSET T /\ R \in SUBSET U
  BY <1>4
<1>8. h[R] = Parent(h[R \ {Max(R)}], proof[Max(R)])
  BY <1>2, <1>7 DEF Hashings
<1>9. k[R] = Parent(k[R \ {Max(R)}], proof[Max(R)])
  BY <1>2, <1>7 DEF Hashings
<1> QED BY <1>6, <1>7, <1>8, <1>9

LEMMA HashingsExist ==
  ASSUME NEW leaf, NEW proof, NEW S, Places(S)
  PROVE  \E h : Hashings(h, leaf, proof, S)
<1> DEFINE Bad == { T \in SUBSET S : ~ \E h : Hashings(h, leaf, proof, T) }
<1> SUFFICES ASSUME Bad # {} PROVE FALSE
  OBVIOUS
<1>1. PICK T \in Bad : \A U \in SUBSET T : U # T => U \notin Bad
  <2>1. Bad \in SUBSET (SUBSET S) /\ IsFiniteSet(S)
    BY DEF Places
  <2> HIDE DEF Bad
  <2> QED BY <2>1, SetInduction
<1> DEFINE h == [U \in SUBSET T |->
                   IF U = {} THEN leaf
                   ELSE Parent(HashedOver(leaf, proof, U \ {Max(U)}), proof[Max(U)])]
<1>2. ASSUME NEW U \in SUBSET T
      PROVE  Places(U)
  BY LastIsLess
<1>3. ASSUME NEW U \in SUBSET T, U # T
      PROVE  HashedOver(leaf, proof, U) = h[U]
  <2> DEFINE k == CHOOSE k : Hashings(k, leaf, proof, U)
             m == Max(U)
             V == U \ {m}
             l == CHOOSE l : Hashings(l, leaf, proof, V)
  <2>1. Hashings(k, leaf, proof, U)
    BY <1>1, <1>3
  <2>2. CASE U = {}
    BY <2>1, <2>2 DEF Hashings, HashedOver
  <2>3. CASE U # {}
    <3>1. m \in U
      BY <2>3, <1>2, LastIsLess
    <3>2. V \in SUBSET T /\ V # T /\ Places(V)
      BY <3>1, <1>2, <1>3
    <3>3. Hashings(l, leaf, proof, V)
      BY <1>1, <3>2
    <3>4. k[V] = l[V]
      <4>1. V \subseteq U /\ V \subseteq V
        OBVIOUS
      <4> HIDE DEF k, l, V
      <4> QED BY <2>1, <3>2, <3>3, <4>1, HashingsAgree
    <3>5. k[U] = Parent(k[V], proof[m])
      BY <2>1, <2>3 DEF Hashings
    <3>6. h[U] = Parent(l[V], proof[m])
      BY <2>3 DEF HashedOver
    <3>7. HashedOver(leaf, proof, U) = k[U]
      BY DEF HashedOver
    <3> QED BY <3>4, <3>5, <3>6, <3>7
  <2> QED BY <2>2, <2>3
<1>4. Hashings(h, leaf, proof, T)
  <2> SUFFICES ASSUME NEW U \in SUBSET T, U # {}
               PROVE  h[U] = Parent(h[U \ {Max(U)}], proof[Max(U)])
    BY DEF Hashings
  <2>1. Max(U) \in U
    BY <1>2, LastIsLess
  <2>2. U \ {Max(U)} \in SUBSET T /\ U \ {Max(U)} # T
    BY <2>1
  <2>3. HashedOver(leaf, proof, U \ {Max(U)}) = h[U \ {Max(U)}]
    BY <2>2, <1>3
  <2> QED BY <2>3
<1> QED BY <1>1, <1>4

\* Hashing along a proof gives the nodes on the way one after the other.
LEMMA HashingAlong ==
  ASSUME NEW leaf, NEW d \in Nat, NEW proof, DOMAIN proof = 1..d, NEW node,
         node[0] = leaf, \A k \in 1..d : node[k] = Parent(node[k - 1], proof[k])
  PROVE  HashedOver(leaf, proof, 1..d) = node[d]
<1>1. Places(1..d)
  BY FS_Interval DEF Places
<1> DEFINE h == CHOOSE h : Hashings(h, leaf, proof, 1..d)
<1>2. Hashings(h, leaf, proof, 1..d)
  BY <1>1, HashingsExist
<1>3. HashedOver(leaf, proof, 1..d) = h[1..d]
  BY DEF HashedOver
<1> HIDE DEF h
<1> DEFINE Bad == { k \in Nat : k <= d /\ h[1..k] # node[k] }
<1>4. Bad = {}
  <2> SUFFICES ASSUME Bad # {} PROVE FALSE
    OBVIOUS
  <2>1. PICK k \in Bad : \A l \in Bad : k <= l
    <3>1. Bad \in SUBSET Nat
      OBVIOUS
    <3> HIDE DEF Bad
    <3> QED BY <3>1, SmallestNumber
  <2>2. k # 0
    <3>1. 1..0 = {} /\ {} \in SUBSET (1..d)
      OBVIOUS
    <3>2. h[{}] = leaf
      BY <1>2, <3>1 DEF Hashings
    <3>3. h[1..0] = node[0]
      BY <3>1, <3>2
    <3> QED BY <2>1, <3>3
  <2>3. k - 1 \in Nat /\ k \in 1..d /\ h[1..(k - 1)] = node[k - 1]
    BY <2>1, <2>2
  <2>4. 1..k \in SUBSET (1..d) /\ k \in 1..k /\ (1..k) \ {k} = 1..(k - 1)
    <3>1. k \in Nat /\ 1 <= k /\ k <= d
      BY <2>3
    <3>2. 1..k \subseteq 1..d /\ k \in 1..k
      BY <3>1
    <3>3. (1..k) \ {k} = 1..(k - 1)
      BY <3>1
    <3> QED BY <3>2, <3>3
  <2>5. Max(1..k) = k
    <3>1. Places(1..k)
      BY <1>1, <2>4, LastIsLess
    <3>2. Max(1..k) \in 1..k /\ \A y \in 1..k : Max(1..k) >= y
      BY <2>4, <3>1, MaxIsThere DEF Places
    <3>3. k \in 1..k
      BY <2>3
    <3> QED BY <2>3, <3>2, <3>3
  <2>6. h[1..k] = Parent(h[(1..k) \ {Max(1..k)}], proof[Max(1..k)])
    BY <1>2, <2>4 DEF Hashings
  <2>7. (1..k) \ {Max(1..k)} = 1..(k - 1)
    BY <2>4, <2>5
  <2>8. h[1..k] = Parent(node[k - 1], proof[k])
    <3>1. h[(1..k) \ {Max(1..k)}] = node[k - 1]
      BY <2>3, <2>7
    <3> QED BY <2>5, <2>6, <3>1
  <2> QED BY <2>1, <2>3, <2>8
<1>5. h[1..d] = node[d]
  BY <1>4
<1> QED BY <1>3, <1>5

\* The proof of every leaf verifies against the root, for every number of leaves.
THEOREM ProofsVerify ==
  ASSUME NEW n, NEW hashes, IsLevel(hashes, n), NEW i \in 1..n
  PROVE  VerifyMerkleProof(hashes[i], MerkleProof(hashes, i), MerkleRoot(hashes))
<1> DEFINE L == Levels(hashes)
           d == Depth(hashes)
           a == Ancestor(i)
           node == [k \in Nat |-> L[k][a[k]]]
           proof == MerkleProof(hashes, i)
<1>1. d \in Nat /\ Len(L[d]) = 1
  BY DepthIsThere
<1>2. DOMAIN proof = 1..d /\ \A k \in 1..d : proof[k] = Sibling(L[k - 1], a[k - 1])
  BY DEF MerkleProof
<1>3. node[0] = hashes[i]
  BY LevelsClimb, AncestorsClimb
<1>4. ASSUME NEW k \in 1..d PROVE node[k] = Parent(node[k - 1], proof[k])
  <2> DEFINE j == k - 1
  <2>1. j \in Nat /\ j + 1 = k /\ k \in Nat
    BY <1>1
  <2>2. PICK m : IsLevel(L[j], m)
    BY <2>1, LevelsShrink
  <2>3. a[j] \in 1..m
    BY <2>1, <2>2, AncestorsAreThere DEF IsLevel
  <2>4. L[k] = LevelAbove(L[j]) /\ a[k] = (a[j] + 1) \div 2
    <3>1. L[j + 1] = LevelAbove(L[j]) /\ a[j + 1] = (a[j] + 1) \div 2
      BY <2>1, LevelsClimb, AncestorsClimb
    <3> HIDE DEF L, a, j
    <3> QED BY <2>1, <3>1
  <2>5. LevelAbove(L[j])[(a[j] + 1) \div 2] = Parent(L[j][a[j]], Sibling(L[j], a[j]))
    <3> HIDE DEF L, a, j
    <3> QED BY <2>2, <2>3, AboveIsLevel
  <2>6. node[k] = L[k][a[k]] /\ node[j] = L[j][a[j]] /\ proof[k] = Sibling(L[j], a[j])
    BY <1>2, <2>1
  <2> HIDE DEF node, L, a, proof
  <2> QED BY <2>4, <2>5, <2>6
<1>5. node[d] = MerkleRoot(hashes)
  <2>1. a[d] \in 1..Len(L[d])
    BY <1>1, AncestorsAreThere
  <2>2. a[d] = 1
    BY <1>1, <2>1
  <2> QED BY <1>1, <2>2 DEF MerkleRoot
<1> HIDE DEF node, proof, d
<1>6. HashedOver(hashes[i], proof, 1..d) = node[d]
  <2>1. \A k \in 1..d : node[k] = Parent(node[k - 1], proof[k])
    BY <1>4
  <2> DEFINE leaf == hashes[i]
  <2>2. d \in Nat /\ DOMAIN proof = 1..d /\ node[0] = leaf
    BY <1>1, <1>2, <1>3
  <2> HIDE DEF leaf
  <2>3. HashedOver(leaf, proof, 1..d) = node[d]
    BY <2>1, <2>2, HashingAlong
  <2> QED BY <2>3 DEF leaf
<1> QED BY <1>2, <1>5, <1>6, VerifyingHashes DEF proof

-----------------------------------------------------------------------------
(* What an auditor is told.                                                *)

\* Where a goroutine is after the block of its latest event was inserted.
PastBlock == {"batch", "events", "log", "requeue", "enqueue", "done"}

\* A batch for which a block was built: its goroutine has got further.
Used(id) ==
  \E p \in Payments : \E n \in 0..2 :
    /\ id = <<p, n>> /\ n <= sent[p]
    /\ n = sent[p] => pc[p] \in PastBlock

\* The hash of a block is made of what it has, its batch among it.
Sealed(b) ==
  /\ b.hash = BlockHash(b.prev, b.root, b.batch)
  /\ b = Genesis \/ Used(b.batch)

\* The block that a goroutine has built on its tip is the root of its events.
HasRoot(p) ==
  \E b \in blocks : /\ b.height = hand[p].tip.height + 1
                    /\ b.root = MerkleRoot(Hashes(hand[p].events))

\* A row names a block whose root is that of a tree in which it is a leaf.
Rooted(r) ==
  \E b \in blocks : /\ b.height = r.height /\ b.height > 0
                    /\ \E n, hashes : \E i \in 1..n :
                         /\ IsLevel(hashes, n) /\ hashes[i] = Leaf(r.event)
                         /\ r.proof = MerkleProof(hashes, i) /\ b.root = MerkleRoot(hashes)

OneBlockEach == \A b, c \in blocks : b.batch = c.batch => b = c

AuditInv ==
  /\ \A b \in blocks : Sealed(b)
  /\ OneBlockEach
  /\ \A r \in rows : Rooted(r)
  /\ \A p \in Payments : /\ pc[p] \in Flushing => hand[p].events # <<>>
                         /\ pc[p] \in {"batch", "events"} => HasRoot(p)

LEMMA HashesAreLevel ==
  ASSUME NEW events \in Seq(Events), events # <<>>
  PROVE  /\ IsLevel(Hashes(events), Len(events)) /\ DOMAIN events = 1..Len(events)
         /\ \A i \in 1..Len(events) : Hashes(events)[i] = Leaf(events[i])
<1>1. DOMAIN events = 1..Len(events) /\ Len(events) \in Nat \ {0}
  OBVIOUS
<1>2. Hashes(events) = [i \in 1..Len(events) |-> Leaf(events[i])]
  BY <1>1 DEF Hashes
<1> DEFINE n == Len(events)
           f == Hashes(events)
<1>3. n \in Nat \ {0} /\ DOMAIN f = 1..n /\ f = [i \in 1..n |-> f[i]]
        /\ \A i \in 1..n : f[i] = Leaf(events[i])
  BY <1>1, <1>2
<1> HIDE DEF n, f
<1>4. IsLevel(f, n)
  BY <1>3, LenOfFunction DEF IsLevel
<1> QED BY <1>1, <1>3, <1>4 DEF n, f

LEMMA StaysUsed ==
  ASSUME NEW id, Used(id), Typed, Typed',
         \A p \in Payments : \/ sent'[p] = sent[p] /\ (pc[p] \in PastBlock => pc'[p] \in PastBlock)
                             \/ sent'[p] = sent[p] + 1
  PROVE  Used(id)'
<1>1. PICK p \in Payments, n \in 0..2 :
        /\ id = <<p, n>> /\ n <= sent[p]
        /\ n = sent[p] => pc[p] \in PastBlock
  BY DEF Used
<1>2. sent[p] \in 0..2 /\ sent'[p] \in 0..2
  BY DEF Typed
<1>3. n <= sent'[p] /\ (n = sent'[p] => pc'[p] \in PastBlock)
  BY <1>1, <1>2
<1> QED BY <1>1, <1>3 DEF Used

LEMMA StaysRooted ==
  ASSUME NEW r, Rooted(r), blocks \subseteq blocks'
  PROVE  Rooted(r)'
BY DEF Rooted

\* A step that inserts no block and no row.
LEMMA SameAudits ==
  ASSUME Typed, Typed', AuditInv, blocks' = blocks, rows' = rows,
         \A p \in Payments :
           /\ pc'[p] \in Flushing => hand'[p].events # <<>>
           /\ pc'[p] \in {"batch", "events"} =>
                pc[p] \in {"batch", "events"} /\ hand'[p] = hand[p]
           /\ \/ sent'[p] = sent[p] /\ (pc[p] \in PastBlock => pc'[p] \in PastBlock)
              \/ sent'[p] = sent[p] + 1
  PROVE  AuditInv'
<1>1. \A b \in blocks' : Sealed(b)'
  <2> SUFFICES ASSUME NEW b \in blocks PROVE Sealed(b)'
    OBVIOUS
  <2>1. Sealed(b)
    BY DEF AuditInv
  <2>2. Used(b.batch) => Used(b.batch)'
    BY StaysUsed
  <2> QED BY <2>1, <2>2 DEF Sealed
<1>2. OneBlockEach'
  BY DEF AuditInv, OneBlockEach
<1>3. \A r \in rows' : Rooted(r)'
  BY StaysRooted DEF AuditInv
<1>4. \A p \in Payments : pc'[p] \in {"batch", "events"} => HasRoot(p)'
  BY DEF AuditInv, HasRoot
<1> QED BY <1>1, <1>2, <1>3, <1>4 DEF AuditInv

\* A new block has a batch no other block has, as a goroutine builds one for
\* each of its events at most.
LEMMA BlockKeepsAudits ==
  ASSUME Typed, Typed', AuditInv, NEW p \in Payments, pc[p] = "block",
         pc' = [pc EXCEPT ![p] = "batch"], NEW late \in BOOLEAN,
         blocks' = blocks \cup {NewBlock(p, late)},
         UNCHANGED <<sent, hand, rows>>
  PROVE  AuditInv'
<1> DEFINE new == NewBlock(p, late)
<1>1. pc'[p] = "batch" /\ \A q \in Payments \ {p} : pc'[q] = pc[q]
  BY DEF Typed
<1>2. \A id : Used(id) => Used(id)'
  BY <1>1, StaysUsed DEF PastBlock
<1>3. /\ new.batch = BatchId(p)
      /\ new.height = hand[p].tip.height + 1
      /\ new.root = MerkleRoot(Hashes(hand[p].events))
      /\ new.hash = BlockHash(new.prev, new.root, new.batch)
  BY DEF NewBlock, Block
<1>4. BatchId(p) = <<p, sent[p]>> /\ sent[p] \in 0..2 /\ sent'[p] = sent[p]
  BY DEF BatchId, Typed
<1>5. Used(BatchId(p))'
  <2>1. sent[p] <= sent[p]
    BY <1>4
  <2>2. BatchId(p)' = BatchId(p)
    BY DEF BatchId
  <2>3. \E n \in 0..2 : /\ BatchId(p) = <<p, n>> /\ n <= sent'[p]
                        /\ n = sent'[p] => pc'[p] \in PastBlock
    BY <1>1, <1>4, <2>1 DEF PastBlock
  <2> QED BY <2>2, <2>3 DEF Used
<1>6. ~ Used(BatchId(p))
  BY <1>4 DEF Used, PastBlock
<1>7. Genesis.batch = <<>> /\ BatchId(p) # <<>>
  BY <1>4 DEF Genesis, Block
<1>8. \A b \in blocks : b.batch # BatchId(p)
  <2> SUFFICES ASSUME NEW b \in blocks, b.batch = BatchId(p) PROVE FALSE
    OBVIOUS
  <2>1. Sealed(b)
    BY DEF AuditInv
  <2> QED BY <1>6, <1>7, <2>1 DEF Sealed
<1>9. BatchId(p)' = BatchId(p)
  BY DEF BatchId
<1> HIDE DEF new
<1>10. blocks' = blocks \cup {new}
  BY DEF new
<1>11. \A b \in blocks' : Sealed(b)'
  <2> SUFFICES ASSUME NEW b \in blocks' PROVE Sealed(b)'
    OBVIOUS
  <2>1. CASE b \in blocks
    <3>1. Sealed(b)
      BY <2>1 DEF AuditInv
    <3> QED BY <1>2, <3>1 DEF Sealed
  <2>2. CASE b = new
    BY <1>3, <1>5, <1>9, <2>2 DEF Sealed
  <2> QED BY <1>10, <2>1, <2>2
<1>12. OneBlockEach'
  BY <1>3, <1>8, <1>10 DEF AuditInv, OneBlockEach
<1>13. \A r \in rows' : Rooted(r)'
  BY <1>10, StaysRooted DEF AuditInv
<1>14. HasRoot(p)'
  BY <1>3, <1>10 DEF HasRoot
<1>15. \A q \in Payments \ {p} : pc'[q] \in {"batch", "events"} => HasRoot(q)'
  BY <1>1, <1>10 DEF AuditInv, HasRoot
<1>16. \A q \in Payments : pc'[q] \in Flushing => hand'[q].events # <<>>
  BY <1>1 DEF AuditInv, Flushing
<1> QED BY <1>11, <1>12, <1>13, <1>14, <1>15, <1>16 DEF AuditInv

\* New rows name the block whose root is that of their events.
LEMMA EventsKeepAudits ==
  ASSUME ChainInv, Typed, Typed', AuditInv, NEW p \in Payments, pc[p] = "events",
         pc' = [pc EXCEPT ![p] = "log"], rows' = rows \cup EventRows(p),
         UNCHANGED <<sent, hand, blocks>>
  PROVE  AuditInv'
<1> DEFINE events == hand[p].events
<1>1. pc'[p] = "log" /\ \A q \in Payments \ {p} : pc'[q] = pc[q]
  BY DEF Typed
<1>2. events \in Seq(Events) /\ events # <<>>
  BY DEF Typed, AuditInv, Flushing
<1>3. /\ IsLevel(Hashes(events), Len(events)) /\ DOMAIN events = 1..Len(events)
      /\ \A i \in 1..Len(events) : Hashes(events)[i] = Leaf(events[i])
  BY <1>2, HashesAreLevel
<1>4. PICK b \in blocks : /\ b.height = hand[p].tip.height + 1
                          /\ b.root = MerkleRoot(Hashes(events))
  BY DEF AuditInv, HasRoot
<1>5. hand[p].tip.height \in Nat
  BY DEF ChainInv, TipsKnown, HeightsAreNat
<1>6. ASSUME NEW r \in EventRows(p) PROVE Rooted(r)
  <2>1. PICK i \in DOMAIN events :
          r = [event |-> events[i], height |-> hand[p].tip.height + 1, batch |-> BatchId(p),
               proof |-> MerkleProof(Hashes(events), i)]
    BY DEF EventRows
  <2>2. /\ r.event = events[i] /\ r.height = hand[p].tip.height + 1
        /\ r.proof = MerkleProof(Hashes(events), i)
    BY <2>1
  <2>3. b.height = r.height /\ b.height > 0
    BY <1>4, <1>5, <2>2
  <2> DEFINE n == Len(events)
             hashes == Hashes(events)
  <2>4. /\ i \in 1..n /\ IsLevel(hashes, n) /\ hashes[i] = Leaf(r.event)
        /\ r.proof = MerkleProof(hashes, i) /\ b.root = MerkleRoot(hashes)
    BY <1>3, <1>4, <2>1, <2>2
  <2> HIDE DEF n, hashes
  <2> QED BY <2>3, <2>4 DEF Rooted
<1>7. \A r \in rows' : Rooted(r)'
  <2> SUFFICES ASSUME NEW r \in rows' PROVE Rooted(r)'
    OBVIOUS
  <2>1. Rooted(r)
    BY <1>6 DEF AuditInv
  <2> QED BY <2>1, StaysRooted
<1>8. \A c \in blocks' : Sealed(c)'
  <2> SUFFICES ASSUME NEW c \in blocks PROVE Sealed(c)'
    OBVIOUS
  <2>1. Sealed(c)
    BY DEF AuditInv
  <2>2. Used(c.batch) => Used(c.batch)'
    BY <1>1, StaysUsed DEF PastBlock
  <2> QED BY <2>1, <2>2 DEF Sealed
<1>9. OneBlockEach'
  BY DEF AuditInv, OneBlockEach
<1>10. \A q \in Payments : pc'[q] \in {"batch", "events"} => HasRoot(q)'
  BY <1>1 DEF AuditInv, HasRoot
<1>11. \A q \in Payments : pc'[q] \in Flushing => hand'[q].events # <<>>
  BY <1>1 DEF AuditInv, Flushing
<1> QED BY <1>7, <1>8, <1>9, <1>10, <1>11 DEF AuditInv

LEMMA NextKeepsAudits ==
  ChainInv /\ Typed /\ Typed' /\ AuditInv /\ [Next]_vars => AuditInv'
<1> SUFFICES ASSUME ChainInv, Typed, Typed', AuditInv, [Next]_vars PROVE AuditInv'
  OBVIOUS
<1>0. /\ pc \in [Payments -> Labels] /\ sent \in [Payments -> 0..2] /\ DOMAIN hand = Payments
      /\ \A p \in Payments : pc[p] \in Flushing => hand[p].events # <<>>
  BY DEF Typed, AuditInv
<1>1. ASSUME NEW p \in Payments, blocks' = blocks, rows' = rows,
             NEW label \in {"enqueue", "done", "take", "latest", "block", "requeue"},
             pc' = [pc EXCEPT ![p] = label],
             \A q \in Payments \ {p} : hand'[q] = hand[q],
             label \in Flushing => hand'[p].events # <<>>,
             \/ sent' = sent /\ (label \in PastBlock \/ pc[p] \notin PastBlock)
             \/ sent' = [sent EXCEPT ![p] = @ + 1]
      PROVE  AuditInv'
  <2>1. \A q \in Payments \ {p} : UNCHANGED <<sent[q], hand[q], pc[q]>>
    BY <1>0, <1>1
  <2>2. pc'[p] = label /\ pc'[p] \notin {"batch", "events"}
        /\ (sent'[p] = sent[p] \/ sent'[p] = sent[p] + 1)
    BY <1>0, <1>1
  <2>3. \/ sent'[p] = sent[p] /\ (pc[p] \in PastBlock => pc'[p] \in PastBlock)
        \/ sent'[p] = sent[p] + 1
    BY <1>0, <1>1, <2>2
  <2> QED BY <1>0, <1>1, <2>1, <2>2, <2>3, SameAudits
<1> USE DEF bufferVars, tableVars, Goto
<1>2. ASSUME NEW p \in Payments, RecordPayment(p) PROVE AuditInv'
  <2>1. /\ \E label \in {"enqueue", "done"} : pc' = [pc EXCEPT ![p] = label]
        /\ sent' = sent /\ hand' = hand /\ UNCHANGED tableVars
    BY <1>2 DEF RecordPayment
  <2>2. {"enqueue", "done"} \subseteq PastBlock /\ {"enqueue", "done"} \cap Flushing = {}
    BY DEF PastBlock, Flushing
  <2> QED BY <1>1, <2>1, <2>2
<1>3. ASSUME NEW p \in Payments, EnqueueEvent(p) PROVE AuditInv'
  <2>1. /\ \E label \in {"take", "enqueue", "done"} : pc' = [pc EXCEPT ![p] = label]
        /\ sent' = [sent EXCEPT ![p] = @ + 1] /\ hand' = hand /\ UNCHANGED tableVars
    BY <1>3 DEF EnqueueEvent, AfterEvent
  <2>2. {"take", "enqueue", "done"} \cap Flushing = {}
    BY DEF Flushing
  <2> QED BY <1>1, <2>1, <2>2
<1>4. ASSUME NEW p \in Payments, TakeEvents(p) PROVE AuditInv'
  <2>1. /\ sent' = sent /\ hand' = [hand EXCEPT ![p] = Held(pending, Genesis)]
        /\ UNCHANGED tableVars /\ pc[p] = "take"
    BY <1>4 DEF TakeEvents
  <2>2. /\ \A q \in Payments \ {p} : hand'[q] = hand[q]
        /\ hand'[p].events = pending
    BY <1>0, <2>1 DEF Held
  <2>3. \/ pending # <<>> /\ pc' = [pc EXCEPT ![p] = "latest"]
        \/ \E label \in {"enqueue", "done"} : pc' = [pc EXCEPT ![p] = label]
    BY <1>4 DEF TakeEvents, AfterEvent
  <2>4. pc[p] \notin PastBlock /\ {"enqueue", "done"} \cap Flushing = {}
    BY <2>1 DEF PastBlock, Flushing
  <2> QED BY <1>1, <2>1, <2>2, <2>3, <2>4
<1>5. ASSUME NEW p \in Payments, GetLatestBlock(p) PROVE AuditInv'
  <2>1. /\ \E label \in {"block", "requeue"} : pc' = [pc EXCEPT ![p] = label]
        /\ sent' = sent /\ UNCHANGED tableVars /\ pc[p] = "latest"
    BY <1>5 DEF GetLatestBlock, AfterError
  <2>2. hand' = hand \/ hand' = [hand EXCEPT ![p] = Held(hand[p].events, LatestBlock)]
    BY <1>5 DEF GetLatestBlock
  <2>3. /\ \A q \in Payments \ {p} : hand'[q] = hand[q]
        /\ hand'[p].events = hand[p].events
    BY <1>0, <2>2 DEF Held
  <2>4. pc[p] \notin PastBlock /\ pc[p] \in Flushing
    BY <2>1 DEF PastBlock, Flushing
  <2> QED BY <1>0, <1>1, <2>1, <2>3, <2>4
<1>6. ASSUME NEW p \in Payments, InsertChainBlock(p) PROVE AuditInv'
  <2>1. pc[p] = "block" /\ UNCHANGED <<sent, hand, batches, rows, submitted>>
    BY <1>6 DEF InsertChainBlock
  <2>2. CASE UNCHANGED blocks /\ pc' = [pc EXCEPT ![p] = "requeue"]
    <3>1. "requeue" \in PastBlock /\ pc[p] \in Flushing
      BY <2>1 DEF PastBlock, Flushing
    <3> QED BY <1>0, <1>1, <2>1, <2>2, <3>1
  <2>3. CASE pc' = [pc EXCEPT ![p] = "batch"]
             /\ \E late \in BOOLEAN : blocks' = blocks \cup {NewBlock(p, late)}
    BY <2>1, <2>3, BlockKeepsAudits
  <2> QED BY <1>6, <2>1, <2>2, <2>3 DEF InsertChainBlock, AfterError
<1>7. ASSUME NEW p \in Payments, CreateChainBatch(p) PROVE AuditInv'
  <2>1. pc[p] = "batch" /\ UNCHANGED <<sent, hand, blocks, rows, submitted>>
    BY <1>7 DEF CreateChainBatch
  <2>2. \E label \in {"events", "requeue"} : pc' = [pc EXCEPT ![p] = label]
    BY <1>7 DEF CreateChainBatch, AfterError
  <2>3. \A q \in Payments : /\ q # p => pc'[q] = pc[q]
                            /\ q = p => pc'[q] \in {"events", "requeue"}
    BY <1>0, <2>2
  <2>4. \A q \in Payments : pc'[q] \in Flushing => hand'[q].events # <<>>
    BY <1>0, <2>1, <2>3 DEF Flushing
  <2>5. \A q \in Payments : pc'[q] \in {"batch", "events"} => pc[q] \in {"batch", "events"}
    BY <2>1, <2>3
  <2>6. \A q \in Payments : pc[q] \in PastBlock => pc'[q] \in PastBlock
    BY <2>1, <2>3 DEF PastBlock
  <2> QED BY <2>1, <2>4, <2>5, <2>6, SameAudits
<1>8. ASSUME NEW p \in Payments, InsertChainEvents(p) PROVE AuditInv'
  <2>1. pc[p] = "events" /\ UNCHANGED <<sent, hand, blocks, batches, submitted>>
    BY <1>8 DEF InsertChainEvents
  <2>2. CASE UNCHANGED rows /\ pc' = [pc EXCEPT ![p] = "requeue"]
    <3>1. "requeue" \in PastBlock /\ pc[p] \in Flushing
      BY <2>1 DEF PastBlock, Flushing
    <3> QED BY <1>0, <1>1, <2>1, <2>2, <3>1
  <2>3. CASE pc' = [pc EXCEPT ![p] = "log"] /\ rows' = rows \cup EventRows(p)
    BY <2>1, <2>3, EventsKeepAudits
  <2> QED BY <1>8, <2>1, <2>2, <2>3 DEF InsertChainEvents, AfterError
<1>9. ASSUME NEW p \in Payments, InsertSubmitLog(p) \/ RequeueEvents(p) PROVE AuditInv'
  <2>1. /\ \E label \in {"enqueue", "done"} : pc' = [pc EXCEPT ![p] = label]
        /\ pc[p] \in {"log", "requeue"}
        /\ sent' = sent /\ hand' = [hand EXCEPT ![p] = NoHand] /\ UNCHANGED <<blocks, rows>>
    BY <1>9 DEF InsertSubmitLog, RequeueEvents, AfterEvent, AfterError
  <2>2. \A q \in Payments \ {p} : hand'[q] = hand[q]
    BY <1>0, <2>1
  <2>3. {"enqueue", "done"} \subseteq PastBlock /\ {"enqueue", "done"} \cap Flushing = {}
    BY DEF PastBlock, Flushing
  <2> QED BY <1>1, <2>1, <2>2, <2>3
<1>10. CASE Crash
  <2>1. /\ sent' = sent /\ UNCHANGED tableVars
        /\ pc' = [p \in Payments |-> IF pc[p] = "record" THEN "record" ELSE "done"]
    BY <1>10 DEF Crash
  <2>2. \A p \in Payments : pc'[p] \in {"record", "done"} /\ (pc'[p] = "record" => pc[p] = "record")
    BY <2>1
  <2>3. /\ {"record", "done"} \cap Flushing = {} /\ "record" \notin PastBlock
        /\ "done" \in PastBlock
    BY DEF Flushing, PastBlock
  <2> QED BY <2>1, <2>2, <2>3, SameAudits
<1>11. CASE UNCHANGED vars
  BY <1>0, <1>11, SameAudits DEF vars
<1> QED
  BY <1>2, <1>3, <1>4, <1>5, <1>6, <1>7, <1>8, <1>9, <1>10, <1>11 DEF Next, RecorderStep

LEMMA InitAudits == Init => AuditInv
<1> SUFFICES ASSUME Init PROVE AuditInv
  OBVIOUS
<1>1. Sealed(Genesis)
  BY DEF Sealed, Genesis, Block
<1>2. \A p \in Payments : pc[p] = "record"
  BY DEF Init
<1> QED BY <1>1, <1>2 DEF Init, AuditInv, OneBlockEach, Flushing

-----------------------------------------------------------------------------
\* The trail of two rows: their blocks, one after the other, each once.
Trails(h, rowsFound, S) ==
  h = [T \in SUBSET S |->
         IF T = {} THEN <<>> ELSE WithBlock(h[T \ {Max(T)}], rowsFound[Max(T)])]

LEMMA TrailIsChosen ==
  ASSUME NEW rowsFound
  PROVE  AuditTrail(rowsFound)
           = (CHOOSE h : Trails(h, rowsFound, DOMAIN rowsFound))[DOMAIN rowsFound]
BY DEF AuditTrail, FoldLeft, MapThenFoldSet, Trails

LEMMA TrailOfTwo ==
  ASSUME NEW r, NEW s
  PROVE  AuditTrail(<<r, s>>) = WithBlock(WithBlock(<<>>, r), s)
<1> DEFINE pair == <<r, s>>
           first == WithBlock(<<>>, r)
           only == WithBlock(<<>>, s)
           both == WithBlock(first, s)
           D == {1, 2}
           all == SUBSET D
<1> HIDE DEF first, only, both, all
<1> DEFINE h == [T \in all |-> IF T = {} THEN <<>> ELSE IF T = {1} THEN first
                               ELSE IF T = {2} THEN only ELSE both]
           k == CHOOSE g : Trails(g, pair, D)
<1>1. DOMAIN pair = D /\ pair[1] = r /\ pair[2] = s
  OBVIOUS
<1>2. Max({1}) = 1 /\ Max({2}) = 2 /\ Max(D) = 2
  <2>1. IsFiniteSet({1}) /\ IsFiniteSet({2}) /\ IsFiniteSet(D)
    BY FS_EmptySet, FS_AddElement
  <2>2. Max({1}) \in {1} /\ Max({2}) \in {2}
    BY <2>1, MaxIsThere
  <2>3. Max(D) \in D /\ \A y \in D : Max(D) >= y
    BY <2>1, MaxIsThere
  <2> QED BY <2>2, <2>3
<1>3. \A T \in all : T = {} \/ T = {1} \/ T = {2} \/ T = D
  BY DEF all
<1>4. {} \in all /\ {1} \in all /\ {2} \in all /\ D \in all
  BY DEF all
<1>5. {1} # {} /\ {2} # {} /\ D # {} /\ {1} # {2} /\ D # {1} /\ D # {2}
  OBVIOUS
<1>6. {1} \ {1} = {} /\ {2} \ {2} = {}
  OBVIOUS
<1>7. D \ {2} = {1}
  OBVIOUS
<1> DEFINE one == {1}
           two == {2}
<1> HIDE DEF D, one, two
<1>8. h[{}] = <<>>
  BY <1>4
<1>9. h[one] = first
  <2>1. one # {} /\ one \in all /\ one = {1}
    BY <1>4, <1>5 DEF one
  <2> QED BY <2>1
<1>10. h[two] = only
  <2>1. two # {} /\ two # {1} /\ two \in all /\ two = {2}
    BY <1>4, <1>5 DEF two
  <2> QED BY <2>1
<1>11. h[D] = both
  BY <1>4, <1>5
<1>12. h = [T \in all |-> h[T]]
  OBVIOUS
<1> HIDE DEF pair, h
<1>13. ASSUME NEW T \in all
       PROVE  h[T] = IF T = {} THEN <<>> ELSE WithBlock(h[T \ {Max(T)}], pair[Max(T)])
  <2>1. CASE T = {}
    BY <1>8, <2>1
  <2>2. CASE T = {1}
    <3>1. h[{1}] = WithBlock(h[{1} \ {Max({1})}], pair[Max({1})])
      <4>1. h[{1} \ {Max({1})}] = h[{}] /\ pair[Max({1})] = r
        BY <1>1, <1>2, <1>6
      <4> QED BY <1>8, <1>9, <4>1 DEF one, first
    <3> QED BY <1>5, <2>2, <3>1
  <2>3. CASE T = {2}
    <3>1. h[{2}] = WithBlock(h[{2} \ {Max({2})}], pair[Max({2})])
      <4>1. h[{2} \ {Max({2})}] = h[{}] /\ pair[Max({2})] = s
        BY <1>1, <1>2, <1>6
      <4> QED BY <1>8, <1>10, <4>1 DEF two, only
    <3> QED BY <1>5, <2>3, <3>1
  <2>4. CASE T = D
    <3>1. h[D] = WithBlock(h[D \ {Max(D)}], pair[Max(D)])
      <4>1. h[D \ {Max(D)}] = h[one] /\ pair[Max(D)] = s
        BY <1>1, <1>2, <1>7 DEF one
      <4> QED BY <1>9, <1>11, <4>1 DEF both
    <3> QED BY <1>5, <2>4, <3>1
  <2> QED BY <1>3, <2>1, <2>2, <2>3, <2>4
<1>14. Trails(h, pair, D)
  BY <1>12, <1>13 DEF Trails, all
<1>15. Trails(k, pair, D)
  BY <1>14
<1> HIDE DEF k
<1>16. k[{}] = <<>>
  BY <1>4, <1>15 DEF Trails, all
<1>17. k[{1}] = WithBlock(k[{1} \ {Max({1})}], pair[Max({1})])
  BY <1>4, <1>5, <1>15 DEF Trails, all
<1>18. k[D] = WithBlock(k[D \ {Max(D)}], pair[Max(D)])
  BY <1>4, <1>5, <1>15 DEF Trails, all
<1>19. k[{1}] = first
  <2>1. k[{1} \ {Max({1})}] = k[{}] /\ pair[Max({1})] = r
    BY <1>1, <1>2, <1>6
  <2> QED BY <1>16, <1>17, <2>1 DEF first
<1>20. k[D] = both
  <2>1. k[D \ {Max(D)}] = k[{1}] /\ pair[Max(D)] = s
    BY <1>1, <1>2, <1>7
  <2> QED BY <1>18, <1>19, <2>1 DEF both
<1>21. AuditTrail(pair) = k[D]
  BY <1>1, TrailIsChosen DEF k
<1> QED BY <1>20, <1>21 DEF pair, first, both

\* The height of a block names it, and its hash does.
LEMMA BlockIsFound ==
  ASSUME ChainInv, NEW b \in blocks
  PROVE  BlockAt(b.height) = b
BY DEF ChainInv, ChainLinked, BlockAt

LEMMA HashNamesBlock ==
  ASSUME AuditInv, NEW b \in blocks, NEW c \in blocks, b.hash = c.hash
  PROVE  b = c
<1>1. <<b.prev, b.root, b.batch>> = <<c.prev, c.root, c.batch>>
  BY DEF AuditInv, Sealed, BlockHash
<1> QED BY <1>1 DEF AuditInv, OneBlockEach

LEMMA LinksAreSteps ==
  ASSUME ChainInv, AuditInv, NEW b \in blocks, NEW c \in blocks, c.height > 0
  PROVE  c.prev = b.hash <=> c.height = b.height + 1
<1>1. b.height \in Nat /\ c.height \in Nat
  BY DEF ChainInv, HeightsAreNat
<1>2. PICK d \in blocks : d.height = c.height - 1 /\ d.hash = c.prev
  BY DEF ChainInv, ChainLinked
<1>3. ASSUME c.prev = b.hash PROVE c.height = b.height + 1
  <2>1. d = b
    BY <1>2, <1>3, HashNamesBlock
  <2> QED BY <1>1, <1>2, <2>1
<1>4. ASSUME c.height = b.height + 1 PROVE c.prev = b.hash
  <2>1. d.height = b.height
    BY <1>1, <1>2, <1>4
  <2>2. d = b
    BY <2>1 DEF ChainInv, ChainLinked
  <2> QED BY <1>2, <2>2
<1> QED BY <1>3, <1>4

LEMMA RowVerifies ==
  ASSUME ChainInv, AuditInv, NEW r \in rows, r.proof # <<>>, SignatureValid(BlockAt(r.height))
  PROVE  VerifyPaymentAudit(r)
<1>1. Rooted(r)
  BY DEF AuditInv
<1>2. PICK b \in blocks : /\ b.height = r.height /\ b.height > 0
                          /\ \E n, hashes : \E i \in 1..n :
                               /\ IsLevel(hashes, n) /\ hashes[i] = Leaf(r.event)
                               /\ r.proof = MerkleProof(hashes, i) /\ b.root = MerkleRoot(hashes)
  BY <1>1 DEF Rooted
<1>3. BlockAt(r.height) = b
  BY <1>2, BlockIsFound
<1>4. VerifyMerkleProof(Leaf(r.event), r.proof, b.root)
  BY <1>2, ProofsVerify
<1>5. b.height > 1 => b.prev = BlockAt(b.height - 1).hash
  <2>1. PICK d \in blocks : d.height = b.height - 1 /\ d.hash = b.prev
    BY <1>2 DEF ChainInv, ChainLinked
  <2>2. BlockAt(b.height - 1) = d
    BY <2>1, BlockIsFound
  <2> QED BY <2>1, <2>2
<1> QED BY <1>3, <1>4, <1>5 DEF VerifyPaymentAudit

LEMMA TrailVerifies ==
  ASSUME ChainInv, AuditInv, NEW r \in rows, NEW s \in rows
  PROVE  VerifyChainIntegrity(AuditTrail(<<r, s>>)) <=> s.height \in {r.height, r.height + 1}
<1>1. PICK b \in blocks : b.height = r.height /\ b.height > 0
  BY DEF AuditInv, Rooted
<1>2. PICK c \in blocks : c.height = s.height /\ c.height > 0
  BY DEF AuditInv, Rooted
<1>3. BlockAt(r.height) = b /\ BlockAt(s.height) = c
  BY <1>1, <1>2, BlockIsFound
<1>4. WithBlock(<<>>, r) = <<b>>
  BY <1>3 DEF WithBlock, ToSet
<1>5. AuditTrail(<<r, s>>) = WithBlock(<<b>>, s)
  BY <1>4, TrailOfTwo
<1>6. CASE b = c
  <2>1. AuditTrail(<<r, s>>) = <<b>>
    BY <1>3, <1>5, <1>6 DEF WithBlock, ToSet
  <2>2. VerifyChainIntegrity(<<b>>)
    BY DEF VerifyChainIntegrity
  <2> QED BY <1>1, <1>2, <1>6, <2>1, <2>2
<1>7. CASE b # c
  <2>1. AuditTrail(<<r, s>>) = <<b, c>>
    BY <1>3, <1>5, <1>7 DEF WithBlock, ToSet
  <2>2. VerifyChainIntegrity(<<b, c>>) <=> c.prev = b.hash
    BY DEF VerifyChainIntegrity
  <2>3. b.height # c.height
    BY <1>7 DEF ChainInv, ChainLinked
  <2>4. c.prev = b.hash <=> c.height = b.height + 1
    BY <1>2, LinksAreSteps
  <2> QED BY <1>1, <1>2, <2>1, <2>2, <2>3, <2>4
<1> QED BY <1>6, <1>7

\* Whatever fails, flushes or restarts, an event row verifies with its Merkle
\* proof, however many events its batch has, against the block it names while
\* the process that signed the block runs; and the trail of a payment verifies
\* if and only if its events are in one block or two neighbours, in order.
THEOREM AuditorsAreToldRight == Spec => []AuditsAreRight
<1>1. Spec => []ChainInv
  BY InitChain, NextKeepsChain, PTL DEF Spec
<1>2. Spec => []EventInv
  BY InitEvents, NextKeepsEvents, PTL DEF Spec
<1>3. EventInv => Typed
  BY DEF EventInv
<1>4. Spec => []AuditInv
  BY <1>1, <1>2, <1>3, InitAudits, NextKeepsAudits, PTL DEF Spec
<1>5. ChainInv /\ AuditInv => AuditsAreRight
  BY RowVerifies, TrailVerifies DEF AuditsAreRight, EventsOf
<1> QED BY <1>1, <1>4, <1>5, PTL
===============================================================================

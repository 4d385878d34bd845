------------------------------ MODULE EngineProofs ------------------------------
(***************************************************************************)
(* Proofs about the trading engine, for any commands, capacities, plans    *)
(* and bounds: stop() leaves nothing of the log in memory; with one        *)
(* producer the command ring is a first-in first-out queue; balances stay  *)
(* in range; events arrive in order; a request is logged once while the    *)
(* cache remembers it; the log rebuilds the ledger; no money is made.      *)
(***************************************************************************)
EXTENDS Engine, Sums, SequenceTheorems

-----------------------------------------------------------------------------
(* stop() and the log.                                                     *)

\* While main is past the joins, every thread that could append has ended;
\* only main's own snapshot is taken before them.
StopInv ==
  /\ main # "up" => ~ running
  /\ "snapshotter" \in ended => snapper["snapshotter"].pc = "idle"
  /\ main = "stopped" => /\ core.pc = "done"
                         /\ "snapshotter" \in ended
                         /\ flushed = Len(wal)
  /\ snapper["main"].pc # "idle" => main = "writing"
  /\ snapper = [t \in SnapshotThreads |-> snapper[t]]

\* The core thread never leaves its last place.
LEMMA CoreEnds == core.pc = "done" => ~ CoreStep
<1>1. SUFFICES ASSUME core.pc = "done", CoreStep PROVE FALSE
  OBVIOUS
<1>2. ~ (TakeCommand \/ AddToBatch \/ EndBatch)
  BY <1>1, SMT DEF TakeCommand, AddToBatch, EndBatch
<1>3. ~ (StartCommand \/ BatchDone)
  BY <1>1, SMT DEF StartCommand, BatchDone
<1>4. ~ (CreditReceiver \/ UndoDebit \/ CreditFee)
  BY <1>1, SMT DEF CreditReceiver, UndoDebit, CreditFee
<1>5. ~ (LogCommand \/ EmitEvent \/ PostEvent \/ RecordResult)
  BY <1>1, SMT DEF LogCommand, EmitEvent, PostEvent, RecordResult
<1>6. QED
  BY <1>1, <1>2, <1>3, <1>4, <1>5 DEF CoreStep

\* The core thread changes nothing of the life of the process or of snapshots.
LEMMA CoreKeeps == CoreStep => UNCHANGED <<main, running, snapper, ended>>
<1>1. SUFFICES ASSUME CoreStep PROVE UNCHANGED <<main, running, snapper, ended>>
  OBVIOUS
<1>2. RestUnchanged
  BY <1>1, Zenon DEF CoreStep, TakeCommand, AddToBatch, EndBatch, StartCommand, BatchDone,
     CreditReceiver, UndoDebit, CreditFee, LogCommand, EmitEvent, PostEvent, RecordResult
<1>3. QED
  BY <1>2 DEF RestUnchanged, snapVars, lifeVars

LEMMA StopInvInit == Init => StopInv
BY DEF Init, StopInv, NoSnapshot, SnapshotThreads

LEMMA StopInvNext == StopInv /\ [Next]_vars => StopInv'
<1>1. SUFFICES ASSUME StopInv, [Next]_vars PROVE StopInv'
  OBVIOUS
<1>2. CASE \E p \in Producers : FinishSubmit(p) \/ \E c \in Commands : Submit(p, c)
  <2>1. UNCHANGED <<main, running, core, snapper, flushed, wal, ended>>
    BY <1>2 DEF FinishSubmit, Submit, lifeVars, coreVars, snapVars, walVars
  <2>2. QED
    BY <2>1, <1>1 DEF StopInv
<1>3. CASE CoreStep
  <2>1. UNCHANGED <<main, running, snapper, ended>>
    BY <1>3, CoreKeeps
  <2>2. main # "stopped"
    BY <1>1, <1>3, CoreEnds DEF StopInv
  <2>3. QED
    BY <2>1, <2>2, <1>1 DEF StopInv
<1>4. CASE PublisherStep
  <2>1. UNCHANGED <<main, running, core, snapper, flushed, wal>> /\ ended' \in {ended, ended \cup {"publisher"}}
    BY <1>4 DEF PublisherStep, Looks, Ends, lifeVars, coreVars, snapVars, walVars
  <2>2. QED
    BY <2>1, <1>1 DEF StopInv
<1>5. CASE FlusherStep
  <2>1. /\ UNCHANGED <<main, running, core, snapper, wal>> /\ flushed' \in {flushed, Len(wal)}
        /\ ended' \in {ended, ended \cup {"flusher"}}
    BY <1>5 DEF FlusherStep, FlushFile, ResetCount, Looks, Ends, walVars, lifeVars, coreVars, snapVars
  <2>2. QED
    BY <2>1, <1>1 DEF StopInv
<1>6. CASE SnapshotStep
  <2>1. UNCHANGED <<main, running, core>>
    BY <1>6 DEF SnapshotStep, lifeVars, coreVars
  <2>2. main # "stopped"
    <3>1. "snapshotter" \notin ended \/ snapper["snapshotter"].pc # "idle"
      BY <1>6 DEF SnapshotStep, ReadLedger, WriteSnapshot, Wakes, Ends
    <3>2. QED
      BY <3>1, <1>1 DEF StopInv
  <2>3. snapper' = [t \in SnapshotThreads |-> snapper'[t]] /\ snapper'["main"] = snapper["main"]
    BY <1>1, <1>6 DEF SnapshotStep, BeginSnapshot, ReadLedger, WriteSnapshot, StopInv, SnapshotThreads,
       snapVars
  <2>4. "snapshotter" \in ended' => snapper'["snapshotter"].pc = "idle"
    <3>1. CASE Wakes("snapshotter") /\ UNCHANGED ended
      BY <3>1 DEF Wakes
    <3>2. CASE ReadLedger("snapshotter") /\ UNCHANGED ended
      BY <3>2, <1>1 DEF ReadLedger, StopInv
    <3>3. CASE WriteSnapshot("snapshotter")
      BY <3>3, <1>1 DEF WriteSnapshot, StopInv, NoSnapshot, SnapshotThreads
    <3>4. CASE snapper["snapshotter"].pc = "idle" /\ UNCHANGED snapVars
      BY <3>4 DEF snapVars
    <3> QED BY <1>6, <3>1, <3>2, <3>3, <3>4 DEF SnapshotStep
  <2>5. QED
    BY <1>1, <2>1, <2>2, <2>3, <2>4 DEF StopInv
<1>7. CASE Stop
  <2>1. /\ main = "up" /\ main' = "snapshot" /\ running' = FALSE
        /\ snapper' = snapper /\ ended' = ended
    BY <1>7 DEF Stop, snapVars
  <2>2. QED
    BY <1>1, <2>1 DEF StopInv
<1>8. CASE FinalSnapshot
  <2>1. main' # "stopped" /\ main # "up" /\ running' = running
    BY <1>1, <1>8 DEF FinalSnapshot, MainGoes, lifeVars, ReadLedger, WriteSnapshot, StopInv
  <2>2. snapper' = [t \in SnapshotThreads |-> snapper'[t]]
    BY <1>1, <1>8 DEF FinalSnapshot, BeginSnapshot, ReadLedger, WriteSnapshot, StopInv,
       SnapshotThreads, snapVars
  <2>3. snapper'["main"].pc # "idle" => main' = "writing"
    BY <1>1, <1>8 DEF FinalSnapshot, BeginSnapshot, ReadLedger, WriteSnapshot, StopInv,
       SnapshotThreads, snapVars, NoSnapshot, MainGoes, lifeVars
  <2>4. ended' = ended /\ snapper'["snapshotter"] = snapper["snapshotter"]
    BY <1>1, <1>8 DEF FinalSnapshot, BeginSnapshot, ReadLedger, WriteSnapshot, StopInv,
       SnapshotThreads, snapVars
  <2>5. QED
    BY <1>1, <2>1, <2>2, <2>3, <2>4 DEF StopInv
<1>9. CASE DrainEvents
  <2>1. /\ main' # "stopped" /\ main # "up" /\ running' = running /\ snapper' = snapper
        /\ main # "writing" /\ ended' = ended
    BY <1>9 DEF DrainEvents, MainGoes, snapVars
  <2>2. QED
    BY <1>1, <2>1 DEF StopInv
<1>10. CASE FinishStop
  <2>1. /\ main = "join" /\ main' = "stopped" /\ Joinable /\ flushed' = Len(wal)
        /\ UNCHANGED <<running, core, wal, snapper, ended>>
    BY <1>10 DEF FinishStop, MainGoes, coreVars, snapVars
  <2>2. QED
    BY <1>1, <2>1 DEF StopInv, Joinable, Threads
<1>11. CASE Restart
  <2>1. main' = "up" /\ snapper' = [t \in SnapshotThreads |-> NoSnapshot] /\ ended' = {}
    BY <1>11 DEF Restart
  <2>2. QED
    BY <2>1 DEF StopInv, NoSnapshot, SnapshotThreads
<1>12. CASE UNCHANGED vars
  <2>1. UNCHANGED <<main, running, core, snapper, flushed, wal, ended>>
    BY <1>12 DEF vars, lifeVars, coreVars, snapVars, walVars
  <2>2. QED
    BY <2>1, <1>1 DEF StopInv
<1>13. QED
  BY <1>1, <1>2, <1>3, <1>4, <1>5, <1>6, <1>7, <1>8, <1>9, <1>10, <1>11, <1>12 DEF Next, MainStep

\* stop() leaves no record of the log in memory, whatever the threads were
\* doing when it was called and whatever the bounds.
THEOREM EngineStopIsDurable == Spec => []StoppedIsDurable
<1>1. StopInv => StoppedIsDurable
  BY DEF StopInv, StoppedIsDurable
<1>2. QED
  BY StopInvInit, StopInvNext, <1>1, PTL DEF Spec

-----------------------------------------------------------------------------
(* The command ring.                                                       *)

\* Fewer than Capacity consecutive indices use different slots.
LEMMA SlotsDiffer ==
  ASSUME NEW i \in Nat, NEW j \in Nat, i < j, j < i + Capacity
  PROVE  Slot(i) # Slot(j)
<1>1. Capacity \in Nat \ {0}
  BY QueueAssumption
<1>2. DEFINE qi == i \div Capacity
             qj == j \div Capacity
<1>3. /\ qi \in Int /\ qj \in Int
      /\ i = Capacity * qi + Slot(i) /\ j = Capacity * qj + Slot(j)
      /\ Slot(i) \in 0..Capacity - 1 /\ Slot(j) \in 0..Capacity - 1
  BY <1>1 DEF Slot
<1>4. SUFFICES ASSUME Slot(i) = Slot(j) PROVE FALSE
  OBVIOUS
<1>5. j - i = Capacity * (qj - qi)
  BY <1>1, <1>3, <1>4
<1>6. CASE qj - qi <= 0
  BY <1>1, <1>3, <1>5, <1>6
<1>7. CASE qj - qi >= 1
  BY <1>1, <1>3, <1>5, <1>7
<1>8. QED
  BY <1>3, <1>6, <1>7

LEMMA SlotInRange == ASSUME NEW i \in Nat PROVE Slot(i) \in 0..Capacity - 1
BY QueueAssumption DEF Slot

\* What the engine does to the command queue.
QueueStep ==
  \/ \E p \in Producers, c \in Commands : WriteSlot(p, c)
  \/ \E p \in Producers : CommitWrite(p)
  \/ CopyCommand
  \/ ReleaseSlot
  \/ QueueReset
  \/ UNCHANGED queueVars

LEMMA QueueSteps == [Next]_vars => QueueStep
<1>1. SUFFICES ASSUME [Next]_vars PROVE QueueStep
  OBVIOUS
<1>2. ASSUME NEW p \in Producers, FinishSubmit(p) PROVE QueueStep
  BY <1>2 DEF FinishSubmit, QueueStep
<1>3. ASSUME NEW p \in Producers, NEW c \in Commands, Submit(p, c) PROVE QueueStep
  BY <1>3 DEF Submit, RefuseCommand, QueueStep
<1>4. CASE CoreStep
  <2>1. CASE TakeCommand
    BY <2>1 DEF TakeCommand, QueueStep
  <2>2. CASE AddToBatch
    BY <2>2 DEF AddToBatch, QueueStep
  <2>3. CASE EndBatch \/ StartCommand \/ BatchDone
    BY <2>3, Zenon DEF EndBatch, StartCommand, BatchDone, QueueStep, queueVars
  <2>4. CASE CreditReceiver \/ UndoDebit \/ CreditFee \/ LogCommand
    BY <2>4, Zenon DEF CreditReceiver, UndoDebit, CreditFee, LogCommand, QueueStep, queueVars
  <2>5. CASE EmitEvent \/ PostEvent \/ RecordResult
    BY <2>5, Zenon DEF EmitEvent, PostEvent, RecordResult, QueueStep, queueVars
  <2>6. QED
    BY <1>4, <2>1, <2>2, <2>3, <2>4, <2>5 DEF CoreStep
<1>5. CASE PublisherStep \/ FlusherStep \/ SnapshotStep \/ Stop
  BY <1>5, Zenon DEF PublisherStep, FlusherStep, SnapshotStep, Stop, QueueStep, queueVars
<1>6. CASE FinalSnapshot \/ DrainEvents \/ FinishStop
  BY <1>6, Zenon DEF FinalSnapshot, DrainEvents, FinishStop, QueueStep, queueVars
<1>7. CASE Restart
  BY <1>7 DEF Restart, QueueStep
<1>8. CASE UNCHANGED vars
  BY <1>8 DEF vars, QueueStep
<1>9. QED
  BY <1>1, <1>2, <1>3, <1>4, <1>5, <1>6, <1>7, <1>8 DEF Next, MainStep

\* The committed commands lie in the slots between the indices, a command
\* being written lies behind them, and the consumer holds the first of them.
QueueInv ==
  /\ slots \in [0..Capacity - 1 -> Commands \cup {NoCommand}]
  /\ producer \in [Producers -> [command : Commands \cup {NoCommand}, at : Nat]]
  /\ accepted \in Seq(Commands) /\ taken \in Seq(Commands)
  /\ read_index = Len(taken) /\ write_index = Len(accepted)
  /\ read_index <= write_index /\ write_index <= read_index + Capacity
  /\ \A i \in read_index..write_index - 1 : slots[Slot(i)] = accepted[i + 1]
  /\ hand # NoCommand => read_index < write_index /\ hand = accepted[read_index + 1]
  /\ \A p \in Producers : IsWriting(p) =>
       /\ producer[p].at = write_index
       /\ write_index < read_index + Capacity
       /\ slots[Slot(write_index)] = producer[p].command

LEMMA QueueInvInit == Init => QueueInv
<1>1. SUFFICES ASSUME Init PROVE QueueInv
  OBVIOUS
<1>2. QueueInit
  BY <1>1 DEF Init
<1>3. <<>> \in Seq(Commands) /\ Len(<<>>) = 0
  OBVIOUS
<1>4. slots \in [0..Capacity - 1 -> Commands \cup {NoCommand}]
  BY <1>2 DEF QueueInit
<1>5. producer \in [Producers -> [command : Commands \cup {NoCommand}, at : Nat]]
  BY <1>2 DEF QueueInit, Idle
<1>6. \A p \in Producers : ~ IsWriting(p)
  BY <1>2 DEF QueueInit, Idle, IsWriting
<1>7. QED
  BY <1>2, <1>3, <1>4, <1>5, <1>6, QueueAssumption DEF QueueInit, QueueInv

OneProducer == \A p, q \in Producers : p = q

\* With one producer nobody writes into a slot between the load and the store
\* of the write index.
LEMMA QueueInvNext == OneProducer /\ QueueInv /\ QueueStep => QueueInv'
<1>1. SUFFICES ASSUME OneProducer, QueueInv, QueueStep PROVE QueueInv'
  OBVIOUS
<1> USE QueueAssumption
<1>a. /\ slots \in [0..Capacity - 1 -> Commands \cup {NoCommand}]
      /\ producer \in [Producers -> [command : Commands \cup {NoCommand}, at : Nat]]
      /\ accepted \in Seq(Commands) /\ taken \in Seq(Commands)
      /\ read_index = Len(taken) /\ write_index = Len(accepted)
      /\ read_index <= write_index /\ write_index <= read_index + Capacity
      /\ read_index \in Nat /\ write_index \in Nat
  BY <1>1 DEF QueueInv
<1>b. \A i \in read_index..write_index - 1 : slots[Slot(i)] = accepted[i + 1]
  BY <1>1 DEF QueueInv
<1>c. hand # NoCommand => read_index < write_index /\ hand = accepted[read_index + 1]
  BY <1>1 DEF QueueInv
<1>d. \A p \in Producers : IsWriting(p) =>
        /\ producer[p].at = write_index
        /\ write_index < read_index + Capacity
        /\ slots[Slot(write_index)] = producer[p].command
  BY <1>1 DEF QueueInv
<1>2. ASSUME NEW p \in Producers, NEW c \in Commands, WriteSlot(p, c) PROVE QueueInv'
  <2>1. /\ write_index < read_index + Capacity
        /\ slots' = [slots EXCEPT ![Slot(write_index)] = c]
        /\ producer' = [producer EXCEPT ![p] = [command |-> c, at |-> write_index]]
        /\ UNCHANGED <<write_index, accepted, read_index, hand, taken>>
    BY <1>2, <1>a DEF WriteSlot, HasRoom, readerVars
  <2>2. /\ slots' \in [0..Capacity - 1 -> Commands \cup {NoCommand}]
        /\ slots'[Slot(write_index)] = c
    BY <2>1, <1>a, SlotInRange
  <2>3. producer' \in [Producers -> [command : Commands \cup {NoCommand}, at : Nat]]
    BY <2>1, <1>a
  <2>4. \A i \in read_index..write_index - 1 : slots'[Slot(i)] = accepted[i + 1]
    <3>1. SUFFICES ASSUME NEW i \in read_index..write_index - 1
                   PROVE  slots'[Slot(i)] = accepted[i + 1]
      OBVIOUS
    <3>2. i \in Nat /\ i < write_index /\ write_index < i + Capacity
      BY <2>1, <1>a, <3>1
    <3>3. Slot(i) # Slot(write_index) /\ Slot(i) \in 0..Capacity - 1
      BY <3>2, <1>a, SlotsDiffer, SlotInRange
    <3>4. slots'[Slot(i)] = slots[Slot(i)]
      BY <2>1, <3>3, <1>a
    <3>5. QED
      BY <3>4, <1>b, <3>1
  <2>5. \A q \in Producers : q = p /\ producer'[q] = [command |-> c, at |-> write_index]
    BY <2>1, <1>1, <1>a DEF OneProducer
  <2>6. QED
    BY <2>1, <2>2, <2>3, <2>4, <2>5, <1>a, <1>c DEF QueueInv, IsWriting
<1>3. ASSUME NEW p \in Producers, CommitWrite(p) PROVE QueueInv'
  <2>1. /\ producer[p].command \in Commands
        /\ producer[p].at = write_index
        /\ write_index < read_index + Capacity
        /\ slots[Slot(write_index)] = producer[p].command
    BY <1>3, <1>a, <1>d DEF CommitWrite, IsWriting
  <2>2. PICK c \in Commands : c = producer[p].command
    BY <2>1
  <2>3. /\ write_index' = write_index + 1
        /\ accepted' = Append(accepted, c)
        /\ producer' = [producer EXCEPT ![p] = Idle]
        /\ UNCHANGED <<slots, read_index, hand, taken>>
    BY <1>3, <2>1, <2>2 DEF CommitWrite, readerVars
  <2>4. /\ accepted' \in Seq(Commands) /\ Len(accepted') = write_index + 1
        /\ accepted'[write_index + 1] = c
        /\ \A i \in 1..write_index : accepted'[i] = accepted[i]
    BY <2>3, <1>a
  <2>5. producer' \in [Producers -> [command : Commands \cup {NoCommand}, at : Nat]]
    BY <2>3, <1>a DEF Idle
  <2>6. \A q \in Producers : q = p /\ producer'[q].command = NoCommand
    BY <2>3, <1>1, <1>a DEF OneProducer, Idle
  <2>7. \A i \in read_index'..write_index' - 1 : slots'[Slot(i)] = accepted'[i + 1]
    <3>1. SUFFICES ASSUME NEW i \in read_index..write_index
                   PROVE  slots[Slot(i)] = accepted'[i + 1]
      BY <2>3, <1>a
    <3>2. CASE i = write_index
      BY <3>2, <2>1, <2>2, <2>4
    <3>3. CASE i # write_index
      <4>1. i \in read_index..write_index - 1 /\ i + 1 \in 1..write_index
        BY <3>1, <3>3, <1>a
      <4>2. QED
        BY <4>1, <1>b, <2>4
    <3>4. QED
      BY <3>2, <3>3
  <2>8. hand' # NoCommand => read_index' < write_index' /\ hand' = accepted'[read_index' + 1]
    BY <2>3, <2>4, <1>a, <1>c
  <2>9. QED
    BY <2>1, <2>3, <2>4, <2>5, <2>6, <2>7, <2>8, <1>a DEF QueueInv, IsWriting
<1>4. CASE CopyCommand
  <2>1. /\ read_index < write_index /\ hand' = slots[Slot(read_index)]
        /\ UNCHANGED <<slots, write_index, producer, accepted, read_index, taken>>
    BY <1>4, <1>a DEF CopyCommand, IsEmpty, writerVars
  <2>2. hand' = accepted[read_index + 1]
    BY <2>1, <1>a, <1>b
  <2>3. QED
    BY <2>1, <2>2, <1>a, <1>b, <1>d DEF QueueInv, IsWriting
<1>5. CASE ReleaseSlot
  <2>1. /\ hand # NoCommand /\ hand' = NoCommand
        /\ read_index' = read_index + 1
        /\ taken' = Append(taken, hand)
        /\ UNCHANGED <<slots, write_index, producer, accepted>>
    BY <1>5 DEF ReleaseSlot, writerVars
  <2>2. read_index < write_index /\ hand \in Commands
    BY <2>1, <1>a, <1>c
  <2>3. taken' \in Seq(Commands) /\ Len(taken') = read_index + 1
    BY <2>1, <2>2, <1>a
  <2>4. \A i \in read_index'..write_index' - 1 : slots'[Slot(i)] = accepted'[i + 1]
    BY <2>1, <1>a, <1>b
  <2>5. \A q \in Producers : IsWriting(q)' =>
          /\ producer'[q].at = write_index'
          /\ write_index' < read_index' + Capacity
          /\ slots'[Slot(write_index)'] = producer'[q].command
    <3>1. SUFFICES ASSUME NEW q \in Producers, producer[q].command # NoCommand
                   PROVE  /\ producer[q].at = write_index
                          /\ write_index < read_index + 1 + Capacity
                          /\ slots[Slot(write_index)] = producer[q].command
      BY <2>1 DEF IsWriting, Slot
    <3>2. QED
      BY <3>1, <1>a, <1>d DEF IsWriting
  <2>6. QED
    BY <2>1, <2>2, <2>3, <2>4, <2>5, <1>a DEF QueueInv
<1>6. CASE QueueReset
  <2>1. <<>> \in Seq(Commands) /\ Len(<<>>) = 0
    OBVIOUS
  <2>2. slots' \in [0..Capacity - 1 -> Commands \cup {NoCommand}]
    BY <1>6 DEF QueueReset
  <2>3. producer' \in [Producers -> [command : Commands \cup {NoCommand}, at : Nat]]
    BY <1>6 DEF QueueReset, Idle
  <2>4. \A p \in Producers : producer'[p].command = NoCommand
    BY <1>6 DEF QueueReset, Idle
  <2>5. QED
    BY <1>6, <2>1, <2>2, <2>3, <2>4 DEF QueueReset, QueueInv, IsWriting
<1>7. CASE UNCHANGED queueVars
  BY <1>1, <1>7 DEF QueueInv, queueVars, IsWriting
<1>8. QED
  BY <1>1, <1>2, <1>3, <1>4, <1>5, <1>6, <1>7 DEF QueueStep

\* Every step of the queue is a step of the abstract queue or none.
LEMMA QueueStepImplements ==
  QueueInv /\ QueueStep => [ImplementsQueue!Next]_<<accepted, taken>>
<1>1. SUFFICES ASSUME QueueInv, QueueStep PROVE [ImplementsQueue!Next]_<<accepted, taken>>
  OBVIOUS
<1> USE QueueAssumption DEF ImplementsQueue!Next
<1>2. ASSUME NEW p \in Producers, NEW c \in Commands, WriteSlot(p, c)
      PROVE  UNCHANGED <<accepted, taken>>
  BY <1>2 DEF WriteSlot, readerVars
<1>3. ASSUME NEW p \in Producers, CommitWrite(p)
      PROVE  \E c \in Commands : ImplementsQueue!Put(c)
  <2>1. /\ producer[p].command \in Commands
        /\ Len(accepted) < Len(taken) + Capacity
    BY <1>1, <1>3 DEF CommitWrite, IsWriting, QueueInv
  <2>2. accepted' = Append(accepted, producer[p].command) /\ taken' = taken
    BY <1>3 DEF CommitWrite, readerVars
  <2>3. QED
    BY <2>1, <2>2 DEF ImplementsQueue!Put
<1>4. CASE CopyCommand
  BY <1>4 DEF CopyCommand, writerVars
<1>5. CASE ReleaseSlot
  <2>1. Len(taken) < Len(accepted) /\ hand = accepted[Len(taken) + 1]
    BY <1>1, <1>5 DEF ReleaseSlot, QueueInv
  <2>2. taken' = Append(taken, hand) /\ accepted' = accepted
    BY <1>5 DEF ReleaseSlot, writerVars
  <2>3. QED
    BY <2>1, <2>2 DEF ImplementsQueue!Take
<1>6. CASE QueueReset
  BY <1>6 DEF QueueReset, ImplementsQueue!Reset
<1>7. CASE UNCHANGED queueVars
  BY <1>7 DEF queueVars
<1>8. QED
  BY <1>1, <1>2, <1>3, <1>4, <1>5, <1>6, <1>7 DEF QueueStep

\* With one producer, every command for which submit returned true reaches the
\* core thread once, in order, and no more than Capacity wait at a time.
THEOREM EngineQueueIsFIFO ==
  ASSUME OneProducer PROVE Spec => CommandsInOrder
<1>1. Init => ImplementsQueue!Init
  BY DEF Init, QueueInit, ImplementsQueue!Init
<1>2. QueueInv /\ [Next]_vars => QueueInv'
  BY QueueInvNext, QueueSteps
<1>3. QueueInv /\ [Next]_vars => [ImplementsQueue!Next]_<<accepted, taken>>
  BY QueueSteps, QueueStepImplements
<1>4. QED
  BY QueueInvInit, <1>1, <1>2, <1>3, PTL DEF Spec, CommandsInOrder, ImplementsQueue!Spec

-----------------------------------------------------------------------------
(* Types.                                                                  *)

LedgerOK(l) == \A id \in DOMAIN l : l[id] \in Balances

LedgerTyped(l) == \A id \in DOMAIN l : l[id] \in BalanceRows

LEMMA WrappedFits == ASSUME NEW n \in Int PROVE Wrapped(n) \in Int64
<1> DEFINE m == 2 * MaxInt + 2
<1>1. m \in Nat \ {0} /\ MinInt \in Int /\ n - MinInt \in Int
  BY WidthAssumption DEF MinInt
<1>2. (n - MinInt) % m \in 0..m - 1
  <2> HIDE DEF m
  <2> QED BY <1>1
<1> QED BY <1>2, WidthAssumption DEF Wrapped, Int64, MinInt

LEMMA WrappedSame == ASSUME NEW n \in Int64 PROVE Wrapped(n) = n
<1> DEFINE m == 2 * MaxInt + 2
           k == n - MinInt
<1>1. m \in Nat \ {0} /\ k \in 0..m - 1
  BY WidthAssumption DEF Int64, MinInt
<1>2. k % m = k
  <2> HIDE DEF m, k
  <2> QED BY <1>1
<1> QED BY <1>2, WidthAssumption DEF Wrapped, Int64, MinInt

LEMMA Int64IsInt == (\A n \in Int64 : n \in Int) /\ (\A n \in 0..MaxInt : n \in Int64)
BY WidthAssumption DEF Int64, MinInt

LEMMA StoredIsLedger ==
  ASSUME NEW l, LedgerOK(l), NEW id, NEW b \in Balances
  PROVE  LedgerOK(Stored(l, id, b))
BY DEF LedgerOK, Stored

LEMMA StoredIsTyped ==
  ASSUME NEW l, LedgerTyped(l), NEW id, NEW b \in BalanceRows
  PROVE  LedgerTyped(Stored(l, id, b))
BY DEF LedgerTyped, Stored

\* Sums are checked and differences wrap: every field stays an int64_t, also
\* for amounts below zero.
LEMMA RowsStayTyped ==
  ASSUME NEW l, LedgerTyped(l), NEW id, NEW amount \in Int64
  PROVE  /\ CanFreeze(l, id, amount) => LedgerTyped(Freeze(l, id, amount))
         /\ CanUnfreeze(l, id, amount) => LedgerTyped(Unfreeze(l, id, amount))
         /\ CanDebit(l, id, amount) => LedgerTyped(Debit(l, id, amount))
         /\ CanCredit(l, id, amount) => LedgerTyped(Credit(l, id, amount))
         /\ LedgerTyped(CreditIfPossible(l, id, amount))
<1> DEFINE row == l[id]
<1>0. \A a, f, s \in Int64 : Balance(a, f, s) \in BalanceRows
  BY DEF Balance, BalanceRows
<1>1. ASSUME id \in DOMAIN l
      PROVE  /\ row.available \in Int64 /\ row.frozen \in Int64 /\ row.settled \in Int64
             /\ Wrapped(row.available - amount) \in Int64 /\ Wrapped(row.frozen - amount) \in Int64
  <2>1. row.available \in Int64 /\ row.frozen \in Int64 /\ row.settled \in Int64
    BY <1>1 DEF LedgerTyped, BalanceRows
  <2>2. row.available - amount \in Int /\ row.frozen - amount \in Int
    BY <2>1, Int64IsInt
  <2> QED BY <2>1, <2>2, WrappedFits
<1>2. ASSUME CanFreeze(l, id, amount) PROVE LedgerTyped(Freeze(l, id, amount))
  <2>1. id \in DOMAIN l /\ row.frozen + amount \in Int64
    BY <1>2 DEF CanFreeze, AddOverflow
  <2> QED BY <1>0, <1>1, <2>1, StoredIsTyped DEF Freeze
<1>3. ASSUME CanUnfreeze(l, id, amount) PROVE LedgerTyped(Unfreeze(l, id, amount))
  <2>1. id \in DOMAIN l /\ row.available + amount \in Int64
    BY <1>3 DEF CanUnfreeze, AddOverflow
  <2> QED BY <1>0, <1>1, <2>1, StoredIsTyped DEF Unfreeze
<1>4. ASSUME CanDebit(l, id, amount) PROVE LedgerTyped(Debit(l, id, amount))
  <2>1. id \in DOMAIN l /\ row.settled + amount \in Int64
    BY <1>4 DEF CanDebit, AddOverflow
  <2> QED BY <1>0, <1>1, <2>1, StoredIsTyped DEF Debit
<1>5. ASSUME CanCredit(l, id, amount) PROVE LedgerTyped(Credit(l, id, amount))
  <2>1. CASE id \in DOMAIN l
    <3>1. row.available + amount \in Int64
      BY <1>5, <2>1 DEF CanCredit, AddOverflow
    <3> QED BY <1>0, <1>1, <2>1, <3>1, StoredIsTyped DEF Credit
  <2>2. CASE id \notin DOMAIN l
    <3>1. 0 \in Int64
      BY WidthAssumption DEF Int64, MinInt
    <3>2. Balance(amount, 0, 0) \in BalanceRows
      BY <1>0, <3>1
    <3> QED BY <2>2, <3>2, StoredIsTyped DEF Credit
  <2> QED BY <2>1, <2>2
<1>6. LedgerTyped(CreditIfPossible(l, id, amount))
  BY <1>5 DEF CreditIfPossible
<1> QED BY <1>2, <1>3, <1>4, <1>5, <1>6

LEMMA FreezeIsLedger ==
  ASSUME NEW l, LedgerOK(l), NEW id, NEW amount \in 0..MaxInt, CanFreeze(l, id, amount)
  PROVE  LedgerOK(Freeze(l, id, amount))
<1>1. l[id] \in Balances /\ l[id].available - amount \in 0..MaxInt /\ l[id].frozen + amount \in 0..MaxInt
  BY WidthAssumption DEF LedgerOK, CanFreeze, AddOverflow, Balances, Int64
<1>a. Wrapped(l[id].available - amount) = l[id].available - amount
  BY <1>1, WrappedSame, Int64IsInt
<1>b. Balance(Wrapped(l[id].available - amount), l[id].frozen + amount, l[id].settled) \in Balances
  BY <1>1, <1>a DEF Balance, Balances
<1>2. QED
  BY <1>b, StoredIsLedger DEF Freeze

LEMMA UnfreezeIsLedger ==
  ASSUME NEW l, LedgerOK(l), NEW id, NEW amount \in 0..MaxInt, CanUnfreeze(l, id, amount)
  PROVE  LedgerOK(Unfreeze(l, id, amount))
<1>1. l[id] \in Balances /\ l[id].available + amount \in 0..MaxInt /\ l[id].frozen - amount \in 0..MaxInt
  BY WidthAssumption DEF LedgerOK, CanUnfreeze, AddOverflow, Balances, Int64
<1>a. Wrapped(l[id].frozen - amount) = l[id].frozen - amount
  BY <1>1, WrappedSame, Int64IsInt
<1>b. Balance(l[id].available + amount, Wrapped(l[id].frozen - amount), l[id].settled) \in Balances
  BY <1>1, <1>a DEF Balance, Balances
<1>2. QED
  BY <1>b, StoredIsLedger DEF Unfreeze

LEMMA DebitIsLedger ==
  ASSUME NEW l, LedgerOK(l), NEW id, NEW amount \in 0..MaxInt, CanDebit(l, id, amount)
  PROVE  LedgerOK(Debit(l, id, amount))
<1>1. l[id] \in Balances /\ l[id].settled + amount \in 0..MaxInt /\ l[id].frozen - amount \in 0..MaxInt
  BY WidthAssumption DEF LedgerOK, CanDebit, AddOverflow, Balances, Int64
<1>a. Wrapped(l[id].frozen - amount) = l[id].frozen - amount
  BY <1>1, WrappedSame, Int64IsInt
<1>b. Balance(l[id].available, Wrapped(l[id].frozen - amount), l[id].settled + amount) \in Balances
  BY <1>1, <1>a DEF Balance, Balances
<1>2. QED
  BY <1>b, StoredIsLedger DEF Debit

LEMMA CreditIsLedger ==
  ASSUME NEW l, LedgerOK(l), NEW id, NEW amount \in 0..MaxInt, CanCredit(l, id, amount)
  PROVE  LedgerOK(Credit(l, id, amount))
<1>1. CASE id \in DOMAIN l
  <2>1. Balance(l[id].available + amount, l[id].frozen, l[id].settled) \in Balances
    BY <1>1, WidthAssumption DEF LedgerOK, CanCredit, AddOverflow, Balance, Balances, Int64
  <2>2. QED
    BY <1>1, <2>1, StoredIsLedger DEF Credit
<1>2. CASE id \notin DOMAIN l
  <2>1. Balance(amount, 0, 0) \in Balances
    BY WidthAssumption DEF Balance, Balances
  <2>2. QED
    BY <1>2, <2>1, StoredIsLedger DEF Credit
<1>3. QED
  BY <1>1, <1>2

LEMMA CreditIfPossibleIsLedger ==
  ASSUME NEW l, LedgerOK(l), NEW id, NEW amount \in 0..MaxInt
  PROVE  LedgerOK(CreditIfPossible(l, id, amount))
BY CreditIsLedger DEF CreditIfPossible

LEMMA AmountTypes ==
  ASSUME NEW c \in Commands
  PROVE  Total(c) \in Int64 /\ c.fee \in Int64 /\ c.target \in Int64 /\ c.source \in Int64
<1>1. c.fee \in Int64 /\ c.target \in Int64 /\ c.source \in Int64
  BY AmountAssumption
<1>2. c.source + c.fee \in Int
  BY <1>1, Int64IsInt
<1> QED BY <1>1, <1>2, WrappedFits DEF Total

LEMMA Amounts ==
  ASSUME NEW c \in Commands, Regular(c)
  PROVE  /\ Total(c) \in 0..MaxInt /\ c.fee \in 0..MaxInt /\ c.target \in 0..MaxInt
         /\ c.source \in 0..MaxInt /\ Total(c) = c.source + c.fee
<1>1. c.fee \in 0..MaxInt /\ c.target \in 0..MaxInt /\ c.source \in 0..MaxInt
      /\ c.source + c.fee \in 0..MaxInt
  BY AmountAssumption, WidthAssumption DEF Regular, Int64, MinInt
<1>2. Wrapped(c.source + c.fee) = c.source + c.fee
  BY <1>1, Int64IsInt, WrappedSame
<1> QED BY <1>1, <1>2 DEF Total

\* Where the core thread is tells whether it has a command at hand.
CoreOK(c) ==
  /\ c = CoreAt(c.pc, c.batch, c.then)
  /\ c.batch \in Seq(Commands)
  /\ c.pc \in {"take", "next", "credit", "undo", "fee", "log", "emit", "posting",
               "record", "done"}
  /\ c.pc \in {"emit", "posting"} => c.then \in {"next", "record", "undo", "log"}
  /\ \/ c.batch # <<>>
     \/ c.pc \in {"take", "next", "done"}
     \/ c.pc \in {"emit", "posting"} /\ c.then = "next"

CoreInv ==
  /\ CoreOK(core)
  /\ LedgerTyped(ledger)
  /\ hand \in Commands \cup {NoCommand}

\* The commands at hand were taken, so they are regular if all that were are.
RegularInv ==
  OnlyRegular =>
    /\ LedgerOK(ledger)
    /\ \A i \in DOMAIN core.batch : Regular(core.batch[i])

LEMMA CoreAtOK ==
  ASSUME NEW b \in Seq(Commands),
         NEW pc \in {"take", "next", "credit", "undo", "fee", "log", "record", "done"},
         b # <<>> \/ pc \in {"take", "next", "done"}
  PROVE  CoreOK(CoreAt(pc, b, "none"))
BY DEF CoreOK, CoreAt

LEMMA CorePostsOK ==
  ASSUME NEW b \in Seq(Commands), NEW pc \in {"emit", "posting"},
         NEW then \in {"next", "record", "undo", "log"}, b # <<>> \/ then = "next"
  PROVE  CoreOK(CoreAt(pc, b, then))
BY DEF CoreOK, CoreAt

LEMMA CurrentIsCommand ==
  ASSUME CoreOK(core), core.batch # <<>>
  PROVE  Current \in Commands /\ Tail(core.batch) \in Seq(Commands)
BY DEF CoreOK, Current

\* Executing commands of any amounts keeps the ledger's types.
LEMMA CoreInvStep == CoreInv /\ CoreStep => CoreOK(core)' /\ LedgerTyped(ledger)'
<1>1. SUFFICES ASSUME CoreInv, CoreStep PROVE CoreOK(core)' /\ LedgerTyped(ledger)'
  OBVIOUS
<1>2. CoreOK(core) /\ LedgerTyped(ledger) /\ core.batch \in Seq(Commands)
  BY <1>1 DEF CoreInv, CoreOK
<1>3. CASE TakeCommand
  BY <1>2, <1>3 DEF TakeCommand, coreVars
<1>4. CASE AddToBatch
  <2>1. hand \in Commands /\ core' = CoreAt("take", Append(core.batch, hand), "none")
    BY <1>1, <1>4 DEF AddToBatch, ReleaseSlot, CoreInv, CoreGoes
  <2>2. Append(core.batch, hand) \in Seq(Commands)
    BY <1>2, <2>1
  <2>3. ledger' = ledger
    BY <1>4 DEF AddToBatch
  <2>4. QED
    BY <1>2, <2>1, <2>2, <2>3, CoreAtOK
<1>5. CASE EndBatch
  <2>1. PICK pc \in {"take", "next", "done"} : core' = CoreAt(pc, core.batch, "none")
    BY <1>5 DEF EndBatch, CoreGoes
  <2>2. ledger' = ledger
    BY <1>5 DEF EndBatch
  <2>3. QED
    BY <1>2, <2>1, <2>2, CoreAtOK
<1>6. CASE StartCommand
  <2>1. core.batch # <<>>
    BY <1>6 DEF StartCommand
  <2>2. /\ Current \in Commands /\ Tail(core.batch) \in Seq(Commands)
        /\ Total(Current) \in Int64
    BY <1>2, <2>1, CurrentIsCommand, AmountTypes
  <2>3. /\ CoreOK(CoreAt("log", core.batch, "none"))
        /\ CoreOK(CoreAt("credit", core.batch, "none"))
        /\ CoreOK(CoreAt("emit", core.batch, "record"))
        /\ CoreOK(CoreAt("emit", Tail(core.batch), "next"))
    BY <1>2, <2>1, <2>2, CoreAtOK, CorePostsOK
  <2>4. CASE SkipDuplicate
    BY <1>2, <2>3, <2>4 DEF SkipDuplicate, Posts
  <2>5. CASE HandleFreeze
    BY <1>2, <2>2, <2>3, <2>5, RowsStayTyped DEF HandleFreeze, Rejects, Posts, CoreGoes
  <2>6. CASE HandleRelease
    BY <1>2, <2>2, <2>3, <2>6, RowsStayTyped DEF HandleRelease, Rejects, Posts, CoreGoes
  <2>7. CASE HandleRefund
    BY <1>2, <2>2, <2>3, <2>7, RowsStayTyped DEF HandleRefund, Rejects, Posts, CoreGoes
  <2>8. CASE HandleSettlementBatch
    BY <1>2, <2>3, <2>8 DEF HandleSettlementBatch, CoreGoes
  <2>9. CASE DebitSender
    BY <1>2, <2>2, <2>3, <2>9, RowsStayTyped DEF DebitSender, Rejects, Posts, CoreGoes
  <2>10. QED
    BY <1>6, <2>4, <2>5, <2>6, <2>7, <2>8, <2>9 DEF StartCommand
<1>7. CASE BatchDone
  <2>1. PICK pc \in {"take", "done"} : core' = CoreAt(pc, <<>>, "none")
    BY <1>7 DEF BatchDone, CoreGoes
  <2>2. <<>> \in Seq(Commands)
    OBVIOUS
  <2>3. ledger' = ledger
    BY <1>7 DEF BatchDone
  <2>4. QED
    BY <1>2, <2>1, <2>2, <2>3, CoreAtOK
<1>8. CASE core.pc \in {"credit", "undo", "fee", "log", "record"}
  <2>1. core.batch # <<>>
    BY <1>2, <1>8 DEF CoreOK
  <2>2. /\ Current \in Commands /\ Tail(core.batch) \in Seq(Commands)
        /\ Total(Current) \in Int64
        /\ Current.fee \in Int64 /\ Current.target \in Int64
    BY <1>2, <2>1, CurrentIsCommand, AmountTypes
  <2>3. /\ CoreOK(CoreAt("fee", core.batch, "none"))
        /\ CoreOK(CoreAt("log", core.batch, "none"))
        /\ CoreOK(CoreAt("record", core.batch, "none"))
        /\ CoreOK(CoreAt("next", Tail(core.batch), "none"))
        /\ CoreOK(CoreAt("emit", core.batch, "undo"))
        /\ CoreOK(CoreAt("emit", core.batch, "log"))
        /\ CoreOK(CoreAt("emit", core.batch, "record"))
    BY <1>2, <2>1, <2>2, CoreAtOK, CorePostsOK
  <2>4. CASE CreditReceiver
    BY <1>2, <2>2, <2>3, <2>4, RowsStayTyped DEF CreditReceiver, Posts, CoreGoes
  <2>5. CASE UndoDebit
    BY <1>2, <2>2, <2>3, <2>5, RowsStayTyped DEF UndoDebit, CoreGoes
  <2>6. CASE CreditFee
    BY <1>2, <2>2, <2>3, <2>6, RowsStayTyped DEF CreditFee, Posts, CoreGoes
  <2>7. CASE LogCommand
    BY <1>2, <2>3, <2>7 DEF LogCommand, Posts
  <2>8. CASE RecordResult
    BY <1>2, <2>3, <2>8 DEF RecordResult, CoreGoes
  <2>9. ~ (TakeCommand \/ AddToBatch \/ EndBatch \/ StartCommand \/ BatchDone)
    BY <1>8, SMT DEF TakeCommand, AddToBatch, EndBatch, StartCommand, BatchDone
  <2>10. ~ (EmitEvent \/ PostEvent)
    BY <1>8, SMT DEF EmitEvent, PostEvent
  <2>11. QED
    BY <1>1, <2>4, <2>5, <2>6, <2>7, <2>8, <2>9, <2>10 DEF CoreStep
<1>9. CASE EmitEvent
  <2>1. core.then \in {"next", "record", "undo", "log"} /\ (core.batch # <<>> \/ core.then = "next")
    BY <1>2, <1>9 DEF EmitEvent, CoreOK
  <2>2. CoreOK(CoreAt("posting", core.batch, core.then)) /\ CoreOK(CoreAt(core.then, core.batch, "none"))
    BY <1>2, <2>1, CoreAtOK, CorePostsOK
  <2>3. QED
    BY <1>2, <1>9, <2>2 DEF EmitEvent, CoreGoes
<1>10. CASE PostEvent
  <2>1. core.then \in {"next", "record", "undo", "log"} /\ (core.batch # <<>> \/ core.then = "next")
    BY <1>2, <1>10 DEF PostEvent, CoreOK
  <2>2. CoreOK(CoreAt(core.then, core.batch, "none"))
    BY <1>2, <2>1, CoreAtOK
  <2>3. QED
    BY <1>2, <1>10, <2>2 DEF PostEvent, CoreGoes
<1>11. CreditReceiver \/ UndoDebit \/ CreditFee \/ LogCommand \/ RecordResult
         => core.pc \in {"credit", "undo", "fee", "log", "record"}
  BY SMT DEF CreditReceiver, UndoDebit, CreditFee, LogCommand, RecordResult
<1>12. QED
  BY <1>1, <1>3, <1>4, <1>5, <1>6, <1>7, <1>8, <1>9, <1>10, <1>11 DEF CoreStep

\* ... and of regular amounts keeps every balance between zero and the largest
\* integer.
LEMMA RegularInvStep ==
  ASSUME CoreInv, RegularInv, taken \in Seq(Commands), CoreStep
  PROVE  RegularInv'
<1>1. SUFFICES ASSUME OnlyRegular'
               PROVE  LedgerOK(ledger') /\ \A i \in DOMAIN core'.batch : Regular(core'.batch[i])
  BY DEF RegularInv, LedgerOK
<1>2. CoreOK(core) /\ core.batch \in Seq(Commands) /\ hand \in Commands \cup {NoCommand}
  BY DEF CoreInv, CoreOK
<1>3. CASE AddToBatch
  <2>1. /\ hand \in Commands /\ taken' = Append(taken, hand)
        /\ core'.batch = Append(core.batch, hand) /\ ledger' = ledger
    BY <1>2, <1>3 DEF AddToBatch, ReleaseSlot, CoreGoes, CoreAt
  <2>2. \A i \in DOMAIN taken' : Regular(taken'[i])
    BY <1>1 DEF OnlyRegular
  <2>3. /\ Len(taken) + 1 \in DOMAIN taken' /\ taken'[Len(taken) + 1] = hand
        /\ \A i \in DOMAIN taken : i \in DOMAIN taken' /\ taken'[i] = taken[i]
    BY <2>1
  <2>4. Regular(hand) /\ OnlyRegular
    BY <2>2, <2>3 DEF OnlyRegular
  <2>5. \A i \in DOMAIN core'.batch :
          core'.batch[i] = hand \/ (i \in DOMAIN core.batch /\ core'.batch[i] = core.batch[i])
    BY <1>2, <2>1
  <2> QED BY <2>1, <2>4, <2>5 DEF RegularInv
<1>4. CASE ~ AddToBatch
  <2>1. taken' = taken
    <3>1. TakeCommand => taken' = taken
      BY DEF TakeCommand, CopyCommand
    <3>2. EndBatch \/ StartCommand \/ BatchDone \/ CreditReceiver \/ UndoDebit \/ CreditFee
          \/ LogCommand \/ EmitEvent \/ PostEvent \/ RecordResult => UNCHANGED queueVars
      BY Zenon DEF EndBatch, StartCommand, BatchDone, CreditReceiver, UndoDebit, CreditFee, LogCommand,
         EmitEvent, PostEvent, RecordResult
    <3> QED BY <1>4, <3>1, <3>2 DEF CoreStep, queueVars
  <2>2. LedgerOK(ledger) /\ \A i \in DOMAIN core.batch : Regular(core.batch[i])
    BY <1>1, <2>1 DEF RegularInv, OnlyRegular
  <2>3. ASSUME core.batch # <<>>
        PROVE  /\ Total(Current) \in 0..MaxInt
               /\ Current.fee \in 0..MaxInt /\ Current.target \in 0..MaxInt
    <3>1. 1 \in DOMAIN core.batch /\ Current = core.batch[1] /\ Current \in Commands
      BY <1>2, <2>3 DEF Current
    <3> QED BY <2>2, <3>1, Amounts
  <2>4. core.batch # <<>> =>
          \A i \in DOMAIN Tail(core.batch) : Regular(Tail(core.batch)[i])
    <3> SUFFICES ASSUME core.batch # <<>>, NEW i \in DOMAIN Tail(core.batch)
                 PROVE  Regular(Tail(core.batch)[i])
      OBVIOUS
    <3>1. i + 1 \in DOMAIN core.batch /\ Tail(core.batch)[i] = core.batch[i + 1]
      BY <1>2
    <3> QED BY <2>2, <3>1
  <2>5. CASE TakeCommand \/ LogCommand \/ EmitEvent \/ PostEvent
    <3>1. core'.batch = core.batch /\ ledger' = ledger
      BY <2>5 DEF TakeCommand, LogCommand, EmitEvent, PostEvent, coreVars, Posts, CoreGoes, CoreAt
    <3> QED BY <2>2, <3>1
  <2>6. CASE EndBatch
    <3>1. core'.batch = core.batch /\ ledger' = ledger
      BY <2>6 DEF EndBatch, CoreGoes, CoreAt
    <3> QED BY <2>2, <3>1
  <2>7. CASE BatchDone
    <3>1. core'.batch = <<>> /\ ledger' = ledger
      BY <2>7 DEF BatchDone, CoreGoes, CoreAt
    <3> QED BY <2>2, <3>1
  <2>8. CASE StartCommand
    <3>1. core.batch # <<>>
      BY <2>8 DEF StartCommand
    <3>2. CASE SkipDuplicate
      <4>1. core'.batch = Tail(core.batch) /\ ledger' = ledger
        BY <3>2 DEF SkipDuplicate, Posts, CoreAt
      <4> QED BY <2>2, <2>4, <3>1, <4>1
    <3>3. CASE HandleFreeze
      <4>1. core'.batch = core.batch
        BY <3>3 DEF HandleFreeze, Rejects, Posts, CoreGoes, CoreAt
      <4> QED BY <2>2, <2>3, <3>1, <3>3, <4>1, FreezeIsLedger DEF HandleFreeze, Rejects
    <3>4. CASE HandleRelease
      <4>1. core'.batch = core.batch
        BY <3>4 DEF HandleRelease, Rejects, Posts, CoreGoes, CoreAt
      <4> QED BY <2>2, <2>3, <3>1, <3>4, <4>1, UnfreezeIsLedger DEF HandleRelease, Rejects
    <3>5. CASE HandleRefund
      <4>1. core'.batch = core.batch
        BY <3>5 DEF HandleRefund, Rejects, Posts, CoreGoes, CoreAt
      <4> QED BY <2>2, <2>3, <3>1, <3>5, <4>1, CreditIsLedger DEF HandleRefund, Rejects
    <3>6. CASE HandleSettlementBatch
      <4>1. core'.batch = core.batch /\ ledger' = ledger
        BY <3>6 DEF HandleSettlementBatch, CoreGoes, CoreAt
      <4> QED BY <2>2, <4>1
    <3>7. CASE DebitSender
      <4>1. core'.batch = core.batch
        BY <3>7 DEF DebitSender, Rejects, Posts, CoreGoes, CoreAt
      <4> QED BY <2>2, <2>3, <3>1, <3>7, <4>1, DebitIsLedger DEF DebitSender, Rejects
    <3> QED BY <2>8, <3>2, <3>3, <3>4, <3>5, <3>6, <3>7 DEF StartCommand
  <2>9. CASE CreditReceiver \/ UndoDebit \/ CreditFee
    <3>1. core.batch # <<>> /\ core'.batch = core.batch
      BY <1>2, <2>9 DEF CoreOK, CreditReceiver, UndoDebit, CreditFee, Posts, CoreGoes, CoreAt
    <3>2. CASE CreditReceiver
      BY <2>2, <2>3, <3>1, <3>2, CreditIsLedger DEF CreditReceiver
    <3>3. CASE UndoDebit
      BY <2>2, <2>3, <3>1, <3>3, CreditIfPossibleIsLedger DEF UndoDebit
    <3>4. CASE CreditFee
      BY <2>2, <2>3, <3>1, <3>4, CreditIsLedger DEF CreditFee
    <3> QED BY <2>9, <3>2, <3>3, <3>4
  <2>10. CASE RecordResult
    <3>1. core.batch # <<>> /\ core'.batch = Tail(core.batch) /\ ledger' = ledger
      BY <1>2, <2>10 DEF CoreOK, RecordResult, CoreGoes, CoreAt
    <3> QED BY <2>2, <2>4, <3>1
  <2> QED BY <1>4, <2>5, <2>6, <2>7, <2>8, <2>9, <2>10 DEF CoreStep
<1> QED BY <1>3, <1>4

IndexTypes ==
  /\ slots \in [0..Capacity - 1 -> Commands \cup {NoCommand}]
  /\ producer \in [Producers -> [command : Commands \cup {NoCommand}, at : Nat]]
  /\ write_index \in Nat /\ read_index \in Nat
  /\ hand \in Commands \cup {NoCommand}
  /\ taken \in Seq(Commands)

LEMMA IndexTypesNext == IndexTypes /\ QueueStep => IndexTypes'
<1>1. SUFFICES ASSUME IndexTypes, QueueStep PROVE IndexTypes'
  OBVIOUS
<1>2. ASSUME NEW p \in Producers, NEW c \in Commands, WriteSlot(p, c) PROVE IndexTypes'
  <2>1. slots' \in [0..Capacity - 1 -> Commands \cup {NoCommand}]
    BY <1>1, <1>2 DEF WriteSlot, IndexTypes
  <2>2. producer' \in [Producers -> [command : Commands \cup {NoCommand}, at : Nat]]
    BY <1>1, <1>2 DEF WriteSlot, IndexTypes
  <2>3. QED
    BY <1>1, <1>2, <2>1, <2>2 DEF WriteSlot, readerVars, IndexTypes
<1>3. ASSUME NEW p \in Producers, CommitWrite(p) PROVE IndexTypes'
  <2>1. producer' \in [Producers -> [command : Commands \cup {NoCommand}, at : Nat]]
    BY <1>1, <1>3 DEF CommitWrite, IndexTypes, Idle
  <2>2. write_index' \in Nat
    BY <1>1, <1>3 DEF CommitWrite, IndexTypes
  <2>3. QED
    BY <1>1, <1>3, <2>1, <2>2 DEF CommitWrite, readerVars, IndexTypes
<1>4. CASE CopyCommand
  <2>1. Slot(read_index) \in 0..Capacity - 1
    BY <1>1, SlotInRange DEF IndexTypes
  <2>2. QED
    BY <1>1, <1>4, <2>1 DEF CopyCommand, writerVars, IndexTypes
<1>5. CASE ReleaseSlot
  BY <1>1, <1>5 DEF ReleaseSlot, writerVars, IndexTypes
<1>6. CASE QueueReset
  BY <1>6 DEF QueueReset, Idle, IndexTypes
<1>7. CASE UNCHANGED queueVars
  BY <1>1, <1>7 DEF queueVars, IndexTypes
<1>8. QED
  BY <1>1, <1>2, <1>3, <1>4, <1>5, <1>6, <1>7 DEF QueueStep

LEMMA CoreInvNext == CoreInv /\ IndexTypes' /\ [Next]_vars => CoreInv'
<1>1. SUFFICES ASSUME CoreInv, IndexTypes', [Next]_vars PROVE CoreInv'
  OBVIOUS
<1>2. hand' \in Commands \cup {NoCommand}
  BY <1>1 DEF IndexTypes
<1>3. CASE CoreStep
  BY <1>1, <1>2, <1>3, CoreInvStep DEF CoreInv
<1>4. CASE UNCHANGED <<core, ledger>>
  BY <1>1, <1>2, <1>4 DEF CoreInv, CoreOK, LedgerTyped
<1>5. CASE Restart
  <2>1. core' = CoreAt("take", <<>>, "none") /\ ledger' = Registered
    BY <1>5 DEF Restart, CoreIdle
  <2>2. CoreOK(CoreAt("take", <<>>, "none"))
    <3>1. <<>> \in Seq(Commands)
      OBVIOUS
    <3>2. QED
      BY <3>1, CoreAtOK
  <2>3. LedgerTyped(Registered)
    BY AmountAssumption, Int64IsInt DEF LedgerTyped, Balances, BalanceRows
  <2>4. QED
    BY <1>2, <2>1, <2>2, <2>3 DEF CoreInv
<1>6. ASSUME NEW p \in Producers, FinishSubmit(p) \/ \E c \in Commands : Submit(p, c)
      PROVE  UNCHANGED <<core, ledger>>
  BY <1>6, Zenon DEF FinishSubmit, Submit, coreVars
<1>7. CASE PublisherStep \/ FlusherStep \/ SnapshotStep \/ Stop \/ FinalSnapshot \/ DrainEvents
           \/ FinishStop
  <2>1. UNCHANGED <<core, ledger>>
    BY <1>7, Zenon DEF PublisherStep, FlusherStep, SnapshotStep, Stop, FinalSnapshot, DrainEvents,
       FinishStop, coreVars
  <2>2. QED
    BY <2>1, <1>4
<1>8. CASE UNCHANGED vars
  BY <1>8, <1>4 DEF vars, coreVars
<1>9. QED
  BY <1>1, <1>3, <1>4, <1>5, <1>6, <1>7, <1>8 DEF Next, MainStep

LEMMA RegularInvNext == IndexTypes /\ CoreInv /\ RegularInv /\ [Next]_vars => RegularInv'
<1>1. SUFFICES ASSUME IndexTypes, CoreInv, RegularInv, [Next]_vars PROVE RegularInv'
  OBVIOUS
<1>2. CASE CoreStep
  BY <1>1, <1>2, RegularInvStep DEF IndexTypes
<1>3. CASE UNCHANGED <<core, ledger, taken>>
  BY <1>1, <1>3 DEF RegularInv, OnlyRegular, LedgerOK
<1>4. CASE Restart
  <2>1. core'.batch = <<>> /\ ledger' = Registered
    BY <1>4 DEF Restart, CoreIdle, CoreAt
  <2> QED BY <2>1, AmountAssumption DEF RegularInv, LedgerOK
<1>5. ASSUME NEW p \in Producers, FinishSubmit(p) \/ \E c \in Commands : Submit(p, c)
      PROVE  UNCHANGED <<core, ledger, taken>>
  <2>1. CASE FinishSubmit(p)
    BY <2>1 DEF FinishSubmit, CommitWrite, coreVars, readerVars
  <2>2. ASSUME NEW c \in Commands, Submit(p, c) PROVE UNCHANGED <<core, ledger, taken>>
    BY <2>2 DEF Submit, WriteSlot, RefuseCommand, coreVars, readerVars, queueVars
  <2> QED BY <1>5, <2>1, <2>2
<1>6. CASE PublisherStep \/ FlusherStep \/ SnapshotStep \/ Stop \/ FinalSnapshot \/ DrainEvents
           \/ FinishStop \/ UNCHANGED vars
  BY <1>3, <1>6, Zenon DEF PublisherStep, FlusherStep, SnapshotStep, Stop, FinalSnapshot, DrainEvents,
     FinishStop, vars, coreVars, queueVars
<1> QED BY <1>1, <1>2, <1>4, <1>3, <1>5, <1>6 DEF Next, MainStep

\* The log is some sequence, and what is in the file is a beginning of it.
LogInv == (\E S : wal \in Seq(S)) /\ flushed \in 0..Len(wal)

LEMMA AppendedLog ==
  ASSUME NEW S, NEW s \in Seq(S), NEW r
  PROVE  Append(s, r) \in Seq(S \cup {r}) /\ Len(Append(s, r)) = Len(s) + 1
<1>1. s \in Seq(S \cup {r})
  <2>1. s \in [1..Len(s) -> S] /\ Len(s) \in Nat
    OBVIOUS
  <2>2. s \in [1..Len(s) -> S \cup {r}]
    BY <2>1
  <2>3. QED
    BY <2>1, <2>2, SMT
<1>2. r \in S \cup {r}
  OBVIOUS
<1>3. QED
  BY <1>1, <1>2

\* What the engine does to its log.
LogStep ==
  \/ \E record : wal' = Append(wal, record) /\ flushed' \in {flushed, Len(wal) + 1}
  \/ wal' = wal /\ flushed' \in {flushed, Len(wal)}
  \/ \E kept \in flushed..Len(wal) : wal' = SubSeq(wal, 1, kept) /\ flushed' = kept

LEMMA LogSteps == [Next]_vars => LogStep
<1>1. SUFFICES ASSUME [Next]_vars PROVE LogStep
  OBVIOUS
<1>2. ASSUME NEW p \in Producers, FinishSubmit(p) \/ \E c \in Commands : Submit(p, c)
      PROVE  LogStep
  BY <1>2, Zenon DEF FinishSubmit, Submit, walVars, LogStep
<1>3. CASE TakeCommand \/ AddToBatch \/ EndBatch \/ StartCommand \/ BatchDone \/ CreditReceiver
           \/ UndoDebit \/ CreditFee \/ EmitEvent \/ PostEvent \/ RecordResult
  <2>1. UNCHANGED walVars
    BY <1>3, Zenon DEF TakeCommand, AddToBatch, EndBatch, StartCommand, BatchDone, CreditReceiver,
       UndoDebit, CreditFee, EmitEvent, PostEvent, RecordResult
  <2>2. QED
    BY <2>1 DEF walVars, LogStep
<1>4. CASE LogCommand
  BY <1>4, Zenon DEF LogCommand, Logged, LogStep
<1>5. CASE PublisherStep \/ Stop \/ DrainEvents
  BY <1>5, Zenon DEF PublisherStep, Stop, DrainEvents, walVars, LogStep
<1>6. CASE FlusherStep
  BY <1>6 DEF FlusherStep, FlushFile, ResetCount, walVars, LogStep
<1>7. CASE SnapshotStep
  BY <1>7, Zenon DEF SnapshotStep, BeginSnapshot, ReadLedger, WriteSnapshot, Logged, walVars, LogStep
<1>8. CASE FinalSnapshot
  BY <1>8, Zenon DEF FinalSnapshot, BeginSnapshot, ReadLedger, WriteSnapshot, Logged, walVars, LogStep
<1>9. CASE FinishStop
  BY <1>9 DEF FinishStop, LogStep
<1>10. CASE Restart
  BY <1>10, Zenon DEF Restart, LogStep
<1>11. CASE UNCHANGED vars
  BY <1>11 DEF vars, walVars, LogStep
<1>12. QED
  BY <1>1, <1>2, <1>3, <1>4, <1>5, <1>6, <1>7, <1>8, <1>9, <1>10, <1>11
     DEF Next, CoreStep, MainStep

LEMMA LogInvNext == LogInv /\ LogStep => LogInv'
<1>1. SUFFICES ASSUME LogInv, LogStep PROVE LogInv'
  OBVIOUS
<1>2. PICK S : wal \in Seq(S)
  BY <1>1 DEF LogInv
<1>3. flushed \in 0..Len(wal) /\ Len(wal) \in Nat
  BY <1>1, <1>2 DEF LogInv
<1>4. ASSUME NEW record, wal' = Append(wal, record), flushed' \in {flushed, Len(wal) + 1}
      PROVE  LogInv'
  <2>1. wal' \in Seq(S \cup {record}) /\ Len(wal') = Len(wal) + 1
    BY <1>2, <1>4, AppendedLog
  <2>2. QED
    BY <2>1, <1>3, <1>4 DEF LogInv
<1>5. CASE wal' = wal /\ flushed' \in {flushed, Len(wal)}
  BY <1>2, <1>3, <1>5 DEF LogInv
<1>6. ASSUME NEW kept \in flushed..Len(wal), wal' = SubSeq(wal, 1, kept), flushed' = kept
      PROVE  LogInv'
  <2>1. kept \in 0..Len(wal)
    BY <1>3
  <2>2. SubSeq(wal, 1, kept) \in Seq(S) /\ Len(SubSeq(wal, 1, kept)) = kept
    BY <2>1, <1>2, <1>3
  <2>3. wal' \in Seq(S) /\ flushed' \in 0..Len(wal')
    BY <2>1, <2>2, <1>3, <1>6
  <2>4. QED
    BY <2>3 DEF LogInv
<1>7. QED
  BY <1>1, <1>4, <1>5, <1>6 DEF LogStep

MainInv == main \in {"up", "snapshot", "writing", "drain", "publish", "join", "stopped"}

LEMMA MainInvNext == MainInv /\ [Next]_vars => MainInv'
<1>1. SUFFICES ASSUME MainInv, [Next]_vars PROVE MainInv'
  OBVIOUS
<1>2. ASSUME NEW p \in Producers, FinishSubmit(p) \/ \E c \in Commands : Submit(p, c)
      PROVE  main' = main
  BY <1>2, Zenon DEF FinishSubmit, Submit, lifeVars
<1>3. CoreStep => main' = main
  BY CoreKeeps
<1>4. PublisherStep \/ FlusherStep \/ SnapshotStep \/ UNCHANGED vars => main' = main
  BY Zenon DEF PublisherStep, FlusherStep, SnapshotStep, lifeVars, vars
<1>5. Stop \/ FinishStop \/ Restart => main' \in {"snapshot", "stopped", "up"}
  BY DEF Stop, FinishStop, Restart, MainGoes
<1>6. FinalSnapshot \/ DrainEvents => main' \in {main, "writing", "drain", "publish", "join"}
  BY DEF FinalSnapshot, DrainEvents, MainGoes, lifeVars
<1>7. QED
  BY <1>1, <1>2, <1>3, <1>4, <1>5, <1>6 DEF Next, MainStep, MainInv

TypeInv == IndexTypes /\ CoreInv /\ RegularInv /\ LogInv /\ MainInv

LEMMA TypeInvInit == Init => TypeInv
<1>1. SUFFICES ASSUME Init PROVE TypeInv
  OBVIOUS
<1>2. IndexTypes
  BY <1>1 DEF Init, QueueInit, IndexTypes, Idle
<1>3. CoreInv
  <2>1. <<>> \in Seq(Commands)
    OBVIOUS
  <2>2. CoreOK(CoreAt("take", <<>>, "none"))
    BY <2>1, CoreAtOK
  <2>3. core = CoreAt("take", <<>>, "none") /\ ledger = Registered
    BY <1>1 DEF Init, CoreIdle
  <2>4. LedgerTyped(Registered)
    BY AmountAssumption, Int64IsInt DEF LedgerTyped, Balances, BalanceRows
  <2>5. QED
    BY <1>2, <2>2, <2>3, <2>4 DEF CoreInv, IndexTypes
<1>4. LogInv
  <2>1. wal = <<>> /\ flushed = 0
    BY <1>1 DEF Init
  <2>2. <<>> \in Seq({}) /\ Len(<<>>) = 0
    OBVIOUS
  <2>3. QED
    BY <2>1, <2>2 DEF LogInv
<1>5. MainInv
  BY <1>1 DEF Init, MainInv
<1>6. RegularInv
  BY <1>1, AmountAssumption DEF Init, CoreIdle, CoreAt, RegularInv, LedgerOK
<1>7. QED
  BY <1>2, <1>3, <1>4, <1>5, <1>6 DEF TypeInv

LEMMA TypeInvNext == TypeInv /\ [Next]_vars => TypeInv'
<1>1. SUFFICES ASSUME TypeInv, [Next]_vars PROVE TypeInv'
  OBVIOUS
<1>2. IndexTypes'
  BY <1>1, QueueSteps, IndexTypesNext DEF TypeInv
<1>3. CoreInv'
  BY <1>1, <1>2, CoreInvNext DEF TypeInv
<1>4. LogInv'
  BY <1>1, LogSteps, LogInvNext DEF TypeInv
<1>5. MainInv'
  BY <1>1, MainInvNext DEF TypeInv
<1>6. RegularInv'
  BY <1>1, RegularInvNext DEF TypeInv
<1>7. QED
  BY <1>2, <1>3, <1>4, <1>5, <1>6 DEF TypeInv

\* However the threads interleave the state is well formed, for commands of any
\* amounts, and while only regular ones have been taken (amounts not negative,
\* source plus fee within the largest integer) no balance is negative.
THEOREM EngineTypeOK == Spec => []TypeOK
<1>1. TypeInv => TypeOK
  BY DEF TypeInv, IndexTypes, CoreInv, RegularInv, CoreOK, LedgerTyped, LedgerOK, LogInv, MainInv,
     TypeOK
<1>2. QED
  BY TypeInvInit, TypeInvNext, <1>1, PTL DEF Spec

-----------------------------------------------------------------------------
(* The event ring.                                                         *)

\* What the engine does to the event ring before it stops.
RingStep ==
  \/ RingReset /\ core'.pc # "posting"
  \/ running /\ WriteEvent /\ core.pc # "posting"
  \/ running /\ CommitEvent /\ core.pc = "posting" /\ core'.pc # "posting"
  \/ running /\ MoveEvents("publisher", PublishBatch) /\ core' = core
  \/ running /\ PublishEvents("publisher") /\ core' = core
  \/ running /\ UNCHANGED ringVars /\ (core' = core \/ core'.pc # "posting")

LEMMA CoreRingSteps == CoreOK(core) /\ running /\ CoreStep => RingStep
<1>1. SUFFICES ASSUME CoreOK(core), running, CoreStep PROVE RingStep
  OBVIOUS
<1>2. CASE TakeCommand
  BY <1>1, <1>2 DEF TakeCommand, coreVars, RingStep
<1>3. CASE AddToBatch \/ EndBatch \/ BatchDone
  <2>1. UNCHANGED ringVars /\ core'.pc # "posting"
    BY <1>3 DEF AddToBatch, EndBatch, BatchDone, CoreGoes, CoreAt
  <2>2. QED
    BY <1>1, <2>1 DEF RingStep
<1>4. CASE StartCommand
  <2>1. UNCHANGED ringVars
    BY <1>4 DEF StartCommand
  <2>2. core'.pc # "posting"
    BY <1>4 DEF StartCommand, SkipDuplicate, HandleFreeze, HandleRelease, HandleRefund,
       HandleSettlementBatch, DebitSender, Rejects, Posts, CoreGoes, CoreAt
  <2>3. QED
    BY <1>1, <2>1, <2>2 DEF RingStep
<1>5. CASE CreditReceiver \/ UndoDebit \/ CreditFee \/ LogCommand \/ RecordResult
  <2>1. UNCHANGED ringVars /\ core'.pc # "posting"
    BY <1>5 DEF CreditReceiver, UndoDebit, CreditFee, LogCommand, RecordResult, Posts, CoreGoes,
       CoreAt
  <2>2. QED
    BY <1>1, <2>1 DEF RingStep
<1>6. CASE EmitEvent
  <2>1. core.pc = "emit" /\ core.then # "posting"
    BY <1>1, <1>6 DEF EmitEvent, CoreOK
  <2>2. WriteEvent \/ (UNCHANGED ringVars /\ core'.pc # "posting")
    BY <1>6, <2>1 DEF EmitEvent, DropEvent, CoreGoes, CoreAt
  <2>3. QED
    BY <1>1, <2>1, <2>2 DEF RingStep
<1>7. CASE PostEvent
  <2>1. core.pc = "posting" /\ core.then # "posting"
    BY <1>1, <1>7 DEF PostEvent, CoreOK
  <2>2. CommitEvent /\ core'.pc # "posting"
    BY <1>7, <2>1 DEF PostEvent, CoreGoes, CoreAt
  <2>3. QED
    BY <1>1, <2>1, <2>2 DEF RingStep
<1>8. QED
  BY <1>1, <1>2, <1>3, <1>4, <1>5, <1>6, <1>7 DEF CoreStep

LEMMA RingSteps == TypeInv /\ StopInv /\ running' /\ [Next]_vars => RingStep
<1>1. SUFFICES ASSUME TypeInv, StopInv, running', [Next]_vars PROVE RingStep
  OBVIOUS
<1>2. running => main = "up"
  BY <1>1 DEF StopInv
<1>3. ASSUME NEW p \in Producers, FinishSubmit(p) \/ \E c \in Commands : Submit(p, c)
      PROVE  RingStep
  <2>1. UNCHANGED <<ringVars, core, running>>
    BY <1>3, Zenon DEF FinishSubmit, Submit, coreVars, lifeVars
  <2>2. QED
    BY <1>1, <2>1 DEF RingStep
<1>4. CASE CoreStep
  BY <1>1, <1>4, CoreKeeps, CoreRingSteps DEF TypeInv, CoreInv
<1>5. CASE PublisherStep
  <2>1. /\ running' = running /\ core' = core
        /\ MoveEvents("publisher", PublishBatch) \/ PublishEvents("publisher") \/ ~ running
    BY <1>5, Zenon DEF PublisherStep, Ends, coreVars, lifeVars
  <2>2. QED
    BY <1>1, <2>1 DEF RingStep
<1>6. CASE FlusherStep \/ SnapshotStep
  <2>1. UNCHANGED <<ringVars, core, running>>
    BY <1>6, Zenon DEF FlusherStep, SnapshotStep, coreVars, lifeVars
  <2>2. QED
    BY <1>1, <2>1 DEF RingStep
<1>7. ~ Stop
  BY <1>1 DEF Stop
<1>8. ~ (FinalSnapshot \/ DrainEvents \/ FinishStop)
  <2>1. FinalSnapshot => main # "up" /\ running' = running
    BY DEF FinalSnapshot, MainGoes, lifeVars
  <2>2. DrainEvents => main # "up" /\ running' = running
    BY DEF DrainEvents, MainGoes
  <2>3. FinishStop => main # "up" /\ running' = running
    BY DEF FinishStop, MainGoes
  <2>4. QED
    BY <1>1, <1>2, <2>1, <2>2, <2>3
<1>9. CASE Restart
  BY <1>9 DEF Restart, CoreIdle, CoreAt, RingStep
<1>10. CASE UNCHANGED vars
  BY <1>1, <1>10 DEF vars, coreVars, lifeVars, RingStep
<1>11. QED
  BY <1>1, <1>3, <1>4, <1>5, <1>6, <1>7, <1>8, <1>9, <1>10 DEF Next, MainStep

\* Fewer than RingCapacity consecutive indices use different slots.
LEMMA RingSlotsDiffer ==
  ASSUME NEW i \in Nat, NEW j \in Nat, i < j, j < i + RingCapacity
  PROVE  RingSlot(i) # RingSlot(j)
<1>1. RingCapacity \in Nat \ {0}
  BY RingAssumption
<1>2. DEFINE qi == i \div RingCapacity
             qj == j \div RingCapacity
<1>3. /\ qi \in Int /\ qj \in Int
      /\ i = RingCapacity * qi + RingSlot(i) /\ j = RingCapacity * qj + RingSlot(j)
      /\ RingSlot(i) \in 0..RingCapacity - 1 /\ RingSlot(j) \in 0..RingCapacity - 1
  BY <1>1 DEF RingSlot
<1>4. SUFFICES ASSUME RingSlot(i) = RingSlot(j) PROVE FALSE
  OBVIOUS
<1>5. j - i = RingCapacity * (qj - qi)
  BY <1>1, <1>3, <1>4
<1>6. CASE qj - qi <= 0
  BY <1>1, <1>3, <1>5, <1>6
<1>7. CASE qj - qi >= 1
  BY <1>1, <1>3, <1>5, <1>7
<1>8. QED
  BY <1>3, <1>6, <1>7

LEMMA RingSlotInRange == ASSUME NEW i \in Nat PROVE RingSlot(i) \in 0..RingCapacity - 1
BY RingAssumption DEF RingSlot

\* The index of the next event nobody has moved out of the ring.
NextEvent == IF IsReading("publisher") THEN reader["publisher"].at ELSE ring_read

\* A published event, one on its way to the callbacks and one in the ring are
\* three consecutive runs of the numbers; the event being posted comes next.
RingInv ==
  /\ ring = [i \in 0..RingCapacity - 1 |-> ring[i]]
  /\ reader = [r \in Readers |-> reader[r]]
  /\ ring_read \in Nat /\ ring_write \in Nat /\ NextEvent \in Nat
  /\ ring_read <= NextEvent /\ NextEvent <= ring_write
  /\ ring_write <= ring_read + RingCapacity
  /\ published \in Seq(Nat) /\ Len(published) = ring_read
  /\ \A i \in 1..ring_read : published[i] = i
  /\ IsReading("publisher") =>
       /\ reader["publisher"].events \in Seq(Nat)
       /\ Len(reader["publisher"].events) = NextEvent - ring_read
       /\ \A i \in 1..NextEvent - ring_read : reader["publisher"].events[i] = ring_read + i
  /\ \A i \in NextEvent..ring_write - 1 : ring[RingSlot(i)] = i + 1

PostInv ==
  core.pc = "posting" =>
    ring_write < ring_read + RingCapacity /\ ring[RingSlot(ring_write)] = ring_write + 1

EventInv == running => RingInv /\ PostInv

LEMMA JoinedLength ==
  ASSUME NEW s \in Seq(Nat), NEW t \in Seq(Nat)
  PROVE  s \o t \in Seq(Nat) /\ Len(s \o t) = Len(s) + Len(t)
OBVIOUS

LEMMA RingInitInv ==
  ASSUME ring = [i \in 0..RingCapacity - 1 |-> Moved], ring_write = 0, ring_read = 0,
         reader = [r \in Readers |-> NoEvents], published = <<>>
  PROVE  RingInv
<1>1. <<>> \in Seq(Nat) /\ Len(<<>>) = 0
  OBVIOUS
<1>2. ~ IsReading("publisher")
  BY EngineAssumption DEF IsReading, NoEvents
<1>3. QED
  BY <1>1, <1>2, RingAssumption DEF RingInv, NextEvent

LEMMA EventInvInit == Init => EventInv
<1>1. SUFFICES ASSUME Init PROVE EventInv
  OBVIOUS
<1>2. RingInv
  BY <1>1, RingInitInv DEF Init, RingInit
<1>3. PostInv
  BY <1>1 DEF Init, CoreIdle, CoreAt, PostInv
<1>4. QED
  BY <1>2, <1>3 DEF EventInv

LEMMA RingInvNext == (running => RingInv /\ PostInv) /\ RingStep => RingInv' /\ PostInv'
<1>1. SUFFICES ASSUME running => RingInv /\ PostInv, RingStep PROVE RingInv' /\ PostInv'
  OBVIOUS
<1> USE RingAssumption
<1>2. CASE RingReset /\ core'.pc # "posting"
  <2>1. <<>> \in Seq(Nat) /\ Len(<<>>) = 0
    OBVIOUS
  <2>2. reader'["publisher"].events = <<>>
    BY <1>2, EngineAssumption DEF RingReset, NoEvents
  <2>3. NextEvent' = 0
    BY <1>2, <2>2 DEF RingReset, NextEvent, IsReading
  <2>4. QED
    BY <1>2, <2>1, <2>2, <2>3 DEF RingReset, RingInv, PostInv, IsReading
<1>3. CASE running /\ WriteEvent /\ core.pc # "posting"
  <2>1. /\ ring' = [ring EXCEPT ![RingSlot(ring_write)] = ring_write + 1]
        /\ ring_write < ring_read + RingCapacity
        /\ UNCHANGED <<ring_write, ring_read, reader, published>>
    BY <1>1, <1>3 DEF WriteEvent, RingHasRoom, RingInv
  <2>2. NextEvent' = NextEvent /\ IsReading("publisher")' = IsReading("publisher")
    BY <2>1 DEF NextEvent, IsReading
  <2>3. /\ ring' = [i \in 0..RingCapacity - 1 |-> ring'[i]]
        /\ ring'[RingSlot(ring_write)] = ring_write + 1
    BY <1>1, <1>3, <2>1, RingSlotInRange DEF RingInv
  <2>4. \A i \in NextEvent..ring_write - 1 : ring'[RingSlot(i)] = i + 1
    <3>1. SUFFICES ASSUME NEW i \in NextEvent..ring_write - 1 PROVE ring'[RingSlot(i)] = i + 1
      OBVIOUS
    <3>2. i \in Nat /\ i < ring_write /\ ring_write < i + RingCapacity /\ ring_write \in Nat
      BY <1>1, <1>3, <2>1, <3>1 DEF RingInv
    <3>3. RingSlot(i) # RingSlot(ring_write) /\ RingSlot(i) \in 0..RingCapacity - 1
      BY <3>2, RingSlotsDiffer, RingSlotInRange
    <3>4. ring'[RingSlot(i)] = ring[RingSlot(i)]
      BY <1>1, <1>3, <2>1, <3>3 DEF RingInv
    <3>5. QED
      BY <1>1, <1>3, <3>1, <3>4 DEF RingInv
  <2>5. RingInv'
    BY <1>1, <1>3, <2>1, <2>2, <2>3, <2>4 DEF RingInv
  <2>6. PostInv'
    BY <1>1, <1>3, <2>1, <2>3 DEF PostInv, RingInv, RingSlot
  <2>7. QED
    BY <2>5, <2>6
<1>4. CASE running /\ CommitEvent /\ core.pc = "posting" /\ core'.pc # "posting"
  <2>1. /\ ring_write' = ring_write + 1
        /\ UNCHANGED <<ring, ring_read, reader, published>>
    BY <1>4 DEF CommitEvent
  <2>2. ring_write < ring_read + RingCapacity /\ ring[RingSlot(ring_write)] = ring_write + 1
    BY <1>1, <1>4 DEF PostInv
  <2>3. NextEvent' = NextEvent /\ IsReading("publisher")' = IsReading("publisher")
    BY <2>1 DEF NextEvent, IsReading
  <2>4. \A i \in NextEvent..ring_write : ring[RingSlot(i)] = i + 1
    BY <1>1, <1>4, <2>2 DEF RingInv
  <2>5. RingInv'
    BY <1>1, <1>4, <2>1, <2>2, <2>3, <2>4 DEF RingInv
  <2>6. QED
    BY <1>4, <2>5 DEF PostInv
<1>5. CASE running /\ MoveEvents("publisher", PublishBatch) /\ core' = core
  <2> DEFINE available == ring_write - ring_read
             count == IF available < PublishBatch THEN available ELSE PublishBatch
             events == [i \in 1..count |-> ring[RingSlot(ring_read + i - 1)]]
             moved == { RingSlot(ring_read + i) : i \in 0..count - 1 }
  <2>1. /\ ~ IsReading("publisher") /\ available > 0
        /\ reader' = [reader EXCEPT !["publisher"] = [events |-> events, at |-> ring_read + count]]
        /\ ring' = [i \in DOMAIN ring |-> IF i \in moved THEN Moved ELSE ring[i]]
        /\ UNCHANGED <<ring_write, ring_read, published>>
    BY <1>5 DEF MoveEvents
  <2>2. count \in Nat /\ count > 0 /\ ring_read + count <= ring_write /\ NextEvent = ring_read
    BY <1>1, <1>5, <2>1 DEF RingInv, NextEvent
  <2>3. reader'["publisher"] = [events |-> events, at |-> ring_read + count]
    BY <1>1, <1>5, <2>1, EngineAssumption DEF RingInv
  <2> HIDE DEF available, count
  <2>4. \A i \in 1..count : events[i] = ring_read + i
    <3>1. SUFFICES ASSUME NEW i \in 1..count
                   PROVE  ring[RingSlot(ring_read + i - 1)] = ring_read + i
      OBVIOUS
    <3>2. ring_read + i - 1 \in NextEvent..ring_write - 1 /\ (ring_read + i - 1) + 1 = ring_read + i
      BY <1>1, <1>5, <2>2, <3>1 DEF RingInv
    <3>3. QED
      BY <1>1, <1>5, <3>2 DEF RingInv
  <2>5. events \in Seq(Nat) /\ Len(events) = count /\ events # <<>>
    <3>1. events \in [1..count -> Nat]
      BY <1>1, <1>5, <2>2, <2>4 DEF RingInv
    <3>2. QED
      BY <2>2, <3>1
  <2> HIDE DEF events
  <2>6. IsReading("publisher")' /\ NextEvent' = ring_read + count
    BY <2>3, <2>5 DEF IsReading, NextEvent
  <2>7. \A i \in ring_read + count..ring_write :
          i < ring_read + RingCapacity => ring'[RingSlot(i)] = ring[RingSlot(i)]
    <3>1. SUFFICES ASSUME NEW i \in ring_read + count..ring_write, i < ring_read + RingCapacity
                   PROVE  ring'[RingSlot(i)] = ring[RingSlot(i)]
      OBVIOUS
    <3>2. i \in Nat /\ RingSlot(i) \in 0..RingCapacity - 1
      BY <1>1, <1>5, <2>2, <3>1, RingSlotInRange DEF RingInv
    <3>3. ASSUME NEW k \in 0..count - 1 PROVE RingSlot(ring_read + k) # RingSlot(i)
      <4>1. /\ ring_read + k \in Nat /\ ring_read + k < i /\ i < ring_read + k + RingCapacity
        BY <1>1, <1>5, <2>2, <3>1, <3>3 DEF RingInv
      <4>2. QED
        BY <3>2, <4>1, RingSlotsDiffer
    <3>4. RingSlot(i) \notin moved
      BY <3>3
    <3>5. QED
      BY <1>1, <1>5, <2>1, <3>2, <3>4 DEF RingInv
  <2>8. \A i \in ring_read + count..ring_write - 1 : ring'[RingSlot(i)] = i + 1
    <3>1. SUFFICES ASSUME NEW i \in ring_read + count..ring_write - 1
                   PROVE  ring'[RingSlot(i)] = i + 1
      OBVIOUS
    <3>2. /\ i \in ring_read + count..ring_write /\ i < ring_read + RingCapacity
          /\ i \in NextEvent..ring_write - 1
      BY <1>1, <1>5, <2>2, <3>1 DEF RingInv
    <3>3. ring'[RingSlot(i)] = ring[RingSlot(i)]
      BY <2>7, <3>2
    <3>4. QED
      BY <1>1, <1>5, <3>2, <3>3 DEF RingInv
  <2>9. ring' = [i \in 0..RingCapacity - 1 |-> ring'[i]]
    BY <1>1, <1>5, <2>1 DEF RingInv
  <2>10. RingInv'
    <3>1. reader' = [r \in Readers |-> reader'[r]]
      BY <1>1, <1>5, <2>1 DEF RingInv
    <3>2. /\ ring_read' \in Nat /\ ring_write' \in Nat /\ NextEvent' \in Nat
          /\ ring_read' <= NextEvent' /\ NextEvent' <= ring_write'
          /\ ring_write' <= ring_read' + RingCapacity
      BY <1>1, <1>5, <2>1, <2>2, <2>6 DEF RingInv
    <3>3. /\ published' \in Seq(Nat) /\ Len(published') = ring_read'
          /\ \A i \in 1..ring_read' : published'[i] = i
      BY <1>1, <1>5, <2>1 DEF RingInv
    <3>4. /\ reader'["publisher"].events \in Seq(Nat)
          /\ Len(reader'["publisher"].events) = NextEvent' - ring_read'
          /\ \A i \in 1..NextEvent' - ring_read' : reader'["publisher"].events[i] = ring_read' + i
      <4>1. NextEvent' - ring_read' = count /\ ring_read' = ring_read
        BY <2>1, <2>2, <2>6, <3>2
      <4>2. reader'["publisher"].events = events
        BY <2>3
      <4>3. QED
        BY <4>1, <4>2, <2>4, <2>5
    <3>5. \A i \in NextEvent'..ring_write' - 1 : ring'[RingSlot(i)] = i + 1
      BY <2>1, <2>6, <2>8
    <3>6. (\A i \in NextEvent..ring_write - 1 : ring[RingSlot(i)] = i + 1)'
      BY <3>5 DEF RingSlot
    <3>7. QED
      BY <2>9, <3>1, <3>2, <3>3, <3>4, <3>6 DEF RingInv
  <2>11. PostInv'
    <3>1. SUFFICES ASSUME core.pc = "posting"
                   PROVE  ring_write < ring_read + RingCapacity /\ ring'[RingSlot(ring_write)] = ring_write + 1
      BY <1>5, <2>1 DEF PostInv, RingSlot
    <3>2. ring_write < ring_read + RingCapacity /\ ring[RingSlot(ring_write)] = ring_write + 1
      BY <1>1, <1>5, <3>1 DEF PostInv
    <3>3. ring_write \in ring_read + count..ring_write
      BY <1>1, <1>5, <2>2 DEF RingInv
    <3>4. QED
      BY <2>7, <3>2, <3>3
  <2>12. QED
    BY <2>10, <2>11
<1>6. CASE running /\ PublishEvents("publisher") /\ core' = core
  <2> DEFINE events == reader["publisher"].events
             at == reader["publisher"].at
  <2>1. /\ IsReading("publisher")
        /\ ring_read' = at
        /\ published' = published \o events
        /\ reader' = [reader EXCEPT !["publisher"] = NoEvents]
        /\ UNCHANGED <<ring, ring_write>>
    BY <1>6 DEF PublishEvents
  <2>2. /\ NextEvent = at /\ at \in Nat /\ ring_read <= at /\ at <= ring_write
        /\ events \in Seq(Nat) /\ Len(events) = at - ring_read
        /\ \A i \in 1..at - ring_read : events[i] = ring_read + i
    BY <1>1, <1>6, <2>1 DEF RingInv, NextEvent
  <2>3. /\ published \in Seq(Nat) /\ Len(published) = ring_read /\ ring_read \in Nat
        /\ \A i \in 1..ring_read : published[i] = i
    BY <1>1, <1>6 DEF RingInv
  <2>4. reader'["publisher"] = NoEvents /\ reader' = [r \in Readers |-> reader'[r]]
    BY <1>1, <1>6, <2>1, EngineAssumption DEF RingInv
  <2> HIDE DEF events, at
  <2>5. /\ published' \in Seq(Nat) /\ Len(published') = at
        /\ \A i \in 1..at : published'[i] = i
    <3>1. /\ published \in Seq(Nat) /\ Len(published) = ring_read /\ ring_read \in Nat
          /\ events \in Seq(Nat) /\ Len(events) = at - ring_read /\ at \in Nat
          /\ published' = published \o events
      BY <2>1, <2>2, <2>3
    <3>2. published' \in Seq(Nat) /\ Len(published') = at
      <4>1. published' \in Seq(Nat) /\ Len(published') = Len(published) + Len(events)
        BY <3>1, JoinedLength
      <4>2. QED
        BY <3>1, <4>1
    <3>3. ASSUME NEW i \in 1..at PROVE published'[i] = i
      <4>1. CASE i <= ring_read
        <5>1. published'[i] = published[i]
          BY <3>1, <4>1
        <5>2. QED
          BY <5>1, <4>1, <2>3
      <4>2. CASE i > ring_read
        <5>1. published'[i] = events[i - ring_read]
          BY <3>1, <4>2
        <5>2. i - ring_read \in 1..at - ring_read
          BY <3>1, <4>2
        <5>3. events[i - ring_read] = ring_read + (i - ring_read)
          BY <2>2, <5>2
        <5>4. QED
          BY <3>1, <5>1, <5>3
      <4>3. QED
        BY <3>1, <4>1, <4>2
    <3>4. QED
      BY <3>2, <3>3
  <2>6. ~ IsReading("publisher")' /\ NextEvent' = at
    BY <2>1, <2>4 DEF IsReading, NextEvent, NoEvents
  <2>7. RingInv'
    BY SMTT(20), <1>1, <1>6, <2>1, <2>2, <2>4, <2>5, <2>6 DEF RingInv
  <2>8. PostInv'
    BY <1>1, <1>6, <2>1, <2>2, <2>3 DEF PostInv, RingSlot, RingInv
  <2>9. QED
    BY <2>7, <2>8
<1>7. CASE running /\ UNCHANGED ringVars /\ (core' = core \/ core'.pc # "posting")
  BY <1>1, <1>7 DEF ringVars, RingInv, PostInv, NextEvent, IsReading, RingSlot
<1>8. QED
  BY <1>1, <1>2, <1>3, <1>4, <1>5, <1>6, <1>7 DEF RingStep

\* Until the engine stops, its publisher hands the callbacks every event the
\* ring accepted, once and in the order the core thread posted them.
THEOREM EngineEventsInOrder == Spec => []EventsInOrder
<1> DEFINE Inv == TypeInv /\ StopInv /\ EventInv
<1>1. Init => Inv
  BY TypeInvInit, StopInvInit, EventInvInit
<1>2. Inv /\ [Next]_vars => Inv'
  <2>1. SUFFICES ASSUME Inv, [Next]_vars PROVE Inv'
    OBVIOUS
  <2>2. TypeInv' /\ StopInv'
    BY <2>1, TypeInvNext, StopInvNext
  <2>3. EventInv'
    BY <2>1, RingSteps, RingInvNext DEF EventInv
  <2>4. QED
    BY <2>2, <2>3
<1>3. Inv => EventsInOrder
  BY DEF EventInv, RingInv, EventsInOrder
<1>4. QED
  BY <1>1, <1>2, <1>3, PTL DEF Spec

-----------------------------------------------------------------------------
(* Replaying a log.                                                        *)

Replay(log) == FoldLeft(Replayed, Registered, log)

\* The function behind FoldLeft, given on the subsets of S.
Replays(h, log, S) ==
  h = [T \in SUBSET S |->
         IF T = {} THEN Registered ELSE Replayed(h[T \ {Max(T)}], log[Max(T)])]
ReplayedOver(log, S) == (CHOOSE h : Replays(h, log, S))[S]

LEMMA ReplayIsChosen ==
  ASSUME NEW log
  PROVE  Replay(log) = ReplayedOver(log, DOMAIN log)
BY DEF Replay, FoldLeft, MapThenFoldSet, Replays, ReplayedOver

\* Logs with the same records at the places of S replay the same over S.
LEMMA ReplaysAgree ==
  ASSUME NEW log, NEW other, NEW T, NEW U, NEW h, NEW k,
         NEW S, Places(S), S \subseteq T, S \subseteq U,
         \A i \in S : log[i] = other[i],
         Replays(h, log, T), Replays(k, other, U)
  PROVE  h[S] = k[S]
<1> DEFINE Bad == { R \in SUBSET S : h[R] # k[R] }
<1> SUFFICES ASSUME Bad # {} PROVE FALSE
  OBVIOUS
<1>1. PICK R \in Bad : \A Q \in SUBSET R : Q # R => Q \notin Bad
  <2>1. Bad \in SUBSET (SUBSET S) /\ IsFiniteSet(S)
    BY DEF Places
  <2> HIDE DEF Bad
  <2> QED BY <2>1, SetInduction
<1>2. R # {}
  BY DEF Replays
<1>3. Places(R)
  BY LastIsLess
<1>4. Max(R) \in R /\ R \ {Max(R)} \subseteq R /\ R \ {Max(R)} # R
  BY <1>2, <1>3, LastIsLess
<1>5. R \ {Max(R)} \notin Bad /\ R \ {Max(R)} \in SUBSET S
  BY <1>1, <1>4
<1>6. h[R \ {Max(R)}] = k[R \ {Max(R)}]
  BY <1>5
<1>7. R \in SUBSET T /\ R \in SUBSET U /\ log[Max(R)] = other[Max(R)]
  BY <1>4
<1>8. h[R] = Replayed(h[R \ {Max(R)}], log[Max(R)])
  BY <1>2, <1>7 DEF Replays
<1>9. k[R] = Replayed(k[R \ {Max(R)}], other[Max(R)])
  BY <1>2, <1>7 DEF Replays
<1> QED BY <1>6, <1>7, <1>8, <1>9

LEMMA ReplaysExist ==
  ASSUME NEW log, NEW S, Places(S)
  PROVE  \E h : Replays(h, log, S)
<1> DEFINE Bad == { T \in SUBSET S : ~ \E h : Replays(h, log, T) }
<1> SUFFICES ASSUME Bad # {} PROVE FALSE
  OBVIOUS
<1>1. PICK T \in Bad : \A U \in SUBSET T : U # T => U \notin Bad
  <2>1. Bad \in SUBSET (SUBSET S) /\ IsFiniteSet(S)
    BY DEF Places
  <2> HIDE DEF Bad
  <2> QED BY <2>1, SetInduction
<1> DEFINE h == [U \in SUBSET T |->
                   IF U = {} THEN Registered
                   ELSE Replayed(ReplayedOver(log, U \ {Max(U)}), log[Max(U)])]
<1>2. ASSUME NEW U \in SUBSET T
      PROVE  Places(U)
  BY LastIsLess
<1>3. ASSUME NEW U \in SUBSET T, U # T
      PROVE  ReplayedOver(log, U) = h[U]
  <2> DEFINE k == CHOOSE k : Replays(k, log, U)
             m == Max(U)
             V == U \ {m}
             l == CHOOSE l : Replays(l, log, V)
  <2>1. Replays(k, log, U)
    BY <1>1, <1>3
  <2>2. CASE U = {}
    BY <2>1, <2>2 DEF Replays, ReplayedOver
  <2>3. CASE U # {}
    <3>1. m \in U
      BY <2>3, <1>2, LastIsLess
    <3>2. V \in SUBSET T /\ V # T /\ Places(V)
      BY <3>1, <1>2, <1>3
    <3>3. Replays(l, log, V)
      BY <1>1, <3>2
    <3>4. k[V] = l[V]
      <4>1. V \subseteq U /\ V \subseteq V /\ \A i \in V : log[i] = log[i]
        OBVIOUS
      <4> HIDE DEF k, l, V
      <4> QED BY <2>1, <3>2, <3>3, <4>1, ReplaysAgree
    <3>5. k[U] = Replayed(k[V], log[m])
      BY <2>1, <2>3 DEF Replays
    <3>6. h[U] = Replayed(l[V], log[m])
      BY <2>3 DEF ReplayedOver
    <3>7. ReplayedOver(log, U) = k[U]
      BY DEF ReplayedOver
    <3> QED BY <3>4, <3>5, <3>6, <3>7
  <2> QED BY <2>2, <2>3
<1>4. Replays(h, log, T)
  <2> SUFFICES ASSUME NEW U \in SUBSET T, U # {}
               PROVE  h[U] = Replayed(h[U \ {Max(U)}], log[Max(U)])
    BY DEF Replays
  <2>1. Max(U) \in U
    BY <1>2, LastIsLess
  <2>2. U \ {Max(U)} \in SUBSET T /\ U \ {Max(U)} # T
    BY <2>1
  <2>3. ReplayedOver(log, U \ {Max(U)}) = h[U \ {Max(U)}]
    BY <2>2, <1>3
  <2> QED BY <2>3
<1> QED BY <1>1, <1>4

\* No record, no effect ...
LEMMA ReplayNothing == Replay(<<>>) = Registered
<1>1. DOMAIN <<>> = {} /\ Places({})
  BY FS_EmptySet DEF Places
<1>2. Replays(CHOOSE h : Replays(h, <<>>, {}), <<>>, {})
  BY <1>1, ReplaysExist
<1>3. ReplayedOver(<<>>, {}) = Registered
  BY <1>2 DEF Replays, ReplayedOver
<1> QED BY <1>1, <1>3, ReplayIsChosen

\* ... and one more record has its effect last.
LEMMA ReplayAppend ==
  ASSUME NEW S, NEW log \in Seq(S), NEW record
  PROVE  Replay(Append(log, record)) = Replayed(Replay(log), record)
<1> DEFINE n == Len(log)
           longer == Append(log, record)
           h == CHOOSE h : Replays(h, log, 1..n)
           k == CHOOSE k : Replays(k, longer, 1..n + 1)
<1>1. /\ n \in Nat /\ DOMAIN log = 1..n /\ DOMAIN longer = 1..n + 1
      /\ longer[n + 1] = record /\ \A i \in 1..n : longer[i] = log[i]
  OBVIOUS
<1>2. Places(1..n) /\ Places(1..n + 1)
  BY <1>1, FS_Interval DEF Places
<1>3. Replays(h, log, 1..n) /\ Replays(k, longer, 1..n + 1)
  <2>1. (\E g : Replays(g, log, 1..n)) /\ \E g : Replays(g, longer, 1..n + 1)
    <3> HIDE DEF n, longer
    <3> QED BY <1>2, ReplaysExist
  <2> QED BY <2>1
<1> HIDE DEF h, k
<1>4. h[1..n] = k[1..n]
  <2> DEFINE D == 1..n
             E == 1..n + 1
  <2>1. /\ Places(D) /\ D \subseteq D /\ D \subseteq E
        /\ \A i \in D : log[i] = longer[i]
        /\ Replays(h, log, D) /\ Replays(k, longer, E)
    BY <1>1, <1>2, <1>3
  <2> HIDE DEF D, E, longer
  <2>2. h[D] = k[D]
    BY <2>1, ReplaysAgree
  <2> QED BY <2>2 DEF D
<1>5. Max(1..n + 1) = n + 1
  <2>1. Max(1..n + 1) \in 1..n + 1 /\ \A y \in 1..n + 1 : Max(1..n + 1) >= y
    BY <1>1, <1>2, MaxIsThere DEF Places
  <2> HIDE DEF n
  <2> QED BY <1>1, <2>1
<1>6. (1..n + 1) \ {n + 1} = 1..n /\ 1..n + 1 # {}
  BY <1>1
<1>7. k[1..n + 1] = Replayed(k[(1..n + 1) \ {Max(1..n + 1)}], longer[Max(1..n + 1)])
  BY <1>3, <1>6 DEF Replays
<1>8. k[1..n + 1] = Replayed(h[1..n], record)
  <2>1. k[1..n + 1] = Replayed(k[1..n], longer[n + 1])
    BY <1>5, <1>6, <1>7
  <2> QED BY <1>1, <1>4, <2>1
<1>9. Replay(log) = h[1..n]
  BY <1>1, ReplayIsChosen DEF ReplayedOver, h
<1>10. Replay(longer) = k[1..n + 1]
  BY <1>1, ReplayIsChosen DEF ReplayedOver, k
<1> QED BY <1>8, <1>9, <1>10

-----------------------------------------------------------------------------
(* The log, the ledger and the cache of requests.                          *)

\* What the core thread will do next, once the event it posts is posted.
Stage == IF core.pc \in {"emit", "posting"} THEN core.then ELSE core.pc

\* The other threads leave the core thread its own, and log only snapshots.
OtherStep ==
  /\ UNCHANGED <<core, ledger, dedup, evicted, unlogged, taken, base>>
  /\ wal' = wal \/ \E state : wal' = Append(wal, SnapshotRecord(state))

LEMMA StepKinds == [Next]_vars => CoreStep \/ OtherStep \/ Restart
<1>1. SUFFICES ASSUME [Next]_vars PROVE CoreStep \/ OtherStep \/ Restart
  OBVIOUS
<1>2. ASSUME NEW p \in Producers, FinishSubmit(p) PROVE OtherStep
  <2>1. UNCHANGED <<coreVars, walVars, lifeVars>> /\ CommitWrite(p)
    BY <1>2 DEF FinishSubmit
  <2> QED BY <2>1 DEF coreVars, walVars, lifeVars, CommitWrite, readerVars, OtherStep
<1>3. ASSUME NEW p \in Producers, NEW c \in Commands, Submit(p, c) PROVE OtherStep
  <2>1. UNCHANGED <<coreVars, walVars, lifeVars>> /\ (WriteSlot(p, c) \/ RefuseCommand(p))
    BY <1>3 DEF Submit
  <2>2. UNCHANGED taken
    BY <2>1 DEF WriteSlot, RefuseCommand, readerVars, queueVars
  <2> QED BY <2>1, <2>2 DEF coreVars, walVars, lifeVars, OtherStep
<1>4. CASE PublisherStep \/ FlusherStep \/ Stop \/ DrainEvents \/ FinishStop
  <2>1. UNCHANGED <<core, ledger, dedup, evicted, unlogged, taken, base, wal>>
    BY <1>4, Zenon DEF PublisherStep, FlusherStep, Stop, DrainEvents, FinishStop, FlushFile, ResetCount,
       MainGoes, coreVars, walVars, lifeVars, queueVars
  <2> QED BY <2>1 DEF OtherStep
<1>5. CASE SnapshotStep \/ FinalSnapshot
  <2>1. UNCHANGED <<core, ledger, dedup, evicted, unlogged, taken, base>>
    BY <1>5, Zenon DEF SnapshotStep, FinalSnapshot, MainGoes, coreVars, lifeVars, queueVars
  <2>2. wal' = wal \/ \E state : wal' = Append(wal, SnapshotRecord(state))
    BY <1>5, Zenon DEF SnapshotStep, FinalSnapshot, BeginSnapshot, ReadLedger, WriteSnapshot,
       Logged, walVars
  <2> QED BY <2>1, <2>2 DEF OtherStep
<1>6. CASE UNCHANGED vars
  BY <1>6 DEF vars, coreVars, walVars, lifeVars, queueVars, OtherStep
<1> QED BY <1>1, <1>2, <1>3, <1>4, <1>5, <1>6 DEF Next, MainStep

\* The places between commands.
Resting == {"take", "next", "done"}

\* The steps of the core thread that are of no command, or only post its event.
QuietStep ==
  /\ core'.batch = core.batch
  /\ Stage' = Stage \/ (Stage \in Resting /\ Stage' \in Resting)
  /\ UNCHANGED <<ledger, dedup, evicted, unlogged, taken, wal, base>>

CommandStep ==
  AddToBatch \/ StartCommand \/ CreditReceiver \/ UndoDebit \/ CreditFee \/ LogCommand \/ RecordResult

LEMMA CoreStepKinds == CoreOK(core) /\ CoreStep => QuietStep \/ CommandStep
<1>1. SUFFICES ASSUME CoreOK(core), CoreStep PROVE QuietStep \/ CommandStep
  OBVIOUS
<1>2. CASE TakeCommand
  <2>1. UNCHANGED <<core, ledger, dedup, evicted, unlogged, taken, wal, base>>
    BY <1>2 DEF TakeCommand, CopyCommand, RestUnchanged, coreVars, walVars, lifeVars
  <2> QED BY <2>1 DEF QuietStep, Stage
<1>3. CASE EndBatch \/ BatchDone
  <2>1. UNCHANGED <<ledger, dedup, evicted, unlogged, taken, wal, base>>
    BY <1>3 DEF EndBatch, BatchDone, RestUnchanged, queueVars, walVars, lifeVars
  <2>2. core.pc \in {"take", "next"}
    BY <1>3 DEF EndBatch, BatchDone
  <2>3. \E pc \in Resting : core' = CoreAt(pc, core.batch, "none")
    BY <1>3 DEF EndBatch, BatchDone, CoreGoes, Resting
  <2> QED BY <2>1, <2>2, <2>3 DEF QuietStep, Stage, CoreAt, Resting
<1>4. CASE EmitEvent \/ PostEvent
  <2>1. UNCHANGED <<ledger, dedup, evicted, unlogged, taken, wal, base>>
    BY <1>4 DEF EmitEvent, PostEvent, RestUnchanged, queueVars, walVars, lifeVars
  <2>2. core.pc \in {"emit", "posting"} /\ core.then \in {"next", "record", "undo", "log"}
    BY <1>1, <1>4 DEF EmitEvent, PostEvent, CoreOK
  <2>3. core' \in {CoreAt("posting", core.batch, core.then), CoreAt(core.then, core.batch, "none")}
    BY <1>4 DEF EmitEvent, PostEvent, CoreGoes
  <2> QED BY <2>1, <2>2, <2>3 DEF QuietStep, Stage, CoreAt
<1> QED BY <1>1, <1>2, <1>3, <1>4 DEF CoreStep, CommandStep

-----------------------------------------------------------------------------
(* Executed once.                                                          *)

\* A logged request is in the cache, was there, or is about to be; a request
\* whose execution has begun is not in the cache.
OnceInv ==
  /\ base \in 0..Len(wal)
  /\ \A i \in base + 1..Len(wal) : wal[i].kind = "COMMAND" /\ Cached(wal[i].content) =>
       \/ wal[i].content.request \in dedup \cup evicted
       \/ Stage = "record" /\ wal[i].content.request = Current.request
  /\ Stage \in {"credit", "fee", "log"} => ~ IsDuplicate(Current)
  /\ ExecutedOnce

\* The log with one more record.
LEMMA LongerLog ==
  ASSUME NEW S, wal \in Seq(S), NEW r, wal' = Append(wal, r)
  PROVE  /\ Len(wal) \in Nat /\ Len(wal') = Len(wal) + 1 /\ wal'[Len(wal) + 1] = r
         /\ \A i \in 1..Len(wal) : wal'[i] = wal[i]
<1>1. /\ Len(wal) \in Nat /\ Len(Append(wal, r)) = Len(wal) + 1 /\ Append(wal, r)[Len(wal) + 1] = r
      /\ \A i \in 1..Len(wal) : Append(wal, r)[i] = wal[i]
  OBVIOUS
<1> QED BY <1>1

LEMMA OnceInvNext == CoreInv /\ LogInv /\ OnceInv /\ [Next]_vars => OnceInv'
<1>1. SUFFICES ASSUME CoreInv, LogInv, OnceInv, [Next]_vars PROVE OnceInv'
  OBVIOUS
<1> USE DEF ExecutedOnce
<1>2. PICK S : wal \in Seq(S)
  BY <1>1 DEF LogInv
<1>3. Len(wal) \in Nat /\ base \in 0..Len(wal)
  BY <1>1, <1>2 DEF OnceInv
<1>4. CoreOK(core)
  BY <1>1 DEF CoreInv
<1>5. ASSUME UNCHANGED <<wal, base>>, dedup \subseteq dedup' \cup evicted', evicted \subseteq evicted',
             Stage = "record" /\ Cached(Current) => Current.request \in dedup' \cup evicted',
             Stage' \notin {"credit", "fee", "log"}
      PROVE  OnceInv'
  BY <1>1, <1>5 DEF OnceInv, Cached
<1>6. ASSUME UNCHANGED <<wal, base, dedup, evicted>>, Stage = "record" => Stage' = "record" /\ Current' = Current,
             Stage' \in {"credit", "fee", "log"} => ~ IsDuplicate(Current')
      PROVE  OnceInv'
  BY <1>1, <1>6 DEF OnceInv, IsDuplicate, Cached
<1>7. CASE OtherStep
  <2>1. UNCHANGED <<core, dedup, evicted, base>>
    BY <1>7 DEF OtherStep
  <2>2. Stage' = Stage /\ Current' = Current
    BY <2>1 DEF Stage, Current
  <2>3. CASE wal' = wal
    BY <1>1, <1>6, <2>1, <2>2, <2>3 DEF OnceInv
  <2>4. ASSUME NEW state, wal' = Append(wal, SnapshotRecord(state)) PROVE OnceInv'
    <3>1. /\ Len(wal') = Len(wal) + 1 /\ wal'[Len(wal) + 1].kind # "COMMAND"
          /\ \A i \in 1..Len(wal) : wal'[i] = wal[i]
      BY <1>2, <2>4, LongerLog DEF SnapshotRecord
    <3> QED BY <1>1, <1>3, <2>1, <2>2, <3>1 DEF OnceInv, IsDuplicate, Cached
  <2> QED BY <1>7, <2>3, <2>4 DEF OtherStep
<1>8. CASE Restart
  <2>1. PICK kept \in flushed..Len(wal) : wal' = SubSeq(wal, 1, kept) /\ base' = kept
    BY <1>8 DEF Restart
  <2>2. kept \in 0..Len(wal) /\ kept \in Nat
    BY <1>1, <1>3 DEF LogInv
  <2>3. Len(SubSeq(wal, 1, kept)) = kept
    BY <1>2, <2>2
  <2>4. Len(wal') = base' /\ base' \in 0..Len(wal') /\ base' + 1..Len(wal') = {}
    BY <2>1, <2>2, <2>3
  <2>5. Stage' = "take"
    BY <1>8 DEF Restart, CoreIdle, CoreAt, Stage
  <2> QED BY <2>4, <2>5 DEF OnceInv
<1>9. CASE QuietStep
  <2>1. Current' = Current
    BY <1>9 DEF QuietStep, Current
  <2> QED BY <1>1, <1>6, <1>9, <2>1 DEF QuietStep, OnceInv, Resting
<1>10. CASE AddToBatch \/ UndoDebit
  <2>1. UNCHANGED <<wal, base, dedup, evicted>>
    BY <1>10 DEF AddToBatch, UndoDebit, RestUnchanged, walVars, lifeVars
  <2>2. Stage # "record" /\ Stage' \in {"take", "record"}
    BY <1>10 DEF AddToBatch, UndoDebit, CoreGoes, CoreAt, Stage
  <2> QED BY <1>6, <2>1, <2>2
<1>11. CASE StartCommand
  <2>1. UNCHANGED <<wal, base, dedup, evicted>> /\ Stage = "next"
    BY <1>11 DEF StartCommand, RestUnchanged, walVars, lifeVars, Stage
  <2>2. CASE SkipDuplicate
    <3>1. Stage' = "next"
      BY <2>2 DEF SkipDuplicate, Posts, CoreAt, Stage
    <3> QED BY <1>6, <2>1, <3>1
  <2>3. CASE ~ IsDuplicate(Current)
    <3>1. CASE SkipDuplicate
      BY <2>3, <3>1 DEF SkipDuplicate
    <3>2. CASE ~ SkipDuplicate
      <4>1. core'.batch = core.batch
        BY <1>11, <3>2 DEF StartCommand, HandleFreeze, HandleRelease, HandleRefund, HandleSettlementBatch,
           DebitSender, Rejects, Posts, CoreGoes, CoreAt
      <4>2. Current' = Current
        BY <4>1 DEF Current
      <4> QED BY <1>6, <2>1, <2>3, <4>2
    <3> QED BY <3>1, <3>2
  <2> QED BY <1>11, <2>2, <2>3 DEF StartCommand
<1>12. CASE CreditReceiver \/ CreditFee
  <2>1. UNCHANGED <<wal, base, dedup, evicted>> /\ Stage \in {"credit", "fee"}
    BY <1>12 DEF CreditReceiver, CreditFee, RestUnchanged, walVars, lifeVars, Stage
  <2>2. core'.batch = core.batch
    BY <1>12 DEF CreditReceiver, CreditFee, Posts, CoreGoes, CoreAt
  <2>3. Current' = Current
    BY <2>2 DEF Current
  <2> QED BY <1>1, <1>6, <2>1, <2>3 DEF OnceInv
<1>13. CASE LogCommand
  <2>1. /\ UNCHANGED <<base, dedup, evicted>>
        /\ Stage = "log" /\ Stage' = "record" /\ core'.batch = core.batch
        /\ wal' = Append(wal, CommandRecord(Current))
    BY <1>13 DEF LogCommand, Logged, RestUnchanged, lifeVars, Posts, CoreAt, Stage
  <2>2. Current' = Current
    BY <2>1 DEF Current
  <2>3. /\ Len(wal') = Len(wal) + 1 /\ wal'[Len(wal) + 1] = CommandRecord(Current)
        /\ \A i \in 1..Len(wal) : wal'[i] = wal[i]
    BY <1>2, <2>1, LongerLog
  <2>4. wal'[Len(wal) + 1].content.request = Current.request
    BY <2>3 DEF CommandRecord
  <2>5. Cached(Current) => Current.request \notin dedup
    BY <1>1, <2>1 DEF OnceInv, IsDuplicate
  <2>6. \A i \in base + 1..Len(wal) : wal[i].kind = "COMMAND" /\ Cached(wal[i].content) =>
          wal[i].content.request \in dedup \cup evicted
    BY <1>1, <2>1 DEF OnceInv
  <2>7. \A i \in base + 1..Len(wal') : i = Len(wal) + 1 \/ (i \in base + 1..Len(wal) /\ wal'[i] = wal[i])
    BY <1>3, <2>3
  <2>8. \A i \in base + 1..Len(wal') : wal'[i].kind = "COMMAND" /\ Cached(wal'[i].content) =>
          \/ wal'[i].content.request \in dedup \cup evicted
          \/ wal'[i].content.request = Current.request
    BY <2>4, <2>6, <2>7
  <2>9. ExecutedOnce'
    <3> SUFFICES ASSUME NEW i \in base + 1..Len(wal'), NEW j \in base + 1..Len(wal'),
                        wal'[i].kind = "COMMAND", wal'[j].kind = "COMMAND",
                        wal'[i].content.request = wal'[j].content.request,
                        Cached(wal'[i].content), i # j
                 PROVE  wal'[i].content.request \in evicted
      BY ZenonT(40), <2>1 DEF Cached
    <3>0. Cached(wal'[j].content)
      BY DEF Cached
    <3>1. CASE i = Len(wal) + 1
      <4>1. j \in base + 1..Len(wal) /\ wal'[j] = wal[j]
        BY <2>7, <3>1
      <4> QED BY <2>4, <2>5, <2>6, <3>0, <3>1, <4>1 DEF Cached
    <3>2. CASE j = Len(wal) + 1
      <4>1. i \in base + 1..Len(wal) /\ wal'[i] = wal[i]
        BY <2>7, <3>2
      <4> QED BY <2>4, <2>5, <2>6, <3>2, <4>1 DEF Cached
    <3>3. CASE i # Len(wal) + 1 /\ j # Len(wal) + 1
      <4>1. /\ i \in base + 1..Len(wal) /\ wal'[i] = wal[i]
            /\ j \in base + 1..Len(wal) /\ wal'[j] = wal[j]
        BY <2>7, <3>3
      <4> QED BY <1>1, <4>1 DEF OnceInv
    <3> QED BY <3>1, <3>2, <3>3
  <2> QED BY <1>3, <2>1, <2>2, <2>3, <2>8, <2>9 DEF OnceInv, Cached
<1>14. CASE RecordResult
  <2>1. UNCHANGED <<wal, base>> /\ Stage' = "next"
    BY <1>14 DEF RecordResult, RestUnchanged, walVars, lifeVars, CoreGoes, CoreAt, Stage
  <2>2. ASSUME NEW T, dedup' = (dedup \ T) \cup {Current.request},
               evicted' = evicted \cup (T \ {Current.request})
        PROVE  OnceInv'
    BY <1>5, <2>1, <2>2
  <2>3. CASE ~ Cached(Current) /\ UNCHANGED <<dedup, evicted>>
    BY <1>5, <2>1, <2>3
  <2> QED BY <1>14, <2>2, <2>3 DEF RecordResult
<1> QED BY <1>1, <1>4, <1>7, <1>8, <1>9, <1>10, <1>11, <1>12, <1>13, <1>14, StepKinds, CoreStepKinds
        DEF CommandStep

\* A process logs a request, of a hash other than 0, twice only after its cache
\* has forgotten it, whatever is submitted, however often, and whatever the
\* cache evicts.
THEOREM EngineExecutesOnce == Spec => []ExecutedOnce
<1> DEFINE Inv == TypeInv /\ OnceInv
<1>1. Init => Inv
  <2>1. SUFFICES ASSUME Init PROVE OnceInv
    BY TypeInvInit
  <2>2. wal = <<>> /\ base = 0 /\ Stage = "take"
    BY <2>1 DEF Init, CoreIdle, CoreAt, Stage
  <2>3. base \in 0..Len(wal) /\ base + 1..Len(wal) = {}
    BY <2>2
  <2> QED BY <2>2, <2>3 DEF OnceInv, ExecutedOnce
<1>2. Inv /\ [Next]_vars => Inv'
  BY TypeInvNext, OnceInvNext DEF TypeInv
<1>3. Inv => ExecutedOnce
  BY DEF OnceInv
<1> QED BY <1>1, <1>2, <1>3, PTL DEF Spec

-----------------------------------------------------------------------------
(* The log rebuilds the ledger.                                            *)

\* In the middle of a command the ledger is ahead of the log by a part of that
\* command's effect.
ReplayInv ==
  /\ base \in 0..Len(wal)
  /\ ~ unlogged =>
       /\ Stage \in {"take", "next", "record", "done"} => ledger = Replay(OwnLog)
       /\ Stage \in {"credit", "fee"} => Current.type = "EXECUTE_PAYMENT"
       /\ Stage = "credit" => ledger = Debit(Replay(OwnLog), Current.from, Total(Current))
       /\ Stage = "fee" =>
            ledger = Credit(Debit(Replay(OwnLog), Current.from, Total(Current)),
                            Current.to, Current.target)
       /\ Stage = "log" => ledger = Effect(Replay(OwnLog), Current)

LEMMA LongerOwnLog ==
  ASSUME NEW S, wal \in Seq(S), base \in 0..Len(wal), NEW r, wal' = Append(wal, r), base' = base
  PROVE  /\ \E T : OwnLog \in Seq(T)
         /\ OwnLog' = Append(OwnLog, r)
         /\ base' \in 0..Len(wal')
<1> DEFINE n == Len(wal)
           new == SubSeq(Append(wal, r), base + 1, n + 1)
           old == SubSeq(wal, base + 1, n)
<1>1. n \in Nat /\ base \in 0..n /\ Len(Append(wal, r)) = n + 1 /\ base + 1 \in Nat
  OBVIOUS
<1>2. old \in Seq(S) /\ Len(old) = n - base
  <2>1. \A i \in base + 1..n : wal[i] \in S
    BY <1>1
  <2> QED BY <1>1, <2>1
<1>3. \A i \in 1..n - base : old[i] = wal[base + i]
  BY <1>1
<1>4. Append(wal, r) \in Seq(S \cup {r})
  BY AppendedLog
<1>5. new \in Seq(S \cup {r}) /\ Len(new) = n + 1 - base
  BY <1>1, <1>4
<1>6. \A i \in 1..n + 1 - base : new[i] = Append(wal, r)[base + i]
  BY <1>1, <1>4
<1>7. Append(old, r) \in Seq(S \cup {r}) /\ Len(Append(old, r)) = n + 1 - base
  BY <1>1, <1>2, AppendedLog
<1>8. \A i \in 1..n + 1 - base : new[i] = Append(old, r)[i]
  <2> SUFFICES ASSUME NEW i \in 1..n + 1 - base PROVE new[i] = Append(old, r)[i]
    OBVIOUS
  <2>1. new[i] = Append(wal, r)[base + i]
    BY <1>6
  <2>2. CASE i = n + 1 - base
    <3>1. Append(wal, r)[base + i] = r
      BY <1>1, <2>2
    <3>2. i = Len(old) + 1
      BY <1>1, <1>2, <2>2
    <3> HIDE DEF old, new, n
    <3>3. Append(old, r)[i] = r
      BY <1>2, <3>2
    <3> QED BY <2>1, <3>1, <3>3
  <2>3. CASE i # n + 1 - base
    <3>1. i \in 1..n - base /\ base + i \in 1..n
      BY <1>1, <2>3
    <3>2. Append(wal, r)[base + i] = wal[base + i]
      BY <3>1
    <3>3. old[i] = wal[base + i]
      BY <1>3, <3>1
    <3> HIDE DEF old, new
    <3>4. Append(old, r)[i] = old[i]
      BY SMTT(20), <1>1, <1>2, <3>1
    <3> QED BY <2>1, <3>2, <3>3, <3>4
  <2> QED BY <2>2, <2>3
<1>9. new = Append(old, r)
  <2> DEFINE longer == Append(old, r)
  <2>1. /\ new \in Seq(S \cup {r}) /\ longer \in Seq(S \cup {r}) /\ Len(new) = Len(longer)
        /\ \A i \in 1..Len(new) : new[i] = longer[i]
    BY <1>5, <1>7, <1>8
  <2> HIDE DEF new, longer
  <2> QED BY <2>1, SeqEqual DEF longer
<1>10. OwnLog = old /\ OwnLog' = new
  <2>1. Len(wal') = n + 1
    BY <1>1
  <2> QED BY <2>1 DEF OwnLog
<1>11. base' \in 0..Len(wal')
  BY <1>1
<1> QED BY <1>2, <1>9, <1>10, <1>11

LEMMA ReplayInvNext == CoreInv /\ LogInv /\ ReplayInv /\ [Next]_vars => ReplayInv'
<1>1. SUFFICES ASSUME CoreInv, LogInv, ReplayInv, [Next]_vars PROVE ReplayInv'
  OBVIOUS
<1>2. PICK S : wal \in Seq(S)
  BY <1>1 DEF LogInv
<1>3. base \in 0..Len(wal) /\ CoreOK(core)
  BY <1>1 DEF ReplayInv, CoreInv
<1>4. ASSUME NEW state, wal' = Append(wal, SnapshotRecord(state)), base' = base
      PROVE  Replay(OwnLog)' = Replay(OwnLog) /\ base' \in 0..Len(wal')
  <2>1. PICK T : OwnLog \in Seq(T)
    BY <1>2, <1>3, <1>4, LongerOwnLog
  <2>2. OwnLog' = Append(OwnLog, SnapshotRecord(state)) /\ base' \in 0..Len(wal')
    BY <1>2, <1>3, <1>4, LongerOwnLog
  <2>3. Replay(Append(OwnLog, SnapshotRecord(state))) = Replayed(Replay(OwnLog), SnapshotRecord(state))
    BY <2>1, ReplayAppend
  <2>4. Replayed(Replay(OwnLog), SnapshotRecord(state)) = Replay(OwnLog)
    BY DEF Replayed, SnapshotRecord
  <2> QED BY <2>2, <2>3, <2>4
<1>5. ASSUME UNCHANGED <<wal, base>>
      PROVE  OwnLog' = OwnLog /\ Replay(OwnLog)' = Replay(OwnLog) /\ base' \in 0..Len(wal')
  BY <1>3, <1>5 DEF OwnLog
<1>6. CASE OtherStep
  <2>1. UNCHANGED <<core, ledger, unlogged, base>>
    BY <1>6 DEF OtherStep
  <2>2. Stage' = Stage /\ Current' = Current
    BY <2>1 DEF Stage, Current
  <2>3. Replay(OwnLog)' = Replay(OwnLog) /\ base' \in 0..Len(wal')
    BY <1>4, <1>5, <1>6, <2>1 DEF OtherStep
  <2> QED BY <1>1, <2>1, <2>2, <2>3 DEF ReplayInv
<1>7. CASE Restart
  <2>1. PICK kept \in flushed..Len(wal) : wal' = SubSeq(wal, 1, kept) /\ base' = kept
    BY <1>7 DEF Restart
  <2>2. kept \in 0..Len(wal) /\ kept \in Nat
    BY <1>1, <1>3 DEF LogInv
  <2>3. wal' \in Seq(S) /\ Len(wal') = kept
    BY <1>2, <2>1, <2>2
  <2>4. OwnLog' = <<>> /\ base' \in 0..Len(wal')
    BY <2>1, <2>2, <2>3 DEF OwnLog
  <2>5. Stage' = "take" /\ ledger' = Registered
    BY <1>7 DEF Restart, CoreIdle, CoreAt, Stage
  <2> QED BY <2>4, <2>5, ReplayNothing DEF ReplayInv
<1>8. CASE QuietStep
  <2>1. Current' = Current /\ Replay(OwnLog)' = Replay(OwnLog) /\ base' \in 0..Len(wal')
    BY <1>5, <1>8 DEF QuietStep, Current
  <2> QED BY <1>1, <1>8, <2>1 DEF QuietStep, ReplayInv, Resting
<1>9. CASE AddToBatch
  <2>1. UNCHANGED <<wal, base, ledger, unlogged>> /\ Stage = "take" /\ Stage' = "take"
    BY <1>9 DEF AddToBatch, RestUnchanged, walVars, lifeVars, CoreGoes, CoreAt, Stage
  <2> QED BY <1>1, <1>5, <2>1 DEF ReplayInv
<1>10. CASE StartCommand
  <2>1. UNCHANGED <<wal, base, unlogged>> /\ Stage = "next" /\ core.batch # <<>>
    BY <1>10 DEF StartCommand, RestUnchanged, walVars, lifeVars, Stage
  <2>2. ~ unlogged => ledger = Replay(OwnLog)
    BY <1>1, <2>1 DEF ReplayInv
  <2>3. Replay(OwnLog)' = Replay(OwnLog) /\ base' \in 0..Len(wal')
    BY <1>5, <2>1
  <2>4. CASE SkipDuplicate
    <3>1. Stage' = "next" /\ ledger' = ledger
      BY <2>4 DEF SkipDuplicate, Posts, CoreAt, Stage
    <3> QED BY <2>1, <2>2, <2>3, <3>1 DEF ReplayInv
  <2>5. CASE Rejects
    <3>1. Stage' = "record" /\ ledger' = ledger
      BY <2>5 DEF Rejects, Posts, CoreAt, Stage
    <3> QED BY <2>1, <2>2, <2>3, <3>1 DEF ReplayInv
  <2>6. ASSUME CoreGoes("log", core.batch), ledger' = Effect(ledger, Current) PROVE ReplayInv'
    <3>1. Stage' = "log" /\ Current' = Current
      BY <2>6 DEF CoreGoes, CoreAt, Stage, Current
    <3> QED BY <2>1, <2>2, <2>3, <2>6, <3>1 DEF ReplayInv
  <2>7. CASE HandleFreeze
    <3>1. Effect(ledger, Current) = Freeze(ledger, Current.from, Total(Current))
      BY <2>7 DEF HandleFreeze, Effect
    <3> QED BY <2>5, <2>6, <2>7, <3>1 DEF HandleFreeze
  <2>8. CASE HandleRelease
    <3>1. Effect(ledger, Current) = Unfreeze(ledger, Current.from, Total(Current))
      BY <2>8 DEF HandleRelease, Effect
    <3> QED BY <2>5, <2>6, <2>8, <3>1 DEF HandleRelease
  <2>9. CASE HandleRefund
    <3>1. Effect(ledger, Current) = Credit(ledger, Current.from, Total(Current))
      BY <2>9 DEF HandleRefund, Effect
    <3> QED BY <2>5, <2>6, <2>9, <3>1 DEF HandleRefund
  <2>10. CASE HandleSettlementBatch
    <3>1. Effect(ledger, Current) = ledger
      BY <2>10 DEF HandleSettlementBatch, Effect
    <3> QED BY <2>6, <2>10, <3>1 DEF HandleSettlementBatch
  <2>11. CASE DebitSender
    <3>1. ASSUME CoreGoes("credit", core.batch), ledger' = Debit(ledger, Current.from, Total(Current))
          PROVE  ReplayInv'
      <4>1. Stage' = "credit" /\ Current' = Current
        BY <3>1 DEF CoreGoes, CoreAt, Stage, Current
      <4> QED BY <2>1, <2>2, <2>3, <2>11, <3>1, <4>1 DEF ReplayInv, DebitSender
    <3> QED BY <2>5, <2>11, <3>1 DEF DebitSender
  <2> QED BY <1>10, <2>4, <2>7, <2>8, <2>9, <2>10, <2>11 DEF StartCommand
<1>11. CASE CreditReceiver
  <2>1. UNCHANGED <<wal, base, unlogged>> /\ Stage = "credit"
    BY <1>11 DEF CreditReceiver, RestUnchanged, walVars, lifeVars, Stage
  <2>2. Replay(OwnLog)' = Replay(OwnLog) /\ base' \in 0..Len(wal')
    BY <1>5, <2>1
  <2>3. CASE Posts(core.batch, "undo")
    <3>1. Stage' = "undo"
      BY <2>3 DEF Posts, CoreAt, Stage
    <3> QED BY <2>2, <3>1 DEF ReplayInv
  <2>4. ASSUME CoreGoes("fee", core.batch), ledger' = Credit(ledger, Current.to, Current.target)
        PROVE  ReplayInv'
    <3>1. Stage' = "fee" /\ Current' = Current
      BY <2>4 DEF CoreGoes, CoreAt, Stage, Current
    <3> QED BY <1>1, <2>1, <2>2, <2>4, <3>1 DEF ReplayInv
  <2> QED BY <1>11, <2>3, <2>4 DEF CreditReceiver
<1>12. CASE UndoDebit
  <2>1. unlogged' = TRUE /\ UNCHANGED <<wal, base>>
    BY <1>12 DEF UndoDebit, RestUnchanged, walVars, lifeVars
  <2> QED BY <1>5, <2>1 DEF ReplayInv
<1>13. CASE CreditFee
  <2>1. UNCHANGED <<wal, base, unlogged>> /\ Stage = "fee"
    BY <1>13 DEF CreditFee, RestUnchanged, walVars, lifeVars, Stage
  <2>2. Replay(OwnLog)' = Replay(OwnLog) /\ base' \in 0..Len(wal')
    BY <1>5, <2>1
  <2>3. Stage' = "log" /\ Current' = Current
    BY <1>13 DEF CreditFee, Posts, CoreGoes, CoreAt, Stage, Current
  <2>4. ledger' = CreditIfPossible(ledger, FeeAccount(Current), Current.fee)
    BY <1>13 DEF CreditFee, CreditIfPossible
  <2>5. ~ unlogged => ledger' = Effect(Replay(OwnLog), Current)
    <3> SUFFICES ASSUME ~ unlogged PROVE ledger' = Effect(Replay(OwnLog), Current)
      OBVIOUS
    <3>1. /\ Current.type = "EXECUTE_PAYMENT"
          /\ ledger = Credit(Debit(Replay(OwnLog), Current.from, Total(Current)),
                             Current.to, Current.target)
      BY <1>1, <2>1 DEF ReplayInv
    <3> QED BY <2>4, <3>1 DEF Effect
  <2> QED BY <2>1, <2>2, <2>3, <2>5 DEF ReplayInv
<1>14. CASE LogCommand
  <2>1. /\ UNCHANGED <<base, ledger, unlogged>> /\ Stage = "log" /\ Stage' = "record"
        /\ wal' = Append(wal, CommandRecord(Current))
    BY <1>14 DEF LogCommand, Logged, RestUnchanged, lifeVars, Posts, CoreAt, Stage
  <2>2. PICK T : OwnLog \in Seq(T)
    BY <1>2, <1>3, <2>1, LongerOwnLog
  <2>3. OwnLog' = Append(OwnLog, CommandRecord(Current)) /\ base' \in 0..Len(wal')
    BY <1>2, <1>3, <2>1, LongerOwnLog
  <2>4. Replay(Append(OwnLog, CommandRecord(Current))) = Replayed(Replay(OwnLog), CommandRecord(Current))
    BY <2>2, ReplayAppend
  <2>5. Replayed(Replay(OwnLog), CommandRecord(Current)) = Effect(Replay(OwnLog), Current)
    BY DEF Replayed, CommandRecord
  <2>6. Replay(OwnLog)' = Effect(Replay(OwnLog), Current)
    BY <2>3, <2>4, <2>5
  <2> QED BY <1>1, <2>1, <2>3, <2>6 DEF ReplayInv
<1>15. CASE RecordResult
  <2>1. UNCHANGED <<wal, base, ledger, unlogged>> /\ Stage = "record" /\ Stage' = "next"
    BY <1>15 DEF RecordResult, RestUnchanged, walVars, lifeVars, CoreGoes, CoreAt, Stage
  <2> QED BY <1>1, <1>5, <2>1 DEF ReplayInv
<1> QED BY <1>1, <1>3, <1>6, <1>7, <1>8, <1>9, <1>10, <1>11, <1>12, <1>13, <1>14, <1>15,
           StepKinds, CoreStepKinds DEF CommandStep

\* Between two commands, replaying on the registered balances what a process has
\* logged gives its ledger, unless a compensation has run: no command that
\* changed the ledger is missing from the log, none is in it that did not.
THEOREM EngineLogRebuilds == Spec => []LogRebuildsLedger
<1> DEFINE Inv == TypeInv /\ ReplayInv
<1>1. Init => Inv
  <2>1. SUFFICES ASSUME Init PROVE ReplayInv
    BY TypeInvInit
  <2>2. wal = <<>> /\ base = 0 /\ Stage = "take" /\ ledger = Registered
    BY <2>1 DEF Init, CoreIdle, CoreAt, Stage
  <2>3. base \in 0..Len(wal) /\ OwnLog = <<>>
    BY <2>2 DEF OwnLog
  <2> QED BY <2>2, <2>3, ReplayNothing DEF ReplayInv
<1>2. Inv /\ [Next]_vars => Inv'
  BY TypeInvNext, ReplayInvNext DEF TypeInv
<1>3. Inv => LogRebuildsLedger
  <2> SUFFICES ASSUME ReplayInv, AtRest, ~ unlogged PROVE ledger = Replay(OwnLog)
    BY DEF LogRebuildsLedger, Replay
  <2>1. Stage \in {"take", "next", "done"}
    BY DEF AtRest, Stage
  <2> QED BY <2>1 DEF ReplayInv
<1> QED BY <1>1, <1>2, <1>3, PTL DEF Spec

-----------------------------------------------------------------------------
(* What the accounts are worth.                                            *)

\* What storing one balance does to the worth of all.
LEMMA WorthStored ==
  ASSUME NEW l, IsFiniteSet(DOMAIN l), LedgerOK(l), NEW id, NEW b \in Balances
  PROVE  /\ IsFiniteSet(DOMAIN Stored(l, id, b))
         /\ Worth(l) \in Int
         /\ id \in DOMAIN l =>
              Worth(Stored(l, id, b)) =
                Worth(l) + (b.available + b.frozen) - (l[id].available + l[id].frozen)
         /\ id \notin DOMAIN l => Worth(Stored(l, id, b)) = Worth(l) + (b.available + b.frozen)
<1> DEFINE D == DOMAIN l
           f == [x \in D |-> l[x].available + l[x].frozen]
           m == Stored(l, id, b)
           g == [x \in DOMAIN m |-> m[x].available + m[x].frozen]
<1>1. DOMAIN m = D \cup {id} /\ IsFiniteSet(D \cup {id})
  BY FS_AddElement DEF Stored
<1>2. /\ \A x \in D : f[x] \in Int
      /\ g[id] = b.available + b.frozen /\ g[id] \in Int
      /\ \A x \in D \ {id} : f[x] = g[x]
      /\ DOMAIN f = D /\ DOMAIN g = D \cup {id}
      /\ id \in D => f[id] = l[id].available + l[id].frozen
  BY WidthAssumption DEF Stored, LedgerOK, Balances
<1>3. Worth(l) = SumFunctionOnSet(f, D) /\ Worth(m) = SumFunctionOnSet(g, D \cup {id})
  BY <1>1, <1>2 DEF Worth, SumFunction
<1>4. IsFiniteSet(D)
  OBVIOUS
<1> HIDE DEF D, f, g
<1>5. SumFunctionOnSet(f, D) \in Int
  BY <1>2, <1>4, SumInt
<1>6. CASE id \in D
  <2>1. D \cup {id} = D
    BY <1>6
  <2>2. SumFunctionOnSet(g, D) = SumFunctionOnSet(f, D) + g[id] - f[id]
    BY <1>2, <1>4, <1>6, SumChange
  <2>3. SumFunctionOnSet(g, D \cup {id}) = SumFunctionOnSet(g, D)
    BY <2>1
  <2>4. Worth(m) = Worth(l) + (b.available + b.frozen) - (l[id].available + l[id].frozen)
    BY <1>2, <1>3, <1>5, <1>6, <2>2, <2>3
  <2> QED BY <1>1, <1>3, <1>5, <1>6, <2>4 DEF D
<1>7. CASE id \notin D
  <2>1. \A x \in D : f[x] = g[x] /\ g[x] \in Int
    BY <1>2, <1>7
  <2>2. SumFunctionOnSet(g, D \cup {id}) = SumFunctionOnSet(g, D) + g[id]
    BY <1>2, <1>4, <1>7, <2>1, SumAdd
  <2>3. SumFunctionOnSet(g, D) = SumFunctionOnSet(f, D)
    BY <1>4, <2>1, SumSame
  <2>4. Worth(m) = Worth(l) + (b.available + b.frozen)
    BY <1>2, <1>3, <1>5, <2>2, <2>3
  <2> QED BY <1>1, <1>3, <1>5, <1>7, <2>4 DEF D
<1> QED BY <1>6, <1>7

Sound(l) == IsFiniteSet(DOMAIN l) /\ LedgerOK(l)

LEMMA WorthIsInt == ASSUME NEW l, Sound(l) PROVE Worth(l) \in Int
<1>1. Balance(0, 0, 0) \in Balances
  BY WidthAssumption DEF Balance, Balances
<1> QED BY <1>1, WorthStored DEF Sound

\* Freezing and releasing move money within an account ...
LEMMA WorthFreeze ==
  ASSUME NEW l, Sound(l), NEW id, NEW amount \in 0..MaxInt, CanFreeze(l, id, amount)
  PROVE  IsFiniteSet(DOMAIN Freeze(l, id, amount)) /\ Worth(Freeze(l, id, amount)) = Worth(l)
<1> DEFINE b == Balance(l[id].available - amount, l[id].frozen + amount, l[id].settled)
<1>0. /\ l[id].available \in 0..MaxInt /\ l[id].frozen \in 0..MaxInt /\ l[id].settled \in 0..MaxInt
      /\ l[id].available - amount \in 0..MaxInt
      /\ Wrapped(l[id].available - amount) = l[id].available - amount
  <2>1. l[id] \in Balances /\ l[id].available >= amount
    BY DEF Sound, LedgerOK, CanFreeze
  <2>2. l[id].available - amount \in 0..MaxInt
    BY <2>1, WidthAssumption DEF Balances
  <2> QED BY <2>1, <2>2, Int64IsInt, WrappedSame DEF Balances
<1>1. /\ b \in Balances /\ id \in DOMAIN l /\ l[id].available \in Int /\ l[id].frozen \in Int
      /\ b.available + b.frozen = l[id].available + l[id].frozen /\ Worth(l) \in Int
  BY <1>0, WidthAssumption, WorthIsInt DEF Int64, Sound, LedgerOK, CanFreeze, AddOverflow, Balance, Balances
<1>2. Freeze(l, id, amount) = Stored(l, id, b)
  BY <1>0 DEF Freeze
<1> HIDE DEF b
<1>3. /\ IsFiniteSet(DOMAIN Stored(l, id, b))
      /\ Worth(Stored(l, id, b)) = Worth(l) + (b.available + b.frozen) - (l[id].available + l[id].frozen)
  BY <1>1, WorthStored DEF Sound
<1> QED BY <1>1, <1>2, <1>3

LEMMA WorthUnfreeze ==
  ASSUME NEW l, Sound(l), NEW id, NEW amount \in 0..MaxInt, CanUnfreeze(l, id, amount)
  PROVE  IsFiniteSet(DOMAIN Unfreeze(l, id, amount)) /\ Worth(Unfreeze(l, id, amount)) = Worth(l)
<1> DEFINE b == Balance(l[id].available + amount, l[id].frozen - amount, l[id].settled)
<1>0. /\ l[id].available \in 0..MaxInt /\ l[id].frozen \in 0..MaxInt /\ l[id].settled \in 0..MaxInt
      /\ l[id].frozen - amount \in 0..MaxInt
      /\ Wrapped(l[id].frozen - amount) = l[id].frozen - amount
  <2>1. l[id] \in Balances /\ l[id].frozen >= amount
    BY DEF Sound, LedgerOK, CanUnfreeze
  <2>2. l[id].frozen - amount \in 0..MaxInt
    BY <2>1, WidthAssumption DEF Balances
  <2> QED BY <2>1, <2>2, Int64IsInt, WrappedSame DEF Balances
<1>1. /\ b \in Balances /\ id \in DOMAIN l /\ l[id].available \in Int /\ l[id].frozen \in Int
      /\ b.available + b.frozen = l[id].available + l[id].frozen /\ Worth(l) \in Int
  BY <1>0, WidthAssumption, WorthIsInt DEF Int64, Sound, LedgerOK, CanUnfreeze, AddOverflow, Balance, Balances
<1>2. Unfreeze(l, id, amount) = Stored(l, id, b)
  BY <1>0 DEF Unfreeze
<1> HIDE DEF b
<1>3. /\ IsFiniteSet(DOMAIN Stored(l, id, b))
      /\ Worth(Stored(l, id, b)) = Worth(l) + (b.available + b.frozen) - (l[id].available + l[id].frozen)
  BY <1>1, WorthStored DEF Sound
<1> QED BY <1>1, <1>2, <1>3

\* ... a debit takes it away and a credit adds it.
LEMMA WorthDebit ==
  ASSUME NEW l, Sound(l), NEW id, NEW amount \in 0..MaxInt, CanDebit(l, id, amount)
  PROVE  IsFiniteSet(DOMAIN Debit(l, id, amount)) /\ Worth(Debit(l, id, amount)) = Worth(l) - amount
<1> DEFINE b == Balance(l[id].available, l[id].frozen - amount, l[id].settled + amount)
<1>0. /\ l[id].available \in 0..MaxInt /\ l[id].frozen \in 0..MaxInt /\ l[id].settled \in 0..MaxInt
      /\ l[id].frozen - amount \in 0..MaxInt
      /\ Wrapped(l[id].frozen - amount) = l[id].frozen - amount
  <2>1. l[id] \in Balances /\ l[id].frozen >= amount
    BY DEF Sound, LedgerOK, CanDebit
  <2>2. l[id].frozen - amount \in 0..MaxInt
    BY <2>1, WidthAssumption DEF Balances
  <2> QED BY <2>1, <2>2, Int64IsInt, WrappedSame DEF Balances
<1>1. /\ b \in Balances /\ id \in DOMAIN l /\ l[id].available \in Int /\ l[id].frozen \in Int
      /\ b.available + b.frozen = l[id].available + l[id].frozen - amount /\ Worth(l) \in Int
  BY <1>0, WidthAssumption, WorthIsInt DEF Int64, Sound, LedgerOK, CanDebit, AddOverflow, Balance, Balances
<1>2. Debit(l, id, amount) = Stored(l, id, b)
  BY <1>0 DEF Debit
<1> HIDE DEF b
<1>3. /\ IsFiniteSet(DOMAIN Stored(l, id, b))
      /\ Worth(Stored(l, id, b)) = Worth(l) + (b.available + b.frozen) - (l[id].available + l[id].frozen)
  BY <1>1, WorthStored DEF Sound
<1> QED BY <1>1, <1>2, <1>3

LEMMA WorthCredit ==
  ASSUME NEW l, Sound(l), NEW id, NEW amount \in 0..MaxInt, CanCredit(l, id, amount)
  PROVE  IsFiniteSet(DOMAIN Credit(l, id, amount)) /\ Worth(Credit(l, id, amount)) = Worth(l) + amount
<1>0. Worth(l) \in Int
  BY WorthIsInt
<1>1. CASE id \in DOMAIN l
  <2> DEFINE b == Balance(l[id].available + amount, l[id].frozen, l[id].settled)
  <2>1. /\ b \in Balances /\ l[id].available \in Int /\ l[id].frozen \in Int
        /\ b.available + b.frozen = l[id].available + l[id].frozen + amount
    BY <1>1, WidthAssumption DEF Sound, LedgerOK, CanCredit, AddOverflow, Int64, Balance, Balances
  <2>2. Credit(l, id, amount) = Stored(l, id, b)
    BY <1>1 DEF Credit
  <2> HIDE DEF b
  <2>3. /\ IsFiniteSet(DOMAIN Stored(l, id, b))
        /\ Worth(Stored(l, id, b)) = Worth(l) + (b.available + b.frozen) - (l[id].available + l[id].frozen)
    BY <1>1, <2>1, WorthStored DEF Sound
  <2> QED BY <1>0, <2>1, <2>2, <2>3
<1>2. CASE id \notin DOMAIN l
  <2> DEFINE b == Balance(amount, 0, 0)
  <2>1. b \in Balances /\ b.available + b.frozen = amount
    BY WidthAssumption DEF Balance, Balances
  <2>2. Credit(l, id, amount) = Stored(l, id, b)
    BY <1>2 DEF Credit
  <2> HIDE DEF b
  <2>3. /\ IsFiniteSet(DOMAIN Stored(l, id, b))
        /\ Worth(Stored(l, id, b)) = Worth(l) + (b.available + b.frozen)
    BY <1>2, <2>1, WorthStored DEF Sound
  <2> QED BY <1>0, <2>1, <2>2, <2>3
<1> QED BY <1>1, <1>2

\* What the first n of some commands can have made.
MintedOf(commands, n) == SumFunctionOnSet([i \in DOMAIN commands |-> Minted(commands[i])], 1..n)

LEMMA MintedIsNat ==
  ASSUME NEW c \in Commands
  PROVE  /\ Minted(c) \in Nat
         /\ c.type = "EXECUTE_PAYMENT" => Minted(c) >= c.target - c.source
         /\ c.type = "REFUND_PAYMENT" /\ Total(c) >= 0 => Minted(c) = Total(c)
<1>1. /\ c.source \in Int /\ c.target \in Int /\ Total(c) \in Int
  BY AmountTypes, Int64IsInt
<1>2. CASE c.type = "REFUND_PAYMENT" /\ Total(c) > 0
  BY <1>1, <1>2 DEF Minted
<1>3. CASE c.type = "EXECUTE_PAYMENT" /\ c.target > c.source
  BY <1>1, <1>3 DEF Minted
<1>4. CASE ~ (c.type = "REFUND_PAYMENT" /\ Total(c) > 0)
           /\ ~ (c.type = "EXECUTE_PAYMENT" /\ c.target > c.source)
  <2>1. Minted(c) = 0
    BY <1>4 DEF Minted
  <2> QED BY <1>1, <1>4, <2>1
<1> QED BY <1>2, <1>3, <1>4

\* It grows by what the next one can make; more commands leave it what it is.
LEMMA MintedOfNext ==
  ASSUME NEW s \in Seq(Commands), NEW n \in Nat, n < Len(s)
  PROVE  MintedOf(s, n + 1) = MintedOf(s, n) + Minted(s[n + 1]) /\ MintedOf(s, n) \in Nat
<1> DEFINE f == [i \in DOMAIN s |-> Minted(s[i])]
           A == 1..n
           x == n + 1
<1>1. IsFiniteSet(A) /\ x \notin A /\ 1..n + 1 = A \cup {x}
  <2>1. IsFiniteSet(A)
    BY FS_Interval
  <2>2. \A i : i \in 1..n + 1 <=> i \in 1..n \/ i = n + 1
    OBVIOUS
  <2> QED BY <2>1, <2>2
<1>2. \A y \in A : f[y] \in Nat
  <2> SUFFICES ASSUME NEW y \in 1..n PROVE f[y] \in Nat
    OBVIOUS
  <2>1. y \in 1..Len(s) /\ s[y] \in Commands
    OBVIOUS
  <2> QED BY <2>1, MintedIsNat
<1>3. f[x] = Minted(s[x]) /\ f[x] \in Nat
  <2>1. x \in 1..Len(s) /\ s[x] \in Commands
    OBVIOUS
  <2> QED BY <2>1, MintedIsNat
<1>4. (\A y \in A : f[y] \in Int) /\ f[x] \in Int
  BY <1>2, <1>3
<1>5. MintedOf(s, n) = SumFunctionOnSet(f, A) /\ MintedOf(s, n + 1) = SumFunctionOnSet(f, A \cup {x})
  <2>1. MintedOf(s, n + 1) = SumFunctionOnSet(f, 1..n + 1)
    BY DEF MintedOf
  <2>2. MintedOf(s, n) = SumFunctionOnSet(f, A)
    BY DEF MintedOf
  <2> QED BY <1>1, <2>1, <2>2
<1> HIDE DEF f, A, x
<1>6. SumFunctionOnSet(f, A \cup {x}) = SumFunctionOnSet(f, A) + f[x]
  BY <1>1, <1>4, SumAdd
<1>7. SumFunctionOnSet(f, A) \in Nat
  BY <1>1, <1>2, SumNat
<1> QED BY <1>3, <1>5, <1>6, <1>7 DEF x

LEMMA MintedOfMore ==
  ASSUME NEW s \in Seq(Commands), NEW c \in Commands, NEW n \in 0..Len(s)
  PROVE  MintedOf(Append(s, c), n) = MintedOf(s, n)
<1> DEFINE t == Append(s, c)
           f == [i \in DOMAIN s |-> Minted(s[i])]
           g == [i \in DOMAIN t |-> Minted(t[i])]
           A == 1..n
<1>1. IsFiniteSet(A)
  BY FS_Interval
<1>2. \A i \in A : f[i] = g[i]
  OBVIOUS
<1>3. MintedOf(s, n) = SumFunctionOnSet(f, A) /\ MintedOf(t, n) = SumFunctionOnSet(g, A)
  BY DEF MintedOf
<1> HIDE DEF t, f, g, A
<1>4. SumFunctionOnSet(f, A) = SumFunctionOnSet(g, A)
  BY <1>1, <1>2, SumSame
<1> QED BY <1>3, <1>4 DEF t

LEMMA MintedOfAll ==
  ASSUME NEW s \in Seq(Commands), NEW n \in 0..Len(s)
  PROVE  /\ MintedOf(s, n) \in Nat
         /\ MintedOf(s, n) <= SumFunction([i \in DOMAIN s |-> Minted(s[i])])
         /\ SumFunction([i \in DOMAIN s |-> Minted(s[i])]) \in Nat
<1> DEFINE f == [i \in DOMAIN s |-> Minted(s[i])]
           A == 1..n
           B == 1..Len(s)
<1>1. IsFiniteSet(A) /\ IsFiniteSet(B) /\ A \in SUBSET B
  BY FS_Interval
<1>2. \A y \in B : f[y] \in Nat
  <2> SUFFICES ASSUME NEW y \in 1..Len(s) PROVE f[y] \in Nat
    OBVIOUS
  <2>1. s[y] \in Commands
    OBVIOUS
  <2> QED BY <2>1, MintedIsNat
<1>3. DOMAIN f = B
  OBVIOUS
<1>4. MintedOf(s, n) = SumFunctionOnSet(f, A) /\ SumFunction(f) = SumFunctionOnSet(f, B)
  BY <1>3 DEF MintedOf, SumFunction
<1> HIDE DEF f, A, B
<1>5. SumFunctionOnSet(f, A) \in Nat /\ SumFunctionOnSet(f, B) \in Nat
  <2>1. \A y \in A : f[y] \in Nat
    BY <1>1, <1>2
  <2> QED BY <1>1, <1>2, <2>1, SumNat
<1>6. SumFunctionOnSet(f, A) <= SumFunctionOnSet(f, B)
  BY <1>1, <1>2, SumSubset
<1> QED BY <1>4, <1>5, <1>6 DEF f

\* The commands taken before those the core thread still holds.
Handled == Len(taken) - Len(core.batch)

\* By how much the current command may raise, or has lowered, what the accounts
\* are worth at this stage of its execution.
InFlight ==
  CASE Stage \in {"credit", "undo"} -> 0 - Total(Current)
    [] Stage = "fee" -> Minted(Current) - Current.fee
    [] Stage \in {"log", "record"} -> Minted(Current)
    [] OTHER -> 0

MoneyInv ==
  /\ IsFiniteSet(DOMAIN ledger)
  /\ taken \in Seq(Commands)
  /\ Len(core.batch) <= Len(taken)
  /\ \A i \in 1..Len(core.batch) : core.batch[i] = taken[Handled + i]
  /\ Stage \in {"credit", "undo", "fee"} => Current.type = "EXECUTE_PAYMENT"
  /\ Worth(ledger) <= Worth(Registered) + MintedOf(taken, Handled) + InFlight

\* A step within a command: only the stage and the ledger's worth change.
LEMMA MoneyInvWithin ==
  ASSUME MoneyInv, core'.batch = core.batch, taken' = taken, IsFiniteSet(DOMAIN ledger'),
         Stage' \in {"credit", "undo", "fee"} => Current.type = "EXECUTE_PAYMENT",
         NEW before, before = Worth(ledger), NEW after, after = Worth(ledger'),
         NEW gone, gone = InFlight, NEW left, left = InFlight',
         before \in Int, after \in Int, gone \in Int, left \in Int,
         MintedOf(taken, Handled) \in Int, Worth(Registered) \in Int,
         after - before <= left - gone
  PROVE  MoneyInv'
<1>1. Handled' = Handled /\ Current' = Current
  BY DEF Handled, Current
<1>2. MintedOf(taken, Handled)' = MintedOf(taken, Handled)
  BY <1>1
<1>3. before <= Worth(Registered) + MintedOf(taken, Handled) + gone
  BY DEF MoneyInv
<1>4. after <= Worth(Registered) + MintedOf(taken, Handled) + left
  BY <1>3
<1>5. (Worth(ledger) <= Worth(Registered) + MintedOf(taken, Handled) + InFlight)'
  BY <1>2, <1>4
<1> QED BY <1>1, <1>5 DEF MoneyInv

LEMMA RegisteredSound == Sound(Registered) /\ Worth(Registered) \in Int
BY AmountAssumption, WorthIsInt DEF Sound, LedgerOK

\* The rest of a batch follows what has been handled, also without its head.
LEMMA TailFollows ==
  ASSUME NEW s \in Seq(Commands), NEW b \in Seq(Commands), b # <<>>, Len(b) <= Len(s),
         \A i \in 1..Len(b) : b[i] = s[Len(s) - Len(b) + i]
  PROVE  /\ Len(Tail(b)) = Len(b) - 1 /\ Len(b) - 1 \in Nat
         /\ Len(s) - Len(b) \in Nat
         /\ Head(b) = s[Len(s) - Len(b) + 1]
         /\ \A i \in 1..Len(Tail(b)) : Tail(b)[i] = s[Len(s) - Len(Tail(b)) + i]
<1>1. Len(b) \in Nat \ {0} /\ Len(s) \in Nat /\ Len(Tail(b)) = Len(b) - 1
  OBVIOUS
<1>2. Head(b) = b[1] /\ 1 \in 1..Len(b)
  BY <1>1
<1>3. \A i \in 1..Len(b) - 1 : Tail(b)[i] = b[i + 1] /\ i + 1 \in 1..Len(b)
  BY <1>1
<1>4. \A i \in 1..Len(b) - 1 : Len(s) - Len(b) + (i + 1) = Len(s) - (Len(b) - 1) + i
  BY <1>1
<1>5. \A i \in 1..Len(Tail(b)) : Tail(b)[i] = s[Len(s) - Len(Tail(b)) + i]
  <2> SUFFICES ASSUME NEW i \in 1..Len(b) - 1 PROVE Tail(b)[i] = s[Len(s) - (Len(b) - 1) + i]
    BY <1>1
  <2>1. Tail(b)[i] = s[Len(s) - Len(b) + (i + 1)]
    BY <1>3
  <2> QED BY <1>4, <2>1
<1> QED BY <1>1, <1>2, <1>5

\* The command is done: what it may have made counts among the handled ones.
LEMMA MoneyInvDone ==
  ASSUME MoneyInv, CoreOK(core), LedgerOK(ledger), core.batch # <<>>, core'.batch = Tail(core.batch),
         UNCHANGED <<taken, ledger>>, Stage \in {"next", "record"}, Stage' = "next"
  PROVE  MoneyInv'
<1> DEFINE h == Handled
<1>1. core.batch \in Seq(Commands) /\ taken \in Seq(Commands) /\ Len(core.batch) <= Len(taken)
  BY DEF CoreOK, MoneyInv
<1>2. \A i \in 1..Len(core.batch) : core.batch[i] = taken[Len(taken) - Len(core.batch) + i]
  BY DEF MoneyInv, Handled
<1>3. /\ Len(core'.batch) = Len(core.batch) - 1 /\ Len(core.batch) - 1 \in Nat
      /\ h \in Nat /\ Current = taken[h + 1]
      /\ \A i \in 1..Len(core'.batch) : core'.batch[i] = taken[Len(taken) - Len(core'.batch) + i]
  <2>1. PICK b \in Seq(Commands) : b = core.batch
    BY <1>1
  <2>2. PICK s \in Seq(Commands) : s = taken
    BY <1>1
  <2>3. b # <<>> /\ Len(b) <= Len(s) /\ \A i \in 1..Len(b) : b[i] = s[Len(s) - Len(b) + i]
    BY <1>1, <1>2, <2>1, <2>2
  <2>4. /\ Len(Tail(b)) = Len(b) - 1 /\ Len(b) - 1 \in Nat
        /\ Len(s) - Len(b) \in Nat
        /\ Head(b) = s[Len(s) - Len(b) + 1]
        /\ \A i \in 1..Len(Tail(b)) : Tail(b)[i] = s[Len(s) - Len(Tail(b)) + i]
    BY <2>3, TailFollows
  <2>5. core'.batch = Tail(b) /\ h = Len(s) - Len(b) /\ Current = Head(b)
    BY <2>1, <2>2 DEF Handled, Current
  <2> HIDE DEF h
  <2> QED BY <2>1, <2>2, <2>4, <2>5
<1>4. Handled' = h + 1 /\ h < Len(taken) /\ Len(core'.batch) <= Len(taken)
  <2>1. Len(taken) \in Nat /\ Len(core.batch) \in Nat
    BY <1>1
  <2>2. Handled' = Len(taken) - Len(core'.batch) /\ h = Len(taken) - Len(core.batch)
    BY DEF Handled
  <2> HIDE DEF h
  <2> QED BY <1>3, <2>1, <2>2
<1>5. MintedOf(taken, h + 1) = MintedOf(taken, h) + Minted(Current) /\ MintedOf(taken, h) \in Nat
  <2> HIDE DEF h
  <2> QED BY <1>1, <1>3, <1>4, MintedOfNext
<1>6. Minted(Current) \in Nat /\ InFlight \in {0, Minted(Current)}
  <2>1. Current \in Commands
    BY CurrentIsCommand
  <2> QED BY <2>1, MintedIsNat DEF InFlight
<1>7. Worth(ledger) \in Int /\ Worth(Registered) \in Int
  BY WorthIsInt, RegisteredSound DEF MoneyInv, Sound
<1>8. Worth(ledger) <= Worth(Registered) + MintedOf(taken, h) + InFlight
  BY DEF MoneyInv
<1> HIDE DEF h
<1>9. Worth(ledger) <= Worth(Registered) + MintedOf(taken, h + 1) + 0
  BY <1>5, <1>6, <1>7, <1>8
<1>10. InFlight' = 0
  BY DEF InFlight
<1>11. (Worth(ledger) <= Worth(Registered) + MintedOf(taken, Handled) + InFlight)'
  BY <1>4, <1>9, <1>10
<1>12. (\A i \in 1..Len(core.batch) : core.batch[i] = taken[Handled + i])'
  BY <1>3 DEF Handled
<1> QED BY <1>4, <1>11, <1>12 DEF MoneyInv

LEMMA MintedOfNone == MintedOf(<<>>, 0) \in Nat
<1>1. 1..0 = {}
  OBVIOUS
<1> QED BY <1>1, SumEmpty DEF MintedOf

\* Commands that are all regular after a step were so before it.
LEMMA RegularBefore ==
  ASSUME CoreInv, MoneyInv \/ taken \in Seq(Commands), CoreStep \/ OtherStep, OnlyRegular'
  PROVE  OnlyRegular
<1>1. taken \in Seq(Commands) /\ CoreOK(core)
  BY DEF CoreInv, MoneyInv
<1>2. CASE AddToBatch
  <2>1. hand \in Commands /\ taken' = Append(taken, hand)
    BY <1>2 DEF AddToBatch, ReleaseSlot, CoreInv
  <2>2. \A i \in DOMAIN taken : i \in DOMAIN taken' /\ taken'[i] = taken[i]
    BY <1>1, <2>1
  <2> QED BY <2>2 DEF OnlyRegular
<1>3. ASSUME taken' = taken PROVE OnlyRegular
  BY <1>3 DEF OnlyRegular
<1>4. CASE OtherStep \/ QuietStep
  BY <1>3, <1>4 DEF OtherStep, QuietStep
<1>5. CASE CommandStep /\ ~ AddToBatch
  <2>1. UNCHANGED queueVars
    BY <1>5, Zenon DEF CommandStep, StartCommand, CreditReceiver, UndoDebit, CreditFee, LogCommand,
       RecordResult
  <2> QED BY <1>3, <2>1 DEF queueVars
<1> QED BY <1>1, <1>2, <1>4, <1>5, CoreStepKinds

LEMMA MoneyInvRestart == Restart => MoneyInv'
<1>1. SUFFICES ASSUME Restart PROVE MoneyInv'
  OBVIOUS
<1>2. /\ core' = CoreIdle /\ ledger' = Registered /\ taken' = <<>>
  BY <1>1 DEF Restart, QueueReset
<1>3. Stage' = "take" /\ core'.batch = <<>>
  BY <1>2 DEF CoreIdle, CoreAt, Stage
<1>4. <<>> \in Seq(Commands) /\ Len(<<>>) = 0
  OBVIOUS
<1>5. Handled' = 0 /\ InFlight' = 0
  BY <1>2, <1>3, <1>4 DEF Handled, InFlight
<1>6. MintedOf(<<>>, 0) \in Nat
  BY MintedOfNone
<1>7. (Worth(ledger) <= Worth(Registered) + MintedOf(taken, Handled) + InFlight)'
  BY <1>2, <1>5, <1>6, RegisteredSound
<1>8. IsFiniteSet(DOMAIN ledger')
  BY <1>2, RegisteredSound DEF Sound
<1> QED BY <1>2, <1>3, <1>4, <1>7, <1>8 DEF MoneyInv

LEMMA MoneyInvStep ==
  CoreInv /\ RegularInv /\ OnlyRegular /\ MoneyInv /\ (CoreStep \/ OtherStep) => MoneyInv'
<1>1. SUFFICES ASSUME CoreInv, RegularInv, OnlyRegular, MoneyInv, CoreStep \/ OtherStep
               PROVE  MoneyInv'
  OBVIOUS
<1>2. CoreOK(core) /\ Sound(ledger) /\ LedgerOK(ledger) /\ core.batch \in Seq(Commands)
      /\ taken \in Seq(Commands) /\ Len(core.batch) <= Len(taken)
  BY <1>1 DEF CoreInv, CoreOK, RegularInv, MoneyInv, Sound
<1>3. /\ Worth(ledger) \in Int /\ Worth(Registered) \in Int
      /\ Handled \in 0..Len(taken) /\ MintedOf(taken, Handled) \in Int
  <2>0. PICK a \in Nat, b \in Nat : a = Len(taken) /\ b = Len(core.batch) /\ b <= a
    BY <1>2
  <2>1. PICK n \in 0..Len(taken) : n = Handled
    <3>1. a - b \in 0..a
      BY <2>0
    <3>2. Handled = a - b
      BY <2>0 DEF Handled
    <3>3. Handled \in 0..a
      BY <3>1, <3>2
    <3> QED BY <2>0, <3>3
  <2>2. MintedOf(taken, n) \in Nat
    BY <1>2, MintedOfAll
  <2>3. MintedOf(taken, Handled) \in Int
    BY <2>1, <2>2
  <2> QED BY <1>2, <2>1, <2>3, WorthIsInt, RegisteredSound
<1>4. CASE OtherStep
  <2>1. UNCHANGED <<core, ledger, taken>>
    BY <1>4 DEF OtherStep
  <2> QED BY <1>1, <2>1 DEF MoneyInv, Handled, InFlight, Stage, Current
<1>6. CASE QuietStep
  <2>1. core'.batch = core.batch /\ taken' = taken /\ ledger' = ledger
    BY <1>6 DEF QuietStep
  <2>2. InFlight' = InFlight
    <3>1. Current' = Current
      BY <2>1 DEF Current
    <3>2. CASE Stage' = Stage
      BY <3>1, <3>2 DEF InFlight
    <3>3. CASE Stage \in Resting /\ Stage' \in Resting
      BY <3>3 DEF InFlight, Resting
    <3> QED BY <1>6, <3>2, <3>3 DEF QuietStep
  <2>3. Stage' \in {"credit", "undo", "fee"} => Current'.type = "EXECUTE_PAYMENT"
    BY <1>1, <1>6, <2>1 DEF QuietStep, MoneyInv, Resting, Current
  <2>4. Handled' = Handled
    BY <2>1 DEF Handled
  <2> QED BY <1>1, <2>1, <2>2, <2>3, <2>4 DEF MoneyInv
<1>7. CASE AddToBatch
  <2>1. /\ taken' = Append(taken, hand) /\ hand \in Commands /\ ledger' = ledger
        /\ core' = CoreAt("take", Append(core.batch, hand), "none") /\ core.pc = "take"
    BY <1>1, <1>7 DEF AddToBatch, ReleaseSlot, CoreGoes, CoreInv
  <2>2. /\ Len(taken') = Len(taken) + 1 /\ taken' \in Seq(Commands)
        /\ taken'[Len(taken) + 1] = hand /\ \A i \in 1..Len(taken) : taken'[i] = taken[i]
    BY <1>2, <2>1
  <2>3. /\ Len(core'.batch) = Len(core.batch) + 1 /\ core'.batch[Len(core.batch) + 1] = hand
        /\ \A i \in 1..Len(core.batch) : core'.batch[i] = core.batch[i]
    BY <1>2, <2>1 DEF CoreAt
  <2>4. Len(core.batch) \in Nat /\ Len(taken) \in Nat
    BY <1>2
  <2>5. Handled' = Handled
    BY <2>2, <2>3, <2>4 DEF Handled
  <2>6. \A i \in 1..Len(core'.batch) : core'.batch[i] = taken'[Handled + i]
    <3> SUFFICES ASSUME NEW i \in 1..Len(core.batch) + 1 PROVE core'.batch[i] = taken'[Handled + i]
      BY <2>3
    <3>1. CASE i = Len(core.batch) + 1
      <4>1. Handled + i = Len(taken) + 1
        <5>1. PICK n \in Nat, m \in Nat : n = Len(taken) /\ m = Len(core.batch)
          BY <2>4
        <5>2. Handled = n - m /\ i = m + 1
          BY <3>1, <5>1 DEF Handled
        <5>3. Handled + i = n + 1
          BY <5>2
        <5> QED BY <5>1, <5>3
      <4> QED BY <2>2, <2>3, <3>1, <4>1
    <3>2. CASE i # Len(core.batch) + 1
      <4>1. i \in 1..Len(core.batch) /\ Handled + i \in 1..Len(taken)
        BY <1>2, <2>4, <3>2 DEF Handled
      <4> QED BY <1>1, <2>2, <2>3, <4>1 DEF MoneyInv
    <3> QED BY <3>1, <3>2
  <2>7. MintedOf(taken', Handled) = MintedOf(taken, Handled)
    BY <1>2, <1>3, <2>1, MintedOfMore
  <2>8. Stage = "take" /\ Stage' = "take" /\ InFlight = 0 /\ InFlight' = 0
    BY <2>1 DEF Stage, CoreAt, InFlight
  <2>9. (Worth(ledger) <= Worth(Registered) + MintedOf(taken, Handled) + InFlight)'
    BY <1>1, <2>1, <2>5, <2>7, <2>8 DEF MoneyInv
  <2>10. (\A i \in 1..Len(core.batch) : core.batch[i] = taken[Handled + i])'
    BY <2>5, <2>6
  <2>11. Len(core'.batch) <= Len(taken') /\ IsFiniteSet(DOMAIN ledger')
    BY <1>2, <2>1, <2>2, <2>3, <2>4 DEF Sound
  <2> QED BY <2>2, <2>8, <2>9, <2>10, <2>11 DEF MoneyInv
<1>8. ASSUME core.batch # <<>>
      PROVE  /\ Current \in Commands /\ Total(Current) \in 0..MaxInt
             /\ Current.fee \in 0..MaxInt /\ Current.target \in 0..MaxInt /\ Current.source \in Nat
             /\ Total(Current) = Current.source + Current.fee
             /\ Total(Current) \in Nat /\ Current.fee \in Nat /\ Current.target \in Nat
             /\ Minted(Current) \in Nat
             /\ Current.type = "EXECUTE_PAYMENT" => Minted(Current) >= Current.target - Current.source
             /\ Current.type = "REFUND_PAYMENT" => Minted(Current) = Total(Current)
  <2>1. Current \in Commands /\ Regular(Current)
    <3>1. Current = core.batch[1] /\ 1 \in DOMAIN core.batch
      BY <1>2, <1>8 DEF Current
    <3> QED BY <1>1, <1>2, <1>8, <3>1, CurrentIsCommand DEF RegularInv
  <2>2. /\ Total(Current) \in 0..MaxInt /\ Current.fee \in 0..MaxInt /\ Current.target \in 0..MaxInt
        /\ Current.source \in 0..MaxInt /\ Total(Current) = Current.source + Current.fee
    BY <2>1, Amounts
  <2>3. /\ Minted(Current) \in Nat
        /\ Current.type = "EXECUTE_PAYMENT" => Minted(Current) >= Current.target - Current.source
        /\ Current.type = "REFUND_PAYMENT" /\ Total(Current) >= 0 => Minted(Current) = Total(Current)
    BY <2>1, MintedIsNat
  <2> QED BY <2>1, <2>2, <2>3, WidthAssumption
<1>9. CASE StartCommand
  <2>1. core.batch # <<>> /\ Stage = "next" /\ taken' = taken /\ InFlight = 0
    BY <1>9 DEF StartCommand, queueVars, Stage, InFlight
  <2>2. CASE SkipDuplicate
    <3>1. core'.batch = Tail(core.batch) /\ ledger' = ledger /\ Stage' = "next"
      BY <2>2 DEF SkipDuplicate, Posts, CoreAt, Stage
    <3> QED BY <1>1, <1>2, <2>1, <3>1, MoneyInvDone
  <2>3. ASSUME core'.batch = core.batch, Stage' \in {"log", "record"}, IsFiniteSet(DOMAIN ledger'),
               Worth(ledger') \in {Worth(ledger), Worth(ledger) + Minted(Current)}
        PROVE  MoneyInv'
    <3>1. InFlight' = Minted(Current) /\ Minted(Current) \in Nat
      BY <1>8, <2>1, <2>3 DEF InFlight, Current
    <3> QED BY <1>1, <1>3, <2>1, <2>3, <3>1, MoneyInvWithin
  <2>4. ASSUME CoreGoes("log", core.batch) PROVE core'.batch = core.batch /\ Stage' = "log"
    BY <2>4 DEF CoreGoes, CoreAt, Stage
  <2>5. CASE Rejects
    <3>1. core'.batch = core.batch /\ Stage' = "record" /\ ledger' = ledger
      BY <2>5 DEF Rejects, Posts, CoreAt, Stage
    <3> QED BY <1>2, <2>3, <3>1 DEF Sound
  <2>6. CASE HandleFreeze
    <3>1. ASSUME CanFreeze(ledger, Current.from, Total(Current))
          PROVE  /\ IsFiniteSet(DOMAIN Freeze(ledger, Current.from, Total(Current)))
                 /\ Worth(Freeze(ledger, Current.from, Total(Current))) = Worth(ledger)
      BY <1>2, <1>8, <2>1, <3>1, WorthFreeze
    <3> QED BY <2>3, <2>4, <2>5, <2>6, <3>1 DEF HandleFreeze
  <2>7. CASE HandleRelease
    <3>1. ASSUME CanUnfreeze(ledger, Current.from, Total(Current))
          PROVE  /\ IsFiniteSet(DOMAIN Unfreeze(ledger, Current.from, Total(Current)))
                 /\ Worth(Unfreeze(ledger, Current.from, Total(Current))) = Worth(ledger)
      BY <1>2, <1>8, <2>1, <3>1, WorthUnfreeze
    <3> QED BY <2>3, <2>4, <2>5, <2>7, <3>1 DEF HandleRelease
  <2>8. CASE HandleRefund
    <3>1. ASSUME CanCredit(ledger, Current.from, Total(Current))
          PROVE  /\ IsFiniteSet(DOMAIN Credit(ledger, Current.from, Total(Current)))
                 /\ Worth(Credit(ledger, Current.from, Total(Current))) = Worth(ledger) + Total(Current)
      BY <1>2, <1>8, <2>1, <3>1, WorthCredit
    <3>2. Minted(Current) = Total(Current)
      BY <1>8, <2>1, <2>8 DEF HandleRefund
    <3> QED BY <2>3, <2>4, <2>5, <2>8, <3>1, <3>2 DEF HandleRefund
  <2>9. CASE HandleSettlementBatch
    <3>1. CoreGoes("log", core.batch) /\ ledger' = ledger
      BY <2>9 DEF HandleSettlementBatch
    <3> QED BY <1>2, <2>3, <2>4, <3>1 DEF Sound
  <2>10. CASE DebitSender
    <3>1. CASE ~ CanDebit(ledger, Current.from, Total(Current))
      BY <2>5, <2>10, <3>1 DEF DebitSender
    <3>2. CASE CanDebit(ledger, Current.from, Total(Current))
      <4>1. /\ ledger' = Debit(ledger, Current.from, Total(Current)) /\ CoreGoes("credit", core.batch)
            /\ Current.type = "EXECUTE_PAYMENT"
        BY <2>10, <3>2 DEF DebitSender
      <4>2. core'.batch = core.batch /\ Stage' = "credit"
        BY <4>1 DEF CoreGoes, CoreAt, Stage
      <4>3. IsFiniteSet(DOMAIN ledger') /\ Worth(ledger') = Worth(ledger) - Total(Current)
        BY <1>2, <1>8, <2>1, <3>2, <4>1, WorthDebit
      <4>4. InFlight' = 0 - Total(Current) /\ Total(Current) \in Nat
        BY <1>8, <2>1, <4>2 DEF InFlight, Current
      <4> QED BY <1>1, <1>3, <2>1, <4>1, <4>2, <4>3, <4>4, MoneyInvWithin
    <3> QED BY <3>1, <3>2
  <2> QED BY <1>9, <2>2, <2>6, <2>7, <2>8, <2>9, <2>10 DEF StartCommand
<1>10. CASE CreditReceiver
  <2>1. core.pc = "credit" /\ Stage = "credit" /\ taken' = taken
    BY <1>10 DEF CreditReceiver, queueVars, Stage
  <2>2. core.batch # <<>> /\ Current.type = "EXECUTE_PAYMENT" /\ InFlight = 0 - Total(Current)
    BY <1>1, <1>2, <2>1 DEF CoreOK, MoneyInv, InFlight
  <2>3. CASE CanCredit(ledger, Current.to, Current.target)
    <3>1. ledger' = Credit(ledger, Current.to, Current.target) /\ CoreGoes("fee", core.batch)
      BY <1>10, <2>3 DEF CreditReceiver
    <3>2. core'.batch = core.batch /\ Stage' = "fee"
      BY <3>1 DEF CoreGoes, CoreAt, Stage
    <3>3. IsFiniteSet(DOMAIN ledger') /\ Worth(ledger') = Worth(ledger) + Current.target
      BY <1>2, <1>8, <2>2, <2>3, <3>1, WorthCredit
    <3>4. InFlight' = Minted(Current) - Current.fee
      BY <3>2 DEF InFlight, Current
    <3>5. /\ Minted(Current) \in Nat /\ Current.fee \in Nat /\ Current.target \in Nat /\ Current.source \in Nat
          /\ Total(Current) = Current.source + Current.fee /\ Minted(Current) >= Current.target - Current.source
      BY <1>8, <2>2
    <3>6. PICK target \in Nat, source \in Nat, fee \in Nat, minted \in Nat :
            /\ target = Current.target /\ source = Current.source /\ fee = Current.fee
            /\ minted = Minted(Current)
      BY <3>5
    <3>7. /\ Worth(ledger') = Worth(ledger) + target /\ minted >= target - source
          /\ InFlight = 0 - (source + fee) /\ InFlight' = minted - fee
      BY <2>2, <3>3, <3>4, <3>5, <3>6
    <3>8. Worth(ledger') - Worth(ledger) <= InFlight' - InFlight
      BY <1>3, <3>7
    <3>9. Worth(ledger') \in Int /\ InFlight \in Int /\ InFlight' \in Int
      BY <1>3, <3>7
    <3> QED BY <1>1, <1>3, <2>1, <2>2, <3>2, <3>3, <3>8, <3>9, MoneyInvWithin
  <2>4. CASE ~ CanCredit(ledger, Current.to, Current.target)
    <3>1. core'.batch = core.batch /\ Stage' = "undo" /\ ledger' = ledger
      BY <1>10, <2>4 DEF CreditReceiver, Posts, CoreAt, Stage
    <3>2. InFlight' = 0 - Total(Current) /\ Total(Current) \in Nat
      BY <1>8, <2>2, <3>1 DEF InFlight, Current
    <3> QED BY <1>1, <1>2, <1>3, <2>1, <2>2, <3>1, <3>2, MoneyInvWithin DEF Sound
  <2> QED BY <2>3, <2>4
<1>11. CASE UndoDebit
  <2>1. core.pc = "undo" /\ Stage = "undo" /\ taken' = taken
    BY <1>11 DEF UndoDebit, queueVars, Stage
  <2>2. core.batch # <<>> /\ InFlight = 0 - Total(Current)
    BY <1>2, <2>1 DEF CoreOK, InFlight
  <2>3. core'.batch = core.batch /\ Stage' = "record"
        /\ ledger' = CreditIfPossible(ledger, Current.from, Total(Current))
    BY <1>11 DEF UndoDebit, CoreGoes, CoreAt, Stage
  <2>4. Total(Current) \in Nat /\ Minted(Current) \in Nat
    BY <1>8, <2>2
  <2>5. IsFiniteSet(DOMAIN ledger') /\ Worth(ledger') \in {Worth(ledger), Worth(ledger) + Total(Current)}
    <3>1. CASE CanCredit(ledger, Current.from, Total(Current))
      BY <1>2, <1>8, <2>2, <2>3, <3>1, WorthCredit DEF CreditIfPossible
    <3>2. CASE ~ CanCredit(ledger, Current.from, Total(Current))
      BY <1>2, <2>3, <3>2 DEF CreditIfPossible, Sound
    <3> QED BY <3>1, <3>2
  <2>6. InFlight' = Minted(Current)
    BY <2>3 DEF InFlight, Current
  <2>7. Worth(ledger') - Worth(ledger) <= InFlight' - InFlight
    BY <1>3, <2>2, <2>4, <2>5, <2>6
  <2>8. Worth(ledger') \in Int /\ InFlight \in Int /\ InFlight' \in Int
    BY <1>3, <2>2, <2>4, <2>5, <2>6
  <2> QED BY <1>1, <1>3, <2>1, <2>3, <2>5, <2>7, <2>8, MoneyInvWithin
<1>12. CASE CreditFee
  <2>1. core.pc = "fee" /\ Stage = "fee" /\ taken' = taken
    BY <1>12 DEF CreditFee, queueVars, Stage
  <2>2. core.batch # <<>> /\ InFlight = Minted(Current) - Current.fee
    BY <1>2, <2>1 DEF CoreOK, InFlight
  <2>3. core'.batch = core.batch /\ Stage' = "log"
        /\ ledger' = CreditIfPossible(ledger, FeeAccount(Current), Current.fee)
    BY <1>12 DEF CreditFee, CreditIfPossible, Posts, CoreGoes, CoreAt, Stage
  <2>4. Current.fee \in Nat /\ Minted(Current) \in Nat
    BY <1>8, <2>2
  <2>5. IsFiniteSet(DOMAIN ledger') /\ Worth(ledger') \in {Worth(ledger), Worth(ledger) + Current.fee}
    <3>1. CASE CanCredit(ledger, FeeAccount(Current), Current.fee)
      BY <1>2, <1>8, <2>2, <2>3, <3>1, WorthCredit DEF CreditIfPossible
    <3>2. CASE ~ CanCredit(ledger, FeeAccount(Current), Current.fee)
      BY <1>2, <2>3, <3>2 DEF CreditIfPossible, Sound
    <3> QED BY <3>1, <3>2
  <2>6. InFlight' = Minted(Current)
    BY <2>3 DEF InFlight, Current
  <2>7. Worth(ledger') - Worth(ledger) <= InFlight' - InFlight
    BY <1>3, <2>2, <2>4, <2>5, <2>6
  <2>8. Worth(ledger') \in Int /\ InFlight \in Int /\ InFlight' \in Int
    BY <1>3, <2>2, <2>4, <2>5, <2>6
  <2> QED BY <1>1, <1>3, <2>1, <2>3, <2>5, <2>7, <2>8, MoneyInvWithin
<1>13. CASE LogCommand
  <2>1. Stage = "log" /\ Stage' = "record" /\ core'.batch = core.batch /\ UNCHANGED <<ledger, taken>>
    BY <1>13 DEF LogCommand, Posts, CoreAt, Stage, queueVars
  <2>2. InFlight' = InFlight /\ Handled' = Handled
    BY <2>1 DEF InFlight, Current, Handled
  <2> QED BY <1>1, <2>1, <2>2 DEF MoneyInv
<1>14. CASE RecordResult
  <2>1. core.pc = "record" /\ Stage = "record" /\ Stage' = "next" /\ core'.batch = Tail(core.batch)
        /\ UNCHANGED <<ledger, taken>>
    BY <1>14 DEF RecordResult, CoreGoes, CoreAt, Stage, queueVars
  <2>2. core.batch # <<>>
    BY <1>2, <2>1 DEF CoreOK
  <2> QED BY <1>1, <1>2, <2>1, <2>2, MoneyInvDone
<1> QED BY <1>1, <1>2, <1>4, <1>6, <1>7, <1>9, <1>10, <1>11, <1>12, <1>13, <1>14,
           CoreStepKinds DEF CommandStep

LEMMA MoneyInvNext ==
  ASSUME TypeInv, OnlyRegular => MoneyInv, [Next]_vars, OnlyRegular'
  PROVE  MoneyInv'
<1>1. CASE Restart
  BY <1>1, MoneyInvRestart
<1>2. CASE CoreStep \/ OtherStep
  <2>1. OnlyRegular
    BY <1>2, RegularBefore DEF TypeInv, IndexTypes
  <2> QED BY <1>2, <2>1, MoneyInvStep DEF TypeInv
<1> QED BY <1>1, <1>2, StepKinds

\* While only regular amounts are executed (none negative, no sum of amount and
\* fee beyond the machine's integers), in whatever order and however often, and
\* whichever credit fails half way: the accounts are never worth more than was
\* registered, refunded, or promised to receivers beyond what their senders gave.
THEOREM EngineMakesNoMoney == Spec => []NoMoneyCreated
<1> DEFINE Inv == TypeInv /\ (OnlyRegular => MoneyInv)
<1>1. Init => Inv
  <2>1. SUFFICES ASSUME Init PROVE MoneyInv
    BY TypeInvInit
  <2>2. taken = <<>> /\ core.batch = <<>> /\ Stage = "take" /\ ledger = Registered
    BY <2>1 DEF Init, QueueInit, CoreIdle, CoreAt, Stage
  <2>3. <<>> \in Seq(Commands) /\ Len(<<>>) = 0
    OBVIOUS
  <2>4. Handled = 0 /\ InFlight = 0
    BY <2>2, <2>3 DEF Handled, InFlight
  <2>5. MintedOf(<<>>, 0) \in Nat
    BY MintedOfNone
  <2>6. Worth(ledger) <= Worth(Registered) + MintedOf(taken, Handled) + InFlight
    BY <2>2, <2>4, <2>5, RegisteredSound
  <2> QED BY <2>2, <2>3, <2>6, RegisteredSound DEF MoneyInv, Sound
<1>2. Inv /\ [Next]_vars => Inv'
  BY TypeInvNext, MoneyInvNext
<1>3. Inv => NoMoneyCreated
  <2> SUFFICES ASSUME CoreInv, RegularInv, OnlyRegular, MoneyInv PROVE NoMoneyCreated
    BY DEF TypeInv, NoMoneyCreated
  <2> DEFINE all == SumFunction([i \in DOMAIN taken |-> Minted(taken[i])])
             h == Handled
  <2>1. /\ CoreOK(core) /\ Sound(ledger) /\ taken \in Seq(Commands) /\ core.batch \in Seq(Commands)
        /\ Len(core.batch) <= Len(taken)
    BY DEF CoreInv, CoreOK, RegularInv, MoneyInv, Sound
  <2>2. h \in 0..Len(taken) /\ h \in Nat
    BY <2>1 DEF Handled
  <2>3. Worth(ledger) \in Int /\ Worth(Registered) \in Int
    BY <2>1, WorthIsInt, RegisteredSound
  <2>4. /\ MintedOf(taken, h) \in Nat /\ MintedOf(taken, h) <= all /\ all \in Nat
    <3> HIDE DEF h
    <3> QED BY <2>1, <2>2, MintedOfAll
  <2>5. Worth(ledger) <= Worth(Registered) + MintedOf(taken, h) + InFlight
    BY DEF MoneyInv
  <2>6. CASE InFlight <= 0 /\ InFlight \in Int
    <3> HIDE DEF all, h
    <3>1. Worth(ledger) <= Worth(Registered) + all
      BY <2>3, <2>4, <2>5, <2>6
    <3> QED BY <3>1 DEF NoMoneyCreated, all
  <2>7. CASE ~ (InFlight <= 0 /\ InFlight \in Int)
    <3>1. Stage \in {"credit", "undo", "fee", "log", "record"}
      BY <2>7 DEF InFlight
    <3>2. core.batch # <<>>
      BY <2>1, <3>1 DEF CoreOK, Stage
    <3>3. Current \in Commands /\ Regular(Current)
      <4>1. Current = core.batch[1] /\ 1 \in DOMAIN core.batch
        BY <2>1, <3>2 DEF Current
      <4> QED BY <2>1, <3>2, <4>1, CurrentIsCommand DEF RegularInv
    <3>4. /\ Total(Current) \in Nat /\ Current.fee \in Nat /\ Minted(Current) \in Nat
      BY <3>3, Amounts, MintedIsNat, WidthAssumption
    <3>5. InFlight <= Minted(Current) /\ InFlight \in Int
      BY <3>1, <3>4 DEF InFlight
    <3>6. Len(core.batch) \in Nat \ {0} /\ h < Len(taken) /\ h + 1 \in 0..Len(taken)
      BY <2>1, <3>2 DEF Handled
    <3>7. Current = taken[h + 1]
      <4>1. Current = core.batch[1] /\ 1 \in 1..Len(core.batch)
        BY <2>1, <3>2, <3>6 DEF Current
      <4> QED BY <4>1 DEF MoneyInv
    <3>8. MintedOf(taken, h + 1) = MintedOf(taken, h) + Minted(Current)
      <4> HIDE DEF h
      <4> QED BY <2>1, <2>2, <3>6, <3>7, MintedOfNext
    <3>9. MintedOf(taken, h + 1) <= all
      <4> HIDE DEF h
      <4> QED BY <2>1, <3>6, MintedOfAll
    <3> HIDE DEF all, h
    <3>10. Worth(ledger) <= Worth(Registered) + all
      BY <2>3, <2>4, <2>5, <3>4, <3>5, <3>8, <3>9
    <3> QED BY <3>10 DEF NoMoneyCreated, all
  <2> QED BY <2>6, <2>7
<1> QED BY <1>1, <1>2, <1>3, PTL DEF Spec
===============================================================================

-------------------------------- MODULE Engine --------------------------------
(***************************************************************************)
(* The trading engine: one process in which producers submit payment       *)
(* commands to the command queue, the core thread executes them on the     *)
(* in-memory ledger, appends them to the write-ahead log and posts events, *)
(* and further threads publish the events, flush the log and write         *)
(* snapshots into it.  stop() runs on the main thread beside all of them.  *)
(* A process may also die at any point; the next one starts on the log     *)
(* the last one left.                                                      *)
(***************************************************************************)
EXTENDS CommandQueue, EventRing, EngineLedger, FiniteSetsExt, SequencesExt

CONSTANTS
  Registered,    \* the balances main registers before it starts the threads
  FeeAccount(_), \* the account id the engine hashes from a command's currency
  BatchSize,     \* commands the core takes at once (64)
  MaxDedup,      \* entries of the deduplication cache (10 million)
  WalBatch,      \* records after which the log is flushed (1000)
  EvictCount,    \* entries evicted at once (a tenth of that)
  Plans,         \* bounds of the checked instances: which threads wake up, and
                 \*   what each of a sequence of processes may accept
  MaxSequence    \* bound on the sequence numbers of a process

ASSUME EngineAssumption ==
  /\ BatchSize \in Nat \ {0}
  /\ MaxDedup \in Nat \ {0}
  /\ WalBatch \in Nat \ {0}
  /\ EvictCount \in 1..MaxDedup
  /\ Readers = {"publisher", "main"}

\* Amounts are int64_t, of either sign: nobody looks at them before the
\* handlers do.  What main registers is a constant of it.
ASSUME AmountAssumption ==
  /\ \A c \in Commands : c.source \in Int64 /\ c.fee \in Int64 /\ c.target \in Int64
  /\ IsFiniteSet(DOMAIN Registered)
  /\ \A id \in DOMAIN Registered : Registered[id] \in Balances

VARIABLES
  running,        \* running_
  main,           \* where stop() is; "up" before it is called
  core,           \* the core thread: where it is, its batch, what follows an event
  ledger,
  dedup,          \* the request ids in dedup_cache_
  evicted,        \* history: the request ids the cache has forgotten
  unlogged,       \* history: a compensation changed the ledger without a log record
  wal,            \* the log, records in memory included
  flushed,        \* how many of its records have reached the file
  buffered,       \* buffered_records_
  flusher,        \* the WAL thread
  snapper,        \* the threads that take snapshots
  sequence,       \* sequence_
  last_snapshot,  \* last_snapshot_seq
  ended,          \* the threads, the core apart, that have left their loops
  starts,         \* processes so far
  base,           \* the length of the log when this process started
  plan            \* the instance's member of Plans

coreVars == <<core, ledger, dedup, evicted, unlogged>>
walVars == <<wal, flushed, buffered>>
snapVars == <<snapper, last_snapshot>>
lifeVars == <<running, main, starts, base, plan>>
vars == <<queueVars, ringVars, coreVars, walVars, flusher, snapVars, sequence, ended, lifeVars>>

Threads == {"publisher", "flusher", "snapshotter"}

\* A thread looks at running_, then acts: with stop() called in between it
\* acts once more.
Wakes(t) == t \in plan.threads \ ended

\* A thread that has acted, or had nothing to do, looks at running_ again.
Looks(t) == ended' = IF running THEN ended ELSE ended \cup {t}

SnapshotThreads == {"snapshotter", "main"}
-----------------------------------------------------------------------------
Total(c) == Wrapped(c.source + c.fee)

CommandRecord(c) == [kind |-> "COMMAND", content |-> c]
SnapshotRecord(state) == [kind |-> "SNAPSHOT", content |-> state]

CoreAt(pc, batch, then) == [pc |-> pc, batch |-> batch, then |-> then]
CoreIdle == CoreAt("take", <<>>, "none")

NoSnapshot == [pc |-> "idle", seq |-> 0, state |-> <<>>]

Init ==
  /\ QueueInit
  /\ RingInit
  /\ running = TRUE
  /\ main = "up"
  /\ core = CoreIdle
  /\ ledger = Registered
  /\ dedup = {}
  /\ evicted = {}
  /\ unlogged = FALSE
  /\ wal = <<>>
  /\ flushed = 0
  /\ buffered = 0
  /\ flusher = "idle"
  /\ snapper = [t \in SnapshotThreads |-> NoSnapshot]
  /\ sequence = 0
  /\ last_snapshot = 0
  /\ ended = {}
  /\ starts = 1
  /\ base = 0
  /\ plan \in Plans

-----------------------------------------------------------------------------
(* The producers.                                                          *)

\* A command without a sequence number of its own takes the engine's next
\* one, even when the queue then refuses it.
Submit(p, c) ==
  /\ running
  /\ Append(accepted, c) \in plan.histories[starts]
  /\ sequence' = IF c.numbered THEN sequence ELSE sequence + 1
  /\ sequence' <= MaxSequence
  /\ WriteSlot(p, c) \/ RefuseCommand(p)
  /\ UNCHANGED <<ringVars, coreVars, walVars, flusher, snapVars, ended, lifeVars>>

FinishSubmit(p) ==
  /\ CommitWrite(p)
  /\ UNCHANGED <<ringVars, coreVars, walVars, flusher, snapVars, sequence, ended, lifeVars>>

-----------------------------------------------------------------------------
(* The core thread.                                                        *)

CoreGoes(pc, batch) == core' = CoreAt(pc, batch, "none")

\* emit_event with the batch that is left, and what the thread does next.
Posts(batch, then) == core' = CoreAt("emit", batch, then)

Current == Head(core.batch)

\* The handler changes nothing, posts an event and returns its error code.
Rejects == Posts(core.batch, "record") /\ UNCHANGED ledger

RestUnchanged ==
  UNCHANGED <<flusher, snapVars, sequence, ended, lifeVars>>

TakeCommand ==
  /\ core.pc = "take"
  /\ Len(core.batch) < BatchSize
  /\ CopyCommand
  /\ UNCHANGED <<ringVars, coreVars, walVars>>
  /\ RestUnchanged

AddToBatch ==
  /\ core.pc = "take"
  /\ ReleaseSlot
  /\ CoreGoes("take", Append(core.batch, hand))
  /\ UNCHANGED <<ringVars, ledger, dedup, evicted, unlogged, walVars>>
  /\ RestUnchanged

EndBatchUnstoppable ==
  /\ core.pc = "take"
  /\ hand = NoCommand
  /\ Len(core.batch) = BatchSize \/ IsEmpty
  /\ CoreGoes(IF core.batch # <<>> THEN "next" ELSE "take", core.batch)
  /\ UNCHANGED <<queueVars, ringVars, ledger, dedup, evicted, unlogged, walVars>>
  /\ RestUnchanged

\* dequeue_batch returns what it has; with nothing the thread looks at
\* running_ and starts over.
EndBatch ==
  /\ core.pc = "take"
  /\ hand = NoCommand
  /\ Len(core.batch) = BatchSize \/ IsEmpty
  /\ CoreGoes(IF core.batch # <<>> THEN "next" ELSE IF running THEN "take" ELSE "done",
              core.batch)
  /\ UNCHANGED <<queueVars, ringVars, ledger, dedup, evicted, unlogged, walVars>>
  /\ RestUnchanged

\* A request the cache knows is answered from it, whatever its first result;
\* a request of hash 0 passes the cache by.
Cached(c) == c.request # 0
IsDuplicateNever(c) == FALSE
IsDuplicate(c) == Cached(c) /\ c.request \in dedup

SkipDuplicate ==
  /\ IsDuplicate(Current)
  /\ Posts(Tail(core.batch), "next")
  /\ UNCHANGED ledger

\* The check for an overflow of the sum as it is written, and as a compiler
\* may read it, which owes nothing to a sum that overflows.
OverflowChecks(c) == {Total(c) < c.source, c.fee < 0}

HandleFreeze ==
  /\ Current.type = "FREEZE_FUNDS"
  /\ \E overflow \in OverflowChecks(Current) :
     IF ~ overflow /\ CanFreeze(ledger, Current.from, Total(Current))
     THEN ledger' = Freeze(ledger, Current.from, Total(Current)) /\ CoreGoes("log", core.batch)
     ELSE Rejects

HandleRelease ==
  /\ Current.type = "RELEASE_FUNDS"
  /\ IF CanUnfreeze(ledger, Current.from, Total(Current))
     THEN ledger' = Unfreeze(ledger, Current.from, Total(Current)) /\ CoreGoes("log", core.batch)
     ELSE Rejects

HandleRefund ==
  /\ Current.type = "REFUND_PAYMENT"
  /\ IF CanCredit(ledger, Current.from, Total(Current))
     THEN ledger' = Credit(ledger, Current.from, Total(Current)) /\ CoreGoes("log", core.batch)
     ELSE Rejects

HandleSettlementBatch ==
  /\ Current.type = "SETTLEMENT_BATCH"
  /\ CoreGoes("log", core.batch)
  /\ UNCHANGED ledger

\* Execution takes the ledger's lock once for each account it changes.
DebitSender ==
  /\ Current.type = "EXECUTE_PAYMENT"
  /\ IF CanDebit(ledger, Current.from, Total(Current))
     THEN ledger' = Debit(ledger, Current.from, Total(Current)) /\ CoreGoes("credit", core.batch)
     ELSE Rejects

StartCommand ==
  /\ core.pc = "next"
  /\ core.batch # <<>>
  /\ \/ SkipDuplicate
     \/ /\ ~ IsDuplicate(Current)
        /\ \/ HandleFreeze
           \/ HandleRelease
           \/ HandleRefund
           \/ HandleSettlementBatch
           \/ DebitSender
  /\ UNCHANGED <<queueVars, ringVars, dedup, evicted, unlogged, walVars>>
  /\ RestUnchanged

BatchDone ==
  /\ core.pc = "next"
  /\ core.batch = <<>>
  /\ CoreGoes(IF running THEN "take" ELSE "done", <<>>)
  /\ UNCHANGED <<queueVars, ringVars, ledger, dedup, evicted, unlogged, walVars>>
  /\ RestUnchanged

CreditReceiver ==
  /\ core.pc = "credit"
  /\ IF CanCredit(ledger, Current.to, Current.target)
     THEN /\ ledger' = Credit(ledger, Current.to, Current.target)
          /\ CoreGoes("fee", core.batch)
     ELSE /\ Posts(core.batch, "undo")
          /\ UNCHANGED ledger
  /\ UNCHANGED <<queueVars, ringVars, dedup, evicted, unlogged, walVars>>
  /\ RestUnchanged

\* The compensation makes the debited money available again; no record of it
\* is logged, and the settled balance keeps the debit.
UndoDebit ==
  /\ core.pc = "undo"
  /\ ledger' = CreditIfPossible(ledger, Current.from, Total(Current))
  /\ unlogged' = TRUE
  /\ CoreGoes("record", core.batch)
  /\ UNCHANGED <<queueVars, ringVars, dedup, evicted, walVars>>
  /\ RestUnchanged

CreditFeeUnlogged ==
  /\ core.pc = "fee"
  /\ IF CanCredit(ledger, FeeAccount(Current), Current.fee)
     THEN /\ ledger' = Credit(ledger, FeeAccount(Current), Current.fee)
          /\ CoreGoes("log", core.batch)
     ELSE /\ Posts(core.batch, "record")
          /\ UNCHANGED ledger
  /\ UNCHANGED <<queueVars, ringVars, dedup, evicted, unlogged, walVars>>
  /\ RestUnchanged

\* A fee that cannot be credited does not fail the execution.
CreditFee ==
  /\ core.pc = "fee"
  /\ IF CanCredit(ledger, FeeAccount(Current), Current.fee)
     THEN /\ ledger' = Credit(ledger, FeeAccount(Current), Current.fee)
          /\ CoreGoes("log", core.batch)
     ELSE /\ Posts(core.batch, "log")
          /\ UNCHANGED ledger
  /\ UNCHANGED <<queueVars, ringVars, dedup, evicted, unlogged, walVars>>
  /\ RestUnchanged

\* write_entry: the record is in the stream's buffer until somebody flushes it,
\* which the writer of the last record of a batch does.
Logged(record) ==
  /\ wal' = Append(wal, record)
  /\ \/ buffered + 1 < WalBatch /\ buffered' = buffered + 1 /\ UNCHANGED flushed
     \/ buffered + 1 >= WalBatch /\ buffered' = 0 /\ flushed' = Len(wal) + 1

LogCommand ==
  /\ core.pc = "log"
  /\ Logged(CommandRecord(Current))
  /\ Posts(core.batch, "record")
  /\ UNCHANGED <<queueVars, ringVars, ledger, dedup, evicted, unlogged>>
  /\ RestUnchanged

EmitEvent ==
  /\ core.pc = "emit"
  /\ \/ WriteEvent /\ core' = CoreAt("posting", core.batch, core.then)
     \/ DropEvent /\ CoreGoes(core.then, core.batch)
  /\ UNCHANGED <<queueVars, ledger, dedup, evicted, unlogged, walVars>>
  /\ RestUnchanged

PostEvent ==
  /\ core.pc = "posting"
  /\ CommitEvent
  /\ CoreGoes(core.then, core.batch)
  /\ UNCHANGED <<queueVars, ledger, dedup, evicted, unlogged, walVars>>
  /\ RestUnchanged

\* record_dedup_result: a full cache first forgets some of its entries,
\* whichever the hash table lists first.
Evictions ==
  IF Cardinality(dedup) < MaxDedup THEN {{}}
  ELSE { S \in SUBSET dedup : Cardinality(S) = EvictCount }

RecordResult ==
  /\ core.pc = "record"
  /\ \/ ~ Cached(Current) /\ UNCHANGED <<dedup, evicted>>
     \/ /\ Cached(Current)
        /\ \E S \in Evictions :
             /\ dedup' = (dedup \ S) \cup {Current.request}
             /\ evicted' = evicted \cup (S \ {Current.request})
  /\ CoreGoes("next", Tail(core.batch))
  /\ UNCHANGED <<queueVars, ringVars, ledger, unlogged, walVars>>
  /\ RestUnchanged

CoreStep ==
  \/ TakeCommand \/ AddToBatch \/ EndBatch
  \/ StartCommand \/ BatchDone
  \/ CreditReceiver \/ UndoDebit \/ CreditFee
  \/ LogCommand \/ EmitEvent \/ PostEvent \/ RecordResult

-----------------------------------------------------------------------------
(* The other threads.                                                      *)

\* A thread that finds running_ false leaves its loop.
Ends(t) ==
  /\ ~ running
  /\ t \notin ended
  /\ ended' = ended \cup {t}

\* dequeue_batch(256) and publish, again and again.
PublisherStep ==
  /\ \/ Wakes("publisher") /\ MoveEvents("publisher", PublishBatch) /\ UNCHANGED ended
     \/ PublishEvents("publisher") /\ Looks("publisher")
     \/ Ends("publisher") /\ ~ IsReading("publisher") /\ UNCHANGED ringVars
  /\ UNCHANGED <<queueVars, coreVars, walVars, flusher, snapVars, sequence, lifeVars>>

\* flush() takes no lock: a record may be appended between its two actions.
FlushFile ==
  /\ flusher = "idle"
  /\ Wakes("flusher")
  /\ buffered > 0
  /\ flushed' = Len(wal)
  /\ flusher' = "reset"
  /\ UNCHANGED <<wal, buffered, ended>>

ResetCount ==
  /\ flusher = "reset"
  /\ buffered' = 0
  /\ flusher' = "idle"
  /\ Looks("flusher")
  /\ UNCHANGED <<wal, flushed>>

FlusherStep ==
  /\ \/ FlushFile
     \/ ResetCount
     \/ Ends("flusher") /\ flusher = "idle" /\ UNCHANGED <<flusher, walVars>>
  /\ UNCHANGED <<queueVars, ringVars, coreVars, snapVars, sequence, lifeVars>>

SnapshotAt(pc, seq, state) == [pc |-> pc, seq |-> seq, state |-> state]

\* take_snapshot does nothing when no sequence number was handed out since.
BeginSnapshot(t) ==
  /\ snapper[t].pc = "idle"
  /\ sequence > last_snapshot
  /\ snapper' = [snapper EXCEPT ![t] = SnapshotAt("read", sequence, <<>>)]
  /\ UNCHANGED <<walVars, last_snapshot>>

ReadLedger(t) ==
  /\ snapper[t].pc = "read"
  /\ snapper' = [snapper EXCEPT ![t] = SnapshotAt("write", snapper[t].seq, ledger)]
  /\ UNCHANGED <<walVars, last_snapshot>>

WriteSnapshot(t) ==
  /\ snapper[t].pc = "write"
  /\ Logged(SnapshotRecord(snapper[t].state))
  /\ last_snapshot' = snapper[t].seq
  /\ snapper' = [snapper EXCEPT ![t] = NoSnapshot]

SnapshotStep ==
  /\ \/ Wakes("snapshotter") /\ BeginSnapshot("snapshotter") /\ UNCHANGED ended
     \/ ReadLedger("snapshotter") /\ UNCHANGED ended
     \/ WriteSnapshot("snapshotter") /\ Looks("snapshotter")
     \/ /\ Ends("snapshotter")
        /\ snapper["snapshotter"].pc = "idle"
        /\ UNCHANGED <<snapVars, walVars>>
  /\ UNCHANGED <<queueVars, ringVars, coreVars, flusher, sequence, lifeVars>>

-----------------------------------------------------------------------------
(* The life of a process.                                                  *)

MainGoes(pc) ==
  /\ main' = pc
  /\ UNCHANGED <<running, starts, base, plan>>

\* The signal handler calls stop() on the main thread.
Stop ==
  /\ main = "up"
  /\ running' = FALSE
  /\ main' = "snapshot"
  /\ UNCHANGED <<queueVars, ringVars, coreVars, walVars, flusher, snapVars, sequence, ended,
                 starts, base, plan>>

FinalSnapshot ==
  /\ \/ main = "snapshot" /\ BeginSnapshot("main") /\ MainGoes("writing")
     \/ /\ main = "snapshot"
        /\ sequence <= last_snapshot
        /\ MainGoes("drain")
        /\ UNCHANGED <<snapVars, walVars>>
     \/ main = "writing" /\ ReadLedger("main") /\ UNCHANGED lifeVars
     \/ main = "writing" /\ WriteSnapshot("main") /\ MainGoes("drain")
  /\ UNCHANGED <<queueVars, ringVars, coreVars, flusher, sequence, ended>>

DrainEvents ==
  /\ \/ main = "drain" /\ MoveEvents("main", RingCapacity) /\ MainGoes("publish")
     \/ main = "drain" /\ ~ HasEvents /\ MainGoes("join") /\ UNCHANGED ringVars
     \/ main = "publish" /\ PublishEvents("main") /\ MainGoes("join")
  /\ UNCHANGED <<queueVars, coreVars, walVars, flusher, snapVars, sequence, ended>>

JoinableWithoutCore == ended = Threads

\* Every thread ends at its next look at running_.
Joinable == ended = Threads /\ core.pc = "done"

\* ... join, then sync() pushes the whole log to the file.
FinishStop ==
  /\ main = "join"
  /\ Joinable
  /\ flushed' = Len(wal)
  /\ MainGoes("stopped")
  /\ UNCHANGED <<queueVars, ringVars, coreVars, wal, buffered, flusher, snapVars, sequence, ended>>

\* The process is gone: killed, with what its stream had not written out, or
\* after stop().  The next one opens the log to append to it; a stream opened
\* so yields nothing to read_all, and main starts from the registered balances.
Restart ==
  /\ starts < Len(plan.histories)
  /\ \E kept \in flushed..Len(wal) : wal' = SubSeq(wal, 1, kept) /\ flushed' = kept /\ base' = kept
  /\ QueueReset
  /\ RingReset
  /\ running' = TRUE
  /\ main' = "up"
  /\ core' = CoreIdle
  /\ ledger' = Registered
  /\ dedup' = {}
  /\ evicted' = {}
  /\ unlogged' = FALSE
  /\ buffered' = 0
  /\ flusher' = "idle"
  /\ snapper' = [t \in SnapshotThreads |-> NoSnapshot]
  /\ sequence' = 0
  /\ last_snapshot' = 0
  /\ ended' = {}
  /\ starts' = starts + 1
  /\ UNCHANGED plan

MainStep == FinalSnapshot \/ DrainEvents \/ FinishStop

Next ==
  \/ \E p \in Producers : FinishSubmit(p) \/ \E c \in Commands : Submit(p, c)
  \/ CoreStep
  \/ PublisherStep
  \/ FlusherStep
  \/ SnapshotStep
  \/ Stop
  \/ MainStep
  \/ Restart

Spec == Init /\ [][Next]_vars

\* Threads that wake up are scheduled; nobody has to submit, to stop or to die.
FairSpec ==
  /\ Spec
  /\ WF_vars(CoreStep)
  /\ WF_vars(PublisherStep)
  /\ WF_vars(FlusherStep)
  /\ WF_vars(SnapshotStep)
  /\ WF_vars(MainStep)
  /\ \A p \in Producers : WF_vars(FinishSubmit(p))

-----------------------------------------------------------------------------
(* Properties.                                                             *)

\* The commands taken have amounts one would submit on purpose.
Regular(c) ==
  /\ c.source >= 0 /\ c.fee >= 0 /\ c.target >= 0
  /\ c.source + c.fee <= MaxInt
OnlyRegular == \A i \in DOMAIN taken : Regular(taken[i])

\* The state has the types the code declares; and while only regular amounts
\* have been executed, no balance is negative (Ledger::freeze, unfreeze and
\* debit refuse what is not there, add_overflow what does not fit).
TypeOK ==
  /\ slots \in [0..Capacity - 1 -> Commands \cup {NoCommand}]
  /\ write_index \in Nat /\ read_index \in Nat
  /\ \A p \in Producers : producer[p].command \in Commands \cup {NoCommand}
  /\ hand \in Commands \cup {NoCommand}
  /\ core.batch \in Seq(Commands)
  /\ core.pc \in {"take", "next", "credit", "undo", "fee", "log", "emit", "posting",
                  "record", "done"}
  /\ \A id \in DOMAIN ledger : ledger[id] \in BalanceRows /\ (OnlyRegular => ledger[id] \in Balances)
  /\ flushed \in 0..Len(wal)
  /\ main \in {"up", "snapshot", "writing", "drain", "publish", "join", "stopped"}

\* With one producer the ring keeps the queue's promise: every command for
\* which submit returned true is taken once, in the order of submission.
ImplementsQueue == INSTANCE BoundedQueue
CommandsInOrder == ImplementsQueue!Spec

\* Until the engine stops, the events handed to the callbacks are the events
\* the ring accepted, each once and in the order the core thread posted them.
EventsInOrder == running => \A i \in DOMAIN published : published[i] = i

\* What a command does to the ledger when nothing fails but the fee.
Effect(state, c) ==
  CASE c.type = "FREEZE_FUNDS" -> Freeze(state, c.from, Total(c))
    [] c.type = "RELEASE_FUNDS" -> Unfreeze(state, c.from, Total(c))
    [] c.type = "REFUND_PAYMENT" -> Credit(state, c.from, Total(c))
    [] c.type = "SETTLEMENT_BATCH" -> state
    [] c.type = "EXECUTE_PAYMENT" ->
         CreditIfPossible(Credit(Debit(state, c.from, Total(c)), c.to, c.target),
                          FeeAccount(c), c.fee)

\* Replaying the log: snapshots are passed over.
Replayed(state, record) ==
  IF record.kind = "COMMAND" THEN Effect(state, record.content) ELSE state

\* The records this process has written.
OwnLog == SubSeq(wal, base + 1, Len(wal))

\* The log has every command that changed the ledger, in the order it did:
\* between two commands the ledger is what replaying this process's records
\* on the registered balances gives, unless a compensation has run.
AtRest == core.pc \in {"take", "next", "done"}
LogRebuildsLedger ==
  AtRest /\ ~ unlogged => ledger = FoldLeft(Replayed, Registered, OwnLog)

\* Money comes from refunds, and from payments whose receiver is promised more
\* than their sender gives (the engine does not compare the two amounts).
Minted(c) ==
  CASE c.type = "REFUND_PAYMENT" /\ Total(c) > 0 -> Total(c)
    [] c.type = "EXECUTE_PAYMENT" /\ c.target > c.source -> c.target - c.source
    [] OTHER -> 0

\* While only regular amounts are executed, all else only moves money: what is
\* available or frozen in all accounts, in the middle of a command too, is at
\* most what was registered plus what the commands taken so far can have made.
Worth(state) == SumFunction([id \in DOMAIN state |-> state[id].available + state[id].frozen])
NoMoneyCreated ==
  OnlyRegular =>
    Worth(ledger) <= Worth(Registered) + SumFunction([i \in DOMAIN taken |-> Minted(taken[i])])

\* A process executes a request at most once while its cache remembers it:
\* of two of its records of one request, of a hash other than 0, the cache has
\* forgotten the first.
ExecutedOnce ==
  \A i, j \in base + 1..Len(wal) :
    /\ wal[i].kind = "COMMAND"
    /\ wal[j].kind = "COMMAND"
    /\ wal[i].content.request = wal[j].content.request
    /\ Cached(wal[i].content)
    => i = j \/ wal[i].content.request \in evicted

\* When stop() has returned, every record of the log is in the file.
StoppedIsDurable == main = "stopped" => flushed = Len(wal)

\* While the engine runs, what it accepted is taken by the core thread.
CommandsGetTaken ==
  \A n \in 1..MaxSequence : Len(accepted) >= n ~> Len(taken) >= n \/ ~ running \/ accepted = <<>>

\* stop() returns: no thread waits for another one that does not end.
StopCompletes == main = "snapshot" ~> main \in {"stopped", "up"}

\* A process that starts on a log with snapshots starts from the last one.
RestoresSnapshot ==
  LET snapshots == { i \in 1..base : wal[i].kind = "SNAPSHOT" }
  IN taken = <<>> /\ snapshots # {} => ledger = wal[Max(snapshots)].content
===============================================================================

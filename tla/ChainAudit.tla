------------------------------ MODULE ChainAudit ------------------------------
(***************************************************************************)
(* The chain audit service.  The saga goroutine of each payment hands over *)
(* two events with RecordPaymentOnChain; they collect in a buffer in       *)
(* memory, and whichever goroutine fills it takes all of it and commits it *)
(* as one batch: a block of the hash chain, a batch row, the event rows    *)
(* with their Merkle proofs and a submission record, each in a statement   *)
(* of its own.  Several goroutines may be flushing at the same time.       *)
(*                                                                         *)
(* Start and Stop have no caller: there is no flush by time and no retry   *)
(* loop, and a process that ends leaves its buffer behind.                 *)
(***************************************************************************)
EXTENDS MerkleTree, FiniteSets

CONSTANTS
  Payments,    \* the payments whose sagas reach their last step
  BatchSize,   \* events that fill the buffer
  MaxFaults,   \* statements that fail, or that fall into a later second
  MaxCrashes   \* restarts of the server process

ASSUME ChainAssumption ==
  /\ BatchSize \in Nat \ {0}
  /\ MaxFaults \in Nat
  /\ MaxCrashes \in Nat

VARIABLES
  pending,    \* pendingEvents
  pc,         \* where the goroutine of each payment is
  sent,       \* how many of its two events a payment has handed over
  hand,       \* the events a flushing goroutine holds and the block it builds on
  blocks,     \* chain_blocks
  batches,    \* chain_batches
  rows,       \* chain_events
  submitted,  \* the batches with a CONFIRMED row in chain_submit_logs
  faults,
  crashes

bufferVars == <<pending, sent>>
tableVars == <<blocks, batches, rows, submitted>>
vars == <<pending, pc, sent, hand, blocks, batches, rows, submitted, faults, crashes>>

-----------------------------------------------------------------------------
\* A payment's first event is SETTLEMENT_COMPLETED, its second PAYMENT_COMPLETED.
Event(p, n) == <<p, n>>
Events == Payments \X {1, 2}

Hashes(events) == [i \in DOMAIN events |-> Leaf(events[i])]

BlockHash(prev, root, batch) == <<prev, root, batch>>

\* The audit signature covers the second in which commitBatch started and is
\* checked with the second of created_at (late: not the same one); its key is
\* made anew by every process (signer: the process, counted by restarts).
Block(height, prev, root, batch, count, signer, late) ==
  [height |-> height, hash |-> BlockHash(prev, root, batch), prev |-> prev,
   root |-> root, batch |-> batch, count |-> count, signer |-> signer, late |-> late]

Genesis == Block(0, <<>>, <<>>, <<>>, 0, 0, FALSE)

LatestBlock == CHOOSE b \in blocks : \A c \in blocks : c.height <= b.height

\* Mutant: the column block_height is not UNIQUE.
HeightFreeAlways(height) == height >= 0

HeightFree(height) == \A b \in blocks : b.height # height

\* The block that the goroutine of p has built from what it holds.  A batch id
\* is fresh each time.
BatchId(p) == <<p, sent[p]>>
NewBlock(p, late) ==
  Block(hand[p].tip.height + 1, hand[p].tip.hash, MerkleRoot(Hashes(hand[p].events)),
        BatchId(p), Len(hand[p].events), crashes, late)

EventRows(p) ==
  LET hashes == Hashes(hand[p].events)
  IN  { [event |-> hand[p].events[i], height |-> hand[p].tip.height + 1,
         batch |-> BatchId(p), proof |-> MerkleProof(hashes, i)]
        : i \in DOMAIN hand[p].events }

Held(events, tip) == [events |-> events, tip |-> tip]
NoHand == Held(<<>>, Genesis)

\* Mutant: the events that came in meanwhile are overwritten.
RequeuedAlone(events, later) == events

\* Events of a failed batch go back in front of the ones that came in meanwhile.
Requeued(events, later) == events \o later

\* Mutant: the second event is handed over twice.
AfterEventAgain(n) == IF n = 3 THEN "done" ELSE "enqueue"

\* Where the goroutine goes on after its n-th event was handed over.
AfterEvent(n) == IF n = 2 THEN "done" ELSE "enqueue"

\* Mutant: the error of InsertChainEventsBatch is dropped as well.
AfterErrorDropped(p) ==
  IF pc[p] = "log" THEN AfterEvent(sent[p])
  ELSE IF pc[p] = "events" THEN "log" ELSE "requeue"

\* Any error of commitBatch sends the events back, except that of the
\* submission record, which is dropped.
AfterError(p) == IF pc[p] = "log" THEN AfterEvent(sent[p]) ELSE "requeue"

-----------------------------------------------------------------------------
Init ==
  /\ pending = <<>>
  /\ pc = [p \in Payments |-> "record"]
  /\ sent = [p \in Payments |-> 0]
  /\ hand = [p \in Payments |-> NoHand]
  /\ blocks = {Genesis}
  /\ batches = {}
  /\ rows = {}
  /\ submitted = {}
  /\ faults = 0
  /\ crashes = 0

Succeeds == UNCHANGED faults
Misfortune == faults < MaxFaults /\ faults' = faults + 1
Fails == Misfortune
Late == Misfortune
Goto(p, label) == pc' = [pc EXCEPT ![p] = label]

\* RecordPaymentOnChain reads the order; without it there are no events.
RecordPayment(p) ==
  /\ pc[p] = "record"
  /\ \/ Succeeds /\ Goto(p, "enqueue")
     \/ Fails /\ Goto(p, "done")
  /\ UNCHANGED <<bufferVars, hand, tableVars, crashes>>

\* enqueueEvent, under the mutex; the flush it asks for comes after the unlock.
EnqueueEvent(p) ==
  /\ pc[p] = "enqueue"
  /\ sent' = [sent EXCEPT ![p] = @ + 1]
  /\ pending' = Append(pending, Event(p, sent'[p]))
  /\ Goto(p, IF Len(pending') >= BatchSize THEN "take" ELSE AfterEvent(sent'[p]))
  /\ UNCHANGED <<hand, tableVars, faults, crashes>>

\* flushBatch takes the whole buffer, under the mutex; another goroutine may
\* have taken it first.
TakeEvents(p) ==
  /\ pc[p] = "take"
  /\ pending' = <<>>
  /\ hand' = [hand EXCEPT ![p] = Held(pending, Genesis)]
  /\ Goto(p, IF pending = <<>> THEN AfterEvent(sent[p]) ELSE "latest")
  /\ UNCHANGED <<sent, tableVars, faults, crashes>>

\* commitBatch: read the block to build on ...
GetLatestBlock(p) ==
  /\ pc[p] = "latest"
  /\ \/ /\ Succeeds
        /\ hand' = [hand EXCEPT ![p] = Held(hand[p].events, LatestBlock)]
        /\ Goto(p, "block")
     \/ /\ Fails
        /\ Goto(p, AfterError(p))
        /\ UNCHANGED hand
  /\ UNCHANGED <<bufferVars, tableVars, crashes>>

\* ... insert the new one, which UNIQUE (block_height) refuses if another
\* goroutine built on the same block ...
InsertChainBlock(p) ==
  /\ pc[p] = "block"
  /\ LET height == hand[p].tip.height + 1
     IN  \/ /\ HeightFree(height)
            /\ \/ Succeeds /\ blocks' = blocks \cup {NewBlock(p, FALSE)}
               \/ Late /\ blocks' = blocks \cup {NewBlock(p, TRUE)}
            /\ Goto(p, "batch")
         \/ /\ (Succeeds /\ ~ HeightFree(height)) \/ Fails
            /\ Goto(p, AfterError(p))
            /\ UNCHANGED blocks
  /\ UNCHANGED <<bufferVars, hand, batches, rows, submitted, crashes>>

\* ... its batch row ...
CreateChainBatch(p) ==
  /\ pc[p] = "batch"
  /\ \/ /\ Succeeds
        /\ batches' = batches \cup {[batch |-> BatchId(p), height |-> hand[p].tip.height + 1]}
        /\ Goto(p, "events")
     \/ /\ Fails
        /\ Goto(p, AfterError(p))
        /\ UNCHANGED batches
  /\ UNCHANGED <<bufferVars, hand, blocks, rows, submitted, crashes>>

\* ... the event rows, in one transaction ...
InsertChainEvents(p) ==
  /\ pc[p] = "events"
  /\ \/ /\ Succeeds
        /\ rows' = rows \cup EventRows(p)
        /\ Goto(p, "log")
     \/ /\ Fails
        /\ Goto(p, AfterError(p))
        /\ UNCHANGED rows
  /\ UNCHANGED <<bufferVars, hand, blocks, batches, submitted, crashes>>

\* ... and the submission record, whose error is ignored.
InsertSubmitLog(p) ==
  /\ pc[p] = "log"
  /\ \/ Succeeds /\ submitted' = submitted \cup {BatchId(p)} /\ Goto(p, AfterEvent(sent[p]))
     \/ Fails /\ UNCHANGED submitted /\ Goto(p, AfterError(p))
  /\ hand' = [hand EXCEPT ![p] = NoHand]
  /\ UNCHANGED <<bufferVars, blocks, batches, rows, crashes>>

\* The batch failed: put its events back, under the mutex, without another
\* attempt to flush.
RequeueEvents(p) ==
  /\ pc[p] = "requeue"
  /\ pending' = Requeued(hand[p].events, pending)
  /\ hand' = [hand EXCEPT ![p] = NoHand]
  /\ Goto(p, AfterEvent(sent[p]))
  /\ UNCHANGED <<sent, tableVars, faults, crashes>>

\* The process dies: buffer and goroutines are gone, the tables stay.
Crash ==
  /\ crashes < MaxCrashes
  /\ crashes' = crashes + 1
  /\ pending' = <<>>
  /\ hand' = [p \in Payments |-> NoHand]
  /\ pc' = [p \in Payments |-> IF pc[p] = "record" THEN "record" ELSE "done"]
  /\ UNCHANGED <<sent, tableVars, faults>>

RecorderStep(p) ==
  \/ EnqueueEvent(p) \/ TakeEvents(p) \/ GetLatestBlock(p) \/ InsertChainBlock(p)
  \/ CreateChainBatch(p) \/ InsertChainEvents(p) \/ InsertSubmitLog(p) \/ RequeueEvents(p)

Next == \/ \E p \in Payments : RecordPayment(p) \/ RecorderStep(p)
        \/ Crash

Spec == Init /\ [][Next]_vars

-----------------------------------------------------------------------------
(* Verification, as the audit endpoint does it for one event row.           *)

BlockAt(height) == CHOOSE b \in blocks : b.height = height

\* GetChainEventsByPayment and GetChainBatch
EventsOf(p) == { r \in rows : r.event[1] = p }
HasBatch(id) == \E b \in batches : b.batch = id

SignatureValid(block) == block.signer = crashes /\ ~ block.late

VerifyPaymentAudit(row) ==
  LET block == BlockAt(row.height)
  IN  /\ row.proof # <<>>
      /\ VerifyMerkleProof(Leaf(row.event), row.proof, block.root)
      /\ block.height > 1 => block.prev = BlockAt(block.height - 1).hash
      /\ HasBatch(row.batch) => SignatureValid(block)

\* A block is put on a trail once, however many of the events it holds.
WithBlock(trail, row) ==
  IF BlockAt(row.height) \in ToSet(trail) THEN trail ELSE Append(trail, BlockAt(row.height))

\* GetAuditTrail of a payment whose event rows are found in this order (by
\* created_at, which nothing ties to the height): their blocks, each once.
AuditTrail(events) == FoldLeft(WithBlock, <<>>, events)

VerifyChainIntegrity(trail) ==
  \A i \in 2..Len(trail) : trail[i].prev = trail[i - 1].hash

-----------------------------------------------------------------------------
(* Properties *)

Labels == {"record", "enqueue", "take", "latest", "block", "batch", "events", "log",
           "requeue", "done"}

\* The shape of every variable.
TypeOK ==
  /\ pending \in Seq(Events)
  /\ pc \in [Payments -> Labels]
  /\ sent \in [Payments -> 0..2]
  /\ \A p \in Payments : hand[p].events \in Seq(Events) /\ hand[p].tip \in blocks
  /\ \A b \in blocks : b.height \in Nat
  /\ submitted \subseteq { b.batch : b \in batches }
  /\ { r.event : r \in rows } \subseteq Events
  /\ faults \in 0..MaxFaults
  /\ crashes \in 0..MaxCrashes

\* The goroutine of p holds events that are neither in the buffer nor in a row.
Flushing == {"latest", "block", "batch", "events", "requeue"}
Holds(p, e) == pc[p] \in Flushing /\ e \in ToSet(hand[p].events)
InBuffer(e) == e \in ToSet(pending)
InRow(e) == \E r \in rows : r.event = e
IsSomewhere(e) == InBuffer(e) \/ InRow(e) \/ \E p \in Payments : Holds(p, e)

\* The buffer, the hands of the goroutines and the event rows have no event in
\* common, and none of them has an event twice.
NoEventTwice ==
  /\ IsInjective(pending)
  /\ \A p \in Payments : pc[p] \in Flushing => IsInjective(hand[p].events)
  /\ \A r, s \in rows : r.event = s.event => r = s
  /\ \A e \in Events : ~ (InBuffer(e) /\ InRow(e))
  /\ \A p \in Payments, e \in Events : Holds(p, e) => ~ InBuffer(e) /\ ~ InRow(e)
  /\ \A p, q \in Payments, e \in Events : Holds(p, e) /\ Holds(q, e) => p = q

\* However flushes interleave and fail, an event that was handed over is in
\* one place: the buffer, the hands of one goroutine, or one event row.  Only
\* a restart loses it, and nothing ever doubles it.
EventsConserved ==
  /\ NoEventTwice
  /\ \A e \in Events : crashes = 0 /\ e[2] <= sent[e[1]] => IsSomewhere(e)

\* The blocks form one chain without a fork, although goroutines that flush
\* at the same time read the same latest block.
ChainLinked ==
  /\ \A b, c \in blocks : b.height = c.height => b = c
  /\ \A b \in blocks : b.height > 0 =>
       \E c \in blocks : c.height = b.height - 1 /\ c.hash = b.prev

\* A batch reported as submitted is complete: its batch row, its block and
\* one row for each of the events the block counts.
SubmittedIsComplete ==
  \A id \in submitted :
    \E b \in blocks : /\ b.batch = id
                      /\ [batch |-> id, height |-> b.height] \in batches
                      /\ Cardinality({ r \in rows : r.batch = id }) = b.count

\* What an auditor is told.  Every event row that has a proof passes
\* verification, at any time, against the block the row names, as long as the
\* process runs that signed the block.  The trail of a payment is verified
\* exactly if its events are in one block or in two neighbours, found in order:
\* an honest payment whose events other goroutines' batches drew apart is not.
AuditsAreRight ==
  \A p \in Payments : \A r \in EventsOf(p) :
    /\ r.proof # <<>> /\ SignatureValid(BlockAt(r.height)) => VerifyPaymentAudit(r)
    /\ \A s \in EventsOf(p) \ {r} :
         VerifyChainIntegrity(AuditTrail(<<r, s>>)) <=> s.height \in {r.height, r.height + 1}
===============================================================================

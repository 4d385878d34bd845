------------------------------- MODULE EventRing -------------------------------
(***************************************************************************)
(* The ring of engine events.  The core thread is its only producer; the   *)
(* publisher thread consumes it, and so does the thread that stops the     *)
(* engine, without a lock between the two.  An event that finds the ring   *)
(* full is dropped and counted.  Of the contents of an event only its      *)
(* place in the order of the accepted ones is kept.                        *)
(***************************************************************************)
EXTENDS Integers, Sequences

CONSTANTS
  RingCapacity,   \* slots of the ring (4096)
  PublishBatch,   \* events the publisher takes at once (256)
  Readers,        \* the threads that call dequeue_batch
  Moved           \* what std::move leaves in a slot

ASSUME RingAssumption ==
  /\ RingCapacity \in Nat \ {0}
  /\ PublishBatch \in Nat \ {0}

VARIABLES
  ring,        \* buffer_
  ring_write,  \* write_index_
  ring_read,   \* read_index_
  reader,      \* each consumer: the events it has moved out, the index it stores next
  published    \* history: the events given to the publisher's callbacks

ringVars == <<ring, ring_write, ring_read, reader, published>>

RingSlot(i) == i % RingCapacity

RingHasRoomForOneMore == ring_write - ring_read <= RingCapacity
RingHasRoom == ring_write - ring_read < RingCapacity
HasEvents == ring_write > ring_read

NoEvents == [events |-> <<>>, at |-> 0]
IsReading(r) == reader[r].events # <<>>

RingInit ==
  /\ ring = [i \in 0..RingCapacity - 1 |-> Moved]
  /\ ring_write = 0
  /\ ring_read = 0
  /\ reader = [r \in Readers |-> NoEvents]
  /\ published = <<>>

WriteEvent ==
  /\ RingHasRoom
  /\ ring' = [ring EXCEPT ![RingSlot(ring_write)] = ring_write + 1]
  /\ UNCHANGED <<ring_write, ring_read, reader, published>>

DropEvent ==
  /\ ~ RingHasRoom
  /\ UNCHANGED ringVars

CommitEvent ==
  /\ ring_write' = ring_write + 1
  /\ UNCHANGED <<ring, ring_read, reader, published>>

\* dequeue_batch loads both indices and moves the events out of their slots ...
MoveEvents(r, max) ==
  LET available == ring_write - ring_read
      count == IF available < max THEN available ELSE max
      moved == { RingSlot(ring_read + i) : i \in 0..count - 1 }
  IN /\ ~ IsReading(r)
     /\ available > 0
     /\ reader' = [reader EXCEPT ![r] =
          [events |-> [i \in 1..count |-> ring[RingSlot(ring_read + i - 1)]],
           at |-> ring_read + count]]
     /\ ring' = [i \in DOMAIN ring |-> IF i \in moved THEN Moved ELSE ring[i]]
     /\ UNCHANGED <<ring_write, ring_read, published>>

\* ... gives the slots back, and its caller publishes what it returned.
PublishEvents(r) ==
  /\ IsReading(r)
  /\ ring_read' = reader[r].at
  /\ published' = published \o reader[r].events
  /\ reader' = [reader EXCEPT ![r] = NoEvents]
  /\ UNCHANGED <<ring, ring_write>>

RingReset ==
  /\ ring' = [i \in 0..RingCapacity - 1 |-> Moved]
  /\ ring_write' = 0
  /\ ring_read' = 0
  /\ reader' = [r \in Readers |-> NoEvents]
  /\ published' = <<>>
===============================================================================

----------------------------- MODULE CommandQueue -----------------------------
(***************************************************************************)
(* The engine's command queue: a ring of slots with a write index and a    *)
(* read index.  A producer writes a slot before it publishes it, the       *)
(* consumer copies a command before it gives its slot back, and any other  *)
(* thread may run in between.  Loads of an index that only grows are taken *)
(* together with the access they are made for.                             *)
(***************************************************************************)
EXTENDS Integers, Sequences

CONSTANTS
  Producers,  \* the threads that call submit
  Capacity,   \* slots of the ring (4096)
  Commands,
  NoCommand

ASSUME QueueAssumption ==
  /\ Capacity \in Nat \ {0}
  /\ NoCommand \notin Commands

VARIABLES
  slots,        \* buffer_
  write_index,
  read_index,
  producer,     \* each producer: the command it has written, at which index
  hand,         \* the command the consumer has copied and not yet released
  accepted,     \* history: the commands for which enqueue returned true
  taken         \* history: the commands dequeue returned

queueVars == <<slots, write_index, read_index, producer, hand, accepted, taken>>
writerVars == <<slots, write_index, producer, accepted>>
readerVars == <<read_index, hand, taken>>

Slot(i) == i % Capacity

HasRoomForOneMore(w) == w \in read_index .. read_index + Capacity

\* write_idx - read_idx < capacity_, in unsigned arithmetic: a write index
\* behind the read index counts as a full queue.
HasRoom(w) == w \in read_index .. read_index + Capacity - 1

IsEmptyOffByOne == read_index + 1 >= write_index
IsEmpty == read_index >= write_index

Idle == [command |-> NoCommand, at |-> 0]
IsWriting(p) == producer[p].command # NoCommand

QueueInit ==
  /\ slots = [i \in 0..Capacity - 1 |-> NoCommand]
  /\ write_index = 0
  /\ read_index = 0
  /\ producer = [p \in Producers |-> Idle]
  /\ hand = NoCommand
  /\ accepted = <<>>
  /\ taken = <<>>

\* enqueue loads both indices, finds room and writes the slot at the write
\* index it loaded ...
WriteSlot(p, c) ==
  /\ ~ IsWriting(p)
  /\ HasRoom(write_index)
  /\ slots' = [slots EXCEPT ![Slot(write_index)] = c]
  /\ producer' = [producer EXCEPT ![p] = [command |-> c, at |-> write_index]]
  /\ UNCHANGED <<write_index, accepted, readerVars>>

\* ... or refuses the command ...
RefuseCommand(p) ==
  /\ ~ IsWriting(p)
  /\ ~ HasRoom(write_index)
  /\ UNCHANGED queueVars

\* ... and publishes the slot by storing the next write index.
CommitWrite(p) ==
  /\ IsWriting(p)
  /\ write_index' = producer[p].at + 1
  /\ accepted' = Append(accepted, producer[p].command)
  /\ producer' = [producer EXCEPT ![p] = Idle]
  /\ UNCHANGED <<slots, readerVars>>

\* dequeue finds a committed command and copies it out of its slot ...
CopyCommand ==
  /\ hand = NoCommand
  /\ ~ IsEmpty
  /\ hand' = slots[Slot(read_index)]
  /\ UNCHANGED <<read_index, taken, writerVars>>

\* ... and gives the slot back.
ReleaseSlot ==
  /\ hand # NoCommand
  /\ read_index' = read_index + 1
  /\ taken' = Append(taken, hand)
  /\ hand' = NoCommand
  /\ UNCHANGED writerVars

\* A new process starts with a new queue.
QueueReset ==
  /\ slots' = [i \in 0..Capacity - 1 |-> NoCommand]
  /\ write_index' = 0
  /\ read_index' = 0
  /\ producer' = [p \in Producers |-> Idle]
  /\ hand' = NoCommand
  /\ accepted' = <<>>
  /\ taken' = <<>>
===============================================================================

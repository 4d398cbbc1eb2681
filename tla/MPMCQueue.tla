------------------------------ MODULE MPMCQueue ------------------------------
(***************************************************************************)
(* The MPMCQueue stage: on_message, on the threads of the stages upstream, *)
(* writes into a folly::ProducerConsumerQueue; run, on a worker thread,    *)
(* reads from it and hands the messages downstream until stop.  The ring's *)
(* loads and stores are separate steps.                                    *)
(***************************************************************************)
EXTENDS Naturals, Sequences

CONSTANTS Messages,
          Producers,  \* threads that call on_message
          Size,       \* the capacity passed to the stage: slots of the ring
          None        \* an empty slot, or no message in hand

ASSUME SizeAssumption == Size \in Nat /\ Size >= 2
ASSUME NoMessage == None \notin Messages

VARIABLES
  records,     \* the slots of the ring
  writeIndex,  \* the next slot to write
  readIndex,   \* the next slot to read; equal indices mean empty
  producer,    \* what each producer is about to do in on_message
  message,     \* the message each producer carries
  slot,        \* the write index each producer loaded
  worker,      \* what the worker is about to do in run
  inHand,      \* the message the worker has read
  stop,        \* the _stop flag
  fresh,       \* messages upstream has not sent yet
  delivered,   \* emitted through message_out
  refused      \* emitted through buffer_full_out

queueVars == <<records, writeIndex, readIndex, producer, message, slot, worker, inHand,
               stop, fresh, delivered, refused>>

ring == <<records, writeIndex, readIndex>>
producing == <<producer, message, slot, fresh, refused>>
consuming == <<worker, inHand, delivered>>

Slots == 0 .. Size - 1
\* Mutant: the index runs past the last slot.
AfterUnwrapped(index) == index + 1

After(index) == IF index + 1 = Size THEN 0 ELSE index + 1

QueueTypeOK ==
  /\ records \in [Slots -> Messages \cup {None}]
  /\ writeIndex \in Slots
  /\ readIndex \in Slots
  /\ producer \in [Producers -> {"idle", "load", "check", "store", "publish", "full"}]
  /\ message \in [Producers -> Messages \cup {None}]
  /\ slot \in [Producers -> Slots]
  /\ worker \in {"poll", "check", "take", "release", "emit", "done"}
  /\ inHand \in Messages \cup {None}
  /\ stop \in BOOLEAN
  /\ fresh \in SUBSET Messages
  /\ delivered \in Seq(Messages)
  /\ refused \in SUBSET Messages

QueueInit ==
  /\ records = [i \in Slots |-> None]
  /\ writeIndex = 0 /\ readIndex = 0
  /\ producer = [p \in Producers |-> "idle"]
  /\ message = [p \in Producers |-> None]
  /\ slot = [p \in Producers |-> 0]
  /\ worker = "poll" /\ inHand = None /\ stop = FALSE
  /\ fresh = Messages /\ delivered = <<>> /\ refused = {}

-----------------------------------------------------------------------------
(* on_message: _message_queue.write, then buffer_full_out when it fails. *)

Goto(p, from, to) == producer[p] = from /\ producer' = [producer EXCEPT ![p] = to]

OnMessage(p, m) ==
  /\ Goto(p, "idle", "load")
  /\ m \in fresh
  /\ fresh' = fresh \ {m}
  /\ message' = [message EXCEPT ![p] = m]
  /\ UNCHANGED <<ring, slot, refused, consuming, stop>>

LoadWriteIndex(p) ==
  /\ Goto(p, "load", "check")
  /\ slot' = [slot EXCEPT ![p] = writeIndex]
  /\ UNCHANGED <<ring, message, fresh, refused, consuming, stop>>

\* Mutant: the ring is never found full.
CheckFullSkipped(p) ==
  /\ Goto(p, "check", "store")
  /\ UNCHANGED <<ring, message, slot, fresh, refused, consuming, stop>>

\* Mutant: an empty ring is taken for a full one.
CheckFullOffByOne(p) ==
  /\ Goto(p, "check", IF slot[p] # readIndex THEN "store" ELSE "full")
  /\ UNCHANGED <<ring, message, slot, fresh, refused, consuming, stop>>

CheckFull(p) ==
  /\ Goto(p, "check", IF After(slot[p]) # readIndex THEN "store" ELSE "full")
  /\ UNCHANGED <<ring, message, slot, fresh, refused, consuming, stop>>

StoreRecord(p) ==
  /\ Goto(p, "store", "publish")
  /\ records' = [records EXCEPT ![slot[p]] = message[p]]
  /\ UNCHANGED <<writeIndex, readIndex, message, slot, fresh, refused, consuming, stop>>

Publish(p) ==
  /\ Goto(p, "publish", "idle")
  /\ writeIndex' = After(slot[p])
  /\ message' = [message EXCEPT ![p] = None]
  /\ UNCHANGED <<records, readIndex, slot, fresh, refused, consuming, stop>>

BufferFull(p) ==
  /\ Goto(p, "full", "idle")
  /\ refused' = refused \cup {message[p]}
  /\ message' = [message EXCEPT ![p] = None]
  /\ UNCHANGED <<ring, slot, fresh, consuming, stop>>

Produce(p) == \/ LoadWriteIndex(p) \/ CheckFull(p) \/ StoreRecord(p)
              \/ Publish(p) \/ BufferFull(p)

-----------------------------------------------------------------------------
(* run: poll until stopped; an empty queue is polled again after a sleep. *)

Poll ==
  /\ worker = "poll"
  /\ worker' = IF stop THEN "done" ELSE "check"
  /\ UNCHANGED <<ring, producing, inHand, delivered, stop>>

\* Mutant: run returns when it finds the queue empty.
CheckEmptyGivesUp ==
  /\ worker = "check"
  /\ worker' = IF readIndex = writeIndex THEN "done" ELSE "take"
  /\ UNCHANGED <<ring, producing, inHand, delivered, stop>>

CheckEmpty ==
  /\ worker = "check"
  /\ worker' = IF readIndex = writeIndex THEN "poll" ELSE "take"
  /\ UNCHANGED <<ring, producing, inHand, delivered, stop>>

TakeRecord ==
  /\ worker = "take"
  /\ worker' = "release"
  /\ inHand' = records[readIndex]
  /\ UNCHANGED <<ring, producing, delivered, stop>>

Release ==
  /\ worker = "release"
  /\ worker' = "emit"
  /\ records' = [records EXCEPT ![readIndex] = None]
  /\ readIndex' = After(readIndex)
  /\ UNCHANGED <<writeIndex, producing, inHand, delivered, stop>>

Deliver ==
  /\ worker = "emit"
  /\ worker' = "poll"
  /\ delivered' = Append(delivered, inHand)
  /\ inHand' = None
  /\ UNCHANGED <<ring, producing, stop>>

Work == Poll \/ CheckEmpty \/ TakeRecord \/ Release \/ Deliver

Stop == ~stop /\ stop' = TRUE /\ UNCHANGED <<ring, producing, consuming>>

QueueNext == \/ \E p \in Producers : Produce(p) \/ \E m \in Messages : OnMessage(p, m)
        \/ Work
        \/ Stop

QueueSpec == QueueInit /\ [][QueueNext]_queueVars

\* Threads that are inside on_message or run are scheduled; nobody has to
\* send a message or to stop the stage.
FairQueueSpec == QueueSpec /\ WF_queueVars(Work) /\ \A p \in Producers : WF_queueVars(Produce(p))

-----------------------------------------------------------------------------
\* The producer never writes the slot the worker is reading: the two threads
\* share a slot only through the published indices.
NoSlotRace ==
  \A p \in Producers : worker \in {"take", "release"} /\ producer[p] \in {"store", "publish"}
                         => slot[p] # readIndex

InRing == {records[i] : i \in Slots} \cup {inHand}

\* A message accepted into the ring is delivered, unless the stage is stopped.
AcceptedIsDelivered ==
  \A m \in Messages :
    (m \in InRing) ~> (stop \/ \E i \in DOMAIN delivered : delivered[i] = m)

\* The messages in the ring, from the one to be read next.
Used == IF writeIndex >= readIndex THEN writeIndex - readIndex
                                   ELSE Size + writeIndex - readIndex
Place(i) == IF readIndex + i - 1 < Size THEN readIndex + i - 1
                                        ELSE readIndex + i - 1 - Size
Queue == [i \in 1 .. Used |-> records[Place(i)]]
Taken == IF worker = "emit" THEN <<inHand>> ELSE <<>>
Refused == refused \cup {message[p] : p \in {q \in Producers : producer[q] = "full"}}

Fifo == INSTANCE BoundedFifo WITH
          Capacity <- Size - 1, queue <- Queue, taken <- Taken, refused <- Refused

\* With one producer the stage is a FIFO queue of Size - 1 places: it accepts
\* when writeIndex is published, refuses when the check finds the ring full, and
\* gives a message up when readIndex is advanced.
ImplementsFifo == Fifo!Spec
=============================================================================

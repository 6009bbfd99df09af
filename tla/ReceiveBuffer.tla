---------------------------- MODULE ReceiveBuffer ----------------------------
(***************************************************************************)
(* net::ReceiveBuffer: one piece of memory in which the bytes of a         *)
(* connection are collected until they are cut into frames. A buffer is    *)
(* its positions: what lies in [read, write) is to be processed, what lies *)
(* in [write, cap) is free. Before the first use there is no memory.       *)
(***************************************************************************)
EXTENDS Naturals

CONSTANTS
  Chunk,         \* kChunk: the capacity at first, and what it grows by
  MinFree,       \* kMinFree: what a receive must find free
  MaxCapacity    \* kMaxCapacity

ASSUME BufferAssumption ==
  /\ Chunk \in Nat \ {0} /\ MinFree \in Nat \ {0}
  /\ MaxCapacity \in Nat /\ Chunk <= MaxCapacity

Allocate(cap) == [cap |-> cap, read |-> 0, write |-> 0]
NoMemory == Allocate(0)

ReadableSize(b) == b.write - b.read
WritableSize(b) == b.cap - b.write

(* The rest is moved to the front, of the same or of a larger piece.       *)
Compact(b) == [b EXCEPT !.read = 0, !.write = ReadableSize(b)]

Grow(b, add) ==
  IF b.cap + add > MaxCapacity THEN b ELSE [Compact(b) EXCEPT !.cap = @ + add]

(* The growth in chunks that covers what is missing.                       *)
Growth(b) ==
  Chunk * (CHOOSE n \in 1..MinFree :
             /\ WritableSize(b) + b.read + n * Chunk >= MinFree
             /\ n = 1 \/ WritableSize(b) + b.read + (n - 1) * Chunk < MinFree)

(* reserve_free. An empty buffer starts anew, at its first size; then room *)
(* is made by moving the rest, and only when that is not enough by growth. *)
(* Mutant: the rest is not moved.                                          *)
Renewed(b) == IF b.read = b.write THEN Allocate(Chunk) ELSE b

GrowAtOnce(b) ==
  IF WritableSize(b) >= MinFree THEN b ELSE Grow(b, Chunk)
MakeRoom(b) ==
  IF WritableSize(b) >= MinFree THEN b
  ELSE IF WritableSize(b) + b.read >= MinFree THEN Compact(b)
  ELSE Grow(b, Growth(b))

ReserveFree(b) == MakeRoom(Renewed(b))
HasRoom(b) == WritableSize(b) >= MinFree

CommitWrite(b, n) == [b EXCEPT !.write = @ + n]
ConsumeRead(b, n) == [b EXCEPT !.read = @ + n]
=============================================================================

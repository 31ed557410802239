---------------------------- MODULE ReplayBuffer ----------------------------
(***************************************************************************)
(* ReplayBuffer of live_hub.py: a deque(maxlen = BufferSize) of published  *)
(* updates.  A buffer is the sequence of their sequence numbers, oldest    *)
(* first; the payload is a function of the number.                         *)
(***************************************************************************)
EXTENDS Naturals, Sequences

CONSTANTS
  BufferSize,   \* maxlen of the deque (512 in production)
  Unbridgeable  \* what since() returns for None

ASSUME BufferSizeAssumption == BufferSize \in Nat \ {0}
ASSUME UnbridgeableAssumption == Unbridgeable \notin Seq(Nat)

Add(buffer, seq) ==
  LET full == Append(buffer, seq)
  IN  IF Len(full) > BufferSize THEN Tail(full) ELSE full

Oldest(buffer) == buffer[1]
Newest(buffer) == buffer[Len(buffer)]

\* The members newer than number "last", in the order of the buffer.
Later(buffer, last) ==
  LET kept[i \in 0..Len(buffer)] ==
        IF i = 0 THEN <<>>
        ELSE IF buffer[i] > last THEN Append(kept[i - 1], buffer[i]) ELSE kept[i - 1]
  IN  kept[Len(buffer)]

\* A slip: the eviction test is off by one.
SinceMissesOne(buffer, last) ==
  IF buffer = <<>> THEN Unbridgeable
  ELSE IF last >= Newest(buffer) THEN <<>>
  ELSE IF last + 2 < Oldest(buffer) THEN Unbridgeable
  ELSE Later(buffer, last)

\* The updates to replay to a client that last saw number "last", or Unbridgeable.
Since(buffer, last) ==
  IF buffer = <<>> THEN Unbridgeable
  ELSE IF last >= Newest(buffer) THEN <<>>
  ELSE IF last + 1 < Oldest(buffer) THEN Unbridgeable
  ELSE Later(buffer, last)

=============================================================================

------------------------ MODULE StreamConsumerProofs ------------------------
(***************************************************************************)
(* Proofs about StreamConsumer for any batch size, trimming length and     *)
(* bounds, and for any number of crashes, disconnects and stream losses.   *)
(***************************************************************************)
EXTENDS StreamConsumer, FiniteSetTheorems, TLAPS

(***************************************************************************)
(* The strengthening.                                                      *)
(***************************************************************************)

\* Nothing is in hand before the task's first read and after the task's end.
EmptyHanded ==
  mode \in {"down", "dead", "recovering"} => batch = {} /\ ~handled /\ last = 0

NoGroupNothingPending == ~group => pending = {}

BatchIsAddressed == batch \subseteq from + 1 .. delivered

\* What is in hand is pending, unless Redis lost the PEL with the stream.
BatchIsPending == \A e \in batch : e \in pending \/ e <= trimmed

BodilessIsTrimmed == \A e \in batch \ bodies : e <= trimmed

HandledIsAttempted ==
  handled => /\ batch # {}
             /\ \A e \in batch : IsFirst(e) => (attempts[e] > 0 \/ e <= trimmed)

BatchIsAhead ==
  \A e \in batch : last <= e /\ (~handled \/ ~IsFirst(e) => last < e)

\* A process hands an entry over once: beyond that every attempt cost a crash.
AttemptsArePaid ==
  \A e \in Entries :
    attempts[e] <= crashes + (IF mode # "dead" /\ e > last THEN 0 ELSE 1)

IInv ==
  /\ TypeOK
  /\ AckedWasHandled
  /\ EmptyHanded
  /\ NoGroupNothingPending
  /\ BatchIsAddressed
  /\ BatchIsPending
  /\ BodilessIsTrimmed
  /\ HandledIsAttempted
  /\ BatchIsAhead
  /\ AttemptsArePaid

-----------------------------------------------------------------------------
(***************************************************************************)
(* A batch takes the smallest entries: nothing below its newest is left.   *)
(***************************************************************************)
LEMMA SmallestIsPrefix ==
  ASSUME NEW S, NEW n \in Nat, S \subseteq Nat, IsFiniteSet(S),
         NEW e \in S, NEW m \in Smallest(S, n), e <= m
  PROVE  e \in Smallest(S, n)
<1> DEFINE Below(x) == {f \in S : f < x}
<1>0. m \in S
  BY DEF Smallest
<1>1. Below(e) \subseteq Below(m)
  <2> SUFFICES ASSUME NEW f \in S, f < e PROVE f < m
    OBVIOUS
  <2>1. f \in Nat /\ e \in Nat /\ m \in Nat
    BY <1>0
  <2> QED BY <2>1
<1>2. IsFiniteSet(Below(e)) /\ IsFiniteSet(Below(m))
  BY FS_Subset
<1>3. Cardinality(Below(e)) <= Cardinality(Below(m))
  BY <1>1, <1>2, FS_Subset
<1>4. Cardinality(Below(e)) \in Nat /\ Cardinality(Below(m)) \in Nat
  BY <1>2, FS_CardinalityType
<1>5. Cardinality(Below(m)) < n
  BY DEF Smallest
<1> QED BY <1>3, <1>4, <1>5 DEF Smallest

LEMMA ReadNewTakesAll ==
  ASSUME TypeOK, ReadNew
  PROVE  /\ batch' \subseteq delivered + 1 .. delivered'
         /\ delivered' \in delivered + 1 .. appended
         /\ \A e \in batch' : e > trimmed
         /\ \A e \in delivered + 1 .. delivered' : e \in batch' \/ e <= trimmed
<1> USE SizesAssumption
<1>0. delivered \in Nat /\ appended \in Nat /\ trimmed \in Nat
  BY DEF TypeOK
<1>1. Undelivered \subseteq Nat /\ IsFiniteSet(Undelivered)
  <2>1. IsFiniteSet(delivered + 1 .. appended)
    BY <1>0, FS_Interval
  <2> QED BY <1>0, <2>1, FS_Subset DEF Undelivered
<1>2. batch' = Smallest(Undelivered, Batch) /\ delivered' \in batch'
      /\ \A e \in batch' : e <= delivered'
  BY DEF ReadNew
<1>3. batch' \subseteq Undelivered
  BY <1>2 DEF Smallest
<1>4. ASSUME NEW e \in delivered + 1 .. delivered', e > trimmed PROVE e \in batch'
  <2>1. e \in Undelivered /\ e <= delivered'
    BY <1>0, <1>2, <1>3, <1>4 DEF Undelivered
  <2> QED BY <2>1, <1>1, <1>2, SmallestIsPrefix
<1> QED BY <1>0, <1>2, <1>3, <1>4 DEF Undelivered

-----------------------------------------------------------------------------
LEMMA InvInit == Init => IInv
<1> SUFFICES ASSUME Init PROVE IInv
  OBVIOUS
<1> USE BoundsAssumption DEF Init, Entries
<1>1. TypeOK
  <2>1. attempts \in [Entries -> Nat]
    BY DEF Init
  <2>2. 0 \in 0..MaxEntries /\ 0 \in 0..0
    OBVIOUS
  <2> QED BY <2>1, <2>2 DEF TypeOK
<1>2. AckedWasHandled /\ AttemptsArePaid
  BY DEF AckedWasHandled, AttemptsArePaid
<1> QED BY <1>1, <1>2 DEF IInv, EmptyHanded, NoGroupNothingPending, BatchIsAddressed,
   BatchIsPending, BodilessIsTrimmed, HandledIsAttempted, BatchIsAhead

LEMMA InvStep == IInv /\ [Next]_vars => IInv'
<1> SUFFICES ASSUME IInv, [Next]_vars PROVE IInv'
  OBVIOUS
<1> USE BoundsAssumption DEF IInv, Entries
<1>t. /\ appended \in Nat /\ trimmed \in Nat /\ from \in Nat /\ delivered \in Nat
      /\ last \in Nat /\ crashes \in Nat
      /\ trimmed <= appended /\ from <= delivered /\ delivered <= appended
      /\ appended <= MaxEntries
      /\ batch \subseteq Nat /\ pending \subseteq Nat
      /\ attempts \in [Entries -> Nat]
  BY DEF TypeOK
<1> USE <1>t
<1>1. CASE Append
  <2>1. appended' = appended + 1 /\ trimmed' \in Nat /\ trimmed <= trimmed'
        /\ trimmed' <= appended /\ appended' <= MaxEntries
    BY <1>1 DEF Append
  <2>2. UNCHANGED <<group, from, delivered, pending, mode, batch, bodies, handled, last,
                    attempts, crashes, readErrors, disconnects, losses>>
    BY <1>1 DEF Append, task, faults
  <2> QED BY <2>1, <2>2 DEF TypeOK, AckedWasHandled, EmptyHanded, NoGroupNothingPending,
     BatchIsAddressed, BatchIsPending, BodilessIsTrimmed, HandledIsAttempted, BatchIsAhead,
     AttemptsArePaid, IsFirst
<1>2. CASE LoseStream
  <2>1. UNCHANGED <<appended, from, delivered, mode, batch, bodies, handled, last,
                    attempts, crashes, readErrors, disconnects>>
        /\ trimmed' = appended /\ group' = FALSE /\ pending' = {} /\ losses' = losses + 1
    BY <1>2 DEF LoseStream, task
  <2>2. TypeOK'
    <3>1. losses' \in Nat
      BY <2>1 DEF TypeOK
    <3>2. pending' \subseteq from + 1 .. delivered /\ trimmed' \in 0..appended
      BY <2>1
    <3> QED BY <2>1, <3>1, <3>2 DEF TypeOK
  <2> QED BY <2>1, <2>2 DEF AckedWasHandled, EmptyHanded, TypeOK,
     NoGroupNothingPending, BatchIsAddressed, BatchIsPending, BodilessIsTrimmed,
     HandledIsAttempted, BatchIsAhead, AttemptsArePaid, IsFirst
<1>3. CASE Start
  <2>1. UNCHANGED <<appended, trimmed, pending, batch, bodies, handled, last, attempts,
                    crashes, readErrors, disconnects, losses>>
        /\ mode = "down" /\ mode' = "recovering" /\ group' = TRUE
    BY <1>3 DEF Start, faults
  <2>2. CASE group
    BY <1>3, <2>1, <2>2 DEF Start, TypeOK, AckedWasHandled, EmptyHanded,
       NoGroupNothingPending, BatchIsAddressed, BatchIsPending, BodilessIsTrimmed,
       HandledIsAttempted, BatchIsAhead, AttemptsArePaid, IsFirst
  <2>3. CASE ~group
    <3>1. pending = {} /\ batch = {} /\ ~handled /\ last = 0
      BY <2>1, <2>3 DEF EmptyHanded, NoGroupNothingPending
    <3>2. from' = appended /\ delivered' = appended
      BY <1>3, <2>3 DEF Start
    <3> QED BY <2>1, <3>1, <3>2 DEF TypeOK, AckedWasHandled, EmptyHanded,
       NoGroupNothingPending, BatchIsAddressed, BatchIsPending, BodilessIsTrimmed,
       HandledIsAttempted, BatchIsAhead, AttemptsArePaid, IsFirst
  <2> QED BY <2>2, <2>3
<1>4. CASE ReadPending
  <2>1. UNCHANGED <<appended, trimmed, group, from, delivered, pending, handled, last,
                    attempts, crashes, readErrors, disconnects, losses>>
        /\ mode = "recovering" /\ mode' = "reading" /\ group
    BY <1>4 DEF ReadPending, redis, faults
  <2>2. batch' \subseteq pending /\ bodies' = {e \in batch' : e > trimmed}
    BY <1>4 DEF ReadPending, Smallest
  <2>3. batch = {} /\ ~handled /\ last = 0
    BY <2>1 DEF EmptyHanded
  <2> QED BY <2>1, <2>2, <2>3 DEF TypeOK, AckedWasHandled, EmptyHanded,
     NoGroupNothingPending, BatchIsAddressed, BatchIsPending, BodilessIsTrimmed,
     HandledIsAttempted, BatchIsAhead, AttemptsArePaid, IsFirst
<1>5. CASE ReadPendingFails
  BY <1>5 DEF ReadPendingFails, redis, TypeOK, AckedWasHandled, EmptyHanded,
     NoGroupNothingPending, BatchIsAddressed, BatchIsPending, BodilessIsTrimmed,
     HandledIsAttempted, BatchIsAhead, AttemptsArePaid, IsFirst
<1>6. CASE ReadNew
  <2>1. UNCHANGED <<appended, trimmed, group, from, mode, handled, last, attempts,
                    crashes, readErrors, disconnects, losses>>
        /\ mode = "reading" /\ batch = {} /\ group
        /\ bodies' = batch' /\ pending' = pending \cup batch'
    BY <1>6 DEF ReadNew, faults
  <2>2. /\ batch' \subseteq delivered + 1 .. delivered'
        /\ delivered' \in delivered + 1 .. appended
        /\ \A e \in delivered + 1 .. delivered' : e \in batch' \/ e <= trimmed
    BY <1>6, ReadNewTakesAll
  <2>3. ~handled
    BY <2>1 DEF HandledIsAttempted
  <2>4. last <= delivered
    BY DEF TypeOK
  <2>5. TypeOK'
    BY <2>1, <2>2, <2>4 DEF TypeOK
  <2>6. AckedWasHandled'
    BY <2>1, <2>2 DEF AckedWasHandled
  <2> QED BY <2>1, <2>2, <2>3, <2>4, <2>5, <2>6 DEF EmptyHanded,
     NoGroupNothingPending, BatchIsAddressed, BatchIsPending, BodilessIsTrimmed,
     HandledIsAttempted, BatchIsAhead, AttemptsArePaid, IsFirst
<1>7. ASSUME NEW e \in batch, Handle(e) PROVE IInv'
  <2>1. UNCHANGED <<appended, trimmed, group, from, delivered, pending, mode, batch,
                    bodies, crashes, readErrors, disconnects, losses>>
        /\ mode = "reading" /\ IsFirst(e) /\ ~handled /\ handled' = TRUE
    BY <1>7 DEF Handle, redis, faults
  <2>2. e \in Entries /\ e \in from + 1 .. delivered /\ last < e
        /\ \A f \in batch : e <= f
    BY <2>1 DEF BatchIsAddressed, BatchIsAhead, IsFirst
  <2>3. CASE e \in bodies
    <3>1. attempts' = [attempts EXCEPT ![e] = @ + 1] /\ last' = e
      BY <1>7, <2>3 DEF Handle
    <3>2. /\ attempts' \in [Entries -> Nat]
          /\ attempts'[e] = attempts[e] + 1
          /\ \A f \in Entries : f # e => attempts'[f] = attempts[f]
      BY <2>2, <3>1
    <3>3. TypeOK'
      BY <2>1, <2>2, <3>1, <3>2 DEF TypeOK
    <3>4. AckedWasHandled' /\ HandledIsAttempted'
      BY <2>1, <2>2, <3>2 DEF AckedWasHandled, HandledIsAttempted, IsFirst
    <3>5. AttemptsArePaid'
      <4>1. attempts[e] <= crashes
        BY <2>1, <2>2 DEF AttemptsArePaid
      <4>2. attempts'[e] <= crashes' + 1
        BY <2>1, <2>2, <3>2, <4>1
      <4>3. \A f \in Entries \ {e} :
              attempts'[f] <= crashes + (IF mode # "dead" /\ f > last THEN 0 ELSE 1)
        BY <3>2 DEF AttemptsArePaid
      <4>4. \A f \in Entries \ {e} : attempts'[f] \in Nat
        BY <3>2
      <4>5. \A f \in Entries : f > last' => f > last /\ f # e
        BY <2>2, <3>1
      <4> QED BY <2>1, <4>2, <4>3, <4>4, <4>5 DEF AttemptsArePaid
    <3> QED BY <2>1, <2>2, <3>1, <3>3, <3>4, <3>5 DEF EmptyHanded,
       NoGroupNothingPending, BatchIsAddressed, BatchIsPending, BodilessIsTrimmed,
       BatchIsAhead, IsFirst
  <2>4. CASE e \notin bodies
    <3>1. UNCHANGED <<attempts, last>>
      BY <1>7, <2>4 DEF Handle
    <3>2. e <= trimmed
      BY <2>4 DEF BodilessIsTrimmed
    <3> QED BY <2>1, <2>2, <3>1, <3>2 DEF TypeOK, AckedWasHandled, EmptyHanded,
       NoGroupNothingPending, BatchIsAddressed, BatchIsPending, BodilessIsTrimmed,
       HandledIsAttempted, BatchIsAhead, AttemptsArePaid, IsFirst
  <2> QED BY <2>3, <2>4
<1>8. ASSUME NEW e \in batch, Ack(e) PROVE IInv'
  <2>1. UNCHANGED <<appended, trimmed, group, from, delivered, mode, last, attempts,
                    crashes, readErrors, disconnects, losses>>
        /\ mode = "reading" /\ IsFirst(e) /\ handled /\ handled' = FALSE
        /\ pending' = pending \ {e} /\ batch' = batch \ {e} /\ bodies' = bodies \ {e}
    BY <1>8 DEF Ack, faults
  <2>2. attempts[e] > 0 \/ e <= trimmed
    BY <2>1 DEF HandledIsAttempted
  <2>3. \A f \in batch \ {e} : last < f
    BY <2>1 DEF BatchIsAhead, IsFirst
  <2> QED BY <2>1, <2>2, <2>3 DEF TypeOK, AckedWasHandled, EmptyHanded,
     NoGroupNothingPending, BatchIsAddressed, BatchIsPending, BodilessIsTrimmed,
     HandledIsAttempted, BatchIsAhead, AttemptsArePaid, IsFirst
<1>9. CASE Disconnect
  <2>1. UNCHANGED <<appended, trimmed, group, from, delivered, pending, attempts,
                    crashes, readErrors, losses>>
        /\ mode' = "dead" /\ batch' = {} /\ bodies' = {} /\ handled' = FALSE
        /\ last' = 0 /\ disconnects' = disconnects + 1
    BY <1>9 DEF Disconnect, Forget, redis
  <2>2. TypeOK'
    <3>1. disconnects' \in Nat
      BY <2>1 DEF TypeOK
    <3>2. batch' \subseteq 1..delivered /\ bodies' \subseteq batch' /\ last' \in 0..delivered
      BY <2>1
    <3> QED BY <2>1, <3>1, <3>2 DEF TypeOK
  <2>3. AttemptsArePaid'
    BY <2>1 DEF AttemptsArePaid
  <2>4. AckedWasHandled'
    BY <2>1 DEF AckedWasHandled
  <2> QED BY <2>1, <2>2, <2>3, <2>4 DEF EmptyHanded,
     NoGroupNothingPending, BatchIsAddressed, BatchIsPending, BodilessIsTrimmed,
     HandledIsAttempted, BatchIsAhead
<1>10. CASE Crash
  <2>1. UNCHANGED <<appended, trimmed, group, from, delivered, pending, attempts,
                    readErrors, disconnects, losses>>
        /\ mode' = "down" /\ batch' = {} /\ bodies' = {} /\ handled' = FALSE
        /\ last' = 0 /\ crashes' = crashes + 1
    BY <1>10 DEF Crash, Forget, redis
  <2>2. TypeOK'
    <3>1. crashes' \in Nat
      BY <2>1 DEF TypeOK
    <3>2. batch' \subseteq 1..delivered /\ bodies' \subseteq batch' /\ last' \in 0..delivered
      BY <2>1
    <3> QED BY <2>1, <3>1, <3>2 DEF TypeOK
  <2>3. AttemptsArePaid'
    <3>1. \A e \in Entries : e > 0 /\ attempts[e] <= crashes'
      BY <2>1 DEF AttemptsArePaid
    <3> QED BY <2>1, <3>1 DEF AttemptsArePaid
  <2>4. AckedWasHandled'
    BY <2>1 DEF AckedWasHandled
  <2> QED BY <2>1, <2>2, <2>3, <2>4 DEF EmptyHanded,
     NoGroupNothingPending, BatchIsAddressed, BatchIsPending, BodilessIsTrimmed,
     HandledIsAttempted, BatchIsAhead
<1>11. CASE UNCHANGED vars
  BY <1>11 DEF vars, redis, task, faults, TypeOK, AckedWasHandled, EmptyHanded,
     NoGroupNothingPending, BatchIsAddressed, BatchIsPending, BodilessIsTrimmed,
     HandledIsAttempted, BatchIsAhead, AttemptsArePaid, IsFirst
<1> QED BY <1>1, <1>2, <1>3, <1>4, <1>5, <1>6, <1>7, <1>8, <1>9, <1>10, <1>11
   DEF Next, Task

THEOREM Invariance == Spec => []IInv
BY InvInit, InvStep, PTL DEF Spec

\* Every field of the state stays within its type and range.
THEOREM TypeCorrect == Spec => []TypeOK
<1>1. IInv => TypeOK
  BY DEF IInv
<1> QED BY <1>1, Invariance, PTL

\* At-least-once: no crash, disconnect or failed read takes an entry out of the
\* PEL that the handler was never given, whatever the batch size and the bounds.
THEOREM AtLeastOnceTheorem == Spec => []AckedWasHandled
<1>1. IInv => AckedWasHandled
  BY DEF IInv
<1> QED BY <1>1, Invariance, PTL

\* The handler sees an entry at most once per life of the process.
THEOREM RedeliveryTheorem == Spec => []RedeliveryNeedsRestart
<1>1. IInv => RedeliveryNeedsRestart
  <2> SUFFICES ASSUME IInv, NEW e \in Entries PROVE attempts[e] <= 1 + crashes
    BY DEF RedeliveryNeedsRestart
  <2>1. attempts[e] \in Nat /\ crashes \in Nat
    BY DEF IInv, TypeOK
  <2> QED BY <2>1 DEF IInv, AttemptsArePaid
<1> QED BY <1>1, Invariance, PTL

\* One process hands the entries to the handler in stream order.
THEOREM OrderTheorem == Spec => []HandlesInOrder
<1>1. IInv => HandlesInOrder
  BY DEF IInv, BatchIsAhead, HandlesInOrder
<1> QED BY <1>1, Invariance, PTL

-----------------------------------------------------------------------------
(***************************************************************************)
(* The consumer implements AtLeastOnce.                                    *)
(***************************************************************************)
Attempted == {e \in Entries : attempts[e] > 0}
Settled == (from + 1 .. delivered) \ (pending \cup batch)

LEMMA PromiseStep ==
  ASSUME IInv, [Next]_vars
  PROVE  [Promise!Next]_(Promise!vars)
<1> DEFINE promised == <<appended, trimmed, from, Attempted, Settled>>
           Done == /\ Settled \subseteq Settled' /\ Settled' \subseteq from + 1 .. appended
                   /\ \A e \in Settled' \ Settled : e \in Attempted \/ e <= trimmed
                   /\ UNCHANGED <<appended, trimmed, from, Attempted>>
<1>s. promised' = promised => UNCHANGED Promise!vars
  BY DEF Promise!vars, Attempted, Settled
<1>d. Done => Promise!Next
  BY DEF Promise!Next, Promise!Settle, Promise!Addressed, Attempted, Settled
<1>t. /\ appended \in Nat /\ trimmed \in Nat /\ from \in Nat /\ delivered \in Nat
      /\ trimmed <= appended /\ from <= delivered /\ delivered <= appended
      /\ appended <= MaxEntries /\ MaxEntries \in Nat
      /\ batch \subseteq Nat /\ pending \subseteq Nat
      /\ attempts \in [Entries -> Nat]
      /\ batch \subseteq from + 1 .. delivered
  BY BoundsAssumption DEF IInv, TypeOK, BatchIsAddressed, Entries
<1> USE <1>t
<1>1. CASE Append
  <2>1. /\ appended' \in {appended, appended + 1} /\ trimmed' \in trimmed..appended'
        /\ UNCHANGED <<from, delivered, pending, batch, attempts>>
    BY <1>1 DEF Append, task
  <2> QED BY <2>1 DEF Promise!Next, Promise!Grow
<1>2. CASE LoseStream
  <2>1. /\ trimmed' = appended /\ pending' = {}
        /\ UNCHANGED <<appended, from, delivered, batch, attempts>>
    BY <1>2 DEF LoseStream, task
  <2> QED BY <2>1 DEF Promise!Next, Promise!Lose, Promise!Addressed
<1>3. CASE Start
  <2>1. UNCHANGED <<appended, trimmed, pending, batch, attempts>>
    BY <1>3 DEF Start
  <2>2. CASE group
    BY <1>3, <1>s, <2>1, <2>2 DEF Start, Attempted, Settled
  <2>3. CASE ~group
    <3>1. from' = appended /\ delivered' = appended
      BY <1>3, <2>3 DEF Start
    <3>2. Settled' = {}
      BY <2>1, <3>1 DEF Settled
    <3> QED BY <2>1, <3>1, <3>2 DEF Promise!Next, Promise!Join, Settled
  <2> QED BY <2>2, <2>3
<1>4. CASE ReadPending
  <2>1. /\ batch' \subseteq pending /\ batch = {}
        /\ UNCHANGED <<appended, trimmed, from, delivered, pending, attempts>>
    BY <1>4 DEF ReadPending, Smallest, redis, IInv, EmptyHanded
  <2> QED BY <1>s, <2>1 DEF Attempted, Settled
<1>5. CASE ReadPendingFails
  BY <1>5, <1>s DEF ReadPendingFails, redis, Attempted, Settled
<1>6. CASE ReadNew
  <2>1. /\ batch = {} /\ pending' = pending \cup batch'
        /\ UNCHANGED <<appended, trimmed, from, attempts>>
    BY <1>6 DEF ReadNew
  <2>2. /\ batch' \subseteq delivered + 1 .. delivered'
        /\ delivered' \in delivered + 1 .. appended
        /\ \A e \in delivered + 1 .. delivered' : e \in batch' \/ e <= trimmed
    BY <1>6, ReadNewTakesAll DEF IInv
  <2>3. Attempted' = Attempted
    BY <2>1 DEF Attempted
  <2>4. Done
    BY <2>1, <2>2, <2>3 DEF Settled
  <2> QED BY <1>d, <2>4
<1>7. ASSUME NEW e \in batch, Handle(e) PROVE [Promise!Next]_(Promise!vars)
  <2>1. UNCHANGED <<appended, trimmed, from, delivered, pending, batch>>
    BY <1>7 DEF Handle, redis
  <2>2. Settled' = Settled /\ e \in (from + 1 .. appended) \ Settled /\ e \in Entries
    BY <2>1 DEF Settled, Entries
  <2>3. CASE e \in bodies
    <3>1. attempts' = [attempts EXCEPT ![e] = @ + 1]
      BY <1>7, <2>3 DEF Handle
    <3>2. Attempted' = Attempted \cup {e}
      BY <2>2, <3>1 DEF Attempted
    <3> QED BY <2>1, <2>2, <3>2 DEF Promise!Next, Promise!Attempt, Promise!Addressed,
       Attempted, Settled
  <2>4. CASE e \notin bodies
    BY <1>7, <1>s, <2>1, <2>2, <2>4 DEF Handle, Attempted
  <2> QED BY <2>3, <2>4
<1>8. ASSUME NEW e \in batch, Ack(e) PROVE [Promise!Next]_(Promise!vars)
  <2>1. /\ handled /\ IsFirst(e) /\ pending' = pending \ {e} /\ batch' = batch \ {e}
        /\ UNCHANGED <<appended, trimmed, from, delivered, attempts>>
    BY <1>8 DEF Ack
  <2>2. attempts[e] > 0 \/ e <= trimmed
    BY <2>1 DEF IInv, HandledIsAttempted
  <2>3. Attempted' = Attempted /\ Settled' = Settled \cup {e}
    BY <2>1 DEF Attempted, Settled
  <2>4. e \in from + 1 .. appended /\ e \in Entries /\ Settled \subseteq from + 1 .. appended
    BY DEF Settled, Entries
  <2>5. Done
    BY <2>1, <2>2, <2>3, <2>4 DEF Attempted
  <2> QED BY <1>d, <2>5
<1>9. ASSUME Disconnect \/ Crash PROVE [Promise!Next]_(Promise!vars)
  <2>1. batch' = {} /\ UNCHANGED <<appended, trimmed, from, delivered, pending, attempts>>
    BY <1>9 DEF Disconnect, Crash, Forget, redis
  <2>2. \A e \in batch : e \in pending \/ e <= trimmed
    BY DEF IInv, BatchIsPending
  <2>3. Attempted' = Attempted
    BY <2>1 DEF Attempted
  <2>4. Done
    BY <2>1, <2>2, <2>3 DEF Settled
  <2> QED BY <1>d, <2>4
<1>10. CASE UNCHANGED vars
  BY <1>10, <1>s DEF vars, redis, task, Attempted, Settled
<1> QED BY <1>1, <1>2, <1>3, <1>4, <1>5, <1>6, <1>7, <1>8, <1>9, <1>10 DEF Next, Task

\* Refinement: every behaviour of the consumer is one of AtLeastOnce.
THEOREM PromiseTheorem == Spec => PromiseKept
<1>1. Init => Promise!Init
  BY BoundsAssumption DEF Init, Promise!Init, Entries
<1>2. IInv /\ [Next]_vars => [Promise!Next]_(Promise!vars)
  BY PromiseStep
<1> QED BY <1>1, <1>2, Invariance, PTL DEF Spec, PromiseKept, Promise!Spec

=============================================================================

-------------------------- MODULE LiveGatewayProofs --------------------------
(***************************************************************************)
(* Proofs about LiveGateway and ReplayBuffer for any number of polls,      *)
(* connections, restarts and failures of the subscription, and any sizes   *)
(* of the queue, the replay buffer, a read and a transport window.         *)
(***************************************************************************)
EXTENDS LiveGateway, SequenceTheorems, WellFoundedInduction, TLAPS

(***************************************************************************)
(* The strengthening.                                                      *)
(***************************************************************************)

\* Numbers are published in growing order, each at most once.
StreamOK ==
  /\ Increasing(stream)
  /\ \A n \in Elems(stream) : n <= sequence /\ (poll = "numbered" => n < sequence)
  /\ poll = "applied" => sequence < MaxSequence
  /\ poll = "numbered" => sequence > 0

\* The entries that the listener has still to read.
Unread == {stream[i] : i \in position + 1 .. Len(stream)}

\* What the hub has taken is older than what it has queued, and that is older than
\* what the listener has still to read, also after a failure of the subscription.
QueueOK ==
  /\ Increasing(queue)
  /\ Elems(queue) \cup processed \subseteq Elems(stream)
  /\ \A m \in processed, n \in Elems(queue) : m < n
  /\ \A m \in processed \cup Elems(queue), n \in Unread : m < n

\* The buffer holds the newest of what the hub has processed.
BufferOK ==
  /\ Increasing(buffer)
  /\ Elems(buffer) \subseteq processed
  /\ processed # {} => buffer # <<>>
  /\ \A n \in processed : n \in Elems(buffer) \/ n < buffer[1]

\* A broadcast is of a message that the hub has processed.
BroadcastOK == (targets \cup dead # {}) => sending \in processed

\* Only a handler that has reached its receive loop is known to the hub.
SessionsOK ==
  /\ conn <= opened
  /\ \A k \in Conns :
       /\ k > opened => session[k] = "unused"
       /\ k \in registry => session[k] = "serving"
       /\ k \in targets \cup dead => session[k] \in {"serving", "closed"}
       /\ session[k] # "replaying" => todo[k] = <<>>
       /\ session[k] \in {"unused", "subscribing", "snapshotting"} => wire[k] = <<>>
       /\ k # conn => wire[k] = <<>>

\* A snapshot is the first frame of its connection.
OnlyFirst(frames) == \A i \in DOMAIN frames : ~IsUpdate(frames[i]) => i = 1

WireOK ==
  \A k \in Conns :
    /\ OnlyFirst(wire[k])
    /\ Updates(wire[k]) \cup Elems(todo[k]) \subseteq processed

\* What a registered client has in its table is not undone by a snapshot under way.
KeptOrUnderWay ==
  (conn \in registry) =>
    \A s \in processed \ joined[conn] :
      \/ s \in seen /\ (wire[conn] # <<>> => IsUpdate(wire[conn][1]))
      \/ Update(s) \in Elems(wire[conn])
      \/ s = sending /\ conn \in targets \cup dead

\* The entries that the listener has gone past.
Passed == {stream[i] : i \in 1..position}

\* What the running replica still has, or had, in its hands.
Taken == processed \cup Elems(queue)

\* An entry that was neither taken nor let go by since the replica started was lost to
\* a restart, so it is older than everything the replica has taken.
LostOK ==
  /\ Taken \subseteq Passed /\ missed \subseteq Passed
  /\ missed \cap Taken = {}
  /\ \A s \in Passed \ (missed \cup Taken), n \in Taken : s < n

IInv ==
  /\ TypeOK
  /\ StreamOK /\ QueueOK /\ BufferOK
  /\ BroadcastOK /\ SessionsOK /\ WireOK /\ WireIsOrdered /\ KeptOrUnderWay

-----------------------------------------------------------------------------
(***************************************************************************)
(* Induction over the naturals, by their least counterexample.             *)
(***************************************************************************)
LessThan == {p \in Nat \X Nat : p[1] < p[2]}

LEMMA NatIsInductive ==
  ASSUME NEW S \in SUBSET Nat, 0 \in S, \A n \in S : n + 1 \in S
  PROVE  S = Nat
<1> SUFFICES ASSUME S # Nat PROVE FALSE
  OBVIOUS
<1>1. IsWellFoundedOn(LessThan, Nat)
  BY NatLessThanWellFounded DEF OpToRel, LessThan
<1>2. Nat \ S \subseteq Nat /\ Nat \ S # {}
  OBVIOUS
<1>3. PICK n \in Nat \ S : \A m \in Nat \ S : ~ (<<m, n>> \in LessThan)
  BY <1>1, <1>2, WFMin
<1>4. n \in Nat /\ n # 0 /\ n - 1 \in Nat /\ (n - 1) + 1 = n /\ n - 1 < n
  BY <1>3
<1>5. <<n - 1, n>> \in LessThan
  BY <1>4 DEF LessThan
<1>6. n - 1 \in S
  BY <1>3, <1>4, <1>5
<1> QED BY <1>3, <1>4, <1>6

(***************************************************************************)
(* The replay buffer.                                                      *)
(***************************************************************************)

\* The function that Later defines, on the first n members.
Filters(kept, members, last, n) ==
  kept = [i \in 0..n |->
            IF i = 0 THEN <<>>
            ELSE IF members[i] > last THEN Append(kept[i - 1], members[i]) ELSE kept[i - 1]]

LEMMA FilterExists ==
  ASSUME NEW members, NEW last
  PROVE  \A n \in Nat : \E kept : Filters(kept, members, last, n)
<1> DEFINE S == {n \in Nat : \E kept : Filters(kept, members, last, n)}
<1>1. 0 \in S
  <2> DEFINE kept == [i \in 0..0 |-> <<>>]
  <2>1. Filters(kept, members, last, 0)
    BY DEF Filters
  <2> QED BY <2>1
<1>2. ASSUME NEW n \in S PROVE n + 1 \in S
  <2>1. n \in Nat
    OBVIOUS
  <2>2. PICK kept : Filters(kept, members, last, n)
    BY <1>2
  <2> DEFINE longer == [i \in 0..(n + 1) |->
               IF i = n + 1
               THEN IF members[i] > last THEN Append(kept[n], members[i]) ELSE kept[n]
               ELSE kept[i]]
             filtered == [i \in 0..(n + 1) |->
               IF i = 0 THEN <<>>
               ELSE IF members[i] > last THEN Append(longer[i - 1], members[i])
                                         ELSE longer[i - 1]]
  <2>3. ASSUME NEW i \in 0..(n + 1) PROVE longer[i] = filtered[i]
    <3>1. CASE i = n + 1
      BY <2>1, <3>1
    <3>2. CASE i # n + 1
      <4>1. /\ i \in 0..n /\ longer[i] = kept[i]
            /\ i # 0 => i - 1 \in 0..n /\ longer[i - 1] = kept[i - 1]
        BY <2>1, <3>2
      <4>2. kept[i] = IF i = 0 THEN <<>>
                      ELSE IF members[i] > last THEN Append(kept[i - 1], members[i])
                                                ELSE kept[i - 1]
        BY <2>2, <4>1 DEF Filters
      <4>3. filtered[i] = IF i = 0 THEN <<>>
                          ELSE IF members[i] > last THEN Append(longer[i - 1], members[i])
                                                    ELSE longer[i - 1]
        OBVIOUS
      <4> HIDE DEF longer, filtered
      <4> QED BY <4>1, <4>2, <4>3, Zenon
    <3> QED BY <3>1, <3>2
  <2>4. longer = filtered
    BY <2>3
  <2>5. Filters(longer, members, last, n + 1)
    BY <2>4 DEF Filters
  <2> QED BY <2>1, <2>5
<1> QED BY <1>1, <1>2, NatIsInductive

\* Later returns exactly the members that are newer, in the order of the buffer.
LEMMA LaterFacts ==
  ASSUME NEW members \in Seq(Numbers), NEW last \in Nat, Increasing(members)
  PROVE  /\ Later(members, last) \in Seq(Numbers)
         /\ Elems(Later(members, last)) = {n \in Elems(members) : n > last}
         /\ Increasing(Later(members, last))
<1> DEFINE kept == CHOOSE f : Filters(f, members, last, Len(members))
           \* What the first i steps are to have kept.
           Right(i) == /\ kept[i] \in Seq(Numbers)
                       /\ Elems(kept[i]) = {n \in {members[j] : j \in 1..i} : n > last}
                       /\ Increasing(kept[i])
           S == {i \in Nat : i <= Len(members) => Right(i)}
<1>1. Len(members) \in Nat /\ DOMAIN members = 1..Len(members)
      /\ \A i \in 1..Len(members) : members[i] \in Numbers /\ members[i] \in Nat
  BY LenProperties, ElementOfSeq, SizesAssumption DEF Numbers
<1>2. Filters(kept, members, last, Len(members))
  BY <1>1, FilterExists
<1>3. Later(members, last) = kept[Len(members)]
  BY DEF Later, Filters
<1> HIDE DEF kept
<1>4. kept[0] = <<>>
  BY <1>1, <1>2 DEF Filters
<1>5. ASSUME NEW i \in 1..Len(members)
      PROVE  kept[i] = IF members[i] > last THEN Append(kept[i - 1], members[i])
                                            ELSE kept[i - 1]
  <2>1. i \in 0..Len(members) /\ i # 0
    BY <1>1
  <2> QED BY <2>1, <1>2 DEF Filters
<1>6. 0 \in S
  <2>1. <<>> \in Seq(Numbers) /\ DOMAIN <<>> = {} /\ 1..0 = {}
    BY EmptySeq
  <2>2. Right(0)
    BY <1>4, <2>1 DEF Elems, Increasing
  <2> QED BY <2>2
<1>7. ASSUME NEW i \in S PROVE i + 1 \in S
  <2> SUFFICES ASSUME i + 1 <= Len(members) PROVE Right(i + 1)
    OBVIOUS
  <2>1. i \in Nat /\ i + 1 \in 1..Len(members) /\ (i + 1) - 1 = i /\ i <= Len(members)
    BY <1>1
  <2>2. Right(i)
    BY <1>7, <2>1
  <2> DEFINE m == members[i + 1]
  <2>3. {members[j] : j \in 1..(i + 1)} = {members[j] : j \in 1..i} \cup {m}
    BY <2>1
  <2>4. m \in Numbers /\ m \in Nat
    BY <1>1, <2>1
  <2>5. CASE m > last
    <3>1. kept[i + 1] = Append(kept[i], m)
      BY <1>5, <2>1, <2>5
    <3>2. /\ Append(kept[i], m) \in Seq(Numbers)
          /\ Len(Append(kept[i], m)) = Len(kept[i]) + 1
          /\ \A j \in 1..Len(kept[i]) : Append(kept[i], m)[j] = kept[i][j]
          /\ Append(kept[i], m)[Len(kept[i]) + 1] = m
      BY <2>2, <2>4, AppendProperties
    <3>3. /\ Len(kept[i]) \in Nat /\ DOMAIN kept[i] = 1..Len(kept[i])
          /\ DOMAIN kept[i + 1] = 1..(Len(kept[i]) + 1)
      BY <2>2, <3>1, <3>2, LenProperties
    <3>4. Elems(kept[i + 1]) = Elems(kept[i]) \cup {m}
      BY <3>1, <3>2, <3>3 DEF Elems
    <3>5. Elems(kept[i + 1]) = {n \in {members[j] : j \in 1..(i + 1)} : n > last}
      BY <2>2, <2>3, <2>5, <3>4
    <3>6. \A n \in Elems(kept[i]) : n < m
      <4> SUFFICES ASSUME NEW n \in Elems(kept[i]) PROVE n < m
        OBVIOUS
      <4>1. PICK j \in 1..i : n = members[j]
        BY <2>2
      <4>2. j \in DOMAIN members /\ i + 1 \in DOMAIN members /\ j < i + 1
        BY <1>1, <2>1
      <4> QED BY <4>1, <4>2 DEF Increasing
    <3>7. Increasing(kept[i + 1])
      <4> SUFFICES ASSUME NEW a \in 1..(Len(kept[i]) + 1), NEW b \in 1..(Len(kept[i]) + 1), a < b
                   PROVE  kept[i + 1][a] < kept[i + 1][b]
        BY <3>3 DEF Increasing
      <4>1. a \in 1..Len(kept[i]) /\ kept[i + 1][a] = kept[i][a]
        BY <3>1, <3>2, <3>3
      <4>2. CASE b = Len(kept[i]) + 1
        BY <4>1, <4>2, <3>1, <3>2, <3>3, <3>6 DEF Elems
      <4>3. CASE b # Len(kept[i]) + 1
        <5>1. b \in 1..Len(kept[i]) /\ kept[i + 1][b] = kept[i][b]
          BY <4>3, <3>1, <3>2, <3>3
        <5> QED BY <4>1, <5>1, <2>2, <3>3 DEF Increasing
      <4> QED BY <4>2, <4>3
    <3> QED BY <3>1, <3>2, <3>5, <3>7
  <2>6. CASE ~(m > last)
    <3>1. kept[i + 1] = kept[i]
      BY <1>5, <2>1, <2>6
    <3>2. {n \in {members[j] : j \in 1..(i + 1)} : n > last}
             = {n \in {members[j] : j \in 1..i} : n > last}
      BY <2>3, <2>6
    <3> QED BY <2>2, <3>1, <3>2
  <2> QED BY <2>5, <2>6
<1>8. S = Nat
  <2> HIDE DEF S
  <2>1. S \in SUBSET Nat
    BY DEF S
  <2> QED BY <1>6, <1>7, <2>1, NatIsInductive
<1>9. Right(Len(members))
  <2>1. Len(members) \in S
    BY <1>1, <1>8
  <2> HIDE DEF Right
  <2> QED BY <1>1, <2>1
<1> QED BY <1>1, <1>3, <1>9 DEF Elems

LEMMA SequenceOfNumbers ==
  ASSUME NEW s \in Seq(Numbers)
  PROVE  /\ Len(s) \in Nat /\ DOMAIN s = 1..Len(s)
         /\ \A i \in 1..Len(s) : s[i] \in Numbers /\ s[i] \in Nat
         /\ Elems(s) \subseteq Numbers /\ Elems(s) \subseteq Nat
         /\ s = <<>> <=> Len(s) = 0
         /\ s = <<>> <=> Elems(s) = {}
<1>1. /\ Len(s) \in Nat /\ DOMAIN s = 1..Len(s)
      /\ \A i \in 1..Len(s) : s[i] \in Numbers /\ s[i] \in Nat
  BY LenProperties, ElementOfSeq, SizesAssumption DEF Numbers
<1>2. s = <<>> <=> Len(s) = 0
  BY EmptySeq
<1>3. s # <<>> => 1 \in DOMAIN s
  BY <1>1, <1>2
<1>4. s = <<>> => DOMAIN s = {}
  BY <1>1, <1>2
<1> QED BY <1>1, <1>2, <1>3, <1>4 DEF Elems

\* since() answers with exactly the buffered updates after last_seq, or not at all.
LEMMA SinceFacts ==
  ASSUME NEW members \in Seq(Numbers), NEW last \in Nat, Increasing(members),
         Since(members, last) # Unbridgeable
  PROVE  /\ Since(members, last) \in Seq(Numbers)
         /\ Increasing(Since(members, last))
         /\ Elems(Since(members, last)) = {n \in Elems(members) : n > last}
         /\ members # <<>>
         /\ last >= Newest(members) \/ last + 1 >= Oldest(members)
<1>1. members # <<>>
  BY DEF Since
<1>2. CASE last >= Newest(members)
  <2>1. Since(members, last) = <<>>
    BY <1>1, <1>2 DEF Since
  <2>2. \A n \in Elems(members) : ~(n > last)
    <3> SUFFICES ASSUME NEW i \in DOMAIN members PROVE ~(members[i] > last)
      BY DEF Elems
    <3>1. /\ i \in 1..Len(members) /\ Len(members) \in DOMAIN members
          /\ Len(members) \in Nat /\ members[i] \in Nat /\ members[Len(members)] \in Nat
      BY <1>1, SequenceOfNumbers
    <3>2. members[i] <= members[Len(members)]
      BY <3>1 DEF Increasing
    <3> QED BY <3>1, <3>2, <1>2 DEF Newest
  <2>3. Elems(<<>>) = {} /\ Increasing(<<>>) /\ <<>> \in Seq(Numbers)
    BY EmptySeq DEF Elems, Increasing
  <2> QED BY <1>1, <1>2, <2>1, <2>2, <2>3
<1>3. CASE ~(last >= Newest(members))
  <2>1. ~(last + 1 < Oldest(members)) /\ Since(members, last) = Later(members, last)
    BY <1>1, <1>3 DEF Since
  <2>2. Oldest(members) \in Nat
    BY <1>1, SequenceOfNumbers DEF Oldest
  <2>3. last + 1 >= Oldest(members)
    BY <2>1, <2>2
  <2>4. /\ Later(members, last) \in Seq(Numbers)
        /\ Elems(Later(members, last)) = {n \in Elems(members) : n > last}
        /\ Increasing(Later(members, last))
    BY LaterFacts
  <2> QED BY <1>1, <2>1, <2>3, <2>4, Zenon
<1> QED BY <1>2, <1>3

LEMMA AppendNumber ==
  ASSUME NEW s \in Seq(Numbers), NEW n \in Numbers
  PROVE  /\ Append(s, n) \in Seq(Numbers)
         /\ Len(Append(s, n)) = Len(s) + 1
         /\ \A i \in 1..Len(s) : Append(s, n)[i] = s[i]
         /\ Append(s, n)[Len(s) + 1] = n
         /\ Elems(Append(s, n)) = Elems(s) \cup {n}
         /\ Increasing(s) /\ (\A m \in Elems(s) : m < n) => Increasing(Append(s, n))
<1> DEFINE t == Append(s, n)
<1>1. /\ t \in Seq(Numbers) /\ Len(t) = Len(s) + 1
      /\ \A i \in 1..Len(s) : t[i] = s[i]
      /\ t[Len(s) + 1] = n
  BY AppendProperties
<1> HIDE DEF t
<1>2. Len(s) \in Nat /\ DOMAIN s = 1..Len(s) /\ DOMAIN t = 1..(Len(s) + 1)
  BY <1>1, SequenceOfNumbers
<1>3. Elems(t) = Elems(s) \cup {n}
  BY <1>1, <1>2 DEF Elems
<1>4. ASSUME Increasing(s), \A m \in Elems(s) : m < n
      PROVE  Increasing(t)
  <2> SUFFICES ASSUME NEW i \in DOMAIN t, NEW j \in DOMAIN t, i < j
               PROVE  t[i] < t[j]
    BY DEF Increasing
  <2>1. i \in DOMAIN s /\ t[i] = s[i]
    BY <1>1, <1>2
  <2>2. CASE j = Len(s) + 1
    BY <2>1, <2>2, <1>1, <1>4 DEF Elems
  <2>3. CASE j # Len(s) + 1
    BY <2>1, <2>3, <1>1, <1>2, <1>4 DEF Increasing
  <2> QED BY <2>2, <2>3
<1> QED BY <1>1, <1>3, <1>4 DEF t

LEMMA TailNumbers ==
  ASSUME NEW s \in Seq(Numbers), s # <<>>
  PROVE  /\ Head(s) \in Numbers /\ Head(s) = s[1] /\ Head(s) \in Elems(s)
         /\ Tail(s) \in Seq(Numbers) /\ Len(Tail(s)) = Len(s) - 1
         /\ Elems(s) = {Head(s)} \cup Elems(Tail(s))
         /\ Increasing(s) => Increasing(Tail(s)) /\ \A m \in Elems(Tail(s)) : Head(s) < m
<1> DEFINE t == Tail(s)
<1>1. /\ Head(s) \in Numbers
      /\ t \in Seq(Numbers) /\ Len(t) = Len(s) - 1
      /\ \A i \in 1..Len(t) : t[i] = s[i + 1]
  BY HeadTailProperties
<1>2. Head(s) = s[1]
  OBVIOUS
<1> HIDE DEF t
<1>3. /\ Len(s) \in Nat /\ Len(s) > 0 /\ 1 \in DOMAIN s
      /\ DOMAIN s = 1..Len(s) /\ DOMAIN t = 1..(Len(s) - 1)
      /\ \A i \in DOMAIN t : i + 1 \in DOMAIN s
  BY <1>1, SequenceOfNumbers
<1>4. Elems(s) = {s[1]} \cup Elems(t)
  <2>1. ASSUME NEW i \in DOMAIN s PROVE s[i] = s[1] \/ s[i] \in Elems(t)
    <3>1. i # 1 => i - 1 \in DOMAIN t /\ t[i - 1] = s[i]
      BY <1>1, <1>3
    <3> QED BY <3>1 DEF Elems
  <2>2. ASSUME NEW i \in DOMAIN t PROVE t[i] \in Elems(s)
    BY <1>1, <1>3 DEF Elems
  <2>3. s[1] \in Elems(s)
    BY <1>3 DEF Elems
  <2>4. Elems(s) \subseteq {s[1]} \cup Elems(t)
    BY <2>1 DEF Elems
  <2>5. Elems(t) \subseteq Elems(s)
    BY <2>2 DEF Elems
  <2> QED BY <2>3, <2>4, <2>5
<1>5. ASSUME Increasing(s) PROVE Increasing(t) /\ \A m \in Elems(t) : s[1] < m
  <2>1. \A i, j \in DOMAIN t : i < j => t[i] < t[j]
    BY <1>1, <1>3, <1>5 DEF Increasing
  <2>2. \A i \in DOMAIN t : s[1] < t[i]
    BY <1>1, <1>3, <1>5 DEF Increasing
  <2> QED BY <2>1, <2>2 DEF Increasing, Elems
<1> QED BY <1>1, <1>2, <1>4, <1>5 DEF t, Elems

\* add() keeps the newest updates: what it evicts is older than what it keeps.
LEMMA AddFacts ==
  ASSUME NEW members \in Seq(Numbers), NEW n \in Numbers,
         Len(members) <= BufferSize, Increasing(members), \A m \in Elems(members) : m < n
  PROVE  /\ Add(members, n) \in Seq(Numbers) /\ Len(Add(members, n)) <= BufferSize
         /\ Increasing(Add(members, n))
         /\ Add(members, n) # <<>>
         /\ Elems(Add(members, n)) \subseteq Elems(members) \cup {n}
         /\ \A m \in Elems(members) \cup {n} :
              m \in Elems(Add(members, n)) \/ m < Add(members, n)[1]
         /\ members # <<>> => members[1] <= Add(members, n)[1]
<1> DEFINE full == Append(members, n)
<1>1. /\ full \in Seq(Numbers) /\ Len(full) = Len(members) + 1
      /\ Elems(full) = Elems(members) \cup {n}
      /\ Increasing(full)
      /\ Len(members) \in Nat /\ BufferSize \in Nat /\ BufferSize > 0
      /\ members # <<>> => full[1] = members[1]
  BY AppendNumber, SequenceOfNumbers, BufferSizeAssumption
<1>3. Add(members, n) = IF Len(full) > BufferSize THEN Tail(full) ELSE full
  BY DEF Add
<1> HIDE DEF full
<1>2. full # <<>> /\ full[1] \in Nat
  <2>1. 1 \in 1..Len(full)
    BY <1>1
  <2> QED BY <1>1, <2>1, SequenceOfNumbers
<1>4. CASE Len(full) > BufferSize
  <2> DEFINE kept == Tail(full)
  <2>1. /\ kept \in Seq(Numbers) /\ Len(kept) = Len(full) - 1
        /\ Elems(full) = {full[1]} \cup Elems(kept)
        /\ Increasing(kept) /\ \A m \in Elems(kept) : full[1] < m
    BY <1>1, <1>2, TailNumbers
  <2>4. Add(members, n) = kept
    BY <1>3, <1>4
  <2> HIDE DEF kept
  <2>2. kept # <<>> /\ kept[1] \in Elems(kept)
    <3>1. kept # <<>>
      BY <1>1, <1>4, <2>1, SequenceOfNumbers
    <3>2. 1 \in DOMAIN kept
      BY <2>1, <3>1, SequenceOfNumbers
    <3> QED BY <3>1, <3>2 DEF Elems
  <2>3. full[1] < kept[1] /\ kept[1] \in Nat
    BY <2>1, <2>2, SequenceOfNumbers
  <2> QED BY <1>1, <1>2, <2>1, <2>2, <2>3, <2>4
<1>5. CASE ~(Len(full) > BufferSize)
  BY <1>1, <1>2, <1>3, <1>5
<1> QED BY <1>4, <1>5

LEMMA Intervals ==
  ASSUME NEW a \in Nat, NEW b \in Nat, NEW c \in Nat, a <= b, b <= c
  PROVE  /\ \A i \in a + 1 .. b : i \in a + 1 .. c /\ i \in 1..c
         /\ \A j \in b + 1 .. c : j \in a + 1 .. c /\ j \in 1..c
         /\ \A i \in a + 1 .. b, j \in b + 1 .. c : i < j
OBVIOUS

\* A read returns the next entries of the stream.
LEMMA ReadFacts ==
  ASSUME NEW s \in Seq(Numbers), NEW first \in Nat, NEW last \in Nat,
         first <= last, last <= Len(s), Increasing(s)
  PROVE  /\ SubSeq(s, first + 1, last) \in Seq(Numbers)
         /\ Increasing(SubSeq(s, first + 1, last))
         /\ Elems(SubSeq(s, first + 1, last)) = {s[i] : i \in first + 1 .. last}
<1> DEFINE batch == SubSeq(s, first + 1, last)
<1>1. /\ Len(s) \in Nat /\ DOMAIN s = 1..Len(s)
      /\ \A i \in 1..Len(s) : s[i] \in Numbers
  BY SequenceOfNumbers
<1>2. first + 1 \in Int /\ last \in Int /\ \A i \in first + 1 .. last : s[i] \in Numbers
  BY <1>1
<1>3. /\ batch \in Seq(Numbers)
      /\ Len(batch) = IF first + 1 <= last THEN last - (first + 1) + 1 ELSE 0
      /\ \A i \in 1..(last - (first + 1) + 1) : batch[i] = s[first + 1 + i - 1]
  BY <1>2, SubSeqProperties
<1> HIDE DEF batch
<1>4. Len(batch) = last - first /\ DOMAIN batch = 1..(last - first)
  BY <1>3, SequenceOfNumbers
<1>5. ASSUME NEW i \in DOMAIN batch
      PROVE  /\ batch[i] = s[first + i]
             /\ first + i \in first + 1 .. last /\ first + i \in DOMAIN s /\ i \in Nat
  <2>1. /\ i \in 1..(last - (first + 1) + 1) /\ first + 1 + i - 1 = first + i
        /\ first + i \in first + 1 .. last /\ first + i \in DOMAIN s /\ i \in Nat
    BY <1>1, <1>4
  <2> QED BY <1>3, <2>1
<1>6. ASSUME NEW i \in first + 1 .. last
      PROVE  i - first \in DOMAIN batch /\ batch[i - first] = s[i]
  <2>1. i - first \in DOMAIN batch /\ first + (i - first) = i
    BY <1>4
  <2> QED BY <1>5, <2>1
<1>7. Elems(batch) = {s[i] : i \in first + 1 .. last}
  BY <1>5, <1>6 DEF Elems
<1>8. Increasing(batch)
  <2> SUFFICES ASSUME NEW i \in DOMAIN batch, NEW j \in DOMAIN batch, i < j
               PROVE  batch[i] < batch[j]
    BY DEF Increasing
  <2>1. first + i < first + j
    BY <1>5
  <2> QED BY <1>5, <2>1 DEF Increasing
<1> QED BY <1>3, <1>7, <1>8 DEF batch

\* What the listener puts into the queue follows what is there.
LEMMA EnqueueFacts ==
  ASSUME NEW q \in Seq(Numbers), NEW batch \in Seq(Numbers), Len(q) <= QueueSize,
         Increasing(q), Increasing(batch), \A m \in Elems(q), n \in Elems(batch) : m < n
  PROVE  /\ Enqueue(q, batch) \in Seq(Numbers) /\ Len(Enqueue(q, batch)) <= QueueSize
         /\ Increasing(Enqueue(q, batch))
         /\ Elems(Enqueue(q, batch)) \subseteq Elems(q) \cup Elems(batch)
         /\ Elems(q) \subseteq Elems(Enqueue(q, batch))
<1> DEFINE room == Least(Len(batch), QueueSize - Len(q))
           taken == SubSeq(batch, 1, room)
           longer == q \o taken
<1>1. /\ Len(q) \in Nat /\ Len(batch) \in Nat /\ QueueSize \in Nat
      /\ DOMAIN q = 1..Len(q) /\ DOMAIN batch = 1..Len(batch)
      /\ \A i \in 1..Len(batch) : batch[i] \in Numbers
  BY SequenceOfNumbers, SizesAssumption
<1>2. room \in Nat /\ room <= Len(batch) /\ Len(q) + room <= QueueSize
  BY <1>1 DEF Least
<1> HIDE DEF room
<1>3. /\ taken \in Seq(Numbers) /\ Len(taken) = room
      /\ \A i \in 1..room : taken[i] = batch[i]
  <2>1. /\ 1 \in Int /\ room \in Int /\ \A i \in 1..room : batch[i] \in Numbers
    BY <1>1, <1>2
  <2>2. /\ taken \in Seq(Numbers)
        /\ Len(taken) = IF 1 <= room THEN room - 1 + 1 ELSE 0
        /\ \A i \in 1..(room - 1 + 1) : taken[i] = batch[1 + i - 1]
    BY <2>1, SubSeqProperties
  <2> QED BY <1>2, <2>2
<1> HIDE DEF taken
<1>4. /\ longer \in Seq(Numbers) /\ Len(longer) = Len(q) + room
      /\ \A i \in 1..(Len(q) + room) :
            longer[i] = IF i <= Len(q) THEN q[i] ELSE taken[i - Len(q)]
  BY <1>3, ConcatProperties
<1>5. Enqueue(q, batch) = longer
  BY DEF Enqueue, room, taken
<1> HIDE DEF longer
<1>6. DOMAIN longer = 1..(Len(q) + room)
  BY <1>4, SequenceOfNumbers
<1>7. ASSUME NEW i \in DOMAIN longer
      PROVE  \/ i \in DOMAIN q /\ longer[i] = q[i]
             \/ /\ i > Len(q) /\ i - Len(q) \in DOMAIN batch
                /\ longer[i] = batch[i - Len(q)]
  BY <1>1, <1>2, <1>3, <1>4, <1>6
<1>8. Elems(longer) \subseteq Elems(q) \cup Elems(batch)
  BY <1>7 DEF Elems
<1>9. Increasing(longer)
  <2> SUFFICES ASSUME NEW i \in DOMAIN longer, NEW j \in DOMAIN longer, i < j
               PROVE  longer[i] < longer[j]
    BY DEF Increasing
  <2>1. i \in Nat /\ j \in Nat
    BY <1>1, <1>2, <1>6
  <2>2. CASE i \in DOMAIN q /\ longer[i] = q[i]
    <3>1. CASE j \in DOMAIN q /\ longer[j] = q[j]
      BY <2>2, <3>1 DEF Increasing
    <3>2. CASE j - Len(q) \in DOMAIN batch /\ longer[j] = batch[j - Len(q)]
      BY <2>2, <3>2 DEF Elems
    <3> QED BY <3>1, <3>2, <1>7
  <2>3. CASE /\ i > Len(q) /\ i - Len(q) \in DOMAIN batch
             /\ longer[i] = batch[i - Len(q)]
    <3>1. j \notin DOMAIN q
      BY <1>1, <2>1, <2>3
    <3>2. j - Len(q) \in DOMAIN batch /\ longer[j] = batch[j - Len(q)]
      BY <1>7, <3>1
    <3>3. i - Len(q) < j - Len(q)
      BY <1>1, <2>1
    <3> QED BY <2>3, <3>2, <3>3 DEF Increasing
  <2> QED BY <1>7, <2>2, <2>3
<1>10. Elems(q) \subseteq Elems(longer)
  <2>1. ASSUME NEW i \in DOMAIN q PROVE i \in DOMAIN longer /\ longer[i] = q[i]
    BY <1>1, <1>2, <1>4, <1>6
  <2> QED BY <2>1 DEF Elems
<1> QED BY <1>2, <1>4, <1>5, <1>8, <1>9, <1>10

-----------------------------------------------------------------------------
(***************************************************************************)
(* The frames in transit on one connection.                                *)
(***************************************************************************)
LEMMA FrameTypes ==
  /\ \A n \in Numbers : Update(n) \in Frames /\ IsUpdate(Update(n)) /\ Update(n).seq = n
  /\ \A n, m \in 0..MaxSequence : Snapshot(n, m) \in Frames /\ ~IsUpdate(Snapshot(n, m))
  /\ \A frame \in Frames : IsUpdate(frame) \/ frame.type = "snapshot"
BY SizesAssumption DEF Numbers, Update, Snapshot, Frames, IsUpdate

LEMMA SequenceOfFrames ==
  ASSUME NEW w \in Seq(Frames)
  PROVE  /\ Len(w) \in Nat /\ DOMAIN w = 1..Len(w)
         /\ \A i \in 1..Len(w) : w[i] \in Frames
         /\ w = <<>> <=> Len(w) = 0
         /\ Updates(w) \subseteq 0..MaxSequence
<1>1. /\ Len(w) \in Nat /\ DOMAIN w = 1..Len(w) /\ \A i \in 1..Len(w) : w[i] \in Frames
  BY LenProperties, ElementOfSeq
<1>2. w = <<>> <=> Len(w) = 0
  BY EmptySeq
<1>3. Updates(w) \subseteq 0..MaxSequence
  BY <1>1 DEF Updates, Elems, Frames
<1> QED BY <1>1, <1>2, <1>3

LEMMA NoFrames ==
  /\ <<>> \in Seq(Frames) /\ Elems(<<>>) = {} /\ Updates(<<>>) = {}
  /\ InOrder(<<>>) /\ OnlyFirst(<<>>) /\ Increasing(<<>>)
BY EmptySeq DEF Elems, Updates, InOrder, OnlyFirst, Increasing

\* A frame sent last is in order if it is newer than those before it.
LEMMA AppendFrame ==
  ASSUME NEW w \in Seq(Frames), NEW frame \in Frames
  PROVE  /\ Append(w, frame) \in Seq(Frames)
         /\ Append(w, frame) # <<>>
         /\ Append(w, frame)[1] = IF w = <<>> THEN frame ELSE w[1]
         /\ Elems(Append(w, frame)) = Elems(w) \cup {frame}
         /\ Updates(Append(w, frame)) = Updates(w) \cup IF IsUpdate(frame) THEN {frame.seq} ELSE {}
         /\ OnlyFirst(w) /\ (IsUpdate(frame) \/ w = <<>>) => OnlyFirst(Append(w, frame))
         /\ InOrder(w) /\ (IsUpdate(frame) => \A m \in Updates(w) : m < frame.seq)
              => InOrder(Append(w, frame))
<1> DEFINE v == Append(w, frame)
<1>1. /\ v \in Seq(Frames) /\ v # <<>> /\ Len(v) = Len(w) + 1
      /\ \A i \in 1..Len(w) : v[i] = w[i]
      /\ v[Len(w) + 1] = frame
  BY AppendProperties
<1> HIDE DEF v
<1>2. /\ Len(w) \in Nat /\ DOMAIN w = 1..Len(w) /\ DOMAIN v = 1..(Len(w) + 1)
      /\ w = <<>> <=> Len(w) = 0
  BY <1>1, SequenceOfFrames
<1>3. v[1] = IF w = <<>> THEN frame ELSE w[1]
  BY <1>1, <1>2
<1>4. Elems(v) = Elems(w) \cup {frame}
  BY <1>1, <1>2 DEF Elems
<1>5. Updates(v) = Updates(w) \cup IF IsUpdate(frame) THEN {frame.seq} ELSE {}
  BY <1>4 DEF Updates
<1>6. ASSUME OnlyFirst(w), IsUpdate(frame) \/ w = <<>> PROVE OnlyFirst(v)
  <2> SUFFICES ASSUME NEW i \in DOMAIN v, ~IsUpdate(v[i]) PROVE i = 1
    BY DEF OnlyFirst
  <2>1. CASE i \in DOMAIN w
    BY <2>1, <1>1, <1>2, <1>6 DEF OnlyFirst
  <2>2. CASE i \notin DOMAIN w
    BY <2>2, <1>1, <1>2, <1>6
  <2> QED BY <2>1, <2>2
<1>7. ASSUME InOrder(w), IsUpdate(frame) => \A m \in Updates(w) : m < frame.seq
      PROVE  InOrder(v)
  <2> SUFFICES ASSUME NEW i \in DOMAIN v, NEW j \in DOMAIN v,
                      i < j, IsUpdate(v[i]), IsUpdate(v[j])
               PROVE  v[i].seq < v[j].seq
    BY DEF InOrder
  <2>1. i \in DOMAIN w /\ v[i] = w[i]
    BY <1>1, <1>2
  <2>2. v[i].seq \in Updates(w)
    BY <2>1 DEF Updates, Elems
  <2>3. CASE j \in DOMAIN w
    BY <2>1, <2>3, <1>1, <1>2, <1>7 DEF InOrder
  <2>4. CASE j \notin DOMAIN w
    BY <2>2, <2>4, <1>1, <1>2, <1>7
  <2> QED BY <2>3, <2>4
<1> QED BY <1>1, <1>3, <1>4, <1>5, <1>6, <1>7 DEF v

\* Receiving the first frame; no snapshot is behind it.
LEMMA TailFrames ==
  ASSUME NEW w \in Seq(Frames), w # <<>>
  PROVE  /\ Head(w) \in Frames /\ Head(w) = w[1]
         /\ Tail(w) \in Seq(Frames)
         /\ Elems(w) = {Head(w)} \cup Elems(Tail(w))
         /\ Updates(Tail(w)) \subseteq Updates(w)
         /\ IsUpdate(Head(w)) => Head(w).seq \in Updates(w)
         /\ InOrder(w) => InOrder(Tail(w))
         /\ OnlyFirst(w) => /\ OnlyFirst(Tail(w))
                            /\ Tail(w) # <<>> => IsUpdate(Tail(w)[1])
<1> DEFINE v == Tail(w)
<1>1. /\ Head(w) \in Frames
      /\ v \in Seq(Frames) /\ Len(v) = Len(w) - 1
      /\ \A i \in 1..Len(v) : v[i] = w[i + 1]
  BY HeadTailProperties
<1>2. Head(w) = w[1]
  OBVIOUS
<1> HIDE DEF v
<1>3. /\ Len(w) \in Nat /\ Len(w) > 0 /\ 1 \in DOMAIN w
      /\ DOMAIN w = 1..Len(w) /\ DOMAIN v = 1..(Len(w) - 1)
      /\ \A i \in DOMAIN v : i + 1 \in DOMAIN w /\ i + 1 # 1
      /\ v # <<>> => 1 \in DOMAIN v
  BY <1>1, SequenceOfFrames
<1>4. Elems(w) = {w[1]} \cup Elems(v)
  <2>1. ASSUME NEW i \in DOMAIN w PROVE w[i] = w[1] \/ w[i] \in Elems(v)
    <3>1. i # 1 => i - 1 \in DOMAIN v /\ v[i - 1] = w[i]
      BY <1>1, <1>3
    <3> QED BY <3>1 DEF Elems
  <2>2. ASSUME NEW i \in DOMAIN v PROVE v[i] \in Elems(w)
    BY <1>1, <1>3 DEF Elems
  <2>3. w[1] \in Elems(w)
    BY <1>3 DEF Elems
  <2>4. Elems(w) \subseteq {w[1]} \cup Elems(v)
    BY <2>1 DEF Elems
  <2>5. Elems(v) \subseteq Elems(w)
    BY <2>2 DEF Elems
  <2> QED BY <2>3, <2>4, <2>5
<1>5. Updates(v) \subseteq Updates(w) /\ (IsUpdate(w[1]) => w[1].seq \in Updates(w))
  BY <1>4 DEF Updates
<1>6. ASSUME InOrder(w) PROVE InOrder(v)
  <2> SUFFICES ASSUME NEW i \in DOMAIN v, NEW j \in DOMAIN v,
                      i < j, IsUpdate(v[i]), IsUpdate(v[j])
               PROVE  v[i].seq < v[j].seq
    BY DEF InOrder
  <2>1. /\ i + 1 \in DOMAIN w /\ j + 1 \in DOMAIN w /\ i + 1 < j + 1
        /\ v[i] = w[i + 1] /\ v[j] = w[j + 1]
    BY <1>1, <1>3
  <2> QED BY <2>1, <1>6 DEF InOrder
<1>7. ASSUME OnlyFirst(w) PROVE \A i \in DOMAIN v : IsUpdate(v[i])
  BY <1>1, <1>3, <1>7 DEF OnlyFirst
<1>8. ASSUME OnlyFirst(w) PROVE OnlyFirst(v) /\ (v # <<>> => IsUpdate(v[1]))
  BY <1>3, <1>7, <1>8 DEF OnlyFirst
<1> QED BY <1>1, <1>2, <1>4, <1>5, <1>6, <1>8 DEF v

-----------------------------------------------------------------------------
(***************************************************************************)
(* What the invariant says of the properties.                              *)
(***************************************************************************)
LEMMA KeptFromIInv == IInv => ReplayIsWhatTheHubKept
<1> SUFFICES ASSUME IInv, NEW last \in 0..MaxSequence, Since(buffer, last) # Unbridgeable
             PROVE  Elems(Since(buffer, last)) = {s \in processed : s > last}
  BY DEF ReplayIsWhatTheHubKept
<1>1. /\ buffer \in Seq(Numbers) /\ processed \subseteq Numbers /\ BufferOK /\ Increasing(buffer)
      /\ last \in Nat
  <2>1. buffer \in Seq(Numbers) /\ processed \subseteq Numbers /\ BufferOK
    BY Zenon DEF IInv, TypeOK
  <2>2. last \in Nat
    BY SizesAssumption
  <2> QED BY <2>1, <2>2, Zenon DEF BufferOK
<1>2. /\ Elems(Since(buffer, last)) = {n \in Elems(buffer) : n > last}
      /\ buffer # <<>>
      /\ last >= Newest(buffer) \/ last + 1 >= Oldest(buffer)
  BY <1>1, SinceFacts
<1>3. ASSUME NEW n \in processed, n > last PROVE n \in Elems(buffer)
  <2> SUFFICES ASSUME n < buffer[1] PROVE FALSE
    BY <1>1 DEF BufferOK
  <2>1. /\ 1 \in DOMAIN buffer /\ Len(buffer) \in DOMAIN buffer /\ Len(buffer) \in Nat
        /\ buffer[1] \in Nat /\ buffer[Len(buffer)] \in Nat
    BY <1>1, <1>2, SequenceOfNumbers
  <2>2. buffer[1] <= buffer[Len(buffer)]
    BY <1>1, <2>1, SequenceOfNumbers DEF Increasing
  <2>3. n \in Nat
    BY <1>1, SizesAssumption DEF Numbers
  <2> QED BY <1>1, <1>2, <1>3, <2>1, <2>2, <2>3 DEF Newest, Oldest
<1> QED BY <1>1, <1>2, <1>3 DEF BufferOK

LEMMA MissNothingFromIInv == IInv => RegisteredMissNothing
BY Zenon DEF IInv, KeptOrUnderWay, RegisteredMissNothing

-----------------------------------------------------------------------------
(***************************************************************************)
(* The steps.                                                              *)
(***************************************************************************)
LEMMA Init_IInv == Init => IInv
<1> SUFFICES ASSUME Init PROVE IInv
  OBVIOUS
<1>1. /\ <<>> \in Seq(Numbers) /\ Len(<<>>) = 0 /\ DOMAIN <<>> = {}
      /\ Elems(<<>>) = {} /\ Increasing(<<>>)
  BY EmptySeq, NoFrames
<1>2. TypeOK
  BY <1>1, NoFrames, SizesAssumption, BufferSizeAssumption DEF Init, TypeOK, Sessions
<1>3. StreamOK
  BY <1>1 DEF Init, StreamOK
<1>4. QueueOK
  BY <1>1 DEF Init, QueueOK, Unread
<1>5. BufferOK /\ BroadcastOK
  BY <1>1 DEF Init, BufferOK, BroadcastOK
<1>6. SessionsOK
  BY DEF Init, SessionsOK
<1>7. WireOK /\ WireIsOrdered
  BY <1>1, NoFrames DEF Init, WireOK, WireIsOrdered
<1>8. KeptOrUnderWay
  BY DEF Init, KeptOrUnderWay
<1> QED BY <1>2, <1>3, <1>4, <1>5, <1>6, <1>7, <1>8 DEF IInv

\* Each part speaks of some variables only.
LEMMA Untouched ==
  /\ StreamOK /\ UNCHANGED <<poll, sequence, stream>> => StreamOK'
  /\ QueueOK /\ UNCHANGED <<stream, position, queue, processed>> => QueueOK'
  /\ BufferOK /\ UNCHANGED <<buffer, processed>> => BufferOK'
  /\ BroadcastOK /\ UNCHANGED <<targets, dead, sending, processed>> => BroadcastOK'
  /\ SessionsOK /\ UNCHANGED <<conn, opened, session, registry, targets, dead, todo, wire>>
       => SessionsOK'
  /\ WireOK /\ UNCHANGED <<wire, todo, processed>> => WireOK'
  /\ WireIsOrdered /\ UNCHANGED <<wire, todo, targets, sending>> => WireIsOrdered'
  /\ KeptOrUnderWay
       /\ UNCHANGED <<conn, registry, processed, joined, seen, wire, sending, targets, dead>>
       => KeptOrUnderWay'
<1>1. StreamOK /\ UNCHANGED <<poll, sequence, stream>> => StreamOK'
  BY DEF StreamOK
<1>2. QueueOK /\ UNCHANGED <<stream, position, queue, processed>> => QueueOK'
  BY DEF QueueOK, Unread
<1>3. BufferOK /\ UNCHANGED <<buffer, processed>> => BufferOK'
  BY DEF BufferOK
<1>4. BroadcastOK /\ UNCHANGED <<targets, dead, sending, processed>> => BroadcastOK'
  BY DEF BroadcastOK
<1>5. SessionsOK /\ UNCHANGED <<conn, opened, session, registry, targets, dead, todo, wire>>
       => SessionsOK'
  BY DEF SessionsOK
<1>6. WireOK /\ UNCHANGED <<wire, todo, processed>> => WireOK'
  BY DEF WireOK
<1>7. WireIsOrdered /\ UNCHANGED <<wire, todo, targets, sending>> => WireIsOrdered'
  BY DEF WireIsOrdered
<1>8. KeptOrUnderWay
       /\ UNCHANGED <<conn, registry, processed, joined, seen, wire, sending, targets, dead>>
       => KeptOrUnderWay'
  BY DEF KeptOrUnderWay
<1> QED BY <1>1, <1>2, <1>3, <1>4, <1>5, <1>6, <1>7, <1>8

\* What a step that leaves hub, handlers and client alone has to show.
LEMMA UpstreamStep ==
  ASSUME IInv, UNCHANGED <<buffer, processed, sending, targets, dead, registry, restarts,
                           handlers, wire, client>>,
         poll' \in {"idle", "applied", "numbered"}, applied' \in 0..MaxSequence,
         sequence' \in 0..MaxSequence, stream' \in Seq(Numbers),
         position' \in 0..Len(stream'), tailing' \in BOOLEAN,
         listenerFails' \in 0..MaxListenerFails, missed' \subseteq Numbers,
         queue' \in Seq(Numbers), Len(queue') <= QueueSize,
         StreamOK', QueueOK'
  PROVE  IInv'
<1>1. TypeOK'
  BY Zenon DEF IInv, TypeOK, handlers, client
<1>2. BufferOK' /\ BroadcastOK' /\ SessionsOK' /\ WireOK' /\ WireIsOrdered' /\ KeptOrUnderWay'
  BY Untouched DEF IInv, handlers, client
<1> QED BY <1>1, <1>2 DEF IInv

LEMMA WorkerStep == IInv /\ Worker => IInv'
<1> SUFFICES ASSUME IInv, Worker PROVE IInv'
  OBVIOUS
<1>1. /\ poll \in {"idle", "applied", "numbered"} /\ applied \in 0..MaxSequence
      /\ sequence \in 0..MaxSequence /\ stream \in Seq(Numbers)
      /\ position \in 0..Len(stream) /\ tailing \in BOOLEAN
      /\ listenerFails \in 0..MaxListenerFails /\ missed \subseteq Numbers
      /\ queue \in Seq(Numbers) /\ Len(queue) <= QueueSize
      /\ StreamOK /\ QueueOK /\ MaxSequence \in Nat
  BY SizesAssumption DEF IInv, TypeOK
<1>2. /\ UNCHANGED <<buffer, processed, sending, targets, dead, registry, restarts,
                     handlers, wire, client>>
      /\ UNCHANGED <<position, tailing, listenerFails, missed, queue>>
  BY DEF Worker, ApplyDiff, TakeNumber, Publish, BurnNumber, NotWorker, listener, hub
<1>3. Len(stream) \in Nat /\ DOMAIN stream = 1..Len(stream) /\ Elems(stream) \subseteq Nat
  BY <1>1, SequenceOfNumbers
<1>4. CASE ApplyDiff
  <2>1. /\ poll' = "applied" /\ applied' = sequence + 1 /\ UNCHANGED <<sequence, stream>>
        /\ sequence < MaxSequence
    BY <1>4 DEF ApplyDiff
  <2>2. StreamOK'
    BY <1>1, <2>1 DEF StreamOK
  <2>3. QueueOK'
    BY <1>1, <1>2, <2>1, Untouched
  <2> QED BY <1>1, <1>2, <2>1, <2>2, <2>3, UpstreamStep
<1>5. CASE TakeNumber
  <2>1. /\ poll' = "numbered" /\ sequence' = sequence + 1 /\ UNCHANGED <<applied, stream>>
        /\ sequence < MaxSequence
    BY <1>1, <1>5 DEF TakeNumber, StreamOK
  <2>2. StreamOK'
    BY <1>1, <1>3, <2>1 DEF StreamOK
  <2>3. QueueOK'
    BY <1>1, <1>2, <2>1, Untouched
  <2> QED BY <1>1, <1>2, <2>1, <2>2, <2>3, UpstreamStep
<1>6. CASE Publish
  <2>1. /\ poll' = "idle" /\ stream' = Append(stream, sequence)
        /\ UNCHANGED <<applied, sequence>>
        /\ sequence \in Numbers /\ \A n \in Elems(stream) : n < sequence
    BY <1>1, <1>6 DEF Publish, StreamOK, Numbers
  <2>2. /\ stream' \in Seq(Numbers) /\ Len(stream') = Len(stream) + 1
        /\ \A i \in 1..Len(stream) : stream'[i] = stream[i]
        /\ stream'[Len(stream) + 1] = sequence
        /\ Elems(stream') = Elems(stream) \cup {sequence}
        /\ Increasing(stream')
    BY <1>1, <2>1, AppendNumber DEF StreamOK
  <2>3. StreamOK'
    BY <1>1, <2>1, <2>2, <1>3 DEF StreamOK
  <2>4. Unread' = Unread \cup {sequence}
    BY <1>1, <1>2, <1>3, <2>2 DEF Unread
  <2>5. QueueOK'
    BY <1>1, <1>2, <2>1, <2>2, <2>4 DEF QueueOK
  <2> QED BY <1>1, <1>2, <1>3, <2>1, <2>2, <2>3, <2>5, UpstreamStep
<1>7. CASE BurnNumber
  <2>1. poll' = "idle" /\ UNCHANGED <<applied, sequence, stream>>
    BY <1>7 DEF BurnNumber
  <2>2. StreamOK'
    BY <1>1, <2>1 DEF StreamOK
  <2>3. QueueOK'
    BY <1>1, <1>2, <2>1, Untouched
  <2> QED BY <1>1, <1>2, <2>1, <2>2, <2>3, UpstreamStep
<1> QED BY <1>4, <1>5, <1>6, <1>7 DEF Worker

LEMMA ListenerStep == IInv /\ Listener => IInv'
<1> SUFFICES ASSUME IInv, Listener PROVE IInv'
  OBVIOUS
<1>1. /\ poll \in {"idle", "applied", "numbered"} /\ applied \in 0..MaxSequence
      /\ sequence \in 0..MaxSequence /\ stream \in Seq(Numbers)
      /\ position \in 0..Len(stream) /\ tailing \in BOOLEAN
      /\ listenerFails \in 0..MaxListenerFails /\ missed \subseteq Numbers
      /\ queue \in Seq(Numbers) /\ Len(queue) <= QueueSize
      /\ StreamOK /\ QueueOK /\ MaxListenerFails \in Nat /\ ReadCount \in Nat
  BY SizesAssumption DEF IInv, TypeOK
<1>2. /\ UNCHANGED <<buffer, processed, sending, targets, dead, registry, restarts,
                     handlers, wire, client>>
      /\ UNCHANGED <<poll, applied, sequence, stream>>
  BY DEF Listener, ReadBatch, LoseSubscription, Resubscribe, NotListener, worker
<1>3. StreamOK'
  BY <1>1, <1>2, Untouched
<1>4. /\ Len(stream) \in Nat /\ DOMAIN stream = 1..Len(stream)
      /\ \A i \in 1..Len(stream) : stream[i] \in Numbers
      /\ Increasing(stream)
  BY <1>1, SequenceOfNumbers DEF StreamOK
<1>5. CASE ReadBatch
  <2> DEFINE batch == SubSeq(stream, position + 1, position')
  <2>1. /\ position' = Least(Len(stream), position + ReadCount)
        /\ queue' = Enqueue(queue, batch)
        /\ missed' = missed \cup (Elems(batch) \ Elems(queue'))
        /\ UNCHANGED <<tailing, listenerFails>>
        /\ position < Len(stream)
    BY <1>5 DEF ReadBatch
  <2>0. position \in Nat
    BY <1>1, <1>4
  <2>2. position' \in Nat /\ position <= position' /\ position' <= Len(stream)
    BY <1>1, <1>4, <2>1 DEF Least
  <2>3. /\ batch \in Seq(Numbers) /\ Increasing(batch)
        /\ Elems(batch) = {stream[i] : i \in position + 1 .. position'}
    BY <1>1, <1>4, <2>0, <2>2, ReadFacts
  <2> HIDE DEF batch
  <2>4. \A i \in position + 1 .. position', j \in position' + 1 .. Len(stream) :
          /\ i \in position + 1 .. Len(stream) /\ j \in position + 1 .. Len(stream)
          /\ i \in DOMAIN stream /\ j \in DOMAIN stream /\ i < j
    BY <1>4, <2>0, <2>2, Intervals
  <2>5. \A i \in position + 1 .. position' : i \in position + 1 .. Len(stream) /\ i \in DOMAIN stream
    BY <1>4, <2>0, <2>2, Intervals
  <2>6. \A j \in position' + 1 .. Len(stream) : j \in position + 1 .. Len(stream)
    BY <1>4, <2>0, <2>2, Intervals
  <2>7. Elems(batch) \subseteq Unread /\ Elems(batch) \subseteq Elems(stream)
    BY <2>3, <2>5 DEF Unread, Elems
  <2>8. \A n \in Unread' : n \in Unread /\ \A m \in Elems(batch) : m < n
    <3>1. Unread' = {stream[j] : j \in position' + 1 .. Len(stream)}
      BY <1>2 DEF Unread
    <3>2. \A j \in position' + 1 .. Len(stream) : stream[j] \in Unread
      BY <2>6 DEF Unread
    <3>3. \A i \in position + 1 .. position', j \in position' + 1 .. Len(stream) :
            stream[i] < stream[j]
      BY <1>4, <2>4 DEF Increasing
    <3> QED BY <2>3, <3>1, <3>2, <3>3
  <2>9. /\ queue' \in Seq(Numbers) /\ Len(queue') <= QueueSize
        /\ Increasing(queue')
        /\ Elems(queue') \subseteq Elems(queue) \cup Elems(batch)
    BY <1>1, <2>1, <2>3, <2>7, EnqueueFacts DEF QueueOK
  <2>10. QueueOK'
    BY <1>1, <1>2, <2>7, <2>8, <2>9 DEF QueueOK
  <2>11. position' \in 0..Len(stream')
    BY <1>2, <1>4, <2>2
  <2>12. /\ poll' \in {"idle", "applied", "numbered"} /\ applied' \in 0..MaxSequence
         /\ sequence' \in 0..MaxSequence /\ stream' \in Seq(Numbers)
         /\ tailing' \in BOOLEAN /\ listenerFails' \in 0..MaxListenerFails
    BY <1>1, <1>2, <2>1
  <2>13. missed' \subseteq Numbers
    BY <1>1, <2>1, <2>3, SequenceOfNumbers
  <2> QED BY <1>2, <1>3, <2>9, <2>10, <2>11, <2>12, <2>13, UpstreamStep, Zenon
<1>6. CASE LoseSubscription
  <2>1. /\ tailing' = FALSE /\ listenerFails' = listenerFails + 1 /\ UNCHANGED <<position, missed, queue>>
        /\ listenerFails < MaxListenerFails
    BY <1>6 DEF LoseSubscription
  <2>2. QueueOK'
    BY <1>1, <1>2, <2>1, Untouched
  <2>3. listenerFails' \in 0..MaxListenerFails
    BY <1>1, <2>1
  <2>4. position' \in 0..Len(stream') /\ tailing' \in BOOLEAN
    BY <1>1, <1>2, <2>1
  <2> QED BY <1>1, <1>2, <1>3, <2>1, <2>2, <2>3, <2>4, UpstreamStep
<1>7. CASE Resubscribe
  <2>1. /\ tailing' = TRUE /\ position' = Len(stream) /\ UNCHANGED <<listenerFails, queue>>
        /\ missed' = missed \cup Elems(SubSeq(stream, position + 1, Len(stream)))
    BY <1>7 DEF Resubscribe
  <2>2. Unread' = {}
    BY <1>2, <1>4, <2>1 DEF Unread
  <2>3. QueueOK'
    BY <1>1, <1>2, <2>1, <2>2 DEF QueueOK
  <2>4. position' \in 0..Len(stream')
    BY <1>2, <1>4, <2>1
  <2>5. missed' \subseteq Numbers
    <3>1. position \in Nat /\ position <= Len(stream) /\ Len(stream) <= Len(stream)
      BY <1>1, <1>4
    <3>2. SubSeq(stream, position + 1, Len(stream)) \in Seq(Numbers)
      BY <1>1, <1>4, <3>1, ReadFacts
    <3> QED BY <1>1, <2>1, <3>2, SequenceOfNumbers
  <2> QED BY <1>1, <1>2, <1>3, <2>1, <2>3, <2>4, <2>5, UpstreamStep
<1> QED BY <1>5, <1>6, <1>7 DEF Listener

LEMMA SentFacts ==
  ASSUME TypeOK, NEW k \in Conns, NEW frame \in Frames, wire' = Sent(k, frame)
  PROVE  /\ wire' \in [Conns -> Seq(Frames)]
         /\ \A c \in Conns :
              wire'[c] = IF c = k /\ k = conn THEN Append(wire[c], frame) ELSE wire[c]
<1>1. wire \in [Conns -> Seq(Frames)]
  BY Zenon DEF TypeOK
<1>2. Append(wire[k], frame) \in Seq(Frames)
  BY <1>1, AppendFrame
<1>3. CASE k = conn
  <2>1. wire' = [wire EXCEPT ![k] = Append(wire[k], frame)]
    BY <1>3 DEF Sent
  <2> QED BY <1>1, <1>2, <1>3, <2>1
<1>4. CASE k # conn
  BY <1>1, <1>4 DEF Sent
<1> QED BY <1>3, <1>4

\* What a step of the hub has to show of the types.
LEMMA HubTypes ==
  ASSUME TypeOK, NotHub,
         queue' \in Seq(Numbers), Len(queue') <= QueueSize,
         buffer' \in Seq(Numbers), Len(buffer') <= BufferSize,
         processed' \subseteq Numbers, sending' \in 0..MaxSequence,
         targets' \subseteq Conns, dead' \subseteq Conns, registry' \subseteq Conns,
         wire' \in [Conns -> Seq(Frames)]
  PROVE  TypeOK'
BY Zenon DEF TypeOK, NotHub, worker, listener, handlers, client

LEMMA DequeueStep == IInv /\ Dequeue => IInv'
<1> SUFFICES ASSUME IInv, Dequeue PROVE IInv'
  OBVIOUS
<1> DEFINE n == Head(queue)
<1>1. /\ TypeOK /\ StreamOK /\ QueueOK /\ BufferOK /\ BroadcastOK /\ SessionsOK /\ WireOK
      /\ WireIsOrdered /\ KeptOrUnderWay
  BY Zenon DEF IInv
<1>2. /\ queue \in Seq(Numbers) /\ Len(queue) <= QueueSize
      /\ buffer \in Seq(Numbers) /\ Len(buffer) <= BufferSize
      /\ processed \subseteq Numbers /\ registry \subseteq Conns
      /\ wire \in [Conns -> Seq(Frames)] /\ todo \in [Conns -> Seq(Numbers)]
      /\ Numbers \subseteq Nat /\ 0 \notin Numbers /\ Numbers \subseteq 0..MaxSequence
      /\ 0 \in 0..MaxSequence
  <2>1. /\ Numbers \subseteq Nat /\ 0 \notin Numbers /\ Numbers \subseteq 0..MaxSequence
        /\ 0 \in 0..MaxSequence
    BY SizesAssumption DEF Numbers
  <2> QED BY <1>1, <2>1, Zenon DEF TypeOK
<1>3. /\ sending = 0 /\ queue # <<>>
      /\ buffer' = Add(buffer, n) /\ processed' = processed \cup {n}
      /\ sending' = IF registry = {} THEN 0 ELSE n
      /\ queue' = Tail(queue) /\ targets' = registry /\ dead' = {}
      /\ UNCHANGED <<registry, wire>> /\ NotHub
  BY DEF Dequeue
<1>4. UNCHANGED <<poll, sequence, stream, position, session, todo, joined, conn, opened, seen>>
  BY <1>3 DEF NotHub, worker, listener, handlers, client
<1>5. /\ n \in Numbers /\ n \in Elems(queue)
      /\ queue' \in Seq(Numbers) /\ Len(queue') = Len(queue) - 1 /\ Len(queue) \in Nat
      /\ Elems(queue) = {n} \cup Elems(queue')
      /\ Increasing(queue') /\ \A m \in Elems(queue') : n < m
  BY <1>1, <1>2, <1>3, TailNumbers, SequenceOfNumbers DEF QueueOK
<1> HIDE DEF n
<1>6. n \in Nat /\ \A m \in processed : m < n
  BY <1>1, <1>2, <1>5 DEF QueueOK
<1>7. /\ buffer' \in Seq(Numbers) /\ Len(buffer') <= BufferSize
      /\ Increasing(buffer') /\ buffer' # <<>>
      /\ Elems(buffer') \subseteq Elems(buffer) \cup {n}
      /\ \A m \in Elems(buffer) \cup {n} : m \in Elems(buffer') \/ m < buffer'[1]
      /\ buffer # <<>> => buffer[1] <= buffer'[1]
  <2>1. Increasing(buffer) /\ \A m \in Elems(buffer) : m < n
    BY <1>1, <1>6 DEF BufferOK
  <2> QED BY <1>2, <1>3, <1>5, <2>1, AddFacts
<1>8. TypeOK'
  <2>1. Len(queue') <= QueueSize
    BY <1>2, <1>5, SizesAssumption
  <2>2. processed' \subseteq Numbers /\ sending' \in 0..MaxSequence
    BY <1>2, <1>3, <1>5
  <2>3. targets' \subseteq Conns /\ dead' \subseteq Conns /\ registry' \subseteq Conns
        /\ wire' \in [Conns -> Seq(Frames)]
    BY <1>2, <1>3
  <2> QED BY <1>1, <1>3, <1>5, <1>7, <2>1, <2>2, <2>3, HubTypes, Zenon
<1>9. StreamOK'
  BY <1>1, <1>4, Untouched
<1>10. QueueOK'
  <2>1. Unread' = Unread
    BY <1>4 DEF Unread
  <2> QED BY <1>1, <1>3, <1>4, <1>5, <1>6, <2>1 DEF QueueOK
<1>11. BufferOK'
  <2>1. ASSUME NEW m \in processed, m < buffer[1] PROVE m < buffer'[1]
    <3>1. buffer # <<>>
      BY <1>1 DEF BufferOK
    <3>2. 1 \in 1..Len(buffer) /\ 1 \in 1..Len(buffer')
      BY <3>1, <1>2, <1>7, SequenceOfNumbers
    <3>3. m \in Nat /\ buffer[1] \in Nat /\ buffer'[1] \in Nat
      BY <3>2, <1>2, <1>7, SequenceOfNumbers
    <3> QED BY <2>1, <3>1, <3>3, <1>7
  <2> QED BY <1>1, <1>3, <1>7, <2>1 DEF BufferOK
<1>12. BroadcastOK'
  BY <1>3 DEF BroadcastOK
<1>13. SessionsOK'
  BY <1>1, <1>3, <1>4 DEF SessionsOK
<1>14. WireOK'
  BY <1>1, <1>3, <1>4 DEF WireOK
<1>15. WireIsOrdered'
  <2>1. ASSUME NEW k \in Conns, k \in targets'
        PROVE  \A m \in Updates(wire[k]) \cup Elems(todo[k]) : m < sending'
    <3>1. sending' = n
      BY <1>3, <2>1
    <3> QED BY <1>1, <1>6, <3>1 DEF WireOK
  <2> QED BY <1>1, <1>3, <1>4, <2>1 DEF WireIsOrdered
<1>16. KeptOrUnderWay'
  <2> SUFFICES ASSUME conn \in registry, NEW s \in processed' \ joined[conn]
               PROVE  \/ s \in seen /\ (wire[conn] # <<>> => IsUpdate(wire[conn][1]))
                      \/ Update(s) \in Elems(wire[conn])
                      \/ s = sending' /\ conn \in targets'
    BY <1>3, <1>4 DEF KeptOrUnderWay
  <2>1. CASE s = n
    BY <1>3, <2>1
  <2>2. CASE s # n
    <3>1. s \in processed \ joined[conn] /\ s # sending
      BY <1>2, <1>3, <2>2
    <3> QED BY <1>1, <3>1 DEF KeptOrUnderWay
  <2> QED BY <2>1, <2>2
<1> QED BY <1>8, <1>9, <1>10, <1>11, <1>12, <1>13, <1>14, <1>15, <1>16, Zenon DEF IInv

LEMMA SendsStep ==
  ASSUME NEW k \in Conns, IInv, Sends(k)
  PROVE  IInv'
<1>1. /\ TypeOK /\ StreamOK /\ QueueOK /\ BufferOK /\ BroadcastOK /\ SessionsOK /\ WireOK
      /\ WireIsOrdered /\ KeptOrUnderWay
  BY Zenon DEF IInv
<1>2. /\ k \in targets /\ targets' = targets \ {k}
      /\ wire' = Sent(k, Update(sending)) \/ (wire' = wire /\ dead' = dead \cup {k})
      /\ dead \subseteq dead' /\ dead' \subseteq dead \cup {k}
      /\ UNCHANGED <<queue, buffer, processed, sending, registry>> /\ NotHub
  BY DEF Sends, SendOk, SendFails
<1>3. UNCHANGED <<poll, sequence, stream, position, session, todo, joined, conn, opened, seen>>
  BY <1>2 DEF NotHub, worker, listener, handlers, client
<1>4. /\ queue \in Seq(Numbers) /\ Len(queue) <= QueueSize
      /\ buffer \in Seq(Numbers) /\ Len(buffer) <= BufferSize
      /\ processed \subseteq Numbers /\ registry \subseteq Conns /\ sending \in 0..MaxSequence
      /\ targets \subseteq Conns /\ dead \subseteq Conns
      /\ wire \in [Conns -> Seq(Frames)] /\ todo \in [Conns -> Seq(Numbers)]
  BY <1>1, Zenon DEF TypeOK
<1>5. sending \in processed /\ sending \in Numbers
  BY <1>1, <1>2, <1>4 DEF BroadcastOK
<1>6. Update(sending) \in Frames /\ IsUpdate(Update(sending)) /\ Update(sending).seq = sending
  BY <1>5, FrameTypes
<1>7. /\ session[k] \in {"serving", "closed"} /\ todo[k] = <<>>
      /\ InOrder(wire[k]) /\ OnlyFirst(wire[k])
      /\ \A m \in Updates(wire[k]) : m < sending
  <2>1. session[k] \in {"serving", "closed"} /\ todo[k] = <<>>
    BY <1>1, <1>2 DEF SessionsOK
  <2> QED BY <1>1, <1>2, <2>1 DEF WireOK, WireIsOrdered
<1>8. /\ wire' \in [Conns -> Seq(Frames)]
      /\ \A c \in Conns \ {k} : wire'[c] = wire[c]
      /\ k # conn => wire'[k] = wire[k]
      /\ wire'[k] = wire[k] \/ wire'[k] = Append(wire[k], Update(sending))
  BY <1>1, <1>2, <1>4, <1>6, SentFacts
<1>9. /\ InOrder(wire'[k]) /\ OnlyFirst(wire'[k])
      /\ Updates(wire'[k]) \subseteq Updates(wire[k]) \cup {sending}
      /\ Elems(wire[k]) \subseteq Elems(wire'[k])
      /\ (wire[k] # <<>> => IsUpdate(wire[k][1])) => (wire'[k] # <<>> => IsUpdate(wire'[k][1]))
  <2>1. CASE wire'[k] = wire[k]
    BY <1>7, <2>1
  <2>2. CASE wire'[k] = Append(wire[k], Update(sending))
    <3> DEFINE w == wire[k]
               frame == Update(sending)
    <3>1. w \in Seq(Frames)
      BY <1>4
    <3>2. InOrder(w) /\ OnlyFirst(w) /\ IsUpdate(frame) /\ frame.seq = sending /\ frame \in Frames
          /\ \A m \in Updates(w) : m < frame.seq
      BY <1>6, <1>7
    <3> HIDE DEF w, frame
    <3>3. /\ InOrder(Append(w, frame)) /\ OnlyFirst(Append(w, frame))
          /\ Updates(Append(w, frame)) = Updates(w) \cup {frame.seq}
          /\ Elems(Append(w, frame)) = Elems(w) \cup {frame}
          /\ Append(w, frame)[1] = IF w = <<>> THEN frame ELSE w[1]
      BY <3>1, <3>2, AppendFrame
    <3>4. wire'[k] = Append(w, frame) /\ wire[k] = w
      BY <2>2 DEF w, frame
    <3> QED BY <3>2, <3>3, <3>4
  <2> QED BY <1>8, <2>1, <2>2
<1>10. TypeOK'
  <2>1. targets' \subseteq Conns /\ dead' \subseteq Conns
    BY <1>2, <1>4
  <2>2. /\ queue' \in Seq(Numbers) /\ Len(queue') <= QueueSize
        /\ buffer' \in Seq(Numbers) /\ Len(buffer') <= BufferSize
        /\ processed' \subseteq Numbers /\ registry' \subseteq Conns
        /\ sending' \in 0..MaxSequence
    BY <1>2, <1>4
  <2> QED BY <1>1, <1>2, <1>8, <2>1, <2>2, HubTypes, Zenon
<1>11. StreamOK' /\ QueueOK' /\ BufferOK'
  BY <1>1, <1>2, <1>3, Untouched
<1>12. BroadcastOK'
  BY <1>2, <1>5 DEF BroadcastOK
<1>13. SessionsOK'
  <2>1. conn' <= opened'
    BY <1>1, <1>3 DEF SessionsOK
  <2>2. ASSUME NEW c \in Conns
        PROVE  /\ c > opened => session[c] = "unused"
               /\ c \in registry => session[c] = "serving"
               /\ c \in targets' \cup dead' => session[c] \in {"serving", "closed"}
               /\ session[c] # "replaying" => todo[c] = <<>>
               /\ session[c] \in {"unused", "subscribing", "snapshotting"} => wire'[c] = <<>>
               /\ c # conn => wire'[c] = <<>>
    <3>1. CASE c = k
      BY <3>1, <1>1, <1>7, <1>8 DEF SessionsOK
    <3>2. CASE c # k
      BY <3>2, <1>1, <1>2, <1>8 DEF SessionsOK
    <3> QED BY <3>1, <3>2
  <2> QED BY <1>2, <1>3, <2>1, <2>2 DEF SessionsOK
<1>14. WireOK'
  <2>1. ASSUME NEW c \in Conns
        PROVE  OnlyFirst(wire'[c]) /\ Updates(wire'[c]) \cup Elems(todo[c]) \subseteq processed
    <3>1. CASE c = k
      BY <3>1, <1>1, <1>5, <1>9 DEF WireOK
    <3>2. CASE c # k
      BY <3>2, <1>1, <1>8 DEF WireOK
    <3> QED BY <3>1, <3>2
  <2> QED BY <1>2, <1>3, <2>1 DEF WireOK
<1>15. WireIsOrdered'
  <2>1. ASSUME NEW c \in Conns
        PROVE  /\ InOrder(wire'[c]) /\ Increasing(todo[c])
               /\ \A m \in Updates(wire'[c]), n \in Elems(todo[c]) : m < n
               /\ c \in targets' => \A m \in Updates(wire'[c]) \cup Elems(todo[c]) : m < sending
    <3>1. CASE c = k
      <4>1. Elems(todo[k]) = {} /\ Increasing(todo[k]) /\ k \notin targets'
        BY <1>2, <1>7, NoFrames
      <4> QED BY <3>1, <4>1, <1>9
    <3>2. CASE c # k
      <4>1. c \in targets' => c \in targets
        BY <1>2
      <4> QED BY <3>2, <4>1, <1>1, <1>8 DEF WireIsOrdered
    <3> QED BY <3>1, <3>2
  <2> QED BY <1>2, <1>3, <2>1 DEF WireIsOrdered
<1>16. KeptOrUnderWay'
  <2> SUFFICES ASSUME conn \in registry, NEW s \in processed \ joined[conn]
               PROVE  \/ s \in seen /\ (wire'[conn] # <<>> => IsUpdate(wire'[conn][1]))
                      \/ Update(s) \in Elems(wire'[conn])
                      \/ s = sending /\ conn \in targets' \cup dead'
    BY <1>2, <1>3 DEF KeptOrUnderWay
  <2>0. conn \in Conns
    BY <1>4
  <2>1. \/ s \in seen /\ (wire[conn] # <<>> => IsUpdate(wire[conn][1]))
        \/ Update(s) \in Elems(wire[conn])
        \/ s = sending /\ conn \in targets \cup dead
    BY <1>1 DEF KeptOrUnderWay
  <2>2. CASE conn # k
    BY <2>0, <2>1, <2>2, <1>2, <1>8
  <2>3. CASE conn = k
    <3>1. CASE s = sending /\ conn \in targets \cup dead
      <4>1. CASE wire' = wire /\ dead' = dead \cup {k}
        BY <2>3, <3>1, <4>1
      <4>2. CASE wire' = Sent(k, Update(sending))
        <5>1. wire'[k] = Append(wire[k], Update(sending))
          BY <2>3, <4>2, <1>1, <1>6, SentFacts
        <5>2. wire[k] \in Seq(Frames)
          BY <1>4
        <5>3. Update(sending) \in Elems(wire'[k])
          BY <5>1, <5>2, <1>6, AppendFrame
        <5> QED BY <2>3, <3>1, <5>3
      <4> QED BY <1>2, <4>1, <4>2
    <3>2. CASE ~(s = sending /\ conn \in targets \cup dead)
      BY <2>1, <2>3, <3>2, <1>9
    <3> QED BY <3>1, <3>2
  <2> QED BY <2>2, <2>3
<1> QED BY <1>10, <1>11, <1>12, <1>13, <1>14, <1>15, <1>16, Zenon DEF IInv

LEMMA EndBroadcastStep == IInv /\ EndBroadcast => IInv'
<1> SUFFICES ASSUME IInv, EndBroadcast PROVE IInv'
  OBVIOUS
<1>1. /\ TypeOK /\ StreamOK /\ QueueOK /\ BufferOK /\ BroadcastOK /\ SessionsOK /\ WireOK
      /\ WireIsOrdered /\ KeptOrUnderWay
  BY Zenon DEF IInv
<1>2. /\ targets = {} /\ registry' = registry \ dead /\ sending' = 0 /\ dead' = {}
      /\ UNCHANGED <<queue, buffer, processed, targets, wire>> /\ NotHub
  BY DEF EndBroadcast
<1>3. UNCHANGED <<poll, sequence, stream, position, session, todo, joined, conn, opened, seen>>
  BY <1>2 DEF NotHub, worker, listener, handlers, client
<1>4. TypeOK'
  <2>1. registry' \subseteq Conns /\ dead' \subseteq Conns /\ sending' \in 0..MaxSequence
    BY <1>1, <1>2, SizesAssumption DEF TypeOK
  <2>2. /\ queue' \in Seq(Numbers) /\ Len(queue') <= QueueSize
        /\ buffer' \in Seq(Numbers) /\ Len(buffer') <= BufferSize
        /\ processed' \subseteq Numbers /\ targets' \subseteq Conns
        /\ wire' \in [Conns -> Seq(Frames)]
    BY <1>1, <1>2, Zenon DEF TypeOK
  <2> QED BY <1>1, <1>2, <2>1, <2>2, HubTypes, Zenon
<1>5. StreamOK' /\ QueueOK' /\ BufferOK' /\ WireOK'
  BY <1>1, <1>2, <1>3, Untouched
<1>6. BroadcastOK'
  BY <1>2 DEF BroadcastOK
<1>7. SessionsOK'
  BY <1>1, <1>2, <1>3 DEF SessionsOK
<1>8. WireIsOrdered'
  BY <1>1, <1>2, <1>3 DEF WireIsOrdered
<1>9. KeptOrUnderWay'
  BY <1>1, <1>2, <1>3 DEF KeptOrUnderWay
<1> QED BY <1>4, <1>5, <1>6, <1>7, <1>8, <1>9, Zenon DEF IInv

LEMMA HeartbeatStep ==
  ASSUME NEW k \in Conns, IInv, Heartbeat(k)
  PROVE  IInv'
<1>1. /\ TypeOK /\ StreamOK /\ QueueOK /\ BufferOK /\ BroadcastOK /\ SessionsOK /\ WireOK
      /\ WireIsOrdered /\ KeptOrUnderWay
  BY Zenon DEF IInv
<1>2. /\ registry' = registry \ {k}
      /\ UNCHANGED <<queue, buffer, processed, sending, targets, dead, wire>> /\ NotHub
  BY DEF Heartbeat, hub
<1>3. UNCHANGED <<poll, sequence, stream, position, session, todo, joined, conn, opened, seen>>
  BY <1>2 DEF NotHub, worker, listener, handlers, client
<1>4. TypeOK'
  <2>1. registry' \subseteq Conns
    BY <1>1, <1>2 DEF TypeOK
  <2>2. /\ queue' \in Seq(Numbers) /\ Len(queue') <= QueueSize
        /\ buffer' \in Seq(Numbers) /\ Len(buffer') <= BufferSize
        /\ processed' \subseteq Numbers /\ sending' \in 0..MaxSequence
        /\ targets' \subseteq Conns /\ dead' \subseteq Conns
        /\ wire' \in [Conns -> Seq(Frames)]
    BY <1>1, <1>2, Zenon DEF TypeOK
  <2> QED BY <1>1, <1>2, <2>1, <2>2, HubTypes, Zenon
<1>5. StreamOK' /\ QueueOK' /\ BufferOK' /\ BroadcastOK' /\ WireOK' /\ WireIsOrdered'
  BY <1>1, <1>2, <1>3, Untouched
<1>6. SessionsOK'
  BY <1>1, <1>2, <1>3 DEF SessionsOK
<1>7. KeptOrUnderWay'
  BY <1>1, <1>2, <1>3 DEF KeptOrUnderWay
<1> QED BY <1>4, <1>5, <1>6, <1>7, Zenon DEF IInv

\* What a step of the handler of connection k has to show.  It leaves hub and client
\* alone, and a connection it registers starts from what the hub has processed.
HandlerTypes ==
  /\ session' \in [Conns -> Sessions] /\ asked' \in [Conns -> Nat \cup {Unset}]
  /\ todo' \in [Conns -> Seq(Numbers)] /\ base' \in [Conns -> 0..MaxSequence]
  /\ joined' \in [Conns -> SUBSET Numbers] /\ wire' \in [Conns -> Seq(Frames)]
  /\ registry' \subseteq Conns

OnlyHandlerOf(k) ==
  \A c \in Conns \ {k} :
    /\ session'[c] = session[c] /\ todo'[c] = todo[c] /\ joined'[c] = joined[c]
    /\ wire'[c] = wire[c] /\ (c \in registry' <=> c \in registry)

HandlerMoves(k) ==
  /\ session[k] # "unused"
  /\ k \in registry' => session'[k] = "serving" /\ joined'[k] = processed
  /\ k \in targets \cup dead => session'[k] = "closed"
  /\ session'[k] # "replaying" => todo'[k] = <<>>
  /\ session'[k] \in {"unused", "subscribing", "snapshotting"} => wire'[k] = <<>>
  /\ k # conn => wire'[k] = <<>>

HandlerSends(k) ==
  /\ OnlyFirst(wire'[k]) /\ InOrder(wire'[k]) /\ Increasing(todo'[k])
  /\ Updates(wire'[k]) \cup Elems(todo'[k]) \subseteq processed
  /\ \A m \in Updates(wire'[k]), n \in Elems(todo'[k]) : m < n
  /\ k \in targets => Updates(wire'[k]) \cup Elems(todo'[k]) = {}

LEMMA HandlerStep ==
  ASSUME NEW k \in Conns, IInv, NotHandler,
         HandlerTypes, OnlyHandlerOf(k), HandlerMoves(k), HandlerSends(k)
  PROVE  IInv'
<1>1. /\ TypeOK /\ StreamOK /\ QueueOK /\ BufferOK /\ BroadcastOK /\ SessionsOK /\ WireOK
      /\ WireIsOrdered /\ KeptOrUnderWay
  BY Zenon DEF IInv
<1>2. UNCHANGED <<poll, sequence, stream, position, queue, buffer, processed, sending,
                  targets, dead, conn, opened, seen>>
  BY DEF NotHandler, worker, listener, hub, client
<1>3. TypeOK'
  BY <1>1, Zenon DEF TypeOK, HandlerTypes, NotHandler, worker, listener, hub, client
<1>4. StreamOK' /\ QueueOK' /\ BufferOK' /\ BroadcastOK'
  BY <1>1, <1>2, Untouched
<1>5. SessionsOK'
  <2>1. conn' <= opened'
    BY <1>1, <1>2 DEF SessionsOK
  <2>2. ASSUME NEW c \in Conns
        PROVE  /\ c > opened => session'[c] = "unused"
               /\ c \in registry' => session'[c] = "serving"
               /\ c \in targets \cup dead => session'[c] \in {"serving", "closed"}
               /\ session'[c] # "replaying" => todo'[c] = <<>>
               /\ session'[c] \in {"unused", "subscribing", "snapshotting"} => wire'[c] = <<>>
               /\ c # conn => wire'[c] = <<>>
    <3>1. CASE c = k
      BY <3>1, <1>1 DEF SessionsOK, HandlerMoves
    <3>2. CASE c # k
      BY <3>2, <1>1 DEF SessionsOK, OnlyHandlerOf
    <3> QED BY <3>1, <3>2
  <2> QED BY <1>2, <2>1, <2>2 DEF SessionsOK
<1>6. WireOK'
  <2>1. ASSUME NEW c \in Conns
        PROVE  OnlyFirst(wire'[c]) /\ Updates(wire'[c]) \cup Elems(todo'[c]) \subseteq processed
    BY <1>1 DEF WireOK, OnlyHandlerOf, HandlerSends
  <2> QED BY <1>2, <2>1 DEF WireOK
<1>7. WireIsOrdered'
  <2>1. ASSUME NEW c \in Conns
        PROVE  /\ InOrder(wire'[c]) /\ Increasing(todo'[c])
               /\ \A m \in Updates(wire'[c]), n \in Elems(todo'[c]) : m < n
               /\ c \in targets => \A m \in Updates(wire'[c]) \cup Elems(todo'[c]) : m < sending
    <3>1. CASE c = k
      BY <3>1 DEF HandlerSends
    <3>2. CASE c # k
      BY <3>2, <1>1 DEF WireIsOrdered, OnlyHandlerOf
    <3> QED BY <3>1, <3>2
  <2> QED BY <1>2, <2>1 DEF WireIsOrdered
<1>8. KeptOrUnderWay'
  <2> SUFFICES ASSUME conn \in registry', NEW s \in processed \ joined'[conn]
               PROVE  \/ s \in seen /\ (wire'[conn] # <<>> => IsUpdate(wire'[conn][1]))
                      \/ Update(s) \in Elems(wire'[conn])
                      \/ s = sending /\ conn \in targets \cup dead
    BY <1>2 DEF KeptOrUnderWay
  <2>1. conn \in Conns
    BY DEF HandlerTypes
  <2>2. conn # k
    BY DEF HandlerMoves
  <2>3. /\ conn \in registry /\ joined'[conn] = joined[conn] /\ wire'[conn] = wire[conn]
    BY <2>1, <2>2 DEF OnlyHandlerOf
  <2> QED BY <1>1, <2>3 DEF KeptOrUnderWay
<1> QED BY <1>3, <1>4, <1>5, <1>6, <1>7, <1>8, Zenon DEF IInv

LEMMA SubscribeStep ==
  ASSUME NEW k \in Conns, IInv, Subscribe(k)
  PROVE  IInv'
<1> DEFINE replay == IF asked[k] = Unset THEN Unbridgeable ELSE Since(buffer, asked[k])
<1>1. /\ session \in [Conns -> Sessions] /\ asked \in [Conns -> Nat \cup {Unset}]
      /\ todo \in [Conns -> Seq(Numbers)] /\ base \in [Conns -> 0..MaxSequence]
      /\ joined \in [Conns -> SUBSET Numbers] /\ wire \in [Conns -> Seq(Frames)]
      /\ registry \subseteq Conns /\ buffer \in Seq(Numbers) /\ processed \subseteq Numbers
      /\ applied \in 0..MaxSequence /\ BufferOK /\ SessionsOK
  BY Zenon DEF IInv, TypeOK
<1>2. /\ session[k] = "subscribing" /\ UNCHANGED <<wire, asked>> /\ NotHandler
      /\ \/ /\ replay = Unbridgeable
            /\ session' = [session EXCEPT ![k] = "snapshotting"]
            /\ base' = [base EXCEPT ![k] = applied]
            /\ UNCHANGED <<todo, registry, joined>>
         \/ /\ replay = <<>>
            /\ session' = [session EXCEPT ![k] = "serving"]
            /\ registry' = registry \cup {k}
            /\ joined' = [joined EXCEPT ![k] = processed]
            /\ UNCHANGED <<base, todo>>
         \/ /\ replay # Unbridgeable /\ replay # <<>>
            /\ session' = [session EXCEPT ![k] = "replaying"]
            /\ todo' = [todo EXCEPT ![k] = replay]
            /\ UNCHANGED <<base, registry, joined>>
  BY DEF Subscribe
<1>3. ASSUME replay # Unbridgeable
      PROVE  replay \in Seq(Numbers) /\ Increasing(replay) /\ Elems(replay) \subseteq processed
  <2>1. asked[k] \in Nat /\ replay = Since(buffer, asked[k])
    BY <1>1, <1>3
  <2> HIDE DEF replay
  <2>2. Increasing(buffer) /\ Elems(buffer) \subseteq processed
    BY <1>1 DEF BufferOK
  <2>3. /\ Since(buffer, asked[k]) \in Seq(Numbers) /\ Increasing(Since(buffer, asked[k]))
        /\ Elems(Since(buffer, asked[k])) = {n \in Elems(buffer) : n > asked[k]}
    BY <1>1, <1>3, <2>1, <2>2, SinceFacts
  <2> QED BY <2>1, <2>2, <2>3
<1> HIDE DEF replay
<1>4. /\ k \notin registry /\ k \notin targets \cup dead
      /\ todo[k] = <<>> /\ wire[k] = <<>>
  BY <1>1, <1>2 DEF SessionsOK
<1>5. todo' \in [Conns -> Seq(Numbers)] /\ Increasing(todo'[k]) /\ Elems(todo'[k]) \subseteq processed
      /\ (session'[k] # "replaying" => todo'[k] = <<>>)
      /\ \A c \in Conns \ {k} : todo'[c] = todo[c]
  <2>1. CASE UNCHANGED todo
    BY <2>1, <1>1, <1>4, NoFrames
  <2>2. CASE replay # Unbridgeable /\ todo' = [todo EXCEPT ![k] = replay]
             /\ session' = [session EXCEPT ![k] = "replaying"]
    BY <2>2, <1>1, <1>3
  <2> QED BY <1>1, <1>2, <2>1, <2>2
<1>6. /\ session' \in [Conns -> Sessions] /\ base' \in [Conns -> 0..MaxSequence]
      /\ joined' \in [Conns -> SUBSET Numbers] /\ registry' \subseteq Conns
      /\ asked' \in [Conns -> Nat \cup {Unset}] /\ wire' \in [Conns -> Seq(Frames)]
      /\ \A c \in Conns \ {k} :
           /\ session'[c] = session[c] /\ joined'[c] = joined[c]
           /\ wire'[c] = wire[c] /\ (c \in registry' <=> c \in registry)
      /\ k \in registry' => session'[k] = "serving" /\ joined'[k] = processed
      /\ wire'[k] = <<>>
  BY <1>1, <1>2, <1>4 DEF Sessions
<1>7. HandlerTypes /\ OnlyHandlerOf(k) /\ NotHandler
  BY <1>2, <1>4, <1>5, <1>6, NoFrames DEF HandlerTypes, OnlyHandlerOf
<1>8. HandlerMoves(k)
  BY <1>2, <1>4, <1>5, <1>6, NoFrames DEF HandlerMoves
<1>9. HandlerSends(k)
  BY <1>2, <1>4, <1>5, <1>6, NoFrames DEF HandlerSends
<1> QED BY <1>7, <1>8, <1>9, HandlerStep

LEMMA SendSnapshotStep ==
  ASSUME NEW k \in Conns, IInv, SendSnapshot(k)
  PROVE  IInv'
<1> DEFINE frame == Snapshot(sequence, base[k])
<1>1. /\ session \in [Conns -> Sessions] /\ asked \in [Conns -> Nat \cup {Unset}]
      /\ todo \in [Conns -> Seq(Numbers)] /\ base \in [Conns -> 0..MaxSequence]
      /\ joined \in [Conns -> SUBSET Numbers] /\ wire \in [Conns -> Seq(Frames)]
      /\ registry \subseteq Conns /\ sequence \in 0..MaxSequence /\ TypeOK /\ SessionsOK
  BY Zenon DEF IInv, TypeOK
<1>2. /\ session[k] = "snapshotting" /\ session' = [session EXCEPT ![k] = "replaying"]
      /\ wire' = Sent(k, frame) /\ base' = [base EXCEPT ![k] = 0]
      /\ UNCHANGED <<registry, asked, todo, joined>> /\ NotHandler
  BY DEF SendSnapshot
<1>3. frame \in Frames /\ ~IsUpdate(frame)
  BY <1>1, FrameTypes
<1> HIDE DEF frame
<1>4. k \notin registry /\ k \notin targets \cup dead /\ todo[k] = <<>> /\ wire[k] = <<>>
  BY <1>1, <1>2 DEF SessionsOK
<1>5. /\ wire' \in [Conns -> Seq(Frames)]
      /\ \A c \in Conns : wire'[c] = IF c = k /\ k = conn THEN Append(wire[c], frame) ELSE wire[c]
  BY <1>1, <1>2, <1>3, SentFacts
<1>6. /\ OnlyFirst(wire'[k]) /\ InOrder(wire'[k]) /\ Updates(wire'[k]) = {}
      /\ k # conn => wire'[k] = <<>>
  <2>1. CASE k = conn
    <3>1. wire'[k] = Append(<<>>, frame)
      BY <2>1, <1>4, <1>5
    <3>2. /\ OnlyFirst(Append(<<>>, frame)) /\ InOrder(Append(<<>>, frame))
          /\ Updates(Append(<<>>, frame)) = {}
      BY <1>3, NoFrames, AppendFrame
    <3> QED BY <2>1, <3>1, <3>2
  <2>2. CASE k # conn
    BY <2>2, <1>4, <1>5, NoFrames
  <2> QED BY <2>1, <2>2
<1>7. /\ session' \in [Conns -> Sessions] /\ base' \in [Conns -> 0..MaxSequence]
      /\ session'[k] = "replaying"
      /\ \A c \in Conns \ {k} : session'[c] = session[c] /\ wire'[c] = wire[c]
  BY <1>1, <1>2, <1>5, SizesAssumption DEF Sessions
<1>8. HandlerTypes /\ OnlyHandlerOf(k) /\ NotHandler
  BY <1>1, <1>2, <1>4, <1>5, <1>6, <1>7, NoFrames DEF HandlerTypes, OnlyHandlerOf
<1>9. HandlerMoves(k)
  BY <1>1, <1>2, <1>4, <1>5, <1>6, <1>7, NoFrames DEF HandlerMoves
<1>10. HandlerSends(k)
  BY <1>1, <1>2, <1>4, <1>5, <1>6, <1>7, NoFrames DEF HandlerSends
<1> QED BY <1>8, <1>9, <1>10, HandlerStep

LEMMA SendReplayStep ==
  ASSUME NEW k \in Conns, IInv, SendReplay(k)
  PROVE  IInv'
<1> DEFINE n == Head(todo[k])
<1>1. /\ session \in [Conns -> Sessions] /\ asked \in [Conns -> Nat \cup {Unset}]
      /\ todo \in [Conns -> Seq(Numbers)] /\ base \in [Conns -> 0..MaxSequence]
      /\ joined \in [Conns -> SUBSET Numbers] /\ wire \in [Conns -> Seq(Frames)]
      /\ registry \subseteq Conns
      /\ TypeOK /\ SessionsOK /\ WireOK /\ WireIsOrdered
  BY Zenon DEF IInv, TypeOK
<1>2. /\ session[k] = "replaying" /\ todo[k] # <<>> /\ wire' = Sent(k, Update(n))
      /\ todo' = [todo EXCEPT ![k] = Tail(todo[k])]
      /\ UNCHANGED <<registry, session, asked, base, joined>> /\ NotHandler
  BY DEF SendReplay
<1>3. k \notin registry /\ k \notin targets \cup dead /\ (k # conn => wire[k] = <<>>)
  BY <1>1, <1>2 DEF SessionsOK
<1>4. /\ OnlyFirst(wire[k]) /\ InOrder(wire[k])
      /\ Updates(wire[k]) \cup Elems(todo[k]) \subseteq processed
      /\ Increasing(todo[k]) /\ \A m \in Updates(wire[k]), j \in Elems(todo[k]) : m < j
  BY <1>1 DEF WireOK, WireIsOrdered
<1>5. /\ n \in Numbers /\ n \in Elems(todo[k]) /\ Tail(todo[k]) \in Seq(Numbers)
      /\ Elems(Tail(todo[k])) \subseteq Elems(todo[k])
      /\ Increasing(Tail(todo[k])) /\ \A j \in Elems(Tail(todo[k])) : n < j
  BY <1>1, <1>2, <1>4, TailNumbers
<1> HIDE DEF n
<1>6. Update(n) \in Frames /\ IsUpdate(Update(n)) /\ Update(n).seq = n
  BY <1>5, FrameTypes
<1>7. /\ wire' \in [Conns -> Seq(Frames)]
      /\ \A c \in Conns :
           wire'[c] = IF c = k /\ k = conn THEN Append(wire[c], Update(n)) ELSE wire[c]
  BY <1>1, <1>2, <1>6, SentFacts
<1>8. /\ OnlyFirst(wire'[k]) /\ InOrder(wire'[k])
      /\ Updates(wire'[k]) \subseteq Updates(wire[k]) \cup {n}
      /\ k # conn => wire'[k] = <<>>
  <2>1. CASE k = conn
    <3>1. wire'[k] = Append(wire[k], Update(n))
      BY <2>1, <1>7
    <3>2. \A m \in Updates(wire[k]) : m < Update(n).seq
      BY <1>4, <1>5, <1>6
    <3>3. /\ OnlyFirst(Append(wire[k], Update(n))) /\ InOrder(Append(wire[k], Update(n)))
          /\ Updates(Append(wire[k], Update(n))) = Updates(wire[k]) \cup {n}
      BY <1>1, <1>4, <1>6, <3>2, AppendFrame
    <3> QED BY <2>1, <3>1, <3>3
  <2>2. CASE k # conn
    BY <2>2, <1>3, <1>4, <1>7
  <2> QED BY <2>1, <2>2
<1>9. todo' \in [Conns -> Seq(Numbers)] /\ todo'[k] = Tail(todo[k])
      /\ \A c \in Conns \ {k} : todo'[c] = todo[c] /\ wire'[c] = wire[c]
  BY <1>1, <1>2, <1>5, <1>7
<1>10. /\ Updates(wire'[k]) \cup Elems(todo'[k]) \subseteq processed
       /\ \A m \in Updates(wire'[k]), j \in Elems(todo'[k]) : m < j
  BY <1>4, <1>5, <1>8, <1>9
<1>11. HandlerTypes /\ OnlyHandlerOf(k) /\ NotHandler
  BY <1>1, <1>2, <1>3, <1>5, <1>7, <1>8, <1>9, <1>10 DEF HandlerTypes, OnlyHandlerOf
<1>12. HandlerMoves(k)
  BY <1>1, <1>2, <1>3, <1>5, <1>7, <1>8, <1>9, <1>10 DEF HandlerMoves
<1>13. HandlerSends(k)
  BY <1>1, <1>2, <1>3, <1>5, <1>7, <1>8, <1>9, <1>10 DEF HandlerSends
<1> QED BY <1>11, <1>12, <1>13, HandlerStep

LEMMA RegisterStep ==
  ASSUME NEW k \in Conns, IInv, Register(k)
  PROVE  IInv'
<1>1. /\ session \in [Conns -> Sessions] /\ asked \in [Conns -> Nat \cup {Unset}]
      /\ todo \in [Conns -> Seq(Numbers)] /\ base \in [Conns -> 0..MaxSequence]
      /\ joined \in [Conns -> SUBSET Numbers] /\ wire \in [Conns -> Seq(Frames)]
      /\ registry \subseteq Conns /\ processed \subseteq Numbers
      /\ SessionsOK /\ WireOK /\ WireIsOrdered
  BY Zenon DEF IInv, TypeOK
<1>2. /\ session[k] = "replaying" /\ todo[k] = <<>>
      /\ session' = [session EXCEPT ![k] = "serving"]
      /\ registry' = registry \cup {k} /\ joined' = [joined EXCEPT ![k] = processed]
      /\ UNCHANGED <<asked, todo, base, wire>> /\ NotHandler
  BY DEF Register
<1>3. k \notin registry /\ k \notin targets \cup dead /\ (k # conn => wire[k] = <<>>)
  BY <1>1, <1>2 DEF SessionsOK
<1>4. /\ OnlyFirst(wire[k]) /\ InOrder(wire[k])
      /\ Updates(wire[k]) \cup Elems(todo[k]) \subseteq processed
      /\ Increasing(todo[k]) /\ \A m \in Updates(wire[k]), j \in Elems(todo[k]) : m < j
  BY <1>1 DEF WireOK, WireIsOrdered
<1>5. /\ session' \in [Conns -> Sessions] /\ joined' \in [Conns -> SUBSET Numbers]
      /\ registry' \subseteq Conns
      /\ session'[k] = "serving" /\ joined'[k] = processed
      /\ \A c \in Conns \ {k} : /\ session'[c] = session[c] /\ joined'[c] = joined[c]
                                /\ (c \in registry' <=> c \in registry)
  BY <1>1, <1>2 DEF Sessions
<1>6. /\ asked' \in [Conns -> Nat \cup {Unset}] /\ todo' \in [Conns -> Seq(Numbers)]
      /\ base' \in [Conns -> 0..MaxSequence] /\ wire' \in [Conns -> Seq(Frames)]
      /\ todo'[k] = <<>> /\ (k # conn => wire'[k] = <<>>)
      /\ \A c \in Conns \ {k} : todo'[c] = todo[c] /\ wire'[c] = wire[c]
  BY <1>1, <1>2, <1>3
<1>7. /\ OnlyFirst(wire'[k]) /\ InOrder(wire'[k])
      /\ Updates(wire'[k]) \cup Elems(todo'[k]) \subseteq processed
      /\ Increasing(todo'[k]) /\ \A m \in Updates(wire'[k]), j \in Elems(todo'[k]) : m < j
  BY <1>2, <1>4
<1>8. HandlerTypes /\ OnlyHandlerOf(k) /\ NotHandler
  BY <1>2, <1>5, <1>6 DEF HandlerTypes, OnlyHandlerOf
<1>9. HandlerMoves(k)
  BY <1>2, <1>3, <1>5, <1>6 DEF HandlerMoves
<1>10. HandlerSends(k)
  BY <1>3, <1>7 DEF HandlerSends
<1> QED BY <1>8, <1>9, <1>10, HandlerStep

LEMMA CloseStep ==
  ASSUME NEW k \in Conns, IInv, Close(k)
  PROVE  IInv'
<1>1. /\ session \in [Conns -> Sessions] /\ asked \in [Conns -> Nat \cup {Unset}]
      /\ todo \in [Conns -> Seq(Numbers)] /\ base \in [Conns -> 0..MaxSequence]
      /\ joined \in [Conns -> SUBSET Numbers] /\ wire \in [Conns -> Seq(Frames)]
      /\ registry \subseteq Conns /\ SessionsOK
  BY Zenon DEF IInv, TypeOK
<1>2. /\ session[k] \notin {"unused", "closed"} /\ k # conn
      /\ session' = [session EXCEPT ![k] = "closed"]
      /\ registry' = registry \ {k}
      /\ asked' = [asked EXCEPT ![k] = Unset] /\ todo' = [todo EXCEPT ![k] = <<>>]
      /\ base' = [base EXCEPT ![k] = 0] /\ joined' = [joined EXCEPT ![k] = {}]
      /\ UNCHANGED wire /\ NotHandler
  BY DEF Close
<1>3. wire[k] = <<>>
  BY <1>1, <1>2 DEF SessionsOK
<1>4. <<>> \in Seq(Numbers) /\ 0 \in 0..MaxSequence
  BY EmptySeq, SizesAssumption
<1>5. /\ session' \in [Conns -> Sessions] /\ joined' \in [Conns -> SUBSET Numbers]
      /\ asked' \in [Conns -> Nat \cup {Unset}] /\ todo' \in [Conns -> Seq(Numbers)]
      /\ base' \in [Conns -> 0..MaxSequence] /\ registry' \subseteq Conns
      /\ session'[k] = "closed" /\ todo'[k] = <<>> /\ k \notin registry'
      /\ \A c \in Conns \ {k} : /\ session'[c] = session[c] /\ joined'[c] = joined[c]
                                /\ todo'[c] = todo[c] /\ (c \in registry' <=> c \in registry)
  BY <1>1, <1>2, <1>4 DEF Sessions
<1>6. HandlerTypes /\ OnlyHandlerOf(k) /\ NotHandler
  BY <1>1, <1>2, <1>3, <1>5, NoFrames DEF HandlerTypes, OnlyHandlerOf
<1>7. HandlerMoves(k)
  BY <1>1, <1>2, <1>3, <1>5, NoFrames DEF HandlerMoves
<1>8. HandlerSends(k)
  BY <1>1, <1>2, <1>3, <1>5, NoFrames DEF HandlerSends
<1> QED BY <1>6, <1>7, <1>8, HandlerStep

LEMMA ConnectStep == IInv /\ Connect => IInv'
<1> SUFFICES ASSUME IInv, Connect PROVE IInv'
  OBVIOUS
<1> DEFINE k == opened + 1
<1>1. /\ TypeOK /\ StreamOK /\ QueueOK /\ BufferOK /\ BroadcastOK /\ SessionsOK /\ WireOK
      /\ WireIsOrdered /\ KeptOrUnderWay
  BY Zenon DEF IInv
<1>2. /\ conn = 0 /\ opened < MaxConnections /\ conn' = k /\ opened' = k
      /\ session' = [session EXCEPT ![k] = "subscribing"]
      /\ asked' = [asked EXCEPT ![k] = lastSeq]
      /\ UNCHANGED <<wire, lastSeq, seen>> /\ NotClient
  BY DEF Connect
<1>3. UNCHANGED <<poll, sequence, stream, position, queue, buffer, processed, sending,
                  targets, dead, registry, todo, joined>>
  BY <1>2 DEF NotClient, worker, listener, hub
<1>4. /\ opened \in 0..MaxConnections /\ lastSeq \in Nat \cup {Unset}
      /\ session \in [Conns -> Sessions] /\ asked \in [Conns -> Nat \cup {Unset}]
  BY <1>1, Zenon DEF TypeOK
<1>5. k \in Conns /\ k \in 0..MaxConnections /\ k > opened /\ opened \in Nat
      /\ 0 \notin Conns /\ Conns \subseteq Nat
  BY <1>2, <1>4, SizesAssumption DEF Conns
<1>6. \A c \in Conns : c > k => c > opened
  BY <1>5
<1> HIDE DEF k
<1>7. k \notin registry /\ k \notin targets \cup dead /\ todo[k] = <<>>
      /\ \A c \in Conns : wire[c] = <<>>
  BY <1>1, <1>2, <1>5 DEF SessionsOK
<1>8. TypeOK'
  <2>1. session' \in [Conns -> Sessions] /\ asked' \in [Conns -> Nat \cup {Unset}]
    BY <1>2, <1>4, <1>5 DEF Sessions
  <2>2. conn' \in 0..MaxConnections /\ opened' \in 0..MaxConnections
    BY <1>2, <1>5
  <2> QED BY <1>1, <1>2, <2>1, <2>2, Zenon DEF TypeOK, NotClient, worker, listener, hub
<1>9. StreamOK' /\ QueueOK' /\ BufferOK' /\ BroadcastOK' /\ WireOK' /\ WireIsOrdered'
  BY <1>1, <1>2, <1>3, Untouched
<1>10. SessionsOK'
  <2>1. conn' <= opened'
    BY <1>2, <1>5
  <2>2. ASSUME NEW c \in Conns
        PROVE  /\ c > k => session'[c] = "unused"
               /\ c \in registry => session'[c] = "serving"
               /\ c \in targets \cup dead => session'[c] \in {"serving", "closed"}
               /\ session'[c] # "replaying" => todo[c] = <<>>
    <3>1. CASE c = k
      <4>1. session'[c] = "subscribing" /\ ~(c > k)
        BY <3>1, <1>2, <1>4, <1>5
      <4> QED BY <3>1, <4>1, <1>7
    <3>2. CASE c # k
      <4>1. session'[c] = session[c]
        BY <3>2, <1>2, <1>4
      <4> QED BY <4>1, <1>1, <1>6 DEF SessionsOK
    <3> QED BY <3>1, <3>2
  <2> QED BY <1>2, <1>3, <1>7, <2>1, <2>2 DEF SessionsOK
<1>11. KeptOrUnderWay'
  BY <1>2, <1>3, <1>7 DEF KeptOrUnderWay
<1> QED BY <1>8, <1>9, <1>10, <1>11, Zenon DEF IInv

LEMMA ReceiveStep == IInv /\ Receive => IInv'
<1> SUFFICES ASSUME IInv, Receive PROVE IInv'
  OBVIOUS
<1> DEFINE w == wire[conn]
           frame == Head(w)
           rest == Tail(w)
<1>1. /\ TypeOK /\ StreamOK /\ QueueOK /\ BufferOK /\ BroadcastOK /\ SessionsOK /\ WireOK
      /\ WireIsOrdered /\ KeptOrUnderWay
  BY Zenon DEF IInv
<1>2. /\ conn # 0 /\ w # <<>> /\ lastSeq' = frame.seq
      /\ seen' = IF frame.type = "snapshot" THEN 1..frame.upTo ELSE seen \cup {frame.seq}
      /\ wire' = [wire EXCEPT ![conn] = rest]
      /\ UNCHANGED <<session, asked, conn, opened>> /\ NotClient
  BY DEF Receive
<1>3. UNCHANGED <<poll, sequence, stream, position, queue, buffer, processed, sending,
                  targets, dead, registry, todo, joined>>
  BY <1>2 DEF NotClient, worker, listener, hub
<1>4. /\ conn \in 0..MaxConnections /\ seen \subseteq Numbers /\ processed \subseteq Numbers
      /\ wire \in [Conns -> Seq(Frames)]
  BY <1>1, Zenon DEF TypeOK
<1>5. conn \in Conns /\ w \in Seq(Frames)
  BY <1>2, <1>4, SizesAssumption DEF Conns
<1>6. InOrder(w) /\ OnlyFirst(w) /\ Updates(w) \subseteq processed
  BY <1>1, <1>5 DEF WireOK, WireIsOrdered
<1>7. wire' \in [Conns -> Seq(Frames)] /\ wire'[conn] = rest
      /\ \A c \in Conns \ {conn} : wire'[c] = wire[c]
  <2>1. rest \in Seq(Frames)
    BY <1>2, <1>5, TailFrames
  <2> HIDE DEF rest
  <2> QED BY <1>2, <1>4, <1>5, <2>1
<1>8. /\ frame \in Frames /\ frame = w[1]
      /\ Elems(w) = {frame} \cup Elems(rest) /\ Updates(rest) \subseteq Updates(w)
      /\ IsUpdate(frame) => frame.seq \in Updates(w)
      /\ InOrder(rest) /\ OnlyFirst(rest) /\ (rest # <<>> => IsUpdate(rest[1]))
  BY <1>2, <1>5, <1>6, TailFrames
<1>9. session[conn] \notin {"unused", "subscribing", "snapshotting"}
  BY <1>1, <1>2, <1>5 DEF SessionsOK
<1> HIDE DEF w, frame, rest
<1>10. seen' \subseteq Numbers /\ lastSeq' \in Nat \cup {Unset}
       /\ (IsUpdate(frame) => seen' = seen \cup {frame.seq})
  <2>1. frame.seq \in Nat /\ frame.upTo \in 0..MaxSequence
        /\ (IsUpdate(frame) <=> frame.type # "snapshot")
    BY <1>8, SizesAssumption DEF Frames, IsUpdate
  <2>2. 1..frame.upTo \subseteq Numbers
    BY <2>1, SizesAssumption DEF Numbers
  <2> QED BY <1>2, <1>4, <1>6, <1>8, <2>1, <2>2
<1>11. TypeOK'
  BY <1>1, <1>2, <1>7, <1>10, Zenon DEF TypeOK, NotClient, worker, listener, hub
<1>12. StreamOK' /\ QueueOK' /\ BufferOK' /\ BroadcastOK'
  BY <1>1, <1>3, Untouched
<1>13. SessionsOK'
  BY <1>1, <1>2, <1>3, <1>7, <1>9 DEF SessionsOK
<1>14. WireOK'
  <2>1. ASSUME NEW c \in Conns
        PROVE  OnlyFirst(wire'[c]) /\ Updates(wire'[c]) \cup Elems(todo[c]) \subseteq processed
    <3>1. Updates(w) \cup Elems(todo[conn]) \subseteq processed
      BY <1>1, <1>5 DEF WireOK, w
    <3>2. CASE c = conn
      BY <3>1, <3>2, <1>7, <1>8
    <3>3. CASE c # conn
      BY <3>3, <1>1, <1>7 DEF WireOK
    <3> QED BY <3>2, <3>3
  <2> QED BY <1>3, <2>1 DEF WireOK
<1>15. WireIsOrdered'
  <2>1. ASSUME NEW c \in Conns
        PROVE  /\ InOrder(wire'[c]) /\ Increasing(todo[c])
               /\ \A m \in Updates(wire'[c]), n \in Elems(todo[c]) : m < n
               /\ c \in targets => \A m \in Updates(wire'[c]) \cup Elems(todo[c]) : m < sending
    <3>1. /\ Increasing(todo[conn]) /\ \A m \in Updates(w), n \in Elems(todo[conn]) : m < n
          /\ conn \in targets => \A m \in Updates(w) \cup Elems(todo[conn]) : m < sending
      BY <1>1, <1>5 DEF WireIsOrdered, w
    <3>2. CASE c = conn
      BY <3>1, <3>2, <1>7, <1>8
    <3>3. CASE c # conn
      BY <3>3, <1>1, <1>7 DEF WireIsOrdered
    <3> QED BY <3>2, <3>3
  <2> QED BY <1>3, <2>1 DEF WireIsOrdered
<1>16. KeptOrUnderWay'
  <2> SUFFICES ASSUME conn \in registry, NEW s \in processed \ joined[conn]
               PROVE  \/ s \in seen' /\ (rest # <<>> => IsUpdate(rest[1]))
                      \/ Update(s) \in Elems(rest)
                      \/ s = sending /\ conn \in targets \cup dead
    BY <1>2, <1>3, <1>7 DEF KeptOrUnderWay
  <2>1. \/ s \in seen /\ IsUpdate(frame)
        \/ Update(s) \in Elems(w)
        \/ s = sending /\ conn \in targets \cup dead
    BY <1>1, <1>2, <1>8 DEF KeptOrUnderWay, w
  <2>2. CASE s \in seen /\ IsUpdate(frame)
    BY <2>2, <1>8, <1>10
  <2>3. CASE Update(s) \in Elems(w)
    <3>1. CASE Update(s) = frame
      <4>1. s \in Numbers
        BY <1>4
      <4>2. IsUpdate(frame) /\ frame.seq = s
        BY <3>1, <4>1, FrameTypes
      <4> QED BY <4>2, <1>8, <1>10
    <3> QED BY <2>3, <3>1, <1>8
  <2> QED BY <2>1, <2>2, <2>3
<1> QED BY <1>11, <1>12, <1>13, <1>14, <1>15, <1>16, Zenon DEF IInv

LEMMA HangupStep == IInv /\ conn # 0 /\ Hangup => IInv'
<1> SUFFICES ASSUME IInv, conn # 0, Hangup PROVE IInv'
  OBVIOUS
<1>1. /\ TypeOK /\ StreamOK /\ QueueOK /\ BufferOK /\ BroadcastOK /\ SessionsOK /\ WireOK
      /\ WireIsOrdered /\ KeptOrUnderWay
  BY Zenon DEF IInv
<1>2. /\ wire' = [wire EXCEPT ![conn] = <<>>] /\ conn' = 0
      /\ UNCHANGED <<session, asked, opened, lastSeq, seen>> /\ NotClient
  BY DEF Hangup
<1>3. UNCHANGED <<poll, sequence, stream, position, queue, buffer, processed, sending,
                  targets, dead, registry, todo, joined>>
  BY <1>2 DEF NotClient, worker, listener, hub
<1>4. /\ conn \in 0..MaxConnections /\ opened \in 0..MaxConnections
      /\ wire \in [Conns -> Seq(Frames)] /\ registry \subseteq Conns
  BY <1>1, Zenon DEF TypeOK
<1>5. conn \in Conns /\ 0 \notin Conns /\ 0 \in 0..MaxConnections /\ 0 <= opened
  BY <1>4, SizesAssumption DEF Conns
<1>6. /\ wire' \in [Conns -> Seq(Frames)] /\ wire'[conn] = <<>>
      /\ \A c \in Conns \ {conn} : wire'[c] = wire[c]
  BY <1>2, <1>4, <1>5, NoFrames
<1>7. TypeOK'
  BY <1>1, <1>2, <1>5, <1>6, Zenon DEF TypeOK, NotClient, worker, listener, hub
<1>8. StreamOK' /\ QueueOK' /\ BufferOK' /\ BroadcastOK'
  BY <1>1, <1>3, Untouched
<1>9. SessionsOK'
  BY <1>1, <1>2, <1>3, <1>5, <1>6 DEF SessionsOK
<1>10. ASSUME NEW c \in Conns
       PROVE  /\ OnlyFirst(wire'[c]) /\ InOrder(wire'[c])
              /\ Updates(wire'[c]) \subseteq Updates(wire[c])
  <2>1. OnlyFirst(wire[c]) /\ InOrder(wire[c])
    BY <1>1 DEF WireOK, WireIsOrdered
  <2> QED BY <2>1, <1>6, NoFrames
<1>11. WireOK'
  <2>1. ASSUME NEW c \in Conns
        PROVE  Updates(wire'[c]) \cup Elems(todo[c]) \subseteq processed
    BY <1>1, <1>10 DEF WireOK
  <2> QED BY <1>3, <1>10, <2>1 DEF WireOK
<1>12. WireIsOrdered'
  <2>1. ASSUME NEW c \in Conns
        PROVE  /\ Increasing(todo[c])
               /\ \A m \in Updates(wire'[c]), n \in Elems(todo[c]) : m < n
               /\ c \in targets => \A m \in Updates(wire'[c]) \cup Elems(todo[c]) : m < sending
    BY <1>1, <1>10 DEF WireIsOrdered
  <2> QED BY <1>3, <1>10, <2>1 DEF WireIsOrdered
<1>13. KeptOrUnderWay'
  BY <1>2, <1>3, <1>4, <1>5 DEF KeptOrUnderWay
<1> QED BY <1>7, <1>8, <1>9, <1>11, <1>12, <1>13, Zenon DEF IInv

LEMMA RestartStep == IInv /\ Restart => IInv'
<1> SUFFICES ASSUME IInv, Restart PROVE IInv'
  OBVIOUS
<1>1. TypeOK /\ StreamOK /\ SessionsOK
  BY Zenon DEF IInv
<1>2. /\ restarts < MaxRestarts /\ restarts' = restarts + 1
      /\ position' = Len(stream) /\ tailing' = TRUE /\ missed' = {}
      /\ queue' = <<>> /\ buffer' = <<>> /\ processed' = {}
      /\ sending' = 0 /\ targets' = {} /\ dead' = {} /\ registry' = {}
      /\ session' = [k \in Conns |-> IF session[k] = "unused" THEN "unused" ELSE "closed"]
      /\ asked' = [k \in Conns |-> Unset] /\ todo' = [k \in Conns |-> <<>>]
      /\ base' = [k \in Conns |-> 0] /\ joined' = [k \in Conns |-> {}]
      /\ wire' = [k \in Conns |-> <<>>] /\ conn' = 0
      /\ UNCHANGED <<worker, listenerFails, opened, lastSeq, seen>>
  BY DEF Restart
<1>3. UNCHANGED <<poll, applied, sequence, stream>>
  BY <1>2 DEF worker
<1>4. /\ stream \in Seq(Numbers) /\ restarts \in 0..MaxRestarts
      /\ opened \in 0..MaxConnections /\ Len(stream) \in Nat
      /\ <<>> \in Seq(Numbers) /\ Len(<<>>) = 0
  <2>1. stream \in Seq(Numbers) /\ restarts \in 0..MaxRestarts /\ opened \in 0..MaxConnections
    BY <1>1, Zenon DEF TypeOK
  <2> QED BY <2>1, EmptySeq, SequenceOfNumbers
<1>5. TypeOK'
  <2>1. /\ position' \in 0..Len(stream') /\ tailing' \in BOOLEAN
        /\ restarts' \in 0..MaxRestarts /\ conn' \in 0..MaxConnections
        /\ sending' \in 0..MaxSequence /\ Len(queue') <= QueueSize /\ Len(buffer') <= BufferSize
    BY <1>2, <1>3, <1>4, SizesAssumption, BufferSizeAssumption
  <2>2. /\ queue' \in Seq(Numbers) /\ buffer' \in Seq(Numbers) /\ processed' \subseteq Numbers
        /\ missed' \subseteq Numbers
        /\ targets' \subseteq Conns /\ dead' \subseteq Conns /\ registry' \subseteq Conns
    BY <1>2, <1>4
  <2>3. /\ session' \in [Conns -> Sessions] /\ asked' \in [Conns -> Nat \cup {Unset}]
        /\ todo' \in [Conns -> Seq(Numbers)] /\ base' \in [Conns -> 0..MaxSequence]
        /\ joined' \in [Conns -> SUBSET Numbers] /\ wire' \in [Conns -> Seq(Frames)]
    BY <1>2, <1>4, NoFrames, SizesAssumption DEF Sessions
  <2> QED BY <1>1, <1>2, <1>3, <2>1, <2>2, <2>3, Zenon DEF TypeOK
<1>6. StreamOK'
  BY <1>1, <1>3, Untouched
<1>7. QueueOK' /\ BufferOK' /\ BroadcastOK'
  <2>1. Unread' = {}
    BY <1>2, <1>3, <1>4 DEF Unread
  <2> QED BY <1>2, <2>1, NoFrames DEF QueueOK, BufferOK, BroadcastOK
<1>8. SessionsOK'
  BY <1>1, <1>2, <1>4 DEF SessionsOK
<1>9. WireOK' /\ WireIsOrdered'
  BY <1>2, NoFrames DEF WireOK, WireIsOrdered
<1>10. KeptOrUnderWay'
  BY <1>2 DEF KeptOrUnderWay
<1> QED BY <1>5, <1>6, <1>7, <1>8, <1>9, <1>10, Zenon DEF IInv

LEMMA Stutter == IInv /\ UNCHANGED vars => IInv'
<1> SUFFICES ASSUME IInv, UNCHANGED vars PROVE IInv'
  OBVIOUS
<1>1. /\ UNCHANGED <<poll, applied, sequence, stream, position, tailing, listenerFails, missed>>
      /\ UNCHANGED <<queue, buffer, processed, sending, targets, dead, registry, restarts>>
      /\ UNCHANGED <<session, asked, todo, base, joined, wire, conn, opened, lastSeq, seen>>
  BY DEF vars, worker, listener, hub, handlers, client
<1>2. TypeOK'
  BY <1>1, Zenon DEF IInv, TypeOK
<1>3. /\ StreamOK' /\ QueueOK' /\ BufferOK' /\ BroadcastOK' /\ SessionsOK' /\ WireOK'
      /\ WireIsOrdered' /\ KeptOrUnderWay'
  BY <1>1, Untouched DEF IInv
<1> QED BY <1>2, <1>3, Zenon DEF IInv

LEMMA Invariance == Spec => []IInv
<1>1. IInv /\ [Next]_vars => IInv'
  <2> SUFFICES ASSUME IInv, [Next]_vars PROVE IInv'
    OBVIOUS
  <2>1. CASE Worker
    BY <2>1, WorkerStep
  <2>2. CASE Listener
    BY <2>2, ListenerStep
  <2>3. CASE Hub
    BY <2>3, DequeueStep, EndBroadcastStep, SendsStep, HeartbeatStep DEF Hub
  <2>4. ASSUME NEW k \in Conns, Handler(k) PROVE IInv'
    BY <2>4, SubscribeStep, SendSnapshotStep, SendReplayStep, RegisterStep, CloseStep
       DEF Handler
  <2>5. CASE Client
    BY <2>5, ConnectStep, ReceiveStep, HangupStep DEF Client, Disconnect, Watchdog
  <2>6. CASE Restart
    BY <2>6, RestartStep
  <2>7. CASE UNCHANGED vars
    BY <2>7, Stutter
  <2> QED BY <2>1, <2>2, <2>3, <2>4, <2>5, <2>6, <2>7 DEF Next
<1> QED BY <1>1, Init_IInv, PTL DEF Spec

-----------------------------------------------------------------------------
(***************************************************************************)
(* What the replica lost, and when.                                        *)
(***************************************************************************)

\* The part of the stream behind the listener, as the property names it, and the part
\* before it are apart.
LEMMA PassedFacts ==
  ASSUME TypeOK, Increasing(stream)
  PROVE  /\ Elems(SubSeq(stream, 1, position)) = Passed
         /\ Elems(SubSeq(stream, position + 1, Len(stream))) = Unread
         /\ Passed \subseteq Nat /\ \A m \in Passed, n \in Unread : m < n
<1>1. stream \in Seq(Numbers) /\ position \in 0..Len(stream)
  BY Zenon DEF TypeOK
<1>2. /\ Len(stream) \in Nat /\ DOMAIN stream = 1..Len(stream)
      /\ \A i \in 1..Len(stream) : stream[i] \in Nat
  BY <1>1, SequenceOfNumbers
<1>3. /\ position \in Nat /\ position <= Len(stream) /\ Len(stream) <= Len(stream)
      /\ 0 \in Nat /\ 0 <= position /\ 0 + 1 = 1
  BY <1>1, <1>2
<1>4. Elems(SubSeq(stream, 0 + 1, position)) = {stream[i] : i \in 0 + 1 .. position}
  BY <1>1, <1>3, ReadFacts
<1>5. Elems(SubSeq(stream, 1, position)) = Passed
  BY <1>3, <1>4 DEF Passed
<1>6. Elems(SubSeq(stream, position + 1, Len(stream))) = Unread
  BY <1>1, <1>2, <1>3, ReadFacts DEF Unread
<1>7. \A i \in 1..position : i \in DOMAIN stream /\ stream[i] \in Nat
  BY <1>2, <1>3
<1>8. \A i \in 1..position, j \in position + 1 .. Len(stream) :
        i \in DOMAIN stream /\ j \in DOMAIN stream /\ i < j
  BY <1>2, <1>3
<1>9. \A i \in 1..position, j \in position + 1 .. Len(stream) : stream[i] < stream[j]
  BY <1>8 DEF Increasing
<1>10. Passed \subseteq Nat
  BY <1>7 DEF Passed
<1>11. \A m \in Passed, n \in Unread : m < n
  BY <1>9 DEF Passed, Unread
<1> QED BY <1>5, <1>6, <1>10, <1>11

LEMMA LostUntouched ==
  ASSUME LostOK, UNCHANGED <<missed>>, Passed' = Passed, Taken' = Taken
  PROVE  LostOK'
BY DEF LostOK

LEMMA LostInit == Init => LostOK
<1> SUFFICES ASSUME Init PROVE LostOK
  OBVIOUS
<1>1. Taken = {} /\ Passed = {} /\ missed = {}
  BY NoFrames DEF Init, Taken, Passed
<1> QED BY <1>1 DEF LostOK

LEMMA LostReadBatch == IInv /\ LostOK /\ ReadBatch => LostOK'
<1> SUFFICES ASSUME IInv, LostOK, ReadBatch PROVE LostOK'
  OBVIOUS
<1> DEFINE batch == SubSeq(stream, position + 1, position')
<1>1. /\ TypeOK /\ QueueOK /\ Increasing(stream) /\ Increasing(queue)
  <2>1. TypeOK /\ QueueOK /\ StreamOK
    BY Zenon DEF IInv
  <2> QED BY <2>1 DEF StreamOK, QueueOK
<1>2. /\ stream \in Seq(Numbers) /\ position \in 0..Len(stream)
      /\ queue \in Seq(Numbers) /\ Len(queue) <= QueueSize
  BY <1>1, Zenon DEF TypeOK
<1>3. Len(stream) \in Nat /\ position \in Nat /\ ReadCount \in Nat
  BY <1>2, SequenceOfNumbers, SizesAssumption
<1>4. /\ position' = Least(Len(stream), position + ReadCount)
      /\ queue' = Enqueue(queue, batch)
      /\ missed' = missed \cup (Elems(batch) \ Elems(queue'))
      /\ stream' = stream /\ processed' = processed /\ position < Len(stream)
  BY DEF ReadBatch, NotListener, worker
<1>5. position' \in Nat /\ position <= position' /\ position' <= Len(stream)
  BY <1>3, <1>4 DEF Least
<1>6. /\ batch \in Seq(Numbers) /\ Increasing(batch)
      /\ Elems(batch) = {stream[i] : i \in position + 1 .. position'}
  BY <1>1, <1>2, <1>3, <1>5, ReadFacts
<1> HIDE DEF batch
<1>7. Elems(batch) \subseteq Unread
  <2>1. \A i \in position + 1 .. position' : i \in position + 1 .. Len(stream)
    BY <1>3, <1>5, Intervals
  <2> QED BY <1>6, <2>1 DEF Unread
<1>8. Passed' = Passed \cup Elems(batch)
  <2>1. /\ \A i \in 1..position' : i \in 1..position \/ i \in position + 1 .. position'
        /\ \A i \in 1..position : i \in 1..position'
        /\ \A i \in position + 1 .. position' : i \in 1..position'
    BY <1>3, <1>5
  <2>2. Passed' = {stream[i] : i \in 1..position'}
    BY <1>4 DEF Passed
  <2> QED BY <1>6, <2>1, <2>2 DEF Passed
<1>9. /\ Elems(queue') \subseteq Elems(queue) \cup Elems(batch)
      /\ Elems(queue) \subseteq Elems(queue')
  BY <1>1, <1>2, <1>4, <1>6, <1>7, EnqueueFacts DEF QueueOK
<1>10. Taken' = processed \cup Elems(queue')
  BY <1>4 DEF Taken
<1>11. Passed \subseteq Nat /\ \A m \in Passed, n \in Elems(batch) : m < n
  BY <1>1, <1>7, PassedFacts
<1>12. Passed \cap Elems(batch) = {}
  <2>1. \A m \in Passed : ~(m < m)
    BY <1>11
  <2> QED BY <1>11, <2>1, Zenon
<1>13. Taken' \subseteq Passed' /\ missed' \subseteq Passed'
  BY <1>4, <1>8, <1>9, <1>10 DEF LostOK, Taken
<1>14. missed' \cap Taken' = {}
  BY <1>4, <1>9, <1>10, <1>12 DEF LostOK, Taken
<1>15. Passed' \ (missed' \cup Taken') \subseteq Passed \ (missed \cup Taken)
  BY <1>4, <1>8, <1>9, <1>10 DEF Taken
<1>16. Taken' \subseteq Taken \cup Elems(batch)
  BY <1>9, <1>10 DEF Taken
<1> QED BY <1>11, <1>13, <1>14, <1>15, <1>16 DEF LostOK

LEMMA LostResubscribe == IInv /\ LostOK /\ Resubscribe => LostOK'
<1> SUFFICES ASSUME IInv, LostOK, Resubscribe PROVE LostOK'
  OBVIOUS
<1>1. TypeOK /\ Increasing(stream)
  <2>1. TypeOK /\ StreamOK
    BY Zenon DEF IInv
  <2> QED BY <2>1 DEF StreamOK
<1>2. stream \in Seq(Numbers) /\ position \in 0..Len(stream)
  BY <1>1, Zenon DEF TypeOK
<1>3. Len(stream) \in Nat
  BY <1>2, SequenceOfNumbers
<1>4. /\ position' = Len(stream) /\ missed' = missed \cup Unread /\ Taken' = Taken
      /\ stream' = stream
  <2>1. missed' = missed \cup Unread
    BY <1>1, PassedFacts DEF Resubscribe
  <2> QED BY <2>1 DEF Resubscribe, NotListener, worker, Taken
<1>5. Passed' = Passed \cup Unread
  <2>1. Passed' = {stream[i] : i \in 1..Len(stream)}
    BY <1>4 DEF Passed
  <2>2. /\ \A i \in 1..Len(stream) : i \in 1..position \/ i \in position + 1 .. Len(stream)
        /\ \A i \in 1..position : i \in 1..Len(stream)
        /\ \A i \in position + 1 .. Len(stream) : i \in 1..Len(stream)
    BY <1>2, <1>3
  <2> QED BY <2>1, <2>2 DEF Passed, Unread
<1>6. Passed \cap Unread = {}
  BY <1>1, PassedFacts
<1> QED BY <1>4, <1>5, <1>6 DEF LostOK

LEMMA LostRestart == Restart => LostOK'
<1> SUFFICES ASSUME Restart PROVE LostOK'
  OBVIOUS
<1>1. Taken' = {} /\ missed' = {}
  BY NoFrames DEF Restart, Taken
<1> QED BY <1>1 DEF LostOK

\* A poll appends behind the listener's position.
LEMMA LostWorker == IInv /\ LostOK /\ Worker => LostOK'
<1> SUFFICES ASSUME IInv, LostOK, Worker PROVE LostOK'
  OBVIOUS
<1>1. stream \in Seq(Numbers) /\ position \in 0..Len(stream) /\ sequence \in Nat
  <2>1. stream \in Seq(Numbers) /\ position \in 0..Len(stream) /\ sequence \in 0..MaxSequence
    BY Zenon DEF IInv, TypeOK
  <2> QED BY <2>1
<1>2. UNCHANGED <<position, missed, queue, processed>>
  BY DEF Worker, ApplyDiff, TakeNumber, Publish, BurnNumber, NotWorker, listener, hub
<1>3. Taken' = Taken
  BY <1>2 DEF Taken
<1>4. CASE Publish
  <2>1. stream' = Append(stream, sequence) /\ Len(stream) \in Nat
    BY <1>1, <1>4, SequenceOfNumbers DEF Publish
  <2>2. \A i \in 1..Len(stream) : stream'[i] = stream[i]
    BY <1>1, <2>1, AppendProperties
  <2>3. \A i \in 1..position : stream'[i] = stream[i]
    BY <1>1, <2>1, <2>2
  <2>4. Passed' = {stream'[i] : i \in 1..position}
    BY <1>2 DEF Passed
  <2>5. Passed' = Passed
    BY <2>3, <2>4 DEF Passed
  <2> QED BY <1>2, <1>3, <2>5, LostUntouched
<1>5. CASE ~Publish
  <2>1. stream' = stream
    BY <1>5 DEF Worker, ApplyDiff, TakeNumber, BurnNumber
  <2>2. Passed' = Passed
    BY <1>2, <2>1 DEF Passed
  <2> QED BY <1>2, <1>3, <2>2, LostUntouched
<1> QED BY <1>4, <1>5

\* The hub moves a number from the queue to what it has processed.
LEMMA LostHub == IInv /\ LostOK /\ Hub => LostOK'
<1> SUFFICES ASSUME IInv, LostOK, Hub PROVE LostOK'
  OBVIOUS
<1>1. UNCHANGED <<stream, position, missed>>
  BY DEF Hub, Dequeue, EndBroadcast, Sends, SendOk, SendFails, Heartbeat, NotHub, worker,
         listener
<1>2. Passed' = Passed
  BY <1>1 DEF Passed
<1>3. Taken' = Taken
  <2>1. CASE Dequeue
    <3>1. queue \in Seq(Numbers) /\ Increasing(queue)
      <4>1. queue \in Seq(Numbers) /\ QueueOK
        BY Zenon DEF IInv, TypeOK
      <4> QED BY <4>1 DEF QueueOK
    <3>2. queue # <<>> /\ queue' = Tail(queue) /\ processed' = processed \cup {Head(queue)}
      BY <2>1 DEF Dequeue
    <3>3. Elems(queue) = {Head(queue)} \cup Elems(Tail(queue))
      BY <3>1, <3>2, TailNumbers
    <3> QED BY <3>2, <3>3 DEF Taken
  <2>2. CASE ~Dequeue
    <3>1. UNCHANGED <<queue, processed>>
      BY <2>2 DEF Hub, EndBroadcast, Sends, SendOk, SendFails, Heartbeat, hub
    <3> QED BY <3>1 DEF Taken
  <2> QED BY <2>1, <2>2
<1> QED BY <1>1, <1>2, <1>3, LostUntouched

LEMMA LostInvariance == Spec => []LostOK
<1>1. IInv /\ LostOK /\ [Next]_vars => LostOK'
  <2> SUFFICES ASSUME IInv, LostOK, [Next]_vars PROVE LostOK'
    OBVIOUS
  <2>1. ASSUME UNCHANGED <<stream, position, missed, queue, processed>> PROVE LostOK'
    <3>1. Passed' = Passed /\ Taken' = Taken
      BY <2>1 DEF Passed, Taken
    <3> QED BY <2>1, <3>1, LostUntouched
  <2>2. CASE Worker
    BY <2>2, LostWorker
  <2>3. CASE Listener
    <3>1. LoseSubscription => UNCHANGED <<stream, position, missed, queue, processed>>
      BY DEF LoseSubscription, NotListener, worker
    <3> QED BY <2>1, <2>3, <3>1, LostReadBatch, LostResubscribe DEF Listener
  <2>4. CASE Hub
    BY <2>4, LostHub
  <2>5. ASSUME NEW k \in Conns, Handler(k) PROVE LostOK'
    <3>1. UNCHANGED <<worker, listener, hub>>
      BY <2>5 DEF Handler, Subscribe, SendSnapshot, SendReplay, Register, Close, NotHandler
    <3> QED BY <2>1, <3>1 DEF worker, listener, hub
  <2>6. CASE Client
    <3>1. UNCHANGED <<worker, listener, hub>>
      BY <2>6 DEF Client, Connect, Receive, Disconnect, Watchdog, Hangup, NotClient
    <3> QED BY <2>1, <3>1 DEF worker, listener, hub
  <2>7. CASE Restart
    BY <2>7, LostRestart
  <2>8. CASE UNCHANGED vars
    BY <2>1, <2>8 DEF vars, worker, listener, hub
  <2> QED BY <2>2, <2>3, <2>4, <2>5, <2>6, <2>7, <2>8 DEF Next
<1> QED BY <1>1, LostInit, Invariance, PTL DEF Spec

\* A replay starts at most one number before the oldest buffered update, and what a
\* restart lost is older than that: nothing in the replay's range is lost to it.
LEMMA SurvivesFromLost == IInv /\ LostOK => ReplaysSurviveRestarts
<1> SUFFICES ASSUME IInv, LostOK, NEW last \in 0..MaxSequence,
                    Since(buffer, last) # Unbridgeable
             PROVE  Elems(Since(buffer, last)) =
                      {s \in Elems(SubSeq(stream, 1, position)) \ Elems(queue) : s > last}
                        \ missed
  BY DEF ReplaysSurviveRestarts
<1>1. /\ TypeOK /\ BufferOK /\ QueueOK /\ StreamOK
  BY Zenon DEF IInv
<1>2. /\ buffer \in Seq(Numbers) /\ processed \subseteq Numbers /\ Increasing(buffer)
      /\ queue \in Seq(Numbers) /\ Increasing(stream)
  BY <1>1, Zenon DEF TypeOK, BufferOK, StreamOK
<1>3. last \in Nat /\ processed \subseteq Nat
  BY <1>2, SizesAssumption DEF Numbers
<1>4. Elems(SubSeq(stream, 1, position)) = Passed /\ Passed \subseteq Nat
  BY <1>1, <1>2, PassedFacts
<1>5. Elems(Since(buffer, last)) = {s \in processed : s > last}
  BY KeptFromIInv DEF ReplayIsWhatTheHubKept
<1>6. buffer # <<>> /\ (last >= Newest(buffer) \/ last + 1 >= Oldest(buffer))
  BY <1>2, <1>3, SinceFacts
<1>7. buffer[1] \in Taken /\ last + 1 >= buffer[1] /\ buffer[1] \in Nat
  <2>1. /\ 1 \in DOMAIN buffer /\ Len(buffer) \in DOMAIN buffer /\ Len(buffer) \in Nat
        /\ buffer[1] \in Nat /\ buffer[Len(buffer)] \in Nat
    BY <1>2, <1>6, SequenceOfNumbers
  <2>2. buffer[1] <= buffer[Len(buffer)]
    <3>1. Len(buffer) = 1 \/ 1 < Len(buffer)
      <4>1. DOMAIN buffer = 1..Len(buffer)
        BY <1>2, SequenceOfNumbers
      <4> QED BY <2>1, <4>1
    <3> QED BY <1>2, <2>1, <3>1 DEF Increasing
  <2>3. buffer[1] \in processed
    BY <1>1, <2>1 DEF BufferOK, Elems
  <2> QED BY <1>3, <1>6, <2>1, <2>2, <2>3 DEF Newest, Oldest, Taken
<1>8. ASSUME NEW s \in Passed \ (missed \cup Taken) PROVE ~(s > last)
  <2>1. s < buffer[1] /\ s \in Nat
    BY <1>4, <1>7, <1>8 DEF LostOK
  <2> QED BY <1>3, <1>7, <2>1
<1>9. processed \subseteq Passed \ missed
  BY DEF LostOK, Taken
<1>10. processed \cap Elems(queue) = {}
  <2>1. \A m \in processed, n \in Elems(queue) : m < n
    BY <1>1 DEF QueueOK
  <2>2. \A m \in processed : ~(m < m)
    BY <1>3
  <2> QED BY <2>1, <2>2, Zenon
<1> QED BY <1>4, <1>5, <1>8, <1>9, <1>10 DEF Taken

-----------------------------------------------------------------------------
(***************************************************************************)
(* The theorems.                                                           *)
(***************************************************************************)

\* Queue and buffer never grow beyond their sizes, and the frames, numbers and
\* connections are those that the worker and the client have made.
THEOREM TypeCorrect == Spec => []TypeOK
<1>1. IInv => TypeOK
  BY Zenon DEF IInv
<1> QED BY <1>1, Invariance, PTL

\* What since() replays is exactly what the hub has processed after last_seq: no
\* eviction, drop, burnt number or failed subscription makes a replay partial.
THEOREM ReplayIsComplete == Spec => []ReplayIsWhatTheHubKept
BY KeptFromIInv, Invariance, PTL

\* A registered connection misses no message that the hub takes from its queue,
\* whatever is being replayed to it or broadcast when it is registered.
THEOREM RegisteredAreServed == Spec => []RegisteredMissNothing
BY MissNothingFromIInv, Invariance, PTL

\* On one connection the updates arrive in growing order: a replay and a
\* broadcast never overtake each other.
THEOREM UpdatesArriveInOrder == Spec => []WireIsOrdered
<1>1. IInv => WireIsOrdered
  BY Zenon DEF IInv
<1> QED BY <1>1, Invariance, PTL

\* A replay lacks nothing that the stream held up to the listener's position but what
\* the running replica let go by or has still in its queue: nothing from before a restart.
THEOREM RestartsKeepReplays == Spec => []ReplaysSurviveRestarts
BY LostInvariance, Invariance, SurvivesFromLost, PTL

=============================================================================

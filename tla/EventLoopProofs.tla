---------------------------- MODULE EventLoopProofs ---------------------------
(***************************************************************************)
(* Proofs about module EventLoop, for any finite set of descriptors and    *)
(* any number of connections and commands.                                 *)
(***************************************************************************)
EXTENDS EventLoop, SequenceTheorems, FiniteSetTheorems, TLAPS

\* No descriptor is in _fds twice.
FdsOnce == \A m, n \in DOMAIN fds : fds[m] = fds[n] => m = n

\* What is in _fds, and for what it is polled.
FdsAre ==
    /\ \A n \in DOMAIN fds : fds[n] \in clientFds \cup {ServerFd}
    /\ \A f \in clientFds \cup {ServerFd} : \E n \in DOMAIN fds : fds[n] = f

FdsCounted == Len(fds) = Cardinality(clientFds) + 1

FlagsMatch == \A f \in clientFds : watch[f] = IF pollOut[f] THEN {"IN", "OUT"} ELSE {"IN"}

\* No descriptor has two events in a batch.
EventsOnce == \A m, n \in DOMAIN batch : batch[m].fd = batch[n].fd => m = n

\* accept does not block: the connection that made the listening socket ready
\* is still waiting.
ServerEventHasClient ==
    \A n \in DOMAIN batch : batch[n].fd = ServerFd => backlog # << >>

\* The inductive invariant. That an event meets its client needs to know that
\* a descriptor has one event at most, which comes from it being in _fds once;
\* that the table is typed after an accept, that a connection is waiting.
LoopInv ==
    /\ LoopTypeOK
    /\ FdsOnce /\ FdsAre /\ FdsCounted /\ FlagsMatch
    /\ EventsOnce /\ ServerEventHasClient /\ EventsMeetTheirClient
    /\ WritersArePolled

-------------------------------------------------------------------------------
(* Operators *)

\* What poll reports is typed.
LEMMA ReventsType ==
    ASSUME NEW f
    PROVE  revents(f) \in SUBSET {"IN", "OUT", "HUP"}
  <1>1. CASE f = ServerFd
    BY <1>1 DEF revents
  <1>2. CASE f # ServerFd
    BY <1>2 DEF revents, socketEvents
  <1> QED BY <1>1, <1>2

\* The batch that poll returns: its events are those of distinct entries of
\* _fds that are ready.
LEMMA BatchOfPoll ==
    ASSUME NEW b \in readyEvents, fds \in Seq(Fds \cup {ServerFd})
    PROVE  \E p : /\ b = [k \in DOMAIN p |-> pollEvent(fds[p[k]])]
                  /\ Cardinality(readyPositions) \in Nat
                  /\ p \in [1..Cardinality(readyPositions) -> readyPositions]
                  /\ \A j, k \in DOMAIN p : j < k => p[j] < p[k]
  <1>1. PICK p \in {q \in [1..Cardinality(readyPositions) -> readyPositions] :
                       \A j, k \in DOMAIN q : j < k => q[j] < q[k]} :
           b = [k \in DOMAIN p |-> pollEvent(fds[p[k]])]
    BY DEF readyEvents
  <1>2. /\ p \in [1..Cardinality(readyPositions) -> readyPositions]
        /\ \A j, k \in DOMAIN p : j < k => p[j] < p[k]
    BY <1>1
  <1>3. Cardinality(readyPositions) \in Nat
    <2>1. IsFiniteSet(1..Len(fds))
      BY FS_Interval
    <2>2. readyPositions \subseteq 1..Len(fds)
      BY DEF readyPositions
    <2>3. IsFiniteSet(readyPositions)
      BY <2>1, <2>2, FS_Subset
    <2> QED BY <2>3, FS_CardinalityType
  <1> QED BY <1>1, <1>2, <1>3

\* t is s without its position n.
ErasedAt(s, n, t) == t = SubSeq(s, 1, n - 1) \o SubSeq(s, n + 1, Len(s))

LEMMA Erased ==
    ASSUME NEW S, NEW s \in Seq(S), NEW n \in DOMAIN s, NEW t, ErasedAt(s, n, t)
    PROVE  /\ t \in Seq(S) /\ Len(t) = Len(s) - 1
           /\ \A i \in 1..Len(t) : (i < n => t[i] = s[i]) /\ (i >= n => t[i] = s[i + 1])
  <1> DEFINE a == SubSeq(s, 1, n - 1)
             b == SubSeq(s, n + 1, Len(s))
  <1>1. Len(s) \in Nat /\ n \in 1..Len(s) /\ \A i \in 1..Len(s) : s[i] \in S
    OBVIOUS
  <1>2. a \in Seq(S)
    BY <1>1, SubSeqProperties
  <1>3. Len(a) = n - 1 /\ \A i \in 1..(n - 1) : a[i] = s[i]
    <2>1. /\ Len(a) = IF 1 <= n - 1 THEN (n - 1) - 1 + 1 ELSE 0
          /\ \A i \in 1..((n - 1) - 1 + 1) : a[i] = s[1 + i - 1]
      BY <1>1, SubSeqProperties
    <2> QED BY <1>1, <2>1
  <1>4. b \in Seq(S)
    BY <1>1, SubSeqProperties
  <1>5. Len(b) = Len(s) - n /\ \A i \in 1..(Len(s) - n) : b[i] = s[n + i]
    <2>1. /\ Len(b) = IF n + 1 <= Len(s) THEN Len(s) - (n + 1) + 1 ELSE 0
          /\ \A i \in 1..(Len(s) - (n + 1) + 1) : b[i] = s[(n + 1) + i - 1]
      BY <1>1, SubSeqProperties, SMTT(30)
    <2> HIDE DEF b
    <2>2. Len(b) = Len(s) - n
      BY <1>1, <2>1
    <2>3. ASSUME NEW i \in 1..(Len(s) - n) PROVE b[i] = s[n + i]
      <3>1. i \in 1..(Len(s) - (n + 1) + 1) /\ (n + 1) + i - 1 = n + i
        BY <1>1
      <3> QED BY <2>1, <3>1
    <2> QED BY <2>2, <2>3
  <1> HIDE DEF a, b
  <1>6. t = a \o b
    BY DEF a, b, ErasedAt
  <1>7. /\ t \in Seq(S) /\ Len(t) = Len(a) + Len(b)
        /\ \A i \in 1..(Len(a) + Len(b)) : t[i] = IF i <= Len(a) THEN a[i] ELSE b[i - Len(a)]
    BY <1>2, <1>4, <1>6, ConcatProperties
  <1>8. Len(t) = Len(s) - 1 /\ Len(a) = n - 1 /\ Len(b) = Len(s) - n
    <2>1. Len(a) = n - 1 /\ Len(b) = Len(s) - n /\ Len(t) = Len(a) + Len(b)
      BY <1>3, <1>5, <1>7
    <2> QED BY <1>1, <2>1
  <1>9. ASSUME NEW i \in 1..Len(t), i < n
        PROVE  t[i] = s[i]
    <2>1. i \in 1..(n - 1) /\ i <= Len(a) /\ i \in 1..(Len(a) + Len(b))
      BY <1>1, <1>3, <1>7, <1>8, <1>9
    <2> QED BY <2>1, <1>3, <1>7
  <1>10. ASSUME NEW i \in 1..Len(t), i >= n
         PROVE  t[i] = s[i + 1]
    <2>1. /\ ~ (i <= Len(a)) /\ i \in 1..(Len(a) + Len(b))
          /\ i - Len(a) \in 1..(Len(s) - n) /\ n + (i - Len(a)) = i + 1
      BY <1>1, <1>8, <1>10
    <2>2. t[i] = b[i - Len(a)]
      BY <2>1, <1>7
    <2>3. b[i - Len(a)] = s[n + (i - Len(a))]
      BY <2>1, <1>5
    <2> QED BY <2>1, <2>2, <2>3
  <1> QED BY <1>7, <1>8, <1>9, <1>10

-------------------------------------------------------------------------------
(* The parts of the invariant *)

ControlOK == pc \in {"top", "poll", "batch", "write", "saved", "died"} /\ running \in BOOLEAN
TableOK ==
    /\ table \in [Fds -> Connections \cup {0}] /\ wbuf \in [Fds -> Nat]
    /\ pollOut \in [Fds -> BOOLEAN] /\ watch \in [Fds -> SUBSET {"IN", "OUT"}]
KernelOK ==
    /\ opened \in 0..MaxOpened /\ backlog \in Seq(Connections)
    /\ peer \in [Connections -> {"open", "closed", "reset"}]
    /\ inbox \in [Connections -> Nat] /\ sent \in 0..MaxSent
    /\ space \in [Connections -> BOOLEAN]
PollerOK == fds \in Seq(Fds \cup {ServerFd}) /\ FdsOnce /\ FdsAre /\ FdsCounted
BatchOK == batch \in Seq(Event) /\ EventsOnce /\ ServerEventHasClient /\ EventsMeetTheirClient
WriteOK == pc = "write" => batch # << >> /\ Head(batch).fd \in clientFds

LEMMA LoopParts ==
    LoopInv <=> /\ ControlOK /\ TableOK /\ KernelOK /\ PollerOK /\ FlagsMatch
                /\ BatchOK /\ WriteOK /\ WritersArePolled
  BY Zenon DEF LoopInv, LoopTypeOK, ControlOK, TableOK, KernelOK, PollerOK, BatchOK, WriteOK

LEMMA LoopPartsPrimed ==
    ASSUME ControlOK', TableOK', KernelOK', PollerOK', FlagsMatch', BatchOK', WriteOK',
           WritersArePolled'
    PROVE  LoopInv'
  BY Zenon DEF LoopInv, LoopTypeOK, ControlOK, TableOK, KernelOK, PollerOK, BatchOK, WriteOK

LEMMA ClientFdsFinite == clientFds \subseteq Fds /\ IsFiniteSet(clientFds)
  <1>1. clientFds \subseteq Fds
    BY DEF clientFds
  <1> QED BY <1>1, FdsAssumption, FS_Subset

LEMMA ClientFdsSame == table' = table => clientFds' = clientFds
  BY DEF clientFds

LEMMA KernelSame == KernelOK /\ UNCHANGED kernelVars => KernelOK'
  BY DEF KernelOK, kernelVars

LEMMA TableSame == TableOK /\ UNCHANGED << table, wbuf, pollOut, watch >> => TableOK'
  BY DEF TableOK

LEMMA PollerSame == PollerOK /\ UNCHANGED << table, fds >> => PollerOK'
  BY ClientFdsSame DEF PollerOK, FdsOnce, FdsAre, FdsCounted

LEMMA FlagsSame == FlagsMatch /\ UNCHANGED << table, pollOut, watch >> => FlagsMatch'
  BY ClientFdsSame DEF FlagsMatch

LEMMA WritersSame ==
    WritersArePolled /\ UNCHANGED << pc, table, wbuf, watch >> => WritersArePolled'
  BY ClientFdsSame DEF WritersArePolled

LEMMA WriteSame == WriteOK /\ UNCHANGED << pc, table, batch >> => WriteOK'
  BY ClientFdsSame DEF WriteOK

\* A batch that is left alone stays right while the clients that its events
\* are for are in the table.
LEMMA BatchSame ==
    ASSUME BatchOK, batch' = batch, \A f \in clientFds : f \in clientFds' /\ table'[f] = table[f],
           backlog # << >> => backlog' # << >>
    PROVE  BatchOK'
  <1>1. batch' \in Seq(Event)
    BY DEF BatchOK
  <1>2. EventsOnce'
    BY DEF BatchOK, EventsOnce
  <1>3. ServerEventHasClient'
    BY DEF BatchOK, ServerEventHasClient
  <1>4. EventsMeetTheirClient'
    BY DEF BatchOK, EventsMeetTheirClient
  <1> QED BY <1>1, <1>2, <1>3, <1>4 DEF BatchOK

\* The first event of a batch is done: the other events are right whatever was
\* done to its own descriptor.
LEMMA BatchTail ==
    ASSUME BatchOK, batch # << >>, batch' = Tail(batch),
           \A f \in clientFds : f # Head(batch).fd => f \in clientFds' /\ table'[f] = table[f],
           Head(batch).fd = ServerFd \/ backlog' = backlog
    PROVE  BatchOK'
  <1>0. batch \in Seq(Event)
    BY DEF BatchOK
  <1>1. /\ batch' \in Seq(Event) /\ Len(batch') = Len(batch) - 1
        /\ \A n \in 1..Len(batch') : batch'[n] = batch[n + 1]
    BY <1>0, HeadTailProperties
  <1>2. /\ Len(batch) \in Nat /\ Len(batch) > 0 /\ Head(batch) = batch[1]
        /\ DOMAIN batch = 1..Len(batch) /\ DOMAIN batch' = 1..Len(batch')
    BY <1>0, <1>1
  <1>3. ASSUME NEW n \in DOMAIN batch'
        PROVE  n + 1 \in DOMAIN batch /\ 1 \in DOMAIN batch /\ n + 1 # 1 /\ batch'[n] = batch[n + 1]
    BY <1>1, <1>2
  <1>4. EventsOnce'
    <2> SUFFICES ASSUME NEW m \in DOMAIN batch', NEW n \in DOMAIN batch',
                        batch'[m].fd = batch'[n].fd
                 PROVE  m = n
      BY DEF EventsOnce
    <2>1. m + 1 = n + 1
      BY <1>3 DEF BatchOK, EventsOnce
    <2>2. m \in Nat /\ n \in Nat
      BY <1>2
    <2> QED BY <2>1, <2>2
  <1>5. ASSUME NEW n \in DOMAIN batch'
        PROVE  batch'[n].fd # Head(batch).fd
    BY <1>2, <1>3 DEF BatchOK, EventsOnce
  <1>6. ServerEventHasClient'
    <2> SUFFICES ASSUME NEW n \in DOMAIN batch', batch'[n].fd = ServerFd
                 PROVE  backlog' # << >>
      BY DEF ServerEventHasClient
    <2>1. Head(batch).fd # ServerFd
      BY <1>5
    <2>2. backlog # << >>
      BY <1>3 DEF BatchOK, ServerEventHasClient
    <2> QED BY <2>1, <2>2
  <1>7. EventsMeetTheirClient'
    <2> SUFFICES ASSUME NEW n \in DOMAIN batch', batch'[n].fd # ServerFd
                 PROVE  batch'[n].fd \in clientFds' /\ table'[batch'[n].fd] = batch'[n].who
      BY DEF EventsMeetTheirClient
    <2> DEFINE f == batch'[n].fd
    <2>1. f \in clientFds /\ table[f] = batch'[n].who
      BY <1>3 DEF BatchOK, EventsMeetTheirClient
    <2>2. f # Head(batch).fd
      BY <1>5
    <2> HIDE DEF f
    <2>3. f \in clientFds' /\ table'[f] = table[f]
      BY <2>1, <2>2
    <2> QED BY <2>1, <2>3 DEF f
  <1> QED BY <1>1, <1>4, <1>6, <1>7 DEF BatchOK

-------------------------------------------------------------------------------
(* Poller *)

\* Poller::addFileDescriptor, for a client that was not in the table.
LEMMA PollerAdds ==
    ASSUME TableOK, PollerOK, NEW f \in Fds, f \notin clientFds, NEW i \in Connections,
           table' = [table EXCEPT ![f] = i], fds' = Append(fds, f)
    PROVE  PollerOK' /\ clientFds' = clientFds \cup {f}
  <1>0. fds \in Seq(Fds \cup {ServerFd}) /\ FdsOnce /\ FdsAre /\ FdsCounted
    BY DEF PollerOK
  <1>1. i # 0 /\ f # ServerFd
    BY BoundsAssumption, FdsAssumption DEF Connections
  <1>2. clientFds' = clientFds \cup {f}
    <2>1. \A g \in Fds : table'[g] = IF g = f THEN i ELSE table[g]
      BY DEF TableOK
    <2> QED BY <1>1, <2>1 DEF clientFds
  <1>3. /\ fds' \in Seq(Fds \cup {ServerFd}) /\ Len(fds') = Len(fds) + 1
        /\ \A n \in 1..Len(fds) : fds'[n] = fds[n]
        /\ fds'[Len(fds) + 1] = f
    BY <1>0, AppendProperties
  <1>4. /\ Len(fds) \in Nat /\ DOMAIN fds = 1..Len(fds) /\ DOMAIN fds' = 1..(Len(fds) + 1)
    BY <1>0, <1>3
  <1>5. \A n \in 1..Len(fds) : fds[n] # f
    BY <1>0, <1>1, <1>4 DEF FdsAre
  <1>6. FdsOnce'
    <2> SUFFICES ASSUME NEW m \in DOMAIN fds', NEW n \in DOMAIN fds', fds'[m] = fds'[n]
                 PROVE  m = n
      BY DEF FdsOnce
    <2>1. /\ m \in 1..Len(fds) \/ m = Len(fds) + 1
          /\ n \in 1..Len(fds) \/ n = Len(fds) + 1
      BY <1>4
    <2>2. CASE m \in 1..Len(fds) /\ n \in 1..Len(fds)
      BY <2>2, <1>0, <1>3, <1>4 DEF FdsOnce
    <2>3. CASE m = Len(fds) + 1
      BY <2>1, <2>3, <1>3, <1>5
    <2>4. CASE n = Len(fds) + 1
      BY <2>1, <2>4, <1>3, <1>5
    <2> QED BY <2>1, <2>2, <2>3, <2>4
  <1>7. FdsAre'
    <2>1. ASSUME NEW n \in DOMAIN fds' PROVE fds'[n] \in clientFds' \cup {ServerFd}
      <3>1. n \in 1..Len(fds) \/ n = Len(fds) + 1
        BY <1>4
      <3> QED BY <3>1, <1>0, <1>2, <1>3, <1>4 DEF FdsAre
    <2>2. ASSUME NEW g \in clientFds' \cup {ServerFd} PROVE \E n \in DOMAIN fds' : fds'[n] = g
      <3>1. CASE g = f
        <4>1. Len(fds) + 1 \in DOMAIN fds'
          BY <1>4
        <4> QED BY <3>1, <4>1, <1>3
      <3>2. CASE g # f
        <4>1. PICK n \in DOMAIN fds : fds[n] = g
          BY <3>2, <1>0, <1>2 DEF FdsAre
        <4>2. n \in DOMAIN fds' /\ fds'[n] = g
          BY <4>1, <1>3, <1>4
        <4> QED BY <4>2
      <3> QED BY <3>1, <3>2
    <2> QED BY <2>1, <2>2 DEF FdsAre
  <1>8. FdsCounted'
    <2>1. Cardinality(clientFds \cup {f}) = Cardinality(clientFds) + 1
      BY ClientFdsFinite, FS_AddElement
    <2>2. Len(fds) = Cardinality(clientFds) + 1
      BY <1>0 DEF FdsCounted
    <2>3. Len(fds') = Cardinality(clientFds') + 1
      BY <1>2, <1>3, <2>1, <2>2
    <2> QED BY <2>3 DEF FdsCounted
  <1> QED BY <1>2, <1>3, <1>6, <1>7, <1>8 DEF PollerOK

\* Poller::removeFileDescriptor and _clients.erase.
LEMMA PollerRemoves ==
    ASSUME TableOK, PollerOK, NEW f \in clientFds,
           table' = [table EXCEPT ![f] = 0], removeFileDescriptor(f)
    PROVE  PollerOK' /\ clientFds' = clientFds \ {f}
  <1>0. fds \in Seq(Fds \cup {ServerFd}) /\ FdsOnce /\ FdsAre /\ FdsCounted
    BY DEF PollerOK
  <1>1. f \in Fds /\ f # ServerFd
    BY FdsAssumption DEF clientFds
  <1>2. clientFds' = clientFds \ {f}
    <2>1. \A g \in Fds : table'[g] = IF g = f THEN 0 ELSE table[g]
      BY DEF TableOK
    <2> QED BY <2>1 DEF clientFds
  <1>3. \E n \in DOMAIN fds : fds[n] = f
    BY <1>0 DEF FdsAre
  <1>4. PICK n \in DOMAIN fds :
           fds[n] = f /\ fds' = SubSeq(fds, 1, n - 1) \o SubSeq(fds, n + 1, Len(fds))
    BY <1>3 DEF removeFileDescriptor
  <1>5. ErasedAt(fds, n, fds')
    BY <1>4 DEF ErasedAt
  <1>6. /\ fds' \in Seq(Fds \cup {ServerFd}) /\ Len(fds') = Len(fds) - 1
        /\ \A i \in 1..Len(fds') :
              (i < n => fds'[i] = fds[i]) /\ (i >= n => fds'[i] = fds[i + 1])
    BY <1>0, <1>5, Erased
  <1>7. /\ Len(fds) \in Nat /\ DOMAIN fds = 1..Len(fds) /\ DOMAIN fds' = 1..Len(fds')
        /\ n \in 1..Len(fds)
    BY <1>0, <1>6
  \* where position i of the new sequence was
  <1> DEFINE was(i) == IF i < n THEN i ELSE i + 1
  <1>8. ASSUME NEW i \in DOMAIN fds'
        PROVE  was(i) \in DOMAIN fds /\ was(i) # n /\ fds'[i] = fds[was(i)]
    BY <1>6, <1>7
  <1>9. ASSUME NEW i \in DOMAIN fds', NEW j \in DOMAIN fds', was(i) = was(j)
        PROVE  i = j
    BY <1>6, <1>7, <1>9
  <1>10. ASSUME NEW k \in DOMAIN fds, k # n
         PROVE  \E i \in DOMAIN fds' : was(i) = k
    <2>1. CASE k < n
      <3>1. k \in DOMAIN fds' /\ was(k) = k
        BY <2>1, <1>6, <1>7
      <3> QED BY <3>1
    <2>2. CASE k > n
      <3>1. k - 1 \in DOMAIN fds' /\ was(k - 1) = k
        BY <2>2, <1>6, <1>7
      <3> QED BY <3>1
    <2> QED BY <2>1, <2>2, <1>7, <1>10
  <1> HIDE DEF was
  <1>11. FdsOnce'
    <2> SUFFICES ASSUME NEW i \in DOMAIN fds', NEW j \in DOMAIN fds', fds'[i] = fds'[j]
                 PROVE  i = j
      BY DEF FdsOnce
    <2>1. was(i) = was(j)
      BY <1>0, <1>8 DEF FdsOnce
    <2> QED BY <2>1, <1>9
  <1>12. FdsAre'
    <2>1. ASSUME NEW i \in DOMAIN fds' PROVE fds'[i] \in clientFds' \cup {ServerFd}
      <3>1. fds'[i] # f
        BY <1>0, <1>4, <1>8 DEF FdsOnce
      <3>2. fds'[i] \in clientFds \cup {ServerFd}
        BY <1>0, <1>8 DEF FdsAre
      <3> QED BY <3>1, <3>2, <1>2
    <2>2. ASSUME NEW g \in clientFds' \cup {ServerFd} PROVE \E i \in DOMAIN fds' : fds'[i] = g
      <3>1. g # f /\ g \in clientFds \cup {ServerFd}
        BY <1>1, <1>2
      <3>2. PICK k \in DOMAIN fds : fds[k] = g
        BY <3>1, <1>0 DEF FdsAre
      <3>3. k # n
        BY <3>1, <3>2, <1>4
      <3>4. PICK i \in DOMAIN fds' : was(i) = k
        BY <3>3, <1>10
      <3> QED BY <3>2, <3>4, <1>8
    <2> QED BY <2>1, <2>2 DEF FdsAre
  <1>13. FdsCounted'
    <2>1. Cardinality(clientFds \ {f}) = Cardinality(clientFds) - 1
      BY ClientFdsFinite, FS_RemoveElement
    <2>2. Len(fds) = Cardinality(clientFds) + 1 /\ Cardinality(clientFds) \in Nat
      BY <1>0, ClientFdsFinite, FS_CardinalityType DEF FdsCounted
    <2>3. Len(fds') = Cardinality(clientFds') + 1
      BY <1>2, <1>6, <2>1, <2>2
    <2> QED BY <2>3 DEF FdsCounted
  <1> QED BY <1>2, <1>6, <1>11, <1>12, <1>13 DEF PollerOK

\* Poller::waitForEvents: one event for each descriptor that is ready.
LEMMA BatchFromPoll ==
    ASSUME TableOK, PollerOK, KernelOK, batch' \in readyEvents,
           table' = table, backlog' = backlog
    PROVE  BatchOK'
  <1>0. fds \in Seq(Fds \cup {ServerFd}) /\ FdsOnce /\ FdsAre
    BY DEF PollerOK
  <1>1. PICK p : /\ batch' = [k \in DOMAIN p |-> pollEvent(fds[p[k]])]
                 /\ Cardinality(readyPositions) \in Nat
                 /\ p \in [1..Cardinality(readyPositions) -> readyPositions]
                 /\ \A j, k \in DOMAIN p : j < k => p[j] < p[k]
    BY <1>0, BatchOfPoll
  <1> DEFINE c == Cardinality(readyPositions)
  <1>2. c \in Nat /\ DOMAIN p = 1..c
    BY <1>1
  <1>3. ASSUME NEW k \in 1..c
        PROVE  /\ p[k] \in DOMAIN fds /\ revents(fds[p[k]]) # {}
               /\ fds[p[k]] \in clientFds \cup {ServerFd}
    <2>1. p[k] \in readyPositions
      BY <1>1
    <2> QED BY <2>1, <1>0 DEF readyPositions, FdsAre
  <1> HIDE DEF c
  <1>4. ASSUME NEW k \in 1..c
        PROVE  batch'[k] = pollEvent(fds[p[k]])
    BY <1>1, <1>2
  <1>5. ASSUME NEW f \in clientFds \cup {ServerFd}
        PROVE  /\ pollEvent(f).fd = f /\ (f # ServerFd => pollEvent(f).who = table[f])
               /\ pollEvent(f) \in Event
    <2>1. revents(f) \in SUBSET {"IN", "OUT", "HUP"}
      BY ReventsType
    <2>2. f \in Fds \cup {ServerFd}
      BY ClientFdsFinite
    <2>3. (IF f = ServerFd THEN 0 ELSE table[f]) \in Connections \cup {0}
      BY <2>2 DEF TableOK
    <2> QED BY <2>1, <2>2, <2>3 DEF pollEvent, Event
  <1>6. batch' \in Seq(Event) /\ DOMAIN batch' = 1..c
    <2>1. batch' \in [1..c -> Event]
      BY <1>1, <1>2, <1>3, <1>5
    <2> QED BY <1>2, <2>1
  <1>7. EventsOnce'
    <2> SUFFICES ASSUME NEW j \in 1..c, NEW k \in 1..c, batch'[j].fd = batch'[k].fd
                 PROVE  j = k
      BY <1>6 DEF EventsOnce
    <2>1. fds[p[j]] = fds[p[k]]
      BY <1>3, <1>4, <1>5
    <2>2. p[j] = p[k]
      BY <2>1, <1>0, <1>3 DEF FdsOnce
    <2>3. ~ (p[j] < p[k]) /\ ~ (p[k] < p[j])
      <3>1. p[j] \in Nat /\ p[k] \in Nat
        BY <1>0, <1>3
      <3> QED BY <2>2, <3>1
    <2> QED BY <2>3, <1>1, <1>2
  <1>8. ServerEventHasClient'
    <2> SUFFICES ASSUME NEW k \in 1..c, batch'[k].fd = ServerFd
                 PROVE  backlog # << >>
      BY <1>6 DEF ServerEventHasClient
    <2>1. fds[p[k]] = ServerFd /\ revents(fds[p[k]]) # {}
      BY <1>3, <1>4, <1>5
    <2> QED BY <2>1 DEF revents
  <1>9. EventsMeetTheirClient'
    <2> SUFFICES ASSUME NEW k \in 1..c, batch'[k].fd # ServerFd
                 PROVE  batch'[k].fd \in clientFds' /\ table'[batch'[k].fd] = batch'[k].who
      BY <1>6 DEF EventsMeetTheirClient
    <2>1. batch'[k].fd = fds[p[k]] /\ fds[p[k]] # ServerFd
      BY <1>3, <1>4, <1>5
    <2>2. batch'[k].who = table[fds[p[k]]] /\ fds[p[k]] \in clientFds
      BY <2>1, <1>3, <1>4, <1>5
    <2> QED BY <2>1, <2>2, ClientFdsSame
  <1> QED BY <1>6, <1>7, <1>8, <1>9 DEF BatchOK

-------------------------------------------------------------------------------
(* The steps *)

\* What the parts of an event have in common.
LEMMA HeadOfBatch ==
    ASSUME BatchOK, batch # << >>, Head(batch).fd # ServerFd
    PROVE  /\ Head(batch).fd \in clientFds
           /\ table[Head(batch).fd] = Head(batch).who
           /\ Head(batch) \in Event
  <1>1. batch \in Seq(Event) /\ Head(batch) = batch[1] /\ 1 \in DOMAIN batch
    BY DEF BatchOK
  <1> QED BY <1>1 DEF BatchOK, EventsMeetTheirClient

\* The environment changes nothing of the process, and takes no connection
\* back.
LEMMA EnvironmentStep ==
    ASSUME LoopInv, UNCHANGED processVars, KernelOK', backlog # << >> => backlog' # << >>
    PROVE  LoopInv'
  <1>1. UNCHANGED << pc, running, table, wbuf, pollOut, fds, watch, batch >>
    BY DEF processVars
  <1>2. /\ ControlOK /\ TableOK /\ PollerOK /\ FlagsMatch
        /\ BatchOK /\ WriteOK /\ WritersArePolled
    BY LoopParts
  <1>3. ControlOK'
    BY <1>1, <1>2 DEF ControlOK
  <1>4. TableOK' /\ PollerOK' /\ FlagsMatch' /\ WriteOK' /\ WritersArePolled'
    BY <1>1, <1>2, TableSame, PollerSame, FlagsSame, WriteSame, WritersSame
  <1>5. BatchOK'
    BY <1>1, <1>2, BatchSame, ClientFdsSame
  <1> QED BY <1>3, <1>4, <1>5, LoopPartsPrimed

LEMMA ConnectStep ==
    ASSUME LoopInv, Connect
    PROVE  LoopInv'
  <1>1. KernelOK
    BY LoopParts
  <1>2. /\ opened < MaxOpened /\ opened' = opened + 1
        /\ backlog' = Append(backlog, opened + 1)
        /\ peer' = [peer EXCEPT ![opened + 1] = "open"]
        /\ UNCHANGED << inbox, sent, space >> /\ UNCHANGED processVars
    BY DEF Connect
  <1>3. opened + 1 \in Connections /\ opened' \in 0..MaxOpened
    BY <1>1, <1>2, BoundsAssumption DEF KernelOK, Connections
  <1>4. backlog' \in Seq(Connections) /\ backlog' # << >>
    BY <1>1, <1>2, <1>3, AppendProperties DEF KernelOK
  <1>5. peer' \in [Connections -> {"open", "closed", "reset"}]
    BY <1>1, <1>2 DEF KernelOK
  <1>6. KernelOK'
    BY <1>1, <1>2, <1>3, <1>4, <1>5 DEF KernelOK
  <1> QED BY <1>2, <1>4, <1>6, EnvironmentStep

LEMMA PeerStep ==
    ASSUME LoopInv, NEW i \in Connections,
           PeerSends(i) \/ PeerCloses(i) \/ PeerResets(i) \/ PeerReads(i)
    PROVE  LoopInv'
  <1>1. KernelOK
    BY LoopParts
  <1>2. UNCHANGED processVars /\ backlog' = backlog /\ opened' = opened
    BY DEF PeerSends, PeerCloses, PeerResets, PeerReads
  <1>3. CASE PeerSends(i)
    <2>1. /\ inbox' = [inbox EXCEPT ![i] = inbox[i] + 1] /\ sent < MaxSent /\ sent' = sent + 1
          /\ UNCHANGED << opened, backlog, peer, space >>
      BY <1>3 DEF PeerSends
    <2>2. inbox' \in [Connections -> Nat]
      BY <1>1, <2>1 DEF KernelOK
    <2>3. sent' \in 0..MaxSent
      BY <1>1, <2>1, BoundsAssumption DEF KernelOK
    <2>4. KernelOK'
      BY <1>1, <2>1, <2>2, <2>3 DEF KernelOK
    <2> QED BY <1>2, <2>4, EnvironmentStep
  <1>4. CASE PeerCloses(i)
    <2>1. KernelOK'
      BY <1>1, <1>4 DEF PeerCloses, KernelOK
    <2> QED BY <1>2, <2>1, EnvironmentStep
  <1>5. CASE PeerResets(i)
    <2>1. PICK n \in {0, inbox[i]} : inbox' = [inbox EXCEPT ![i] = n]
      BY <1>5 DEF PeerResets
    <2>2. inbox' \in [Connections -> Nat]
      BY <1>1, <2>1 DEF KernelOK
    <2>3. KernelOK'
      BY <1>1, <1>5, <2>2 DEF PeerResets, KernelOK
    <2> QED BY <1>2, <2>3, EnvironmentStep
  <1>6. CASE PeerReads(i)
    <2>1. KernelOK'
      BY <1>1, <1>6 DEF PeerReads, KernelOK
    <2> QED BY <1>2, <2>1, EnvironmentStep
  <1> QED BY <1>3, <1>4, <1>5, <1>6

\* A step that changes nothing but where the thread is, and does not send it to
\* sleep or into a write, and the flag of the signal handler.
LEMMA ControlStep ==
    ASSUME LoopInv, UNCHANGED << table, wbuf, pollOut, fds, watch, batch >>,
           UNCHANGED kernelVars, ControlOK',
           pc' = pc \/ pc' \in {"top", "saved", "died"}
    PROVE  LoopInv'
  <1>1. /\ TableOK /\ KernelOK /\ PollerOK /\ FlagsMatch
        /\ BatchOK /\ WriteOK /\ WritersArePolled
    BY LoopParts
  <1>2. backlog' = backlog
    BY DEF kernelVars
  <1>3. TableOK' /\ KernelOK' /\ PollerOK' /\ FlagsMatch'
    BY <1>1, TableSame, KernelSame, PollerSame, FlagsSame
  <1>4. BatchOK'
    BY <1>1, <1>2, BatchSame, ClientFdsSame
  <1>5. WriteOK' /\ WritersArePolled'
    <2>1. CASE pc' = pc
      BY <1>1, <2>1, WriteSame, WritersSame
    <2>2. CASE pc' \in {"top", "saved", "died"}
      BY <2>2 DEF WriteOK, WritersArePolled
    <2> QED BY <2>1, <2>2
  <1> QED BY <1>3, <1>4, <1>5, LoopPartsPrimed

LEMMA DieStep ==
    ASSUME LoopInv, die
    PROVE  LoopInv'
  <1>1. pc' = "died" /\ running' = running
    BY DEF die
  <1>2. ControlOK'
    BY <1>1, LoopParts DEF ControlOK
  <1> QED BY <1>1, <1>2, ControlStep DEF die

\* Server::_updatePollFlags, and the end of the loop.
LEMMA LoopTopStep ==
    ASSUME LoopInv, loopTop
    PROVE  LoopInv'
  <1>1. /\ ControlOK /\ TableOK /\ KernelOK /\ PollerOK /\ FlagsMatch
        /\ BatchOK /\ WriteOK /\ WritersArePolled
    BY LoopParts
  <1>2. pc = "top" /\ UNCHANGED << running, table, wbuf, fds, batch >> /\ UNCHANGED kernelVars
    BY DEF loopTop
  <1>3. CASE ~ running
    <2>1. pc' = "saved" /\ UNCHANGED << pollOut, watch >>
      BY <1>3 DEF loopTop
    <2>2. ControlOK'
      BY <1>1, <1>2, <2>1 DEF ControlOK
    <2> QED BY <1>2, <2>1, <2>2, ControlStep
  <1>4. CASE running
    <2>1. pc' = "poll" /\ updatePollFlags
      BY <1>4 DEF loopTop
    <2>2. ControlOK'
      BY <1>1, <1>2, <2>1 DEF ControlOK
    <2> DEFINE new == [f \in Fds |-> IF f \in flagsStale THEN wbuf[f] > 0 ELSE pollOut[f]]
    <2>3. ASSUME NEW f \in Fds
          PROVE  /\ f \in flagsStale /\ wbuf[f] > 0 =>
                       new[f] = TRUE /\ watch'[f] = {"IN", "OUT"}
                 /\ f \in flagsStale /\ ~ (wbuf[f] > 0) =>
                       new[f] = FALSE /\ watch'[f] = {"IN"}
                 /\ f \notin flagsStale => new[f] = pollOut[f] /\ watch'[f] = watch[f]
      <3>1. new[f] = IF f \in flagsStale THEN wbuf[f] > 0 ELSE pollOut[f]
        OBVIOUS
      <3> HIDE DEF new
      <3>2. watch'[f] = IF f \in flagsStale
                        THEN IF wbuf[f] > 0 THEN {"IN", "OUT"} ELSE {"IN"}
                        ELSE watch[f]
        BY <2>1 DEF updatePollFlags
      <3>3. CASE f \in flagsStale /\ wbuf[f] > 0
        <4>1. new[f] = (wbuf[f] > 0)
          BY <3>1, <3>3
        <4> QED BY <3>2, <3>3, <4>1
      <3>4. CASE f \in flagsStale /\ ~ (wbuf[f] > 0)
        <4>1. new[f] = (wbuf[f] > 0)
          BY <3>1, <3>4
        <4>2. (wbuf[f] > 0) = FALSE
          BY <3>4
        <4>3. new[f] = FALSE
          BY <4>1, <4>2, Zenon
        <4>4. watch'[f] = {"IN"}
          BY <3>2, <3>4
        <4> QED BY <3>4, <4>3, <4>4, Zenon
      <3>5. CASE f \notin flagsStale
        BY <3>1, <3>2, <3>5
      <3> QED BY <3>3, <3>4, <3>5
    <2>a. ASSUME NEW f \in Fds PROVE new[f] \in BOOLEAN
      <3> HIDE DEF new
      <3>1. CASE f \in flagsStale
        BY <2>3, <3>1
      <3>2. CASE f \notin flagsStale
        BY <1>1, <2>3, <3>2 DEF TableOK
      <3> QED BY <3>1, <3>2
    <2>b. new \in [Fds -> BOOLEAN]
      <3>1. new = [f \in Fds |-> new[f]]
        OBVIOUS
      <3> HIDE DEF new
      <3> QED BY <2>a, <3>1
    <2>c. pollOut' = new
      BY <2>1 DEF updatePollFlags
    <2> HIDE DEF new
    <2>4. TableOK'
      <3>1. table' = table /\ wbuf' = wbuf
        BY <1>2
      <3>2. watch' \in [Fds -> SUBSET {"IN", "OUT"}]
        BY <1>1, <2>1 DEF updatePollFlags, TableOK
      <3> QED BY <1>1, <2>b, <2>c, <3>1, <3>2, Zenon DEF TableOK
    <2>5. ASSUME NEW f \in clientFds
          PROVE  /\ watch'[f] = IF pollOut'[f] THEN {"IN", "OUT"} ELSE {"IN"}
                 /\ "OUT" \in watch'[f] <=> wbuf[f] > 0
      <3>1. f \in Fds /\ pollOut[f] \in BOOLEAN
        BY <1>1, ClientFdsFinite DEF TableOK
      <3>2. CASE f \in flagsStale /\ wbuf[f] > 0
        BY <2>3, <2>c, <3>1, <3>2
      <3>3. CASE f \in flagsStale /\ ~ (wbuf[f] > 0)
        BY <2>3, <2>c, <3>1, <3>3
      <3>4. CASE f \notin flagsStale
        <4>1. wbuf[f] > 0 <=> pollOut[f]
          BY <3>1, <3>4 DEF flagsStale
        <4>2. watch[f] = IF pollOut[f] THEN {"IN", "OUT"} ELSE {"IN"}
          BY <1>1 DEF FlagsMatch
        <4>3. pollOut'[f] = pollOut[f] /\ watch'[f] = watch[f]
          BY <2>3, <2>c, <3>1, <3>4
        <4>4. CASE pollOut[f]
          <5>1. watch[f] = {"IN", "OUT"} /\ wbuf[f] > 0
            BY <4>1, <4>2, <4>4
          <5>2. pollOut'[f]
            BY <4>3, <4>4, Zenon
          <5> QED BY <4>3, <5>1, <5>2
        <4>5. CASE ~ pollOut[f]
          <5>1. watch[f] = {"IN"} /\ ~ (wbuf[f] > 0)
            BY <4>1, <4>2, <4>5
          <5>2. ~ pollOut'[f]
            BY <4>3, <4>5, Zenon
          <5> QED BY <4>3, <5>1, <5>2
        <4> QED BY <4>4, <4>5
      <3> QED BY <3>2, <3>3, <3>4
    <2>6. FlagsMatch' /\ WritersArePolled'
      BY <1>2, <2>5, ClientFdsSame DEF FlagsMatch, WritersArePolled
    <2>7. WriteOK'
      BY <2>1 DEF WriteOK
    <2>8. BatchOK'
      BY <1>1, <1>2, BatchSame, ClientFdsSame DEF kernelVars
    <2> QED BY <1>1, <1>2, <2>2, <2>4, <2>6, <2>7, <2>8, PollerSame, KernelSame,
               LoopPartsPrimed
  <1> QED BY <1>3, <1>4

LEMMA WaitForEventsStep ==
    ASSUME LoopInv, waitForEvents
    PROVE  LoopInv'
  <1>1. /\ ControlOK /\ TableOK /\ KernelOK /\ PollerOK /\ FlagsMatch
    BY LoopParts
  <1>2. /\ batch' \in readyEvents /\ pc' = "batch"
        /\ UNCHANGED << running, table, wbuf, pollOut, fds, watch >> /\ UNCHANGED kernelVars
    BY DEF waitForEvents
  <1>3. BatchOK'
    BY <1>1, <1>2, BatchFromPoll DEF kernelVars
  <1>4. ControlOK' /\ WriteOK' /\ WritersArePolled'
    BY <1>1, <1>2 DEF ControlOK, WriteOK, WritersArePolled
  <1> QED BY <1>1, <1>2, <1>3, <1>4, TableSame, KernelSame, PollerSame, FlagsSame,
             LoopPartsPrimed

\* Server::_acceptClient.
LEMMA AcceptStep ==
    ASSUME LoopInv, acceptClient
    PROVE  LoopInv'
  <1>1. /\ ControlOK /\ TableOK /\ KernelOK /\ PollerOK /\ FlagsMatch /\ BatchOK
    BY LoopParts
  <1>2. pc = "batch" /\ batch # << >> /\ Head(batch).fd = ServerFd
    BY DEF acceptClient
  <1>3. CASE clientFds = Fds
    BY <1>3, DieStep DEF acceptClient
  <1>4. CASE clientFds # Fds
    <2>1. PICK f \in Fds \ clientFds : newClient(f, Head(backlog)) /\ addFileDescriptor(f)
      BY <1>4 DEF acceptClient
    <2>2. /\ backlog' = Tail(backlog) /\ batch' = Tail(batch)
          /\ UNCHANGED << pc, running, opened, peer, inbox, sent, space >>
      BY <1>4 DEF acceptClient
    <2>3. backlog # << >>
      <3>1. batch \in Seq(Event) /\ Head(batch) = batch[1] /\ 1 \in DOMAIN batch
        BY <1>1, <1>2 DEF BatchOK
      <3> QED BY <1>1, <1>2, <3>1 DEF BatchOK, ServerEventHasClient
    <2> DEFINE i == Head(backlog)
    <2>4. i \in Connections /\ Tail(backlog) \in Seq(Connections)
      BY <1>1, <2>3, HeadTailProperties DEF KernelOK
    <2>5. /\ table' = [table EXCEPT ![f] = i] /\ wbuf' = [wbuf EXCEPT ![f] = 0]
          /\ pollOut' = [pollOut EXCEPT ![f] = FALSE]
          /\ fds' = Append(fds, f) /\ watch' = [watch EXCEPT ![f] = {"IN"}]
      BY <2>1 DEF newClient, addFileDescriptor
    <2> HIDE DEF i
    <2>6. PollerOK' /\ clientFds' = clientFds \cup {f}
      BY <1>1, <2>1, <2>4, <2>5, PollerAdds
    <2>7. TableOK'
      BY <1>1, <2>1, <2>4, <2>5 DEF TableOK
    <2>8. KernelOK'
      BY <1>1, <2>2, <2>4 DEF KernelOK
    <2>9. FlagsMatch'
      <3> SUFFICES ASSUME NEW g \in clientFds'
                   PROVE  watch'[g] = IF pollOut'[g] THEN {"IN", "OUT"} ELSE {"IN"}
        BY DEF FlagsMatch
      <3>1. g \in Fds /\ f \in Fds
        BY <2>1, <2>6, ClientFdsFinite
      <3>2. CASE g = f
        BY <1>1, <2>5, <3>1, <3>2 DEF TableOK
      <3>3. CASE g # f
        <4>1. g \in clientFds
          BY <2>6, <3>3
        <4>2. watch'[g] = watch[g] /\ pollOut'[g] = pollOut[g]
          BY <1>1, <2>5, <3>1, <3>3 DEF TableOK
        <4> QED BY <1>1, <4>1, <4>2 DEF FlagsMatch
      <3> QED BY <3>2, <3>3
    <2>10. BatchOK'
      <3>1. \A g \in clientFds : g \in clientFds' /\ table'[g] = table[g]
        <4> SUFFICES ASSUME NEW g \in clientFds PROVE g \in clientFds' /\ table'[g] = table[g]
          OBVIOUS
        <4>1. g \in Fds /\ g # f
          BY <2>1, ClientFdsFinite
        <4> QED BY <1>1, <2>5, <2>6, <4>1 DEF TableOK
      <3> QED BY <1>1, <1>2, <2>2, <3>1, BatchTail
    <2>11. ControlOK' /\ WriteOK' /\ WritersArePolled'
      BY <1>1, <1>2, <2>2 DEF ControlOK, WriteOK, WritersArePolled
    <2> QED BY <2>6, <2>7, <2>8, <2>9, <2>10, <2>11, LoopPartsPrimed
  <1> QED BY <1>3, <1>4

\* Server::_disconnectClient for the event at hand.
LEMMA DisconnectStep ==
    ASSUME LoopInv, batch # << >>, Head(batch).fd # ServerFd, disconnectClient(Head(batch).fd)
    PROVE  LoopInv'
  <1> DEFINE f == Head(batch).fd
  <1>1. /\ ControlOK /\ TableOK /\ KernelOK /\ PollerOK /\ FlagsMatch /\ BatchOK
    BY LoopParts
  <1>2. f \in clientFds
    BY <1>1, HeadOfBatch
  <1>3. /\ removeFileDescriptor(f) /\ eraseClient(f) /\ batch' = Tail(batch) /\ pc' = "batch"
        /\ UNCHANGED << running, pollOut, watch >> /\ UNCHANGED kernelVars
    BY DEF disconnectClient
  <1>4. table' = [table EXCEPT ![f] = 0]
    BY <1>3 DEF eraseClient
  <1>5. PICK R \in {{}, clientFds \ {f}} :
           wbuf' = [g \in Fds |-> IF g = f THEN 0
                                  ELSE IF g \in R THEN wbuf[g] + 1 ELSE wbuf[g]]
    BY <1>3 DEF eraseClient
  <1>a. \A g \in clientFds : g # f => g \in clientFds' /\ table'[g] = table[g]
    <2>1. \A g \in Fds : g # f => table'[g] = table[g]
      BY <1>1, <1>4 DEF TableOK
    <2> QED BY <2>1 DEF clientFds
  <1>b. BatchOK'
    BY <1>1, <1>3, <1>a, BatchTail DEF kernelVars
  <1> HIDE DEF f
  <1>6. PollerOK' /\ clientFds' = clientFds \ {f}
    BY <1>1, <1>2, <1>3, <1>4, PollerRemoves
  <1>7. TableOK'
    <2>1. table' \in [Fds -> Connections \cup {0}]
      BY <1>1, <1>4 DEF TableOK
    <2>2. wbuf' \in [Fds -> Nat]
      BY <1>1, <1>5 DEF TableOK
    <2> QED BY <1>1, <1>3, <2>1, <2>2 DEF TableOK
  <1>8. FlagsMatch'
    BY <1>1, <1>3, <1>6 DEF FlagsMatch
  <1>9. ControlOK' /\ WriteOK' /\ WritersArePolled'
    BY <1>1, <1>3 DEF ControlOK, WriteOK, WritersArePolled
  <1> QED BY <1>1, <1>3, <1>b, <1>6, <1>7, <1>8, <1>9, KernelSame, LoopPartsPrimed

\* The POLLIN part of an event that leaves its client in the table.
LEMMA AfterReadStep ==
    ASSUME LoopInv, batch # << >>, Head(batch).fd # ServerFd, afterRead(Head(batch)),
           UNCHANGED << running, table, pollOut, fds, watch >>, wbuf' \in [Fds -> Nat],
           KernelOK', backlog' = backlog
    PROVE  LoopInv'
  <1>1. /\ ControlOK /\ TableOK /\ KernelOK /\ PollerOK /\ FlagsMatch /\ BatchOK
    BY LoopParts
  <1>2. Head(batch).fd \in clientFds
    BY <1>1, HeadOfBatch
  <1>3. clientFds' = clientFds
    BY ClientFdsSame
  <1>4. \/ pc' = "write" /\ batch' = batch
        \/ pc' = "batch" /\ batch' = Tail(batch)
    BY DEF afterRead
  <1>5. BatchOK'
    <2>1. CASE batch' = batch
      BY <1>1, <1>3, <2>1, BatchSame
    <2>2. CASE batch' = Tail(batch)
      BY <1>1, <1>3, <2>2, BatchTail
    <2> QED BY <1>4, <2>1, <2>2
  <1>6. WriteOK' /\ WritersArePolled'
    BY <1>2, <1>3, <1>4 DEF WriteOK, WritersArePolled
  <1>7. ControlOK'
    BY <1>1, <1>4 DEF ControlOK
  <1>8. TableOK'
    BY <1>1 DEF TableOK
  <1> QED BY <1>1, <1>5, <1>6, <1>7, <1>8, PollerSame, FlagsSame, LoopPartsPrimed

\* Server::_parseCommands.
LEMMA RunCommandsTypes ==
    ASSUME TableOK, KernelOK, NEW i \in Connections, NEW n \in 1..inbox[i], runCommands(i, n)
    PROVE  /\ UNCHANGED << running, table, pollOut, fds, watch >>
           /\ wbuf' \in [Fds -> Nat] /\ KernelOK' /\ backlog' = backlog
  <1>1. /\ inbox' = [inbox EXCEPT ![i] = inbox[i] - n]
        /\ UNCHANGED << running, table, pollOut, fds, watch >>
        /\ UNCHANGED << opened, backlog, peer, sent, space >>
    BY DEF runCommands
  <1>2. PICK R \in SUBSET clientFds : appendTo(R)
    BY DEF runCommands
  <1>3. wbuf' \in [Fds -> Nat]
    BY <1>2 DEF appendTo, TableOK
  <1>4. inbox[i] \in Nat /\ inbox[i] - n \in Nat
    BY DEF KernelOK
  <1>5. inbox' \in [Connections -> Nat]
    BY <1>1, <1>4 DEF KernelOK
  <1>6. KernelOK'
    BY <1>1, <1>5 DEF KernelOK
  <1> QED BY <1>1, <1>3, <1>6

LEMMA IdleTypes ==
    ASSUME TableOK, KernelOK, idle
    PROVE  /\ UNCHANGED << running, table, pollOut, fds, watch >>
           /\ wbuf' \in [Fds -> Nat] /\ KernelOK' /\ backlog' = backlog
  <1>1. UNCHANGED << running, table, wbuf, pollOut, fds, watch >> /\ UNCHANGED kernelVars
    BY DEF idle
  <1>2. wbuf' \in [Fds -> Nat] /\ backlog' = backlog
    BY <1>1 DEF TableOK, kernelVars
  <1> QED BY <1>1, <1>2, KernelSame

\* Server::_processEvent.
LEMMA ProcessEventStep ==
    ASSUME LoopInv, processEvent
    PROVE  LoopInv'
  <1> DEFINE ev == Head(batch)
             f == ev.fd
             i == table[f]
  <1>1. /\ ControlOK /\ TableOK /\ KernelOK /\ PollerOK /\ FlagsMatch /\ BatchOK
    BY LoopParts
  <1>2. batch # << >> /\ f # ServerFd
    BY DEF processEvent
  <1>3. f \in clientFds
    BY <1>1, <1>2, HeadOfBatch
  <1>4. i \in Connections /\ i # 0
    BY <1>1, <1>3 DEF clientFds, TableOK
  <1>5. CASE disconnectClient(f)
    BY <1>2, <1>5, DisconnectStep
  <1>6. CASE handleRead(f, ev)
    <2>1. CASE (\E n \in 1..inbox[i] : runCommands(i, n)) /\ afterRead(ev)
      <3>1. PICK n \in 1..inbox[i] : runCommands(i, n)
        BY <2>1
      <3>2. /\ UNCHANGED << running, table, pollOut, fds, watch >>
            /\ wbuf' \in [Fds -> Nat] /\ KernelOK' /\ backlog' = backlog
        <4> HIDE DEF i
        <4> QED BY <1>1, <1>4, <3>1, RunCommandsTypes
      <3> QED BY <1>2, <2>1, <3>2, AfterReadStep
    <2>2. CASE die
      BY <2>2, DieStep
    <2>3. CASE idle /\ afterRead(ev)
      <3>1. /\ UNCHANGED << running, table, pollOut, fds, watch >>
            /\ wbuf' \in [Fds -> Nat] /\ KernelOK' /\ backlog' = backlog
        BY <1>1, <2>3, IdleTypes
      <3> QED BY <1>2, <2>3, <3>1, AfterReadStep
    <2> QED BY <1>5, <1>6, <2>1, <2>2, <2>3 DEF handleRead
  <1>7. CASE idle /\ afterRead(ev)
    <2>1. /\ UNCHANGED << running, table, pollOut, fds, watch >>
          /\ wbuf' \in [Fds -> Nat] /\ KernelOK' /\ backlog' = backlog
      BY <1>1, <1>7, IdleTypes
    <2> QED BY <1>2, <1>7, <2>1, AfterReadStep
  <1> QED BY <1>4, <1>5, <1>6, <1>7 DEF processEvent

\* Server::_handleWrite.
LEMMA HandleWriteStep ==
    ASSUME LoopInv, handleWrite
    PROVE  LoopInv'
  <1> DEFINE f == Head(batch).fd
             i == table[f]
  <1>1. /\ ControlOK /\ TableOK /\ KernelOK /\ PollerOK /\ FlagsMatch /\ BatchOK /\ WriteOK
    BY LoopParts
  <1>2. pc = "write"
    BY DEF handleWrite
  <1>3. batch # << >> /\ f \in clientFds
    BY <1>1, <1>2 DEF WriteOK
  <1>4. f \in Fds /\ i \in Connections /\ f # ServerFd
    BY <1>1, <1>3, FdsAssumption DEF clientFds, TableOK
  <1>5. CASE wbuf[f] > 0 /\ peer[i] = "reset"
    BY <1>5, DieStep DEF handleWrite
  <1>6. CASE ~ (wbuf[f] > 0 /\ peer[i] = "reset")
    <2>1. PICK n \in 0..wbuf[f], more \in BOOLEAN :
             /\ wbuf' = [wbuf EXCEPT ![f] = wbuf[f] - n]
             /\ space' = [space EXCEPT ![i] = space[i] /\ (n = wbuf[f]) /\ more]
      BY <1>6 DEF handleWrite
    <2>2. /\ pc' = "batch" /\ batch' = Tail(batch)
          /\ UNCHANGED << running, table, pollOut, fds, watch >>
          /\ UNCHANGED << opened, backlog, peer, inbox, sent >>
      BY <1>6 DEF handleWrite
    <2>3. wbuf[f] \in Nat /\ wbuf[f] - n \in Nat
      BY <1>1, <1>4 DEF TableOK
    <2>a. BatchOK'
      BY <1>1, <1>3, <2>2, BatchTail, ClientFdsSame
    <2> HIDE DEF i, f
    <2>4. wbuf' \in [Fds -> Nat]
      BY <1>1, <2>1, <2>3 DEF TableOK
    <2>5. space' \in [Connections -> BOOLEAN]
      BY <1>1, <2>1 DEF KernelOK
    <2>6. TableOK'
      BY <1>1, <2>2, <2>4 DEF TableOK
    <2>7. KernelOK'
      BY <1>1, <2>2, <2>5 DEF KernelOK
    <2>8. ControlOK' /\ WriteOK' /\ WritersArePolled'
      BY <1>1, <2>2 DEF ControlOK, WriteOK, WritersArePolled
    <2> QED BY <1>1, <2>2, <2>a, <2>6, <2>7, <2>8, PollerSame, FlagsSame, LoopPartsPrimed
  <1> QED BY <1>5, <1>6

-------------------------------------------------------------------------------
(* The theorems *)

LEMMA LoopInitially == LoopInit => LoopInv
  <1> SUFFICES ASSUME LoopInit PROVE LoopInv
    OBVIOUS
  <1>1. clientFds = {} /\ Cardinality(clientFds) = 0
    BY FS_EmptySet DEF LoopInit, clientFds
  <1>2. fds = << ServerFd >> /\ fds \in Seq(Fds \cup {ServerFd}) /\ Len(fds) = 1
        /\ DOMAIN fds = 1..1 /\ fds[1] = ServerFd
    BY DEF LoopInit
  <1>3. PollerOK
    BY <1>1, <1>2 DEF PollerOK, FdsOnce, FdsAre, FdsCounted
  <1>4. batch = << >> /\ batch \in Seq(Event) /\ DOMAIN batch = {}
    BY DEF LoopInit
  <1>5. BatchOK
    BY <1>4 DEF BatchOK, EventsOnce, ServerEventHasClient, EventsMeetTheirClient
  <1>6. FlagsMatch
    BY <1>1 DEF FlagsMatch
  <1>7. ControlOK /\ WriteOK /\ WritersArePolled
    BY DEF LoopInit, ControlOK, WriteOK, WritersArePolled
  <1>8. TableOK
    BY DEF LoopInit, TableOK
  <1>9. KernelOK
    BY BoundsAssumption DEF LoopInit, KernelOK
  <1> QED BY <1>3, <1>5, <1>6, <1>7, <1>8, <1>9, LoopParts

\* The inductive invariant holds in every reachable state of the event loop.
THEOREM LoopInvariant == LoopSpec => []LoopInv
  <1>1. LoopInv /\ [LoopNext]_loopVars => LoopInv'
    <2> SUFFICES ASSUME LoopInv, [LoopNext]_loopVars PROVE LoopInv'
      OBVIOUS
    <2>1. CASE loopTop
      BY <2>1, LoopTopStep
    <2>2. CASE waitForEvents
      BY <2>2, WaitForEventsStep
    <2>3. CASE batchDone
      <3>1. pc' = "top" /\ running' = running
        BY <2>3 DEF batchDone
      <3>2. ControlOK'
        BY <3>1, LoopParts DEF ControlOK
      <3> QED BY <2>3, <3>1, <3>2, ControlStep DEF batchDone
    <2>4. CASE acceptClient
      BY <2>4, AcceptStep
    <2>5. CASE processEvent
      BY <2>5, ProcessEventStep
    <2>6. CASE handleWrite
      BY <2>6, HandleWriteStep
    <2>7. CASE Connect
      BY <2>7, ConnectStep
    <2>8. CASE handleSignal
      <3>1. pc' = pc /\ running' = FALSE
        BY <2>8 DEF handleSignal
      <3>2. ControlOK'
        BY <3>1, LoopParts DEF ControlOK
      <3> QED BY <2>8, <3>1, <3>2, ControlStep DEF handleSignal
    <2>9. CASE \E i \in Connections :
                  PeerSends(i) \/ PeerCloses(i) \/ PeerResets(i) \/ PeerReads(i)
      BY <2>9, PeerStep
    <2>10. CASE UNCHANGED loopVars
      <3>1. UNCHANGED processVars /\ UNCHANGED kernelVars
        BY <2>10 DEF loopVars, processVars, kernelVars
      <3>2. KernelOK' /\ backlog' = backlog
        BY <3>1, LoopParts, KernelSame DEF kernelVars
      <3> QED BY <3>1, <3>2, EnvironmentStep
    <2> QED BY <2>1, <2>2, <2>3, <2>4, <2>5, <2>6, <2>7, <2>8, <2>9, <2>10
            DEF LoopNext, Server, Environment
  <1> QED BY <1>1, LoopInitially, PTL DEF LoopSpec

\* The state of Server::run, of its Client objects and of the Poller is well
\* typed, and an event whose POLLOUT part is to be handled has its client.
THEOREM LoopTypeCorrect == LoopSpec => []LoopTypeOK
  <1>1. LoopInv => LoopTypeOK
    BY DEF LoopInv
  <1> QED BY <1>1, LoopInvariant, PTL

\* No event of a batch is handled for another client than the one it was
\* polled for, however descriptors are closed and handed out again meanwhile.
THEOREM EventsReachTheirClient == LoopSpec => []EventsMeetTheirClient
  <1>1. LoopInv => EventsMeetTheirClient
    BY DEF LoopInv
  <1> QED BY <1>1, LoopInvariant, PTL

\* The Poller watches exactly the listening socket and the clients of the
\* table, each once, for what the cached flags say.
THEOREM PollerFollowsTable == LoopSpec => []PollerMatchesTable
  <1>1. LoopInv => PollerMatchesTable
    <2> SUFFICES ASSUME LoopInv PROVE PollerMatchesTable
      OBVIOUS
    <2>1. {fds[n] : n \in DOMAIN fds} = clientFds \cup {ServerFd}
      BY DEF LoopInv, FdsAre
    <2> QED BY <2>1 DEF LoopInv, FdsCounted, FlagsMatch, PollerMatchesTable
  <1> QED BY <1>1, LoopInvariant, PTL

\* When the loop goes to sleep, POLLOUT is watched for exactly the clients
\* with pending output.
THEOREM PendingOutputIsPolled == LoopSpec => []WritersArePolled
  <1>1. LoopInv => WritersArePolled
    BY DEF LoopInv
  <1> QED BY <1>1, LoopInvariant, PTL
===============================================================================

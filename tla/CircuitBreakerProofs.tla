------------------------- MODULE CircuitBreakerProofs -------------------------
(* Proofs about the circuit breaker, for any number of threads. *)
EXTENDS CircuitBreaker, FiniteSetTheorems, SequenceTheorems, WellFoundedInduction, TLAPS

(* The window *)

\* The least element of a set of naturals exists.
LEMMA MinIs ==
    ASSUME NEW S, S \subseteq Nat, S # {}
    PROVE  Min(S) \in S /\ \A y \in S : Min(S) <= y
  <1> DEFINE R == {ss \in Nat \X Nat : ss[1] < ss[2]}
  <1>1. IsWellFoundedOn(R, Nat)
    BY NatLessThanWellFounded DEF OpToRel
  <1> HIDE DEF R
  <1>2. PICK x \in S : \A y \in S : ~(<<y, x>> \in R)
    BY <1>1, WFMin
  <1>3. ASSUME NEW y \in S
        PROVE  x <= y
    <2>1. x \in Nat /\ y \in Nat /\ <<y, x>> \notin R
      BY <1>2
    <2>2. ~(y < x)
      BY <2>1 DEF R
    <2> QED BY <2>1, <2>2
  <1> QED BY <1>3 DEF Min

\* evict removes at most the entries there are.
LEMMA ExpiredIs ==
    ASSUME NEW S, NEW w \in Seq(S), NEW now
    PROVE  Expired(w, now) \in 0 .. Len(w)
  <1> DEFINE kept == {i \in DOMAIN w : w[i].at + WindowDuration >= now}
  <1>1. kept \subseteq 1 .. Len(w) /\ kept \subseteq Nat /\ Len(w) \in Nat
    OBVIOUS
  <1>2. Expired(w, now) = IF kept = {} THEN Len(w) ELSE Min(kept) - 1
    BY DEF Expired
  <1> HIDE DEF kept
  <1>3. kept # {} => Min(kept) \in 1 .. Len(w)
    BY <1>1, MinIs
  <1> QED BY <1>1, <1>2, <1>3

Entry == [at : Nat, failed : BOOLEAN]

LEMMA FailedFinite ==
    ASSUME NEW w \in Seq(Entry)
    PROVE  /\ IsFiniteSet({i \in DOMAIN w : w[i].failed})
           /\ Failed(w) \in Nat
  <1>1. IsFiniteSet(1 .. Len(w))
    BY FS_Interval
  <1>2. IsFiniteSet({i \in DOMAIN w : w[i].failed})
    BY <1>1, FS_Subset
  <1> QED BY <1>2, FS_CardinalityType DEF Failed

\* The failures of a window are those of a prefix and those of the rest.
LEMMA FailedSplit ==
    ASSUME NEW w \in Seq(Entry), NEW n \in 0 .. Len(w)
    PROVE  Failed(w) = Failed(SubSeq(w, 1, n)) + Failed(SubSeq(w, n + 1, Len(w)))
  <1> DEFINE p == SubSeq(w, 1, n)
             q == SubSeq(w, n + 1, Len(w))
             A == {i \in 1 .. Len(w) : w[i].failed}
             B == {i \in 1 .. n : w[i].failed}
             C == {i \in n + 1 .. Len(w) : w[i].failed}
             D == {i \in 1 .. Len(w) - n : w[n + i].failed}
  <1>0. Len(w) \in Nat /\ n \in Nat /\ n <= Len(w)
    OBVIOUS
  <1>1. \A i \in 1 .. Len(w) : w[i] \in Entry
    OBVIOUS
  <1>2. p \in Seq(Entry) /\ Len(p) = n /\ \A i \in 1 .. n : p[i] = w[i]
    BY <1>0, <1>1, SubSeqProperties
  <1>3. q \in Seq(Entry) /\ Len(q) = Len(w) - n /\ \A i \in 1 .. Len(w) - n : q[i] = w[n + i]
    <2>1. /\ q \in Seq(Entry)
          /\ Len(q) = IF n + 1 <= Len(w) THEN Len(w) - (n + 1) + 1 ELSE 0
          /\ \A i \in 1 .. Len(w) - (n + 1) + 1 : q[i] = w[n + 1 + i - 1]
      BY <1>0, <1>1, SubSeqProperties
    <2> HIDE DEF q
    <2> QED BY <1>0, <2>1
  <1>4. Failed(w) = Cardinality(A) /\ Failed(p) = Cardinality(B)
    <2>1. {i \in DOMAIN w : w[i].failed} = A
      OBVIOUS
    <2>2. {i \in DOMAIN p : p[i].failed} = B
      <3>1. DOMAIN p = 1 .. n
        BY <1>2
      <3> HIDE DEF p
      <3> QED BY <1>2, <3>1
    <2> QED BY <2>1, <2>2 DEF Failed
  <1>5. Failed(q) = Cardinality(D)
    <2>1. {i \in DOMAIN q : q[i].failed} = D
      <3>1. DOMAIN q = 1 .. Len(w) - n
        BY <1>3
      <3> HIDE DEF q
      <3> QED BY <1>3, <3>1
    <2> QED BY <2>1 DEF Failed
  <1>6. IsFiniteSet(B) /\ IsFiniteSet(C) /\ IsFiniteSet(D)
    <2>1. IsFiniteSet(1 .. n) /\ IsFiniteSet(n + 1 .. Len(w)) /\ IsFiniteSet(1 .. Len(w) - n)
      BY <1>0, FS_Interval
    <2> QED BY <2>1, FS_Subset
  <1>7. Cardinality(C) = Cardinality(D)
    <2> DEFINE f == [i \in D |-> n + i]
    <2>1. f \in [D -> C]
      BY <1>0
    <2>2. \A a, b \in D : f[a] = f[b] => a = b
      BY <1>0
    <2>3. \A c \in C : \E d \in D : f[d] = c
      <3> SUFFICES ASSUME NEW c \in C
                   PROVE  \E d \in D : f[d] = c
        OBVIOUS
      <3>1. c - n \in 1 .. Len(w) - n /\ n + (c - n) = c
        BY <1>0
      <3>2. c - n \in D
        BY <3>1
      <3> QED BY <3>1, <3>2
    <2>4. ExistsBijection(D, C)
      BY <2>1, <2>2, <2>3 DEF ExistsBijection, Bijection, Injection, Surjection, IsInjective
    <2> QED BY <1>6, <2>4, FS_Bijection
  <1>8. A = B \cup C /\ B \cap C = {}
    BY <1>0
  <1>9. Cardinality(A) = Cardinality(B) + Cardinality(C) - Cardinality({})
    BY <1>6, <1>8, FS_Union
  <1>10. Cardinality(B) \in Nat /\ Cardinality(C) \in Nat /\ Cardinality({}) = 0
    BY <1>6, FS_CardinalityType, FS_EmptySet
  <1> HIDE DEF A, B, C, D, p, q
  <1>11. Failed(w) = Failed(p) + Failed(q)
    BY <1>4, <1>5, <1>7, <1>9, <1>10
  <1> QED BY <1>11 DEF p, q

\* One more entry.
LEMMA FailedAppend ==
    ASSUME NEW w \in Seq(Entry), NEW e \in Entry
    PROVE  Failed(Append(w, e)) = Failed(w) + (IF e.failed THEN 1 ELSE 0)
  <1> DEFINE A == {i \in DOMAIN w : w[i].failed}
             B == {i \in DOMAIN Append(w, e) : Append(w, e)[i].failed}
  <1>1. IsFiniteSet(A) /\ Cardinality(A) \in Nat
    BY FailedFinite, FS_CardinalityType
  <1>2. /\ Len(w) \in Nat /\ Len(Append(w, e)) = Len(w) + 1 /\ Append(w, e)[Len(w) + 1] = e
        /\ \A i \in 1 .. Len(w) : Append(w, e)[i] = w[i]
        /\ Append(w, e) \in Seq(Entry)
    BY AppendProperties
  <1>3. DOMAIN Append(w, e) = 1 .. Len(w) + 1 /\ DOMAIN w = 1 .. Len(w)
    BY <1>2
  <1>4. CASE e.failed
    <2>1. B = A \cup {Len(w) + 1} /\ Len(w) + 1 \notin A
      BY <1>2, <1>3, <1>4
    <2>2. Cardinality(B) = Cardinality(A) + 1
      BY <1>1, <2>1, FS_AddElement
    <2> QED BY <1>4, <2>2 DEF Failed
  <1>5. CASE ~e.failed
    <2>1. B = A
      BY <1>2, <1>3, <1>5
    <2>2. Failed(Append(w, e)) = Failed(w) /\ Failed(w) \in Nat
      BY <2>1, FailedFinite DEF Failed
    <2> QED BY <1>5, <2>2
  <1> QED BY <1>4, <1>5

------------------------------------------------------------------------------
(* Types, for any number of threads *)

EntryUpTo(c) == [at : 0 .. c, failed : BOOLEAN]
LocalUpTo(c) == [now : 0 .. c, seen : 0 .. c, failed : BOOLEAN]

LEMMA TypeIs ==
    BreakerTypeOK <=> /\ state \in States /\ fast \in BOOLEAN
               /\ openedAt \in 0 .. clock /\ claimedAt \in 0 .. clock
               /\ probes \in 0 .. UsizeMod - 1
               /\ entries \in Seq(EntryUpTo(clock))
               /\ clock \in 0 .. MaxTime /\ requests \in Nat
               /\ pc \in [Threads -> Labels]
               /\ loc \in [Threads -> LocalUpTo(clock)]
  BY DEF BreakerTypeOK, EntryUpTo, LocalUpTo

LEMMA TypeIsNext ==
    BreakerTypeOK' <=> /\ state' \in States /\ fast' \in BOOLEAN
                /\ openedAt' \in 0 .. clock' /\ claimedAt' \in 0 .. clock'
                /\ probes' \in 0 .. UsizeMod - 1
                /\ entries' \in Seq(EntryUpTo(clock'))
                /\ clock' \in 0 .. MaxTime /\ requests' \in Nat
                /\ pc' \in [Threads -> Labels]
                /\ loc' \in [Threads -> LocalUpTo(clock')]
  BY DEF BreakerTypeOK, EntryUpTo, LocalUpTo

\* What each way to end a step does to the thread's locals.
LEMMA LocalsIs ==
    ASSUME BreakerTypeOK, NEW t \in Threads, NEW label \in Labels
    PROVE  /\ Goto(t, label) => pc' \in [Threads -> Labels] /\ pc'[t] = label
           /\ Return(t) => pc' \in [Threads -> Labels] /\ loc' \in [Threads -> LocalUpTo(clock)]
           /\ Admit(t) => pc' \in [Threads -> Labels] /\ loc' \in [Threads -> LocalUpTo(clock)]
           /\ \A v \in 0 .. clock :
                /\ Keep(t, "now", v) => loc' \in [Threads -> LocalUpTo(clock)] /\ loc'[t].now = v
                /\ Keep(t, "seen", v) => loc' \in [Threads -> LocalUpTo(clock)] /\ loc'[t].seen = v
  <1>1. /\ pc \in [Threads -> Labels] /\ loc \in [Threads -> LocalUpTo(clock)]
        /\ "idle" \in Labels /\ "admitted" \in Labels /\ clock \in Nat
    BY TypeIs, BreakerAssumption DEF Labels
  <1>2. Idle \in LocalUpTo(clock)
    BY <1>1 DEF Idle, LocalUpTo
  <1>3. Goto(t, label) => pc' \in [Threads -> Labels] /\ pc'[t] = label
    BY <1>1 DEF Goto
  <1>4. /\ Return(t) => pc' \in [Threads -> Labels] /\ loc' \in [Threads -> LocalUpTo(clock)]
        /\ Admit(t) => pc' \in [Threads -> Labels] /\ loc' \in [Threads -> LocalUpTo(clock)]
    BY <1>1, <1>2 DEF Return, Admit, Goto
  <1>5. ASSUME NEW v \in 0 .. clock
        PROVE  /\ Keep(t, "now", v) => loc' \in [Threads -> LocalUpTo(clock)] /\ loc'[t].now = v
               /\ Keep(t, "seen", v) => loc' \in [Threads -> LocalUpTo(clock)] /\ loc'[t].seen = v
    BY <1>1 DEF Keep, LocalUpTo
  <1> QED BY <1>3, <1>4, <1>5

\* The actions that change only where a thread is, what it has read and the count
\* of requests, and those that store into an atomic.
LEMMA TypeOfChecks ==
    ASSUME BreakerTypeOK, NEW t \in Threads,
           \/ Check(t) \/ OpenLoad(t) \/ OpenNow(t) \/ OpenCas(t) \/ OpenFast(t) \/ OpenReload(t)
           \/ ProbeNow(t) \/ ProbeAdd(t) \/ ProbeClaim(t) \/ ProbeSub(t)
           \/ LeaseLoad(t) \/ LeaseCas(t) \/ Send(t)
    PROVE  BreakerTypeOK' /\ UNCHANGED <<entries, failures>>
  <1>0. /\ state \in States /\ fast \in BOOLEAN
        /\ openedAt \in 0 .. clock /\ claimedAt \in 0 .. clock
        /\ probes \in 0 .. UsizeMod - 1
        /\ entries \in Seq(EntryUpTo(clock))
        /\ clock \in 0 .. MaxTime /\ requests \in Nat
        /\ pc \in [Threads -> Labels]
        /\ loc \in [Threads -> LocalUpTo(clock)]
    BY TypeIs
  <1>1. loc[t].now \in 0 .. clock /\ loc[t].seen \in 0 .. clock /\ clock \in 0 .. clock
    BY <1>0, BreakerAssumption DEF LocalUpTo
  <1>2. AfterLoad(state) \in Labels
    BY <1>0 DEF AfterLoad, States, Labels
  <1> USE DEF shared
  <1>3. CASE Check(t)
    BY <1>0, <1>2, <1>3, LocalsIs, TypeIsNext DEF Check
  <1>4. CASE OpenLoad(t)
    BY <1>0, <1>4, LocalsIs, TypeIsNext DEF OpenLoad, Labels
  <1>5. CASE OpenNow(t)
    BY <1>0, <1>5, LocalsIs, TypeIsNext DEF OpenNow, Labels
  <1>6. CASE OpenCas(t)
    BY <1>0, <1>6, LocalsIs, TypeIsNext DEF OpenCas, States, Labels
  <1>7. CASE OpenFast(t)
    BY <1>0, <1>7, LocalsIs, TypeIsNext DEF OpenFast, Labels
  <1>8. CASE OpenReload(t)
    BY <1>0, <1>2, <1>8, LocalsIs, TypeIsNext DEF OpenReload
  <1>9. CASE ProbeNow(t)
    BY <1>0, <1>1, <1>9, LocalsIs, TypeIsNext DEF ProbeNow, Labels
  <1>10. CASE ProbeAdd(t)
    <2>1. (probes + 1) % UsizeMod \in 0 .. UsizeMod - 1
      BY <1>0, BreakerAssumption
    <2>2. \E label \in Labels : Goto(t, label)
      BY <1>10 DEF ProbeAdd, Labels
    <2> QED BY <1>0, <1>10, <2>1, <2>2, LocalsIs, TypeIsNext DEF ProbeAdd
  <1>11. CASE ProbeClaim(t)
    BY <1>0, <1>1, <1>11, LocalsIs, TypeIsNext DEF ProbeClaim
  <1>12. CASE ProbeSub(t)
    <2>1. (probes + UsizeMod - 1) % UsizeMod \in 0 .. UsizeMod - 1
      BY <1>0, BreakerAssumption
    <2> QED BY <1>0, <1>12, <2>1, LocalsIs, TypeIsNext DEF ProbeSub, Labels
  <1>13. CASE LeaseLoad(t)
    BY <1>0, <1>13, LocalsIs, TypeIsNext DEF LeaseLoad, Labels
  <1>14. CASE LeaseCas(t)
    BY <1>0, <1>1, <1>14, LocalsIs, TypeIsNext DEF LeaseCas
  <1>15. CASE Send(t)
    BY <1>0, <1>15, LocalsIs, TypeIsNext DEF Send
  <1> QED BY <1>3, <1>4, <1>5, <1>6, <1>7, <1>8, <1>9, <1>10, <1>11, <1>12, <1>13, <1>14, <1>15

LEMMA TypeOfRecords ==
    ASSUME BreakerTypeOK, NEW t \in Threads,
           \/ Finish(t) \/ RecordLoad(t)
           \/ TripState(t) \/ TripNow(t) \/ TripOpened(t) \/ TripProbes(t) \/ TripFast(t)
           \/ CloseState(t) \/ CloseProbes(t) \/ CloseFast(t)
    PROVE  BreakerTypeOK' /\ UNCHANGED <<entries, failures>>
  <1>0. /\ state \in States /\ fast \in BOOLEAN
        /\ openedAt \in 0 .. clock /\ claimedAt \in 0 .. clock
        /\ probes \in 0 .. UsizeMod - 1
        /\ entries \in Seq(EntryUpTo(clock))
        /\ clock \in 0 .. MaxTime /\ requests \in Nat
        /\ pc \in [Threads -> Labels]
        /\ loc \in [Threads -> LocalUpTo(clock)]
    BY TypeIs
  <1>1. loc[t].now \in 0 .. clock /\ clock \in 0 .. clock /\ 0 \in 0 .. clock
        /\ 0 \in 0 .. UsizeMod - 1
    BY <1>0, BreakerAssumption DEF LocalUpTo
  <1> USE DEF shared
  <1>2. CASE Finish(t)
    <2>1. PICK failed \in BOOLEAN : Record(t, failed)
      BY <1>2 DEF Finish
    <2>2. [now |-> clock, seen |-> 0, failed |-> failed] \in LocalUpTo(clock)
      BY <1>1 DEF LocalUpTo
    <2>3. loc' \in [Threads -> LocalUpTo(clock)]
      BY <1>0, <2>1, <2>2 DEF Record
    <2>4. requests' \in Nat
      BY <1>0, <2>1 DEF Record
    <2> QED BY <1>0, <2>1, <2>3, <2>4, LocalsIs, TypeIsNext DEF Record, Labels
  <1>3. CASE RecordLoad(t)
    <2>1. \E label \in Labels : Goto(t, label)
      BY <1>0, <1>3 DEF RecordLoad, States, Labels
    <2> QED BY <1>0, <1>3, <2>1, LocalsIs, TypeIsNext DEF RecordLoad
  <1>4. CASE TripState(t)
    BY <1>0, <1>4, LocalsIs, TypeIsNext DEF TripState, States, Labels
  <1>5. CASE TripNow(t)
    BY <1>0, <1>1, <1>5, LocalsIs, TypeIsNext DEF TripNow, Labels
  <1>6. CASE TripOpened(t)
    BY <1>0, <1>1, <1>6, LocalsIs, TypeIsNext DEF TripOpened, Labels
  <1>7. CASE TripProbes(t)
    BY <1>0, <1>1, <1>7, LocalsIs, TypeIsNext DEF TripProbes, Labels
  <1>8. CASE TripFast(t)
    BY <1>0, <1>8, LocalsIs, TypeIsNext DEF TripFast
  <1>9. CASE CloseState(t)
    BY <1>0, <1>9, LocalsIs, TypeIsNext DEF CloseState, States, Labels
  <1>10. CASE CloseProbes(t)
    BY <1>0, <1>1, <1>10, LocalsIs, TypeIsNext DEF CloseProbes, Labels
  <1>11. CASE CloseFast(t)
    BY <1>0, <1>11, LocalsIs, TypeIsNext DEF CloseFast
  <1> QED BY <1>2, <1>3, <1>4, <1>5, <1>6, <1>7, <1>8, <1>9, <1>10, <1>11

------------------------------------------------------------------------------
(* The failure counter, for any number of threads *)

LEMMA SeqGrows ==
    ASSUME NEW S, NEW T, S \subseteq T, NEW w \in Seq(S)
    PROVE  w \in Seq(T)
  OBVIOUS

LEMMA EntriesGrow ==
    ASSUME NEW c \in Nat, NEW w \in Seq(EntryUpTo(c))
    PROVE  w \in Seq(Entry) /\ w \in Seq(EntryUpTo(c + 1))
  <1>1. EntryUpTo(c) \subseteq Entry /\ EntryUpTo(c) \subseteq EntryUpTo(c + 1)
    BY DEF EntryUpTo, Entry
  <1> QED BY <1>1, SeqGrows

\* evict leaves a window of the rest, and the failures it did not drop.
LEMMA EvictIs ==
    ASSUME NEW c \in Nat, NEW w \in Seq(EntryUpTo(c)), NEW now
    PROVE  LET n == Expired(w, now)
               v == SubSeq(w, n + 1, Len(w))
           IN  /\ v \in Seq(EntryUpTo(c))
               /\ Len(v) <= Len(w)
               /\ Failed(v) = Failed(w) - Failed(Dropped(w, n))
  <1> DEFINE n == Expired(w, now)
             v == SubSeq(w, n + 1, Len(w))
  <1>1. n \in 0 .. Len(w) /\ Len(w) \in Nat
    BY ExpiredIs
  <1>2. \A i \in n + 1 .. Len(w) : w[i] \in EntryUpTo(c)
    BY <1>1
  <1>3. \A i \in 1 .. n : w[i] \in EntryUpTo(c)
    BY <1>1
  <1> HIDE DEF n
  <1>4. v \in Seq(EntryUpTo(c)) /\ Len(v) = IF n + 1 <= Len(w) THEN Len(w) - (n + 1) + 1 ELSE 0
    BY <1>1, <1>2, SubSeqProperties
  <1>5. SubSeq(w, 1, n) \in Seq(EntryUpTo(c))
    BY <1>1, <1>3, SubSeqProperties
  <1>6. Len(v) <= Len(w)
    <2> HIDE DEF v
    <2> QED BY <1>1, <1>4
  <1>7. Failed(w) = Failed(SubSeq(w, 1, n)) + Failed(v)
    <2>1. w \in Seq(Entry)
      BY EntriesGrow
    <2> QED BY <1>1, <2>1, FailedSplit
  <1>8. Failed(SubSeq(w, 1, n)) \in Nat /\ Failed(v) \in Nat
    BY <1>4, <1>5, EntriesGrow, FailedFinite
  <1>9. Failed(v) = Failed(w) - Failed(SubSeq(w, 1, n))
    BY <1>7, <1>8
  <1> QED BY <1>4, <1>6, <1>9 DEF Dropped, n

\* push counts its entry, and no longer the one that a full window lost.
LEMMA PushIs ==
    ASSUME NEW c \in Nat, NEW w \in Seq(EntryUpTo(c)), NEW e \in EntryUpTo(c),
           Len(w) <= MaxWindowEntries
    PROVE  /\ Pushed(w, e) \in Seq(EntryUpTo(c))
           /\ Len(Pushed(w, e)) <= MaxWindowEntries
           /\ Failed(Pushed(w, e)) = FailuresPushed(w, Failed(w), e.failed)
  <1>1. w \in Seq(Entry) /\ e \in Entry /\ Len(w) \in Nat /\ Failed(w) \in Nat
    <2>1. w \in Seq(Entry)
      BY EntriesGrow
    <2>2. e \in Entry
      BY DEF EntryUpTo, Entry
    <2>3. Failed(w) \in Nat
      BY <2>1, FailedFinite, Zenon
    <2>4. Len(w) \in Nat
      OBVIOUS
    <2> QED BY <2>1, <2>2, <2>3, <2>4
  <1>2. CASE Len(w) >= MaxWindowEntries
    <2>1. w # <<>> /\ 1 \in 0 .. Len(w)
      BY <1>1, <1>2, BreakerAssumption
    <2>2. /\ Tail(w) \in Seq(EntryUpTo(c)) /\ Len(Tail(w)) = Len(w) - 1
          /\ Tail(w) = SubSeq(w, 2, Len(w))
      BY <2>1, HeadTailProperties, TailIsSubSeq
    <2>3. Failed(w) = Failed(SubSeq(w, 1, 1)) + Failed(SubSeq(w, 1 + 1, Len(w)))
      BY <1>1, <2>1, FailedSplit
    <2>4. SubSeq(w, 1, 1) \in Seq(EntryUpTo(c))
      <3>1. \A i \in 1 .. 1 : w[i] \in EntryUpTo(c)
        BY <1>1, <2>1
      <3> QED BY <3>1, SubSeqProperties
    <2>5. Failed(SubSeq(w, 1, 1)) \in Nat /\ Failed(Tail(w)) \in Nat /\ Tail(w) \in Seq(Entry)
      <3>1. SubSeq(w, 1, 1) \in Seq(Entry) /\ Tail(w) \in Seq(Entry)
        BY <2>2, <2>4, EntriesGrow
      <3> QED BY <3>1, FailedFinite, Zenon
    <2>6. Failed(Tail(w)) = Failed(w) - Failed(Dropped(w, 1))
      <3>1. Failed(w) = Failed(SubSeq(w, 1, 1)) + Failed(Tail(w))
        <4>1. 1 + 1 = 2
          OBVIOUS
        <4>2. Tail(w) = SubSeq(w, 1 + 1, Len(w))
          BY <2>2, <4>1, Zenon
        <4> QED BY <2>3, <4>2, Zenon
      <3> QED BY <2>5, <3>1 DEF Dropped
    <2>7. Failed(Append(Tail(w), e)) = Failed(Tail(w)) + (IF e.failed THEN 1 ELSE 0)
      BY <1>1, <2>5, FailedAppend
    <2>8. Pushed(w, e) = Append(Tail(w), e)
      BY <1>2 DEF Pushed
    <2>9. Append(Tail(w), e) \in Seq(EntryUpTo(c)) /\ Len(Append(Tail(w), e)) = Len(w)
      BY <1>1, <2>2, AppendProperties
    <2> QED BY <1>2, <2>6, <2>7, <2>8, <2>9 DEF FailuresPushed
  <1>3. CASE ~(Len(w) >= MaxWindowEntries)
    <2>1. Pushed(w, e) = Append(w, e)
      BY <1>3 DEF Pushed
    <2>2. Failed(Append(w, e)) = Failed(w) + (IF e.failed THEN 1 ELSE 0)
      BY <1>1, FailedAppend
    <2>3. Append(w, e) \in Seq(EntryUpTo(c)) /\ Len(Append(w, e)) = Len(w) + 1
      BY AppendProperties
    <2>4. Len(Append(w, e)) <= MaxWindowEntries
      BY <1>1, <1>3, <2>3, BreakerAssumption
    <2>5. FailuresPushed(w, Failed(w), e.failed) = Failed(w) - 0 + (IF e.failed THEN 1 ELSE 0)
      BY <1>3 DEF FailuresPushed
    <2> QED BY <1>1, <2>1, <2>2, <2>3, <2>4, <2>5
  <1> QED BY <1>2, <1>3

LEMMA PushAndEvictIs ==
    ASSUME BreakerTypeOK, WindowSound, NEW t \in Threads, PushAndEvict(t)
    PROVE  entries' \in Seq(EntryUpTo(clock)) /\ WindowSound'
  <1> DEFINE e == [at |-> loc[t].now, failed |-> loc[t].failed]
             w == Pushed(entries, e)
             n == Expired(w, loc[t].now)
  <1>1. entries \in Seq(EntryUpTo(clock)) /\ clock \in Nat /\ loc[t] \in LocalUpTo(clock)
    BY TypeIs, BreakerAssumption
  <1>2. e \in EntryUpTo(clock) /\ e.failed = loc[t].failed
    BY <1>1 DEF EntryUpTo, LocalUpTo
  <1>3. /\ entries' = SubSeq(w, n + 1, Len(w))
        /\ failures' = FailuresPushed(entries, failures, e.failed) - Failed(Dropped(w, n))
    BY <1>2 DEF PushAndEvict
  <1> HIDE DEF e
  <1>4. /\ w \in Seq(EntryUpTo(clock)) /\ Len(w) <= MaxWindowEntries
        /\ Failed(w) = FailuresPushed(entries, Failed(entries), e.failed)
    BY <1>1, <1>2, PushIs DEF WindowSound
  <1> HIDE DEF w
  <1>5. /\ entries' \in Seq(EntryUpTo(clock)) /\ Len(entries') <= Len(w)
        /\ Failed(entries') = Failed(w) - Failed(Dropped(w, n))
    BY <1>1, <1>3, <1>4, EvictIs
  <1>6. failures' = Failed(entries')
    BY <1>3, <1>4, <1>5 DEF WindowSound
  <1>7. Len(entries') <= MaxWindowEntries
    BY <1>4, <1>5, BreakerAssumption
  <1> QED BY <1>5, <1>6, <1>7 DEF WindowSound

LEMMA WindowSteps ==
    ASSUME BreakerTypeOK, WindowSound, NEW t \in Threads,
           PushClosed(t) \/ PushOpen(t) \/ ErrorRate(t) \/ CloseWindow(t)
    PROVE  BreakerTypeOK' /\ WindowSound'
  <1>0. /\ state \in States /\ fast \in BOOLEAN
        /\ openedAt \in 0 .. clock /\ claimedAt \in 0 .. clock
        /\ probes \in 0 .. UsizeMod - 1
        /\ entries \in Seq(EntryUpTo(clock))
        /\ clock \in 0 .. MaxTime /\ requests \in Nat
        /\ pc \in [Threads -> Labels]
        /\ loc \in [Threads -> LocalUpTo(clock)]
    BY TypeIs
  <1>1. CASE PushClosed(t)
    <2>1. entries' \in Seq(EntryUpTo(clock)) /\ WindowSound'
      BY <1>1, PushAndEvictIs DEF PushClosed
    <2>2. pc' \in [Threads -> Labels] /\ loc' \in [Threads -> LocalUpTo(clock)]
      BY <1>0, <1>1, LocalsIs DEF PushClosed, Labels
    <2> QED BY <1>0, <1>1, <2>1, <2>2, TypeIsNext DEF PushClosed
  <1>2. CASE PushOpen(t)
    <2>1. entries' \in Seq(EntryUpTo(clock)) /\ WindowSound'
      BY <1>2, PushAndEvictIs DEF PushOpen
    <2>2. pc' \in [Threads -> Labels] /\ loc' \in [Threads -> LocalUpTo(clock)]
      BY <1>0, <1>2, LocalsIs DEF PushOpen, Labels
    <2> QED BY <1>0, <1>2, <2>1, <2>2, TypeIsNext DEF PushOpen
  <1>3. CASE ErrorRate(t)
    <2>1. PICK now \in 0 .. clock :
            /\ entries' = SubSeq(entries, Expired(entries, now) + 1, Len(entries))
            /\ failures' = failures - Failed(Dropped(entries, Expired(entries, now)))
      BY <1>3 DEF ErrorRate
    <2>2. clock \in Nat
      BY <1>0, BreakerAssumption
    <2>3. /\ entries' \in Seq(EntryUpTo(clock)) /\ Len(entries') <= Len(entries)
          /\ Failed(entries') = Failed(entries) - Failed(Dropped(entries, Expired(entries, now)))
      BY <1>0, <2>1, <2>2, EvictIs
    <2>4. failures' = Failed(entries')
      BY <2>1, <2>3 DEF WindowSound
    <2>5. Len(entries') <= MaxWindowEntries
      BY <1>0, <2>3, BreakerAssumption DEF WindowSound
    <2> QED BY <1>0, <1>3, <2>3, <2>4, <2>5, TypeIsNext DEF ErrorRate, WindowSound
  <1>4. CASE CloseWindow(t)
    <2>1. entries' = <<>> /\ failures' = 0
      BY <1>4 DEF CloseWindow
    <2>2. {i \in DOMAIN entries' : entries'[i].failed} = {}
      BY <2>1
    <2>3. Failed(entries') = 0
      BY <2>2, FS_EmptySet DEF Failed
    <2>4. WindowSound'
      BY <2>1, <2>3, BreakerAssumption DEF WindowSound
    <2>5. entries' \in Seq(EntryUpTo(clock))
      BY <2>1
    <2> QED BY <1>0, <1>4, <2>4, <2>5, LocalsIs, TypeIsNext DEF CloseWindow, Labels
  <1> QED BY <1>1, <1>2, <1>3, <1>4

LEMMA WindowInit == BreakerInit => BreakerTypeOK /\ WindowSound
  <1> SUFFICES ASSUME BreakerInit
               PROVE  BreakerTypeOK /\ WindowSound
    OBVIOUS
  <1>1. BreakerTypeOK
    <2>1. Idle \in LocalUpTo(0)
      BY DEF Idle, LocalUpTo
    <2>2. loc \in [Threads -> LocalUpTo(0)] /\ pc \in [Threads -> Labels]
      BY <2>1 DEF BreakerInit, Labels
    <2>3. entries \in Seq(EntryUpTo(0))
      BY DEF BreakerInit
    <2>4. 0 \in 0 .. 0 /\ 0 \in 0 .. UsizeMod - 1 /\ 0 \in 0 .. MaxTime
      BY BreakerAssumption
    <2>5. state \in States /\ fast \in BOOLEAN
      BY DEF BreakerInit, States
    <2> QED BY <2>2, <2>3, <2>4, <2>5, TypeIs DEF BreakerInit
  <1>2. {i \in DOMAIN entries : entries[i].failed} = {}
    BY DEF BreakerInit
  <1>3. Failed(entries) = 0
    BY <1>2, FS_EmptySet DEF Failed
  <1>4. WindowSound
    BY <1>3, BreakerAssumption DEF BreakerInit, WindowSound
  <1> QED BY <1>1, <1>4

LEMMA WindowStep == BreakerTypeOK /\ WindowSound /\ [BreakerNext]_breakerVars => BreakerTypeOK' /\ WindowSound'
  <1> SUFFICES ASSUME BreakerTypeOK, WindowSound, [BreakerNext]_breakerVars
               PROVE  BreakerTypeOK' /\ WindowSound'
    OBVIOUS
  <1>1. UNCHANGED <<entries, failures>> => WindowSound'
    BY DEF WindowSound
  <1>2. CASE UNCHANGED breakerVars
    BY <1>1, <1>2 DEF breakerVars, BreakerTypeOK
  <1>3. CASE Tick
    <2>1. clock \in Nat /\ clock' = clock + 1 /\ clock' \in 0 .. MaxTime
          /\ 0 .. clock \subseteq 0 .. clock'
      BY <1>3, BreakerAssumption DEF Tick, BreakerTypeOK
    <2>2. entries \in Seq(EntryUpTo(clock'))
      BY <2>1, TypeIs, EntriesGrow
    <2>3. loc \in [Threads -> LocalUpTo(clock')]
      <3>1. LocalUpTo(clock) \subseteq LocalUpTo(clock')
        BY <2>1 DEF LocalUpTo
      <3> QED BY <3>1, TypeIs
    <2>4. openedAt \in 0 .. clock' /\ claimedAt \in 0 .. clock'
      BY <2>1 DEF BreakerTypeOK
    <2> QED BY <1>1, <1>3, <2>1, <2>2, <2>3, <2>4, TypeIs, TypeIsNext DEF Tick, shared
  <1>4. CASE Abandon
    <2>1. requests' \in Nat
      BY <1>4 DEF Abandon, BreakerTypeOK
    <2> QED BY <1>1, <1>4, <2>1, TypeIs, TypeIsNext DEF Abandon, shared
  <1>5. CASE \E t \in Threads :
               \/ Check(t) \/ OpenLoad(t) \/ OpenNow(t) \/ OpenCas(t) \/ OpenFast(t)
               \/ OpenReload(t) \/ ProbeNow(t) \/ ProbeAdd(t) \/ ProbeClaim(t) \/ ProbeSub(t)
               \/ LeaseLoad(t) \/ LeaseCas(t) \/ Send(t)
    BY <1>1, <1>5, TypeOfChecks
  <1>6. CASE \E t \in Threads :
               \/ Finish(t) \/ RecordLoad(t)
               \/ TripState(t) \/ TripNow(t) \/ TripOpened(t) \/ TripProbes(t) \/ TripFast(t)
               \/ CloseState(t) \/ CloseProbes(t) \/ CloseFast(t)
    BY <1>1, <1>6, TypeOfRecords
  <1>7. CASE \E t \in Threads : PushClosed(t) \/ PushOpen(t) \/ ErrorRate(t) \/ CloseWindow(t)
    BY <1>7, WindowSteps
  <1> QED BY <1>2, <1>3, <1>4, <1>5, <1>6, <1>7 DEF BreakerNext, Step

\* Every atomic of the breaker holds a value of its type, the probe counter included
\* where fetch_add and fetch_sub wrap, and no clock reading stored in it lies in the
\* future, for any number of threads in check() and record().
THEOREM BreakerTypeCorrect == BreakerSpec => []BreakerTypeOK
  <1>1. BreakerSpec => [](BreakerTypeOK /\ WindowSound)
    BY WindowInit, WindowStep, PTL DEF BreakerSpec
  <1> QED BY <1>1, PTL

\* The failure counter that push, evict and clear keep up to date is the number of
\* failures in the window, and the window never outgrows MAX_WINDOW_ENTRIES, for any
\* number of threads and any durations.
THEOREM BreakerWindowSound == BreakerSpec => []WindowSound
  <1>1. BreakerSpec => [](BreakerTypeOK /\ WindowSound)
    BY WindowInit, WindowStep, PTL DEF BreakerSpec
  <1> QED BY <1>1, PTL
==============================================================================
